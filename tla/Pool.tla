-------------------------------- MODULE Pool --------------------------------
(***************************************************************************)
(* The warm engines of a pooled prober (internal/module/pool.go): a batch  *)
(* of jobs is cut into chunks, chunk i runs on the engine process of slot  *)
(* i, and the engine stays up for the next batch that is identical.        *)
(*                                                                         *)
(* slots, ports and the instances' counters are guarded by c.mu, so        *)
(* runSlot up to its unlock, releaseSlot and Close are one step each; the  *)
(* tests run outside the lock, and so does the bisection of a chunk whose  *)
(* engine did not come up.  Engine processes may die at any time.          *)
(***************************************************************************)
EXTENDS Integers, FiniteSets, Sequences, Functions

CONSTANTS
  Callers,   \* goroutines inside CheckBatch at the same time
  Keys,      \* jobKey of each job, as a number: their order is the canonical one
  Bad,       \* jobs no engine comes up with
  MaxJobs,   \* maxJobsPerInstance
  Ports,     \* the local ports
  Engines,   \* bound: engine processes alive at the same time
  Faults,    \* whether builds fail and engines die on their own
  NoPort, NoEngine

ASSUME PoolAssumption ==
  /\ Keys \subseteq Nat /\ IsFiniteSet(Keys) /\ Bad \subseteq Keys
  /\ MaxJobs \in Nat \ {0} /\ Faults \in BOOLEAN
  /\ NoPort \notin Ports /\ NoEngine \notin Engines

VARIABLES
  ports,  \* c.ports: the port pinned to each job
  slots,  \* c.slots
  eng,    \* each instance: its jobs' ports, process, refs, retired, stopped
  call    \* each CheckBatch call

poolVars == <<ports, slots, eng, call>>

Pins    == [Keys -> Ports \union {NoPort}]
NoPins  == [j \in Keys |-> NoPort]
SlotIds == 0 .. (Cardinality(Keys) - 1) \div MaxJobs

NoInstance == [pins |-> NoPins, up |-> FALSE, refs |-> 0, retired |-> FALSE, stopped |-> TRUE]
NoCall == [pc |-> "idle", batch |-> {}, slot |-> 0, pins |-> NoPins, engine |-> NoEngine,
           todo |-> <<>>, passed |-> {}, fault |-> FALSE, clash |-> FALSE]

PoolInit ==
  /\ ports = NoPins
  /\ slots = [s \in SlotIds |-> NoEngine]
  /\ eng = [e \in Engines |-> NoInstance]
  /\ call = [c \in Callers |-> NoCall]

-----------------------------------------------------------------------------
(* Jobs, chunks and ports                                                  *)

Rank(J, j) == Cardinality({k \in J : k < j})

\* pending[start:end] of the canonically sorted batch.
Chunk(J, s) == {j \in J : Rank(J, j) \div MaxJobs = s}

\* Mutant: the second half is forgotten.
HalvesFirst(J) ==
  LET mid == Cardinality(J) \div 2
  IN  << {j \in J : Rank(J, j) < mid} >>

\* jobs[:mid] and jobs[mid:]
Halves(J) ==
  LET mid == Cardinality(J) \div 2
  IN  << {j \in J : Rank(J, j) < mid}, {j \in J : Rank(J, j) >= mid} >>

Pinned(p) == Range(p) \ {NoPort}
Restricted(p, J) == [j \in Keys |-> IF j \in J THEN p[j] ELSE NoPort]
Unpinned(J) == {j \in J : ports[j] = NoPort}
Pin(f) == [j \in Keys |-> IF j \in DOMAIN f THEN f[j] ELSE ports[j]]

\* Ports some engine process listens on.
Busy(E) == UNION {Pinned(E[e].pins) : e \in {x \in Engines : E[x].up}}

\* allocatePoolPort for each job without a pin: free to bind, pinned to none.
Allocations(J) ==
  {f \in [J -> Ports \ (Busy(eng) \union Pinned(ports))] : IsInjective(f)}

-----------------------------------------------------------------------------
(* Instances                                                               *)

\* teardownLocked: stopped, reaped, its ports free again.
Torn(E, e) == [E EXCEPT ![e] = NoInstance]

\* Mutant: the old instance is only dropped from the map.
RetireUntorn(w) == [eng EXCEPT ![w].retired = TRUE]

\* An instance that no longer fits goes at once, or with its last tester.
Retire(w) ==
  IF w = NoEngine THEN eng
  ELSE IF eng[w].refs = 0 THEN Torn(eng, w)
  ELSE [eng EXCEPT ![w].retired = TRUE]

Unused(E) == {e \in Engines : E[e].stopped /\ \A c \in Callers : call[c].engine # e}

FirstOf(J) == CHOOSE j \in J : \A k \in J : j <= k

\* buildAndStart succeeds: every inbound is up, or the readiness dial was
\* answered by another process on the first job's port and this one is gone.
Started(J, p, E, refs) ==
  {[pins |-> p, up |-> up, refs |-> refs, retired |-> FALSE, stopped |-> FALSE] :
     up \in {b \in BOOLEAN :
               \/ b /\ J \intersect Bad = {} /\ Pinned(p) \intersect Busy(E) = {}
               \/ ~b /\ p[FirstOf(J)] \in Busy(E)}}

\* Another process listens on a port of these jobs.
Clash(p, E) == Pinned(p) \intersect Busy(E) # {}

\* buildAndStart fails because of a job or a port, not of the environment.
Rejected(J, p, E) == J \intersect Bad # {} \/ Clash(p, E)

-----------------------------------------------------------------------------
(* CheckBatch and runSlot                                                  *)

CheckBatch(c, J) ==
  /\ call[c].pc = "idle"
  /\ call' = [call EXCEPT ![c] = [NoCall EXCEPT !.pc = "slot", !.batch = J]]
  /\ UNCHANGED <<ports, slots, eng>>

ChunkOf(c) == Chunk(call[c].batch, call[c].slot)

\* The same jobs on the same ports, and the engine answers.
Reuse(c, p) ==
  LET w == slots[call[c].slot] IN
  /\ w # NoEngine
  /\ eng[w].up /\ ~eng[w].retired /\ eng[w].pins = p
  /\ eng' = [eng EXCEPT ![w].refs = @ + 1]
  /\ call' = [call EXCEPT ![c].pc = "test", ![c].pins = p, ![c].engine = w]
  /\ UNCHANGED slots

\* Another batch, a dead engine, or a dial of healthyLocked timed out.
Rebuild(c, J, p) ==
  LET s == call[c].slot  E == Retire(slots[s]) IN
  \E e \in Unused(E) : \E i \in Started(J, p, E, 1) :
    /\ eng' = [E EXCEPT ![e] = i]
    /\ slots' = [slots EXCEPT ![s] = e]
    /\ call' = [call EXCEPT ![c].pc = "test", ![c].pins = p, ![c].engine = e,
                            ![c].clash = @ \/ Clash(p, E)]

\* shouldBisect tells a bad job from a broken environment.
RebuildFails(c, J, p) ==
  LET s == call[c].slot  w == slots[s]  E == Retire(w) IN
  /\ Rejected(J, p, E) \/ Faults
  /\ eng' = E
  /\ slots' = IF w # NoEngine /\ eng[w].refs = 0 THEN [slots EXCEPT ![s] = NoEngine] ELSE slots
  /\ \E bisect \in IF Cardinality(J) = 1 THEN {FALSE}
                   ELSE IF Faults THEN BOOLEAN ELSE {TRUE} :
       call' = [call EXCEPT ![c].pc = IF bisect THEN "bisect" ELSE "slot",
                            ![c].slot = IF bisect THEN @ ELSE @ + 1,
                            ![c].fault = @ \/ ~Rejected(J, p, E) \/ (Cardinality(J) > 1 /\ ~bisect),
                            ![c].clash = @ \/ Clash(p, E)]

\* One critical section: the ports of the chunk, those of jobs that left the
\* batch, and the instance.
RunSlot(c) ==
  LET J == ChunkOf(c) IN
  /\ call[c].pc = "slot" /\ J # {}
  /\ \E f \in Allocations(Unpinned(J)) :
       LET p == Restricted(Pin(f), J) IN
       /\ ports' = Restricted(Pin(f), call[c].batch)
       /\ Reuse(c, p) \/ Rebuild(c, J, p) \/ RebuildFails(c, J, p)

\* The allocator gives out after some of the jobs: the chunk fails.
AllocateFails(c) ==
  LET J == ChunkOf(c) IN
  /\ call[c].pc = "slot" /\ Unpinned(J) # {}
  /\ Faults \/ Allocations(Unpinned(J)) = {}
  /\ \E n \in 0 .. Cardinality(Unpinned(J)) - 1 :
       \E f \in Allocations({j \in Unpinned(J) : Rank(Unpinned(J), j) < n}) : ports' = Pin(f)
  /\ call' = [call EXCEPT ![c].slot = @ + 1, ![c].fault = TRUE]
  /\ UNCHANGED <<slots, eng>>

\* A job passes if an engine serves it where the test looks for it.
Served(p, J) == {j \in J : \E e \in Engines : eng[e].up /\ p[j] # NoPort /\ eng[e].pins[j] = p[j]}

TestJobs(c) ==
  /\ call[c].pc = "test"
  /\ call' = [call EXCEPT ![c].pc = "release", ![c].passed = @ \union Served(call[c].pins, ChunkOf(c))]
  /\ UNCHANGED <<ports, slots, eng>>

\* Mutant: the deferred and the explicit release both run.
ReleaseSlotTwice(c) ==
  LET s == call[c].slot  w == slots[s] IN
  /\ call[c].pc = "release"
  /\ IF w = NoEngine THEN UNCHANGED <<slots, eng>>
     ELSE IF eng[w].retired /\ eng[w].refs <= 1
       THEN eng' = Torn(eng, w) /\ slots' = [slots EXCEPT ![s] = NoEngine]
       ELSE eng' = [eng EXCEPT ![w].refs = @ - 2] /\ UNCHANGED slots
  /\ call' = [call EXCEPT ![c].pc = "slot", ![c].slot = s + 1, ![c].engine = NoEngine,
                          ![c].pins = NoPins]
  /\ UNCHANGED ports

\* By slot number: whatever instance is mapped there now.
ReleaseSlot(c) ==
  LET s == call[c].slot  w == slots[s] IN
  /\ call[c].pc = "release"
  /\ IF w = NoEngine THEN UNCHANGED <<slots, eng>>
     ELSE IF eng[w].retired /\ eng[w].refs <= 1
       THEN eng' = Torn(eng, w) /\ slots' = [slots EXCEPT ![s] = NoEngine]
       ELSE eng' = [eng EXCEPT ![w].refs = @ - 1] /\ UNCHANGED slots
  /\ call' = [call EXCEPT ![c].pc = "slot", ![c].slot = s + 1, ![c].engine = NoEngine,
                          ![c].pins = NoPins]
  /\ UNCHANGED ports

CheckBatchReturns(c) ==
  /\ call[c].pc = "slot" /\ ChunkOf(c) = {}
  /\ call' = [call EXCEPT ![c].pc = "idle", ![c].slot = 0]
  /\ UNCHANGED <<ports, slots, eng>>

-----------------------------------------------------------------------------
(* runBisected and runEphemeral: private instances, without the lock       *)

\* A pin that another call released is replaced by any free port.
RunBisected(c) ==
  LET J == ChunkOf(c) IN
  /\ call[c].pc = "bisect"
  /\ \E f \in [Unpinned(J) -> Ports \ Busy(eng)] :
       /\ ports' = Pin(f)
       /\ call' = [call EXCEPT ![c].pc = "ephemeral", ![c].todo = <<J>>,
                               ![c].pins = Restricted(Pin(f), J)]
  /\ UNCHANGED <<slots, eng>>

RunEphemeral(c) ==
  LET J == Head(call[c].todo)  p == Restricted(call[c].pins, J) IN
  /\ call[c].pc = "ephemeral" /\ call[c].todo # <<>>
  /\ \/ \E e \in Unused(eng) : \E i \in Started(J, p, eng, 0) :
          /\ eng' = [eng EXCEPT ![e] = i]
          /\ call' = [call EXCEPT ![c].pc = "private", ![c].engine = e,
                                  ![c].clash = @ \/ Clash(p, eng)]
     \/ /\ Rejected(J, p, eng) \/ Faults
        /\ UNCHANGED eng
        /\ \E bisect \in IF Cardinality(J) = 1 THEN {FALSE}
                         ELSE IF Faults THEN BOOLEAN ELSE {TRUE} :
             call' = [call EXCEPT ![c].todo = (IF bisect THEN Halves(J) ELSE <<>>) \o Tail(@),
                                  ![c].fault = @ \/ ~Rejected(J, p, eng)
                                                 \/ (Cardinality(J) > 1 /\ ~bisect),
                                  ![c].clash = @ \/ Clash(p, eng)]
  /\ UNCHANGED <<ports, slots>>

\* Tested and torn down at once.
TestEphemeral(c) ==
  LET J == Head(call[c].todo)  p == Restricted(call[c].pins, J) IN
  /\ call[c].pc = "private"
  /\ eng' = Torn(eng, call[c].engine)
  /\ call' = [call EXCEPT ![c].pc = "ephemeral", ![c].engine = NoEngine, ![c].todo = Tail(@),
                          ![c].passed = @ \union Served(p, J)]
  /\ UNCHANGED <<ports, slots>>

EphemeralDone(c) ==
  /\ call[c].pc = "ephemeral" /\ call[c].todo = <<>>
  /\ call' = [call EXCEPT ![c].pc = "slot", ![c].slot = @ + 1, ![c].pins = NoPins]
  /\ UNCHANGED <<ports, slots, eng>>

-----------------------------------------------------------------------------
\* The process exits on its own; whoever is testing it loses its checks.
EngineDies(e) ==
  /\ Faults /\ eng[e].up
  /\ eng' = [eng EXCEPT ![e].up = FALSE]
  /\ call' = [c \in Callers |->
       IF call[c].engine = e THEN [call[c] EXCEPT !.fault = TRUE] ELSE call[c]]
  /\ UNCHANGED <<ports, slots>>

\* Idle instances go now, the others with their last tester.
Close ==
  LET idle == {e \in Engines : eng[e].refs = 0} IN
  /\ eng' = [e \in Engines |->
       IF e \notin Range(slots) THEN eng[e]
       ELSE IF e \in idle THEN NoInstance ELSE [eng[e] EXCEPT !.retired = TRUE]]
  /\ slots' = [s \in SlotIds |-> IF slots[s] \in idle THEN NoEngine ELSE slots[s]]
  /\ UNCHANGED <<ports, call>>

PoolNext ==
  \/ \E c \in Callers :
       \/ \E J \in (SUBSET Keys) \ {{}} : CheckBatch(c, J)
       \/ RunSlot(c) \/ AllocateFails(c) \/ TestJobs(c) \/ ReleaseSlot(c) \/ CheckBatchReturns(c)
       \/ RunBisected(c) \/ RunEphemeral(c) \/ TestEphemeral(c) \/ EphemeralDone(c)
  \/ \E e \in Engines : EngineDies(e)
  \/ Close

PoolSpec == PoolInit /\ [][PoolNext]_poolVars

-----------------------------------------------------------------------------
(* Properties                                                              *)

\* The agent's scheduler goroutine runs one tick after the other, and a tick
\* makes one batch of a pooled prober's checks.
OneCaller == \A c, d \in Callers : c = d

InstanceType ==
  [pins : Pins, up : BOOLEAN, refs : 0 .. Cardinality(Callers), retired : BOOLEAN, stopped : BOOLEAN]
CallType ==
  [pc : {"idle", "slot", "test", "release", "bisect", "ephemeral", "private"},
   batch : SUBSET Keys, slot : Nat, pins : Pins, engine : Engines \union {NoEngine},
   todo : Seq(SUBSET Keys), passed : SUBSET Keys, fault : BOOLEAN, clash : BOOLEAN]

\* The shape of the pool's maps; an instance counts as many testers as there
\* are callers at most.
PoolTypeOK ==
  /\ ports \in Pins
  /\ slots \in [SlotIds -> Engines \union {NoEngine}]
  /\ eng \in [Engines -> InstanceType]
  /\ call \in [Callers -> CallType]

\* Close, dying engines and failing builds leave no process behind: one that
\* runs is mapped in a slot, where the next batch or Close finds it, or is the
\* private instance of a bisection.
NoOrphan ==
  \A e \in Engines : eng[e].up =>
    e \in Range(slots) \/ \E c \in Callers : call[c].pc = "private" /\ call[c].engine = e

\* "one malformed config costs only its own result and every healthy sibling
\* still reports" (src/internal/module/pool.go:406): unless the environment
\* failed meanwhile or another process held one of the batch's ports, every
\* good job of a finished batch was served, whatever the number of bad ones.
BisectionIsolates ==
  \A c \in Callers : call[c].pc = "idle" =>
    call[c].fault \/ call[c].clash \/ call[c].batch \ Bad \subseteq call[c].passed
=============================================================================
