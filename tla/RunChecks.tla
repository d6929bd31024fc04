----------------------------- MODULE RunChecks ------------------------------
(***************************************************************************)
(* One tick's checks: runChecks, runCheck and runCheckBatch                *)
(* (internal/agent/agent.go), the per-destination gate they pass through   *)
(* (internal/destgate) and testJobs/testJob of a pooled prober             *)
(* (internal/module/pool.go).                                              *)
(*                                                                         *)
(* Every check is a goroutine.  A single check waits at the gate, takes    *)
(* one of the tick's Concurrency slots and runs.  The checks of a pooled   *)
(* prober form a batch that takes one slot as a whole, before any of them  *)
(* is at the gate; each then takes one of the batch's PoolConcurrency test *)
(* slots.  Timeouts bound a check once it runs and are left out.           *)
(*                                                                         *)
(* Times are kept as ages, capped where the code stops telling them apart, *)
(* so the clock runs on without a bound.                                   *)
(***************************************************************************)
EXTENDS Integers, FiniteSets

CONSTANTS
  Singles, Batches,  \* unpooled checks; pooled probers with work this tick
  Unregistered,      \* single checks whose prober this node does not know
  Members,           \* the checks of each batch
  Dests, NoDest,     \* destinations; the empty one is never gated
  Dest,              \* the destination of each check
  Floor, MaxWait,    \* destgate.Configure
  MaxDestinations,   \* maxDestinations
  Concurrency,       \* the tick's semaphore
  PoolConcurrency    \* a batch's semaphore (testConcurrency)

Pooled == UNION {Members[b] : b \in Batches}
Jobs   == Singles \union Pooled

ASSUME ChecksAssumption ==
  /\ Members \in [Batches -> SUBSET Pooled] /\ Singles \intersect Pooled = {}
  /\ Unregistered \subseteq Singles
  /\ Dest \in [Jobs -> Dests \union {NoDest}] /\ NoDest \notin Dests
  /\ IsFiniteSet(Dests)
ASSUME LimitsAssumption ==
  /\ Floor \in Nat \ {0} /\ MaxWait \in Nat \ {0} /\ MaxDestinations \in Nat \ {0}
  /\ Concurrency \in Nat \ {0} /\ PoolConcurrency \in Nat \ {0}

VARIABLES
  tracked,  \* keys of the map `last`
  last,     \* age of a tracked destination's entry, up to Floor
  granted,  \* age of its latest grant, remembered or not (Floor: none)
  pc,       \* each check: queued, wait, sleep, slot, run, done or skipped
  waited,   \* how long its Wait has lasted, up to MaxWait
  timer,    \* what is left on its timer
  batch     \* each batch: queued, run, done

gateVars == <<tracked, last, granted>>
timeVars == <<waited, timer>>
vars == <<gateVars, pc, timeVars, batch>>

Init ==
  /\ tracked = {}
  /\ last = [d \in Dests |-> 0]
  /\ granted = [d \in Dests |-> Floor]
  /\ pc = [j \in Jobs |-> "queued"]
  /\ waited = [j \in Jobs |-> 0]
  /\ timer = [j \in Jobs |-> 0]
  /\ batch = [b \in Batches |-> "queued"]

In(J, place) == {j \in J : pc[j] = place}

\* Slots of the tick's semaphore in use.
Used == Cardinality(In(Singles, "run")) + Cardinality({b \in Batches : batch[b] = "run"})

-----------------------------------------------------------------------------
(* runChecks: batches take their slot in the dispatching loop, singles are *)
(* spawned unconditionally after it.                                       *)

RunCheckBatch(b) ==
  /\ batch[b] = "queued"
  /\ Used < Concurrency
  /\ batch' = [batch EXCEPT ![b] = "run"]
  /\ pc' = [j \in Jobs |-> IF j \in Members[b] THEN "wait" ELSE pc[j]]
  /\ UNCHANGED <<gateVars, timeVars>>

\* An unknown prober fails at once, without gate or slot.
SpawnSingles ==
  /\ \A b \in Batches : batch[b] # "queued"
  /\ In(Singles, "queued") # {}
  /\ pc' = [j \in Jobs |-> IF j \in Unregistered THEN "done"
                           ELSE IF j \in Singles THEN "wait" ELSE pc[j]]
  /\ UNCHANGED <<gateVars, timeVars, batch>>

\* Mutant: a skipped job forgets its wg.Done.
BatchDoneUnlessSkipped(b) ==
  /\ batch[b] = "run"
  /\ \A j \in Members[b] : pc[j] = "done"
  /\ batch' = [batch EXCEPT ![b] = "done"]
  /\ UNCHANGED <<gateVars, pc, timeVars>>

\* testJobs has waited for all its jobs: the batch's slot is released.
BatchDone(b) ==
  /\ batch[b] = "run"
  /\ \A j \in Members[b] : pc[j] \in {"done", "skipped"}
  /\ batch' = [batch EXCEPT ![b] = "done"]
  /\ UNCHANGED <<gateVars, pc, timeVars>>

-----------------------------------------------------------------------------
(* destgate.Wait                                                           *)

Clear(d) == d \notin tracked \/ last[d] >= Floor

\* evictOldestLocked: the oldest quarter, at least one; ties in any order.
Evictable(gone) ==
  LET n == Cardinality(tracked) \div 4 IN
  /\ gone \subseteq tracked
  /\ Cardinality(gone) = IF n < 1 THEN 1 ELSE n
  /\ \A g \in gone : \A k \in tracked \ gone : last[g] >= last[k]

\* The map's keys after d has been granted.
TrackGranted(d) ==
  IF d \notin tracked /\ Cardinality(tracked) >= MaxDestinations
    THEN \E gone \in SUBSET tracked :
           Evictable(gone) /\ tracked' = (tracked \ gone) \union {d}
    ELSE tracked' = tracked \union {d}

\* Mutant: whoever wakes up assumes it is its turn.
GrantUnchecked(j) ==
  /\ pc[j] = "wait" /\ Dest[j] # NoDest
  /\ TrackGranted(Dest[j])
  /\ last' = [last EXCEPT ![Dest[j]] = 0]
  /\ granted' = [granted EXCEPT ![Dest[j]] = 0]
  /\ pc' = [pc EXCEPT ![j] = "slot"]
  /\ UNCHANGED <<timeVars, batch>>

\* The caller gets its turn.
Grant(j) ==
  /\ pc[j] = "wait" /\ Dest[j] # NoDest
  /\ Clear(Dest[j])
  /\ TrackGranted(Dest[j])
  /\ last' = [last EXCEPT ![Dest[j]] = 0]
  /\ granted' = [granted EXCEPT ![Dest[j]] = 0]
  /\ pc' = [pc EXCEPT ![j] = "slot"]
  /\ UNCHANGED <<timeVars, batch>>

\* No destination: no gate and no bookkeeping.
GrantUngated(j) ==
  /\ pc[j] = "wait" /\ Dest[j] = NoDest
  /\ pc' = [pc EXCEPT ![j] = "slot"]
  /\ UNCHANGED <<gateVars, timeVars, batch>>

\* Busy: sleep for the remaining time.
Sleep(j) ==
  /\ pc[j] = "wait" /\ Dest[j] # NoDest
  /\ ~Clear(Dest[j])
  /\ pc' = [pc EXCEPT ![j] = "sleep"]
  /\ timer' = [timer EXCEPT ![j] = Floor - last[Dest[j]]]
  /\ UNCHANGED <<gateVars, waited, batch>>

\* Recheck: another goroutine may have taken the turn.
TimerFires(j) ==
  /\ pc[j] = "sleep" /\ timer[j] = 0
  /\ pc' = [pc EXCEPT ![j] = "wait"]
  /\ UNCHANGED <<gateVars, timeVars, batch>>

\* maxWait is over while the caller sleeps.
WaitExpires(j) ==
  /\ pc[j] = "sleep" /\ waited[j] >= MaxWait
  /\ pc' = [pc EXCEPT ![j] = "skipped"]
  /\ UNCHANGED <<gateVars, timeVars, batch>>

-----------------------------------------------------------------------------
(* Slots and the check itself                                              *)

\* runCheck: one of the tick's slots.
RunCheck(j) ==
  /\ j \in Singles /\ pc[j] = "slot"
  /\ Used < Concurrency
  /\ pc' = [pc EXCEPT ![j] = "run"]
  /\ UNCHANGED <<gateVars, timeVars, batch>>

\* testJob, its first attempt: one of the batch's test slots.
TestJob(b, j) ==
  /\ j \in Members[b] /\ pc[j] = "slot"
  /\ Cardinality(In(Members[b], "run")) < PoolConcurrency
  /\ pc' = [pc EXCEPT ![j] = "run"]
  /\ UNCHANGED <<gateVars, timeVars, batch>>

\* The check returns and its slot is free again.
CheckReturns(j) ==
  /\ pc[j] = "run"
  /\ pc' = [pc EXCEPT ![j] = "done"]
  /\ UNCHANGED <<gateVars, timeVars, batch>>

Older(age, cap) == IF age < cap THEN age + 1 ELSE age

\* A unit of time passes, for the gate's entries and for the callers inside
\* Wait.
Tick ==
  /\ last' = [d \in Dests |-> Older(last[d], Floor)]
  /\ granted' = [d \in Dests |-> Older(granted[d], Floor)]
  /\ waited' = [j \in Jobs |->
       IF pc[j] \in {"wait", "sleep"} THEN Older(waited[j], MaxWait) ELSE waited[j]]
  /\ timer' = [j \in Jobs |-> IF timer[j] > 0 THEN timer[j] - 1 ELSE 0]
  /\ UNCHANGED <<tracked, pc, batch>>

\* wg.Wait: every batch and every single check is over.
Returned ==
  /\ \A b \in Batches : batch[b] = "done"
  /\ \A j \in Jobs : pc[j] \in {"done", "skipped"}

Wait(j) == Grant(j) \/ GrantUngated(j) \/ Sleep(j) \/ TimerFires(j) \/ WaitExpires(j)

Next ==
  \/ \E b \in Batches : RunCheckBatch(b) \/ BatchDone(b) \/ \E j \in Members[b] : TestJob(b, j)
  \/ SpawnSingles
  \/ \E j \in Jobs : Wait(j) \/ RunCheck(j) \/ CheckReturns(j)
  \/ Tick

Spec == Init /\ [][Next]_vars

\* Time passes, goroutines are scheduled and every check returns (it is bound
\* by its timeout); slots are handed out first come, first served.
FairSpec ==
  /\ Spec
  /\ WF_vars(Tick)
  /\ WF_vars(SpawnSingles)
  /\ \A b \in Batches :
       /\ SF_vars(RunCheckBatch(b)) /\ WF_vars(BatchDone(b))
       /\ \A j \in Members[b] : SF_vars(TestJob(b, j))
  /\ \A j \in Jobs : WF_vars(Wait(j)) /\ SF_vars(RunCheck(j)) /\ WF_vars(CheckReturns(j))

-----------------------------------------------------------------------------
(* Properties                                                              *)

\* The shape of the gate's map, the goroutines and the clock.
TypeOK ==
  /\ tracked \subseteq Dests
  /\ last \in [Dests -> 0 .. Floor]
  /\ granted \in [Dests -> 0 .. Floor]
  /\ pc \in [Jobs -> {"queued", "wait", "sleep", "slot", "run", "done", "skipped"}]
  /\ waited \in [Jobs -> 0 .. MaxWait]
  /\ timer \in [Jobs -> 0 .. Floor]
  /\ batch \in [Batches -> {"queued", "run", "done"}]

\* A caller's turn has come.
GrantStep(j) == pc[j] = "wait" /\ pc'[j] = "slot" /\ Dest[j] \in Dests

\* Two granted Wait calls for one destination are at least Floor apart,
\* whatever goroutines race for it (package comment: "a node-wide minimum
\* spacing between connection attempts").
Spacing == [][\A j \in Jobs : GrantStep(j) => granted[Dest[j]] >= Floor]_vars

\* The map never outgrows its cap: eviction makes room before a key is added.
MapBounded == Cardinality(tracked) <= MaxDestinations

\* runChecks returns: no goroutine is left waiting for a destination or a slot.
RunChecksReturns == <>Returned
=============================================================================
