---------------------------- MODULE Checks_proof ----------------------------
(***************************************************************************)
(* Proofs about when a check runs (RunChecks) and about the engine it runs *)
(* against (Pool).                                                         *)
(*                                                                         *)
(* RunChecks, for any checks, destinations, floor, waiting budget and      *)
(* semaphore sizes: the state is well typed, the map stays within its cap, *)
(* and, as long as the cap is not below the number of destinations, two    *)
(* grants for one destination are never closer than the floor.             *)
(*                                                                         *)
(* Pool, for any jobs, ports and instance sizes and for one caller: the    *)
(* state is well typed, every engine process has an owner, and bisection   *)
(* finds an engine for every good job.                                     *)
(***************************************************************************)
EXTENDS RunChecks, Pool, FiniteSetTheorems, SequenceTheorems, WellFoundedInduction, TLAPS

\* Ages stay within their cap.
LEMMA OlderType ==
  ASSUME NEW cap \in Nat, NEW age \in 0 .. cap
  PROVE  Older(age, cap) \in 0 .. cap
BY DEF Older

\* Whatever is evicted, only destinations are tracked.
LEMMA TrackGrantedType ==
  ASSUME NEW d \in Dests, tracked \subseteq Dests, TrackGranted(d)
  PROVE  tracked' \subseteq Dests
BY DEF TrackGranted, Evictable

-----------------------------------------------------------------------------
(* Type correctness                                                        *)

\* The tick starts well-formed.
LEMMA TypeInit == Init => TypeOK
BY LimitsAssumption DEF Init, TypeOK

\* Every step of a goroutine and of the clock keeps the shape.
LEMMA TypeStep == TypeOK /\ [Next]_vars => TypeOK'
<1> SUFFICES ASSUME TypeOK, [Next]_vars PROVE TypeOK'
  OBVIOUS
<1> USE DEF TypeOK
<1>1. ASSUME NEW b \in Batches, RunCheckBatch(b) PROVE TypeOK'
  BY <1>1 DEF RunCheckBatch, gateVars, timeVars
<1>2. ASSUME NEW b \in Batches, BatchDone(b) PROVE TypeOK'
  BY <1>2 DEF BatchDone, gateVars, timeVars
<1>3. ASSUME NEW b \in Batches, NEW j \in Members[b], TestJob(b, j) PROVE TypeOK'
  BY <1>3 DEF TestJob, gateVars, timeVars
<1>4. CASE SpawnSingles
  BY <1>4 DEF SpawnSingles, gateVars, timeVars
<1>5. ASSUME NEW j \in Jobs, Grant(j) PROVE TypeOK'
  <2>1. Dest[j] \in Dests
    BY <1>5, ChecksAssumption DEF Grant
  <2>2. tracked' \subseteq Dests
    BY <2>1, <1>5, TrackGrantedType DEF Grant
  <2> QED
    BY <1>5, <2>1, <2>2, LimitsAssumption DEF Grant, timeVars
<1>6. ASSUME NEW j \in Jobs, GrantUngated(j) PROVE TypeOK'
  BY <1>6 DEF GrantUngated, gateVars, timeVars
<1>7. ASSUME NEW j \in Jobs, Sleep(j) PROVE TypeOK'
  <2>1. Dest[j] \in Dests /\ last[Dest[j]] \in 0 .. Floor
    BY <1>7, ChecksAssumption DEF Sleep
  <2>2. Floor - last[Dest[j]] \in 0 .. Floor
    BY <2>1, LimitsAssumption
  <2> QED
    BY <1>7, <2>2 DEF Sleep, gateVars
<1>8. ASSUME NEW j \in Jobs, TimerFires(j) PROVE TypeOK'
  BY <1>8 DEF TimerFires, gateVars, timeVars
<1>9. ASSUME NEW j \in Jobs, WaitExpires(j) PROVE TypeOK'
  BY <1>9 DEF WaitExpires, gateVars, timeVars
<1>10. ASSUME NEW j \in Jobs, RunCheck(j) PROVE TypeOK'
  BY <1>10 DEF RunCheck, gateVars, timeVars
<1>11. ASSUME NEW j \in Jobs, CheckReturns(j) PROVE TypeOK'
  BY <1>11 DEF CheckReturns, gateVars, timeVars
<1>12. CASE Tick
  <2>1. last' \in [Dests -> 0 .. Floor] /\ granted' \in [Dests -> 0 .. Floor]
    BY <1>12, OlderType, LimitsAssumption DEF Tick
  <2>2. waited' \in [Jobs -> 0 .. MaxWait]
    BY <1>12, OlderType, LimitsAssumption DEF Tick
  <2>3. timer' \in [Jobs -> 0 .. Floor]
    BY <1>12, LimitsAssumption DEF Tick
  <2> QED
    BY <1>12, <2>1, <2>2, <2>3 DEF Tick
<1>13. CASE UNCHANGED vars
  BY <1>13 DEF vars, gateVars, timeVars
<1> QED
  BY <1>1, <1>2, <1>3, <1>4, <1>5, <1>6, <1>7, <1>8, <1>9, <1>10, <1>11, <1>12, <1>13
  DEF Next, Wait

\* The gate's map, the goroutines and their timers keep their types.
THEOREM TypeCorrect == Spec => []TypeOK
BY TypeInit, TypeStep, PTL DEF Spec

-----------------------------------------------------------------------------
(* The map's size                                                          *)

\* Granting a destination keeps the map within its cap: an eviction removes at
\* least as many entries as are added.
LEMMA TrackGrantedBounded ==
  ASSUME NEW d \in Dests, TypeOK, MapBounded, TrackGranted(d)
  PROVE  MapBounded'
<1>1. IsFiniteSet(tracked) /\ Cardinality(tracked) \in Nat
  BY ChecksAssumption, FS_Subset, FS_CardinalityType DEF TypeOK
<1>2. CASE d \in tracked
  <2>1. tracked' = tracked
    BY <1>2 DEF TrackGranted
  <2> QED
    BY <2>1 DEF MapBounded
<1>3. CASE d \notin tracked /\ Cardinality(tracked) < MaxDestinations
  <2>1. tracked' = tracked \union {d}
    BY <1>1, <1>3, LimitsAssumption DEF TrackGranted
  <2>2. Cardinality(tracked') = Cardinality(tracked) + 1
    BY <1>1, <1>3, <2>1, FS_AddElement
  <2> QED
    BY <1>1, <1>3, <2>2, LimitsAssumption DEF MapBounded
<1>4. CASE d \notin tracked /\ Cardinality(tracked) >= MaxDestinations
  <2>1. PICK gone \in SUBSET tracked :
          Evictable(gone) /\ tracked' = (tracked \ gone) \union {d}
    BY <1>4 DEF TrackGranted
  <2>2. IsFiniteSet(gone) /\ Cardinality(gone) \in Nat
    BY <1>1, FS_Subset, FS_CardinalityType
  <2>3. Cardinality(gone) >= 1
    BY <1>1, <2>1, <2>2 DEF Evictable
  <2>4. IsFiniteSet(tracked \ gone) /\ Cardinality(tracked \ gone) \in Nat
    BY <1>1, FS_Subset, FS_CardinalityType
  <2>5. Cardinality(tracked \ gone) = Cardinality(tracked) - Cardinality(gone)
    <3>1. tracked \intersect gone = gone
      OBVIOUS
    <3> QED
      BY <1>1, <3>1, FS_Difference
  <2>6. Cardinality(tracked') = Cardinality(tracked \ gone) + 1
    BY <1>4, <2>1, <2>4, FS_AddElement
  <2> QED
    BY <1>1, <2>2, <2>3, <2>4, <2>5, <2>6, LimitsAssumption DEF MapBounded
<1> QED
  BY <1>1, <1>2, <1>3, <1>4, LimitsAssumption

\* Eviction makes room before a key is added, so the cap is kept.
LEMMA MapBoundedStep == TypeOK /\ MapBounded /\ [Next]_vars => MapBounded'
<1> SUFFICES ASSUME TypeOK, MapBounded, [Next]_vars PROVE MapBounded'
  OBVIOUS
<1>1. ASSUME NEW j \in Jobs, Grant(j) PROVE MapBounded'
  BY <1>1, ChecksAssumption, TrackGrantedBounded DEF Grant
<1>2. CASE UNCHANGED tracked
  BY <1>2 DEF MapBounded
<1>3. UNCHANGED tracked \/ \E j \in Jobs : Grant(j)
  BY DEF Next, Wait, RunCheckBatch, BatchDone, TestJob, SpawnSingles, GrantUngated, Sleep,
         TimerFires, WaitExpires, RunCheck, CheckReturns, Tick, vars, gateVars
<1> QED
  BY <1>1, <1>2, <1>3

\* destgate's map never holds more than maxDestinations entries.
THEOREM MapStaysBounded == Spec => []MapBounded
<1>1. Init => MapBounded
  BY LimitsAssumption, FS_EmptySet DEF Init, MapBounded
<1> QED
  BY <1>1, MapBoundedStep, TypeCorrect, PTL DEF Spec

-----------------------------------------------------------------------------
(* Spacing                                                                 *)

\* The map remembers every grant, and remembers it right.
MapExact ==
  \A d \in Dests : IF d \in tracked THEN last[d] = granted[d] ELSE granted[d] = Floor

\* With room for every destination nothing is ever evicted.
LEMMA NeverEvicts ==
  ASSUME Cardinality(Dests) <= MaxDestinations,
         NEW d \in Dests, TypeOK, TrackGranted(d)
  PROVE  tracked' = tracked \union {d}
<1>1. CASE d \in tracked
  BY <1>1 DEF TrackGranted
<1>2. CASE d \notin tracked
  <2>1. IsFiniteSet(tracked) /\ Cardinality(tracked) \in Nat
    BY ChecksAssumption, FS_Subset, FS_CardinalityType DEF TypeOK
  <2>2. Cardinality(tracked) < Cardinality(Dests)
    <3>1. tracked \subseteq Dests /\ tracked # Dests
      BY <1>2 DEF TypeOK
    <3>2. Cardinality(tracked) <= Cardinality(Dests) /\ Cardinality(tracked) # Cardinality(Dests)
      BY <3>1, ChecksAssumption, FS_Subset
    <3>3. Cardinality(Dests) \in Nat
      BY ChecksAssumption, FS_CardinalityType
    <3> QED
      BY <2>1, <3>2, <3>3
  <2>3. Cardinality(Dests) \in Nat
    BY ChecksAssumption, FS_CardinalityType
  <2>4. ~(Cardinality(tracked) >= MaxDestinations)
    BY <2>1, <2>2, <2>3, LimitsAssumption
  <2> QED
    BY <2>4 DEF TrackGranted
<1> QED
  BY <1>1, <1>2

\* With room for every destination nothing is evicted: the entry of each
\* destination is as old as its latest grant.
LEMMA MapExactStep ==
  ASSUME Cardinality(Dests) <= MaxDestinations
  PROVE  TypeOK /\ MapExact /\ [Next]_vars => MapExact'
<1> SUFFICES ASSUME TypeOK, MapExact, [Next]_vars PROVE MapExact'
  OBVIOUS
<1>1. ASSUME NEW j \in Jobs, Grant(j) PROVE MapExact'
  <2>1. Dest[j] \in Dests
    BY <1>1, ChecksAssumption DEF Grant
  <2>2. tracked' = tracked \union {Dest[j]}
    BY <1>1, <2>1, NeverEvicts DEF Grant
  <2> QED
    BY <1>1, <2>1, <2>2 DEF Grant, MapExact, TypeOK
<1>2. CASE Tick
  BY <1>2, LimitsAssumption DEF Tick, MapExact, TypeOK, Older
<1>3. CASE UNCHANGED gateVars
  BY <1>3 DEF MapExact, gateVars
<1>4. UNCHANGED gateVars \/ Tick \/ \E j \in Jobs : Grant(j)
  BY DEF Next, Wait, RunCheckBatch, BatchDone, TestJob, SpawnSingles, GrantUngated, Sleep,
         TimerFires, WaitExpires, RunCheck, CheckReturns, vars
<1> QED
  BY <1>1, <1>2, <1>3, <1>4

\* Only Grant takes a caller with a destination from waiting to its turn, and
\* it does so only when the map says the floor has passed.
LEMMA GrantIsSpaced ==
  TypeOK /\ MapExact /\ [Next]_vars =>
    \A j \in Jobs : GrantStep(j) => granted[Dest[j]] >= Floor
<1> SUFFICES ASSUME TypeOK, MapExact, [Next]_vars, NEW j \in Jobs, GrantStep(j)
             PROVE  granted[Dest[j]] >= Floor
  OBVIOUS
<1>1. Dest[j] \in Dests /\ pc[j] = "wait" /\ pc'[j] = "slot" /\ DOMAIN pc = Jobs
  BY DEF GrantStep, TypeOK
<1>2. Grant(j)
  <2>1. ASSUME NEW b \in Batches, RunCheckBatch(b) PROVE FALSE
    BY <1>1, <2>1 DEF RunCheckBatch
  <2>2. ASSUME NEW b \in Batches, BatchDone(b) PROVE FALSE
    BY <1>1, <2>2 DEF BatchDone
  <2>3. ASSUME NEW b \in Batches, NEW k \in Members[b], TestJob(b, k) PROVE FALSE
    BY <1>1, <2>3 DEF TestJob
  <2>4. CASE SpawnSingles
    BY <1>1, <2>4 DEF SpawnSingles
  <2>5. ASSUME NEW k \in Jobs, Grant(k) PROVE k = j
    BY <1>1, <2>5 DEF Grant
  <2>6. ASSUME NEW k \in Jobs, GrantUngated(k) PROVE FALSE
    BY <1>1, <2>6, ChecksAssumption DEF GrantUngated
  <2>7. ASSUME NEW k \in Jobs,
               Sleep(k) \/ TimerFires(k) \/ WaitExpires(k) \/ RunCheck(k) \/ CheckReturns(k)
        PROVE  FALSE
    BY <1>1, <2>7 DEF Sleep, TimerFires, WaitExpires, RunCheck, CheckReturns
  <2>8. CASE Tick
    BY <1>1, <2>8 DEF Tick
  <2>9. CASE UNCHANGED vars
    BY <1>1, <2>9 DEF vars
  <2> QED
    BY <2>1, <2>2, <2>3, <2>4, <2>5, <2>6, <2>7, <2>8, <2>9 DEF Next, Wait
<1>3. Clear(Dest[j])
  BY <1>2 DEF Grant
<1>4. CASE Dest[j] \in tracked
  BY <1>1, <1>3, <1>4 DEF Clear, MapExact
<1>5. CASE Dest[j] \notin tracked
  BY <1>1, <1>5, LimitsAssumption DEF MapExact
<1> QED
  BY <1>4, <1>5

\* As long as the node has no more destinations than the map has room for, no
\* interleaving of waiting goroutines grants one destination twice within the
\* floor.
THEOREM DestinationsSpaced ==
  ASSUME Cardinality(Dests) <= MaxDestinations
  PROVE  Spec => Spacing
<1>1. Init => MapExact
  BY DEF Init, MapExact
<1>2. TypeOK /\ MapExact /\ [Next]_vars => MapExact'
  BY MapExactStep
<1>3. TypeOK /\ MapExact /\ [Next]_vars =>
        [\A j \in Jobs : GrantStep(j) => granted[Dest[j]] >= Floor]_vars
  BY GrantIsSpaced
<1> QED
  BY <1>1, <1>2, <1>3, TypeCorrect, PTL DEF Spec, Spacing

-----------------------------------------------------------------------------
(* The pool: where an engine process can be                                *)

Testing(c) == call[c].pc \in {"test", "release"}
Private(c) == call[c].pc = "private"

\* Each mapped engine is mapped once, and was not torn down.
Mapped ==
  /\ \A s, t \in SlotIds : slots[s] = slots[t] => s = t \/ slots[s] = NoEngine
  /\ \A s \in SlotIds : slots[s] # NoEngine => ~eng[slots[s]].stopped

\* NoOrphan, and nothing else is left of an engine that is not in use.
Owned ==
  \A e \in Engines :
    eng[e] = NoInstance \/ e \in Range(slots) \/ \E c \in Callers : Private(c) /\ call[c].engine = e

\* References are the caller's, and what is retired waits for its release.
Counted ==
  \A e \in Engines :
    /\ eng[e].refs = IF \E c \in Callers : Testing(c) /\ call[c].engine = e THEN 1 ELSE 0
    /\ eng[e].retired => eng[e].refs = 1

\* What is tested against is the engine of the slot, or a private one.
Held ==
  \A c \in Callers :
    /\ ~Testing(c) /\ ~Private(c) => call[c].engine = NoEngine
    /\ Testing(c) => /\ call[c].slot \in SlotIds /\ call[c].engine = slots[call[c].slot]
                     /\ call[c].engine # NoEngine
    /\ Private(c) => /\ call[c].engine \in Engines \ Range(slots) /\ ~eng[call[c].engine].stopped
                     /\ call[c].todo # <<>>

PoolInv == PoolTypeOK /\ Mapped /\ Owned /\ Counted /\ Held

-----------------------------------------------------------------------------
(* Jobs, chunks and ports                                                  *)

\* A set of naturals has a least element.
LEMMA LeastIn ==
  ASSUME NEW S \in SUBSET Nat, S # {}
  PROVE  \E m \in S : \A s \in S : m <= s
<1>1. PICK x \in S : \A y \in S : ~ (<<y, x>> \in OpToRel(<, Nat))
  BY NatLessThanWellFounded, WFMin, Zenon
<1>2. x \in S
  BY <1>1, Zenon
<1>3. \A y \in S : ~ (y < x)
  BY <1>1 DEF OpToRel
<1> QED
  BY <1>2, <1>3

\* Division by the size of an instance, by what it means.
LEMMA Quotient ==
  ASSUME NEW n \in Nat
  PROVE  /\ n \div MaxJobs \in Nat
         /\ MaxJobs * (n \div MaxJobs) <= n
         /\ n < MaxJobs * (n \div MaxJobs) + MaxJobs
BY PoolAssumption

\* A larger number has no smaller quotient.
LEMMA QuotientMonotone ==
  ASSUME NEW m \in Nat, NEW n \in Nat, m <= n
  PROVE  m \div MaxJobs <= n \div MaxJobs
<1> DEFINE a == m \div MaxJobs
           b == n \div MaxJobs
<1>1. a \in Nat /\ b \in Nat /\ MaxJobs * a <= m /\ n < MaxJobs * b + MaxJobs
  BY Quotient
<1>2. MaxJobs \in Nat \ {0}
  BY PoolAssumption
<1> HIDE DEF a, b
<1>3. SUFFICES ASSUME a >= b + 1 PROVE FALSE
  BY <1>1 DEF a, b
<1>4. MaxJobs * a >= MaxJobs * b + MaxJobs
  BY <1>1, <1>2, <1>3
<1> QED
  BY <1>1, <1>2, <1>4

LEMMA RankType ==
  ASSUME NEW J \in SUBSET Keys, NEW j \in J
  PROVE  /\ IsFiniteSet(J) /\ IsFiniteSet({k \in J : k < j})
         /\ Rank(J, j) \in 0 .. Cardinality(Keys) - 1
<1> DEFINE B == {k \in J : k < j}
<1>1. IsFiniteSet(Keys) /\ Keys \subseteq Nat
  BY PoolAssumption
<1>2. B \in SUBSET Keys /\ j \in Keys \ B
  <2>1. j \in Nat /\ j \in Keys
    BY <1>1
  <2>2. j \notin B
    BY <2>1
  <2> QED
    BY <2>1, <2>2
<1>3. IsFiniteSet(J) /\ IsFiniteSet(B) /\ Cardinality(B) \in Nat /\ Cardinality(Keys) \in Nat
  BY <1>1, <1>2, FS_Subset, FS_CardinalityType
<1>4. Cardinality(B) <= Cardinality(Keys) /\ Cardinality(B) # Cardinality(Keys)
  BY <1>1, <1>2, FS_Subset
<1> QED
  BY <1>3, <1>4 DEF Rank

\* No batch has more chunks than there are slots.
LEMMA ChunkHasSlot ==
  ASSUME NEW J \in SUBSET Keys, NEW s, Chunk(J, s) # {}
  PROVE  s \in SlotIds
<1>1. PICK j \in J : Rank(J, j) \div MaxJobs = s
  BY DEF Chunk
<1>2. Rank(J, j) \in Nat /\ Rank(J, j) <= Cardinality(Keys) - 1 /\ Cardinality(Keys) - 1 \in Nat
  <2>1. Cardinality(Keys) \in Nat
    BY PoolAssumption, FS_CardinalityType
  <2>2. Rank(J, j) \in 0 .. Cardinality(Keys) - 1
    BY RankType, Zenon
  <2> QED
    BY <2>1, <2>2
<1>3. s <= (Cardinality(Keys) - 1) \div MaxJobs
  BY <1>1, <1>2, QuotientMonotone
<1>4. s \in Nat /\ (Cardinality(Keys) - 1) \div MaxJobs \in Nat
  BY <1>1, <1>2, Quotient
<1> QED
  BY <1>3, <1>4 DEF SlotIds

LEMMA RestrictedType ==
  ASSUME NEW p \in Pins, NEW J
  PROVE  Restricted(p, J) \in Pins
BY DEF Pins, Restricted

LEMMA PinType ==
  ASSUME ports \in Pins, NEW J, NEW f \in [J -> Ports]
  PROVE  Pin(f) \in Pins
BY DEF Pins, Pin

LEMMA NoPinsType == NoPins \in Pins
BY DEF Pins, NoPins

LEMMA AllocationsType ==
  ASSUME NEW J, NEW f \in Allocations(J)
  PROVE  f \in [J -> Ports]
BY DEF Allocations

\* One caller is all there are.
LEMMA Alone ==
  ASSUME OneCaller, NEW c \in Callers
  PROVE  Callers = {c} /\ Cardinality(Callers) = 1
<1>1. Callers = {c}
  BY DEF OneCaller
<1> QED
  BY <1>1, FS_Singleton

LEMMA NoInstanceType ==
  ASSUME OneCaller PROVE NoInstance \in InstanceType
<1>1. CASE Callers = {}
  <2>1. 0 \in 0 .. Cardinality(Callers)
    BY <1>1, FS_EmptySet
  <2> QED
    BY <2>1, NoPinsType DEF NoInstance, InstanceType
<1>2. CASE Callers # {}
  <2>1. 0 \in 0 .. Cardinality(Callers)
    BY <1>2, Alone
  <2> QED
    BY <2>1, NoPinsType DEF NoInstance, InstanceType
<1> QED
  BY <1>1, <1>2

\* An engine that looks started runs, or another one answers in its place.
LEMMA StartedIs ==
  ASSUME NEW J, NEW p, NEW E, NEW n, NEW i \in Started(J, p, E, n)
  PROVE  \E up \in BOOLEAN :
           /\ i = [pins |-> p, up |-> up, refs |-> n, retired |-> FALSE, stopped |-> FALSE]
           /\ up \/ p[FirstOf(J)] \in Busy(E)
BY DEF Started

-----------------------------------------------------------------------------
(* The pool: steps                                                         *)

LEMMA PoolInitInv == ASSUME OneCaller PROVE PoolInit => PoolInv
<1> SUFFICES ASSUME PoolInit PROVE PoolInv
  OBVIOUS
<1>1. NoCall \in CallType /\ NoCall.pc = "idle" /\ NoCall.engine = NoEngine
  BY NoPinsType DEF NoCall, CallType
<1>2. PoolTypeOK
  BY <1>1, NoPinsType, NoInstanceType DEF PoolInit, PoolTypeOK
<1>3. Mapped /\ Owned
  BY DEF PoolInit, Mapped, Owned
<1>4. NoInstance.refs = 0 /\ ~NoInstance.retired
  BY DEF NoInstance
<1>5. Counted
  BY <1>1, <1>4 DEF PoolInit, Counted, Testing
<1>6. Held
  BY <1>1 DEF PoolInit, Held, Testing, Private
<1> QED
  BY <1>2, <1>3, <1>5, <1>6 DEF PoolInv

\* Steps of the caller that leave its engine alone.
LEMMA OnlyCall ==
  ASSUME NEW c, Callers = {c}, PoolInv, UNCHANGED <<slots, eng>>, ports' \in Pins,
         call' \in [Callers -> CallType], call'[c].engine = call[c].engine,
         \/ ~Testing(c) /\ ~Private(c) /\ ~Testing(c)' /\ ~Private(c)'
         \/ Testing(c) /\ Testing(c)' /\ call'[c].slot = call[c].slot
  PROVE  PoolInv'
<1>1. PoolTypeOK'
  BY DEF PoolInv, PoolTypeOK
<1>2. Mapped'
  BY DEF PoolInv, Mapped
<1>3. Owned'
  BY DEF PoolInv, Owned, Testing, Private
<1>4. Counted'
  BY DEF PoolInv, Counted, Testing, Private
<1>5. Held'
  BY DEF PoolInv, Held, Testing, Private
<1> QED
  BY <1>1, <1>2, <1>3, <1>4, <1>5 DEF PoolInv

\* CheckBatch, its early returns, the tests and the ends of its loops.
LEMMA CallSteps ==
  ASSUME NEW c, Callers = {c}, PoolInv, NEW J \in SUBSET Keys,
         \/ CheckBatch(c, J) \/ AllocateFails(c) \/ TestJobs(c) \/ CheckBatchReturns(c)
         \/ RunBisected(c) \/ EphemeralDone(c)
  PROVE  PoolInv'
<1>1. call[c] \in CallType /\ call \in [Callers -> CallType] /\ ports \in Pins
  BY DEF PoolInv, PoolTypeOK
<1>2. ~Testing(c) /\ ~Private(c) => call[c].engine = NoEngine
  BY DEF PoolInv, Held
<1>3. CASE CheckBatch(c, J)
  <2>1. [NoCall EXCEPT !.pc = "slot", !.batch = J] \in CallType
    <3>1. NoCall \in CallType
      BY NoPinsType DEF NoCall, CallType
    <3> QED
      BY <3>1 DEF CallType
  <2>2. call' = [call EXCEPT ![c] = [NoCall EXCEPT !.pc = "slot", !.batch = J]]
    BY <1>3 DEF CheckBatch
  <2>3. call'[c].engine = NoEngine /\ call'[c].pc = "slot" /\ call[c].pc = "idle"
    BY <1>1, <1>3, <2>2 DEF NoCall, CheckBatch
  <2>4. call' \in [Callers -> CallType]
    BY <1>1, <2>1, <2>2
  <2> QED
    BY <1>1, <1>2, <1>3, <2>3, <2>4, OnlyCall DEF CheckBatch, Testing, Private
<1>4. CASE AllocateFails(c)
  <2>1. ports' \in Pins
    BY <1>1, <1>4, AllocationsType, PinType DEF AllocateFails
  <2>2. call' \in [Callers -> CallType] /\ call'[c].engine = call[c].engine /\ call'[c].pc = "slot"
    <3>1. call' = [call EXCEPT ![c].slot = @ + 1, ![c].fault = TRUE] /\ call[c].pc = "slot"
      BY <1>4 DEF AllocateFails
    <3>2. [call[c] EXCEPT !.slot = @ + 1, !.fault = TRUE] \in CallType
      <4>1. \A s \in Nat, x \in BOOLEAN : [call[c] EXCEPT !.slot = s, !.fault = x] \in CallType
        BY <1>1 DEF CallType
      <4>2. call[c].slot + 1 \in Nat
        BY <1>1 DEF CallType
      <4> QED
        BY <4>1, <4>2, Zenon
    <3>3. call' = [call EXCEPT ![c] = [call[c] EXCEPT !.slot = @ + 1, !.fault = TRUE]]
      BY <3>1, Zenon
    <3>4. call'[c].engine = call[c].engine /\ call'[c].pc = "slot"
      BY <1>1, <3>1 DEF CallType
    <3> QED
      BY <1>1, <3>2, <3>3, <3>4
  <2> QED
    BY <1>4, <2>1, <2>2, OnlyCall DEF AllocateFails, Testing, Private
<1>5. CASE TestJobs(c)
  <2>1. Served(call[c].pins, ChunkOf(c)) \in SUBSET Keys
    BY <1>1 DEF Served, ChunkOf, Chunk, CallType
  <2>2. /\ call' \in [Callers -> CallType] /\ call'[c].engine = call[c].engine
        /\ call'[c].pc = "release" /\ call'[c].slot = call[c].slot
    BY <1>1, <1>5, <2>1 DEF TestJobs, CallType
  <2> QED
    BY <1>1, <1>5, <2>2, OnlyCall DEF TestJobs, Testing, Private
<1>6. CASE CheckBatchReturns(c)
  <2>1. call' \in [Callers -> CallType] /\ call'[c].engine = call[c].engine /\ call'[c].pc = "idle"
    BY <1>1, <1>6 DEF CheckBatchReturns, CallType
  <2> QED
    BY <1>1, <1>6, <2>1, OnlyCall DEF CheckBatchReturns, Testing, Private
<1>7. CASE RunBisected(c)
  <2>1. PICK f \in [Unpinned(ChunkOf(c)) -> Ports \ Busy(eng)] :
          /\ ports' = Pin(f)
          /\ call' = [call EXCEPT ![c].pc = "ephemeral", ![c].todo = <<ChunkOf(c)>>,
                                  ![c].pins = Restricted(Pin(f), ChunkOf(c))]
    BY <1>7 DEF RunBisected
  <2>2. Pin(f) \in Pins
    <3>1. f \in [Unpinned(ChunkOf(c)) -> Ports]
      BY <2>1
    <3> QED
      BY <1>1, <3>1, PinType
  <2>3. <<ChunkOf(c)>> \in Seq(SUBSET Keys)
    <3>1. ChunkOf(c) \in SUBSET Keys
      BY <1>1 DEF ChunkOf, Chunk, CallType
    <3> QED
      BY <3>1
  <2>4. Restricted(Pin(f), ChunkOf(c)) \in Pins
    BY <2>2, RestrictedType
  <2>5. call' \in [Callers -> CallType] /\ call'[c].engine = call[c].engine /\ call'[c].pc = "ephemeral"
    BY <1>1, <2>1, <2>3, <2>4 DEF CallType
  <2> QED
    BY <1>7, <2>1, <2>2, <2>5, OnlyCall DEF RunBisected, Testing, Private
<1>8. CASE EphemeralDone(c)
  <2>1. call' \in [Callers -> CallType] /\ call'[c].engine = call[c].engine /\ call'[c].pc = "slot"
    BY <1>1, <1>8, NoPinsType DEF EphemeralDone, CallType
  <2> QED
    BY <1>1, <1>8, <2>1, OnlyCall DEF EphemeralDone, Testing, Private
<1> QED
  BY <1>3, <1>4, <1>5, <1>6, <1>7, <1>8

\* While the caller tests nothing every instance is idle, and in a slot.
LEMMA AllIdle ==
  ASSUME NEW c, Callers = {c}, PoolInv, ~Testing(c), ~Private(c)
  PROVE  /\ \A e \in Engines : eng[e].refs = 0 /\ ~eng[e].retired
         /\ \A e \in Engines : eng[e] = NoInstance \/ \E s \in SlotIds : slots[s] = e
<1>1. \A e \in Engines : eng[e].refs = 0 /\ ~eng[e].retired
  BY DEF PoolInv, Counted
<1>2. DOMAIN slots = SlotIds
  BY DEF PoolInv, PoolTypeOK
<1>3. \A e \in Engines : eng[e] = NoInstance \/ \E s \in SlotIds : slots[s] = e
  BY <1>2 DEF PoolInv, Owned, Range
<1> QED
  BY <1>1, <1>3

LEMMA InRange ==
  ASSUME slots \in [SlotIds -> Engines \union {NoEngine}], NEW e
  PROVE  e \in Range(slots) <=> \E s \in SlotIds : slots[s] = e
BY DEF Range

\* The idle instance of the slot is torn down; the others stay.
LEMMA RetireIdle ==
  ASSUME NEW c, Callers = {c}, OneCaller, PoolInv, ~Testing(c), ~Private(c), NEW s \in SlotIds,
         NEW E, E = Retire(slots[s])
  PROVE  /\ E \in [Engines -> InstanceType]
         /\ slots[s] # NoEngine => E[slots[s]] = NoInstance
         /\ \A e \in Engines : e # slots[s] => E[e] = eng[e]
<1>1. slots[s] \in Engines \union {NoEngine} /\ eng \in [Engines -> InstanceType]
  BY DEF PoolInv, PoolTypeOK
<1>2. \A e \in Engines : eng[e].refs = 0
  BY AllIdle
<1>3. E = IF slots[s] = NoEngine THEN eng ELSE [eng EXCEPT ![slots[s]] = NoInstance]
  BY <1>1, <1>2 DEF Retire, Torn
<1> QED
  BY <1>1, <1>3, NoInstanceType

LEMMA ReuseInv ==
  ASSUME NEW c, Callers = {c}, OneCaller, PoolInv, ~Testing(c), ~Private(c), call[c].slot \in SlotIds,
         NEW p \in Pins, ports' \in Pins, Reuse(c, p)
  PROVE  PoolInv'
<1> DEFINE w == slots[call[c].slot]
<1>1. /\ slots \in [SlotIds -> Engines \union {NoEngine}] /\ eng \in [Engines -> InstanceType]
      /\ call \in [Callers -> CallType]
  BY DEF PoolInv, PoolTypeOK
<1>2. /\ w \in Engines /\ w # NoEngine /\ ~eng[w].retired
      /\ eng' = [eng EXCEPT ![w].refs = @ + 1]
      /\ call' = [call EXCEPT ![c].pc = "test", ![c].pins = p, ![c].engine = w]
      /\ slots' = slots
  BY <1>1, PoolAssumption DEF Reuse
<1>3. \A e \in Engines : eng[e].refs = 0 /\ ~eng[e].retired
  BY AllIdle
<1>4. Cardinality(Callers) = 1
  BY Alone
<1>5. call' \in [Callers -> CallType] /\ call'[c].pc = "test" /\ call'[c].engine = w /\ call'[c].slot = call[c].slot
  <2>1. [call[c] EXCEPT !.pc = "test", !.pins = p, !.engine = w] \in CallType
    BY <1>1, <1>2 DEF CallType
  <2>2. call' = [call EXCEPT ![c] = [call[c] EXCEPT !.pc = "test", !.pins = p, !.engine = w]]
    BY <1>2, Zenon
  <2>3. call'[c].pc = "test" /\ call'[c].engine = w /\ call'[c].slot = call[c].slot
    BY <1>1, <2>2 DEF CallType
  <2> QED
    BY <1>1, <2>1, <2>2, <2>3
<1>6. [eng[w] EXCEPT !.refs = @ + 1] \in InstanceType
  BY <1>1, <1>2, <1>3, <1>4 DEF InstanceType
<1>7. eng' \in [Engines -> InstanceType]
  BY <1>1, <1>2, <1>6
<1>8. \A e \in Engines : /\ eng'[e].refs = IF e = w THEN 1 ELSE 0
                         /\ ~eng'[e].retired /\ eng'[e].stopped = eng[e].stopped
                         /\ e # w => eng'[e] = eng[e]
  BY <1>1, <1>2, <1>3 DEF InstanceType
<1>9. PoolTypeOK'
  BY <1>1, <1>2, <1>5, <1>7 DEF PoolTypeOK
<1>10. Mapped'
  BY <1>1, <1>2, <1>8 DEF PoolInv, Mapped
<1>11. Owned'
  <2>1. w \in Range(slots)
    BY <1>1, InRange
  <2> QED
    BY <1>2, <1>8, <2>1 DEF PoolInv, Owned, Private
<1>12. Counted'
  BY <1>5, <1>8 DEF Counted, Testing
<1>13. Held'
  BY <1>2, <1>5 DEF Held, Testing, Private
<1> QED
  BY <1>9, <1>10, <1>11, <1>12, <1>13 DEF PoolInv

LEMMA RebuildInv ==
  ASSUME NEW c, Callers = {c}, OneCaller, PoolInv, ~Testing(c), ~Private(c), call[c].slot \in SlotIds,
         NEW J, NEW p \in Pins, ports' \in Pins, Rebuild(c, J, p)
  PROVE  PoolInv'
<1> DEFINE s == call[c].slot
           E == Retire(slots[s])
<1>1. /\ slots \in [SlotIds -> Engines \union {NoEngine}] /\ eng \in [Engines -> InstanceType]
      /\ call \in [Callers -> CallType] /\ s \in SlotIds
  BY DEF PoolInv, PoolTypeOK
<1>2. PICK e \in Unused(E) : \E i \in Started(J, p, E, 1) :
        /\ eng' = [E EXCEPT ![e] = i]
        /\ slots' = [slots EXCEPT ![s] = e]
        /\ call' = [call EXCEPT ![c].pc = "test", ![c].pins = p, ![c].engine = e,
                                ![c].clash = @ \/ Clash(p, E)]
  BY DEF Rebuild
<1>3. PICK i \in Started(J, p, E, 1) :
        /\ eng' = [E EXCEPT ![e] = i]
        /\ slots' = [slots EXCEPT ![s] = e]
        /\ call' = [call EXCEPT ![c].pc = "test", ![c].pins = p, ![c].engine = e,
                                ![c].clash = @ \/ Clash(p, E)]
  BY <1>2
<1>4. /\ E \in [Engines -> InstanceType]
      /\ slots[s] # NoEngine => E[slots[s]] = NoInstance
      /\ \A x \in Engines : x # slots[s] => E[x] = eng[x]
  BY <1>1, RetireIdle
<1>5. e \in Engines /\ E[e].stopped
  BY <1>2 DEF Unused
<1> HIDE DEF E, s
<1>6. i \in InstanceType /\ i.refs = 1 /\ ~i.retired /\ ~i.stopped
  <2>1. 1 \in 0 .. Cardinality(Callers)
    BY Alone
  <2>2. PICK up \in BOOLEAN :
          i = [pins |-> p, up |-> up, refs |-> 1, retired |-> FALSE, stopped |-> FALSE]
    <3>1. i \in Started(J, p, E, 1)
      BY <1>3
    <3>2. \E up \in BOOLEAN :
           /\ i = [pins |-> p, up |-> up, refs |-> 1, retired |-> FALSE, stopped |-> FALSE]
           /\ up \/ p[FirstOf(J)] \in Busy(E)
      BY <3>1, StartedIs
    <3> QED
      BY <3>2
  <2> QED
    BY <2>1, <2>2 DEF InstanceType
<1>7. call' \in [Callers -> CallType] /\ call'[c].pc = "test" /\ call'[c].engine = e /\ call'[c].slot = s
  <2>1. Clash(p, E) \in BOOLEAN
    BY DEF Clash
  <2>2. \A x \in BOOLEAN : [call[c] EXCEPT !.pc = "test", !.pins = p, !.engine = e, !.clash = x] \in CallType
    BY <1>1, <1>5 DEF CallType
  <2>3. (call[c].clash \/ Clash(p, E)) \in BOOLEAN
    OBVIOUS
  <2>4. [call[c] EXCEPT !.pc = "test", !.pins = p, !.engine = e, !.clash = @ \/ Clash(p, E)] \in CallType
    BY <2>2, <2>3, Zenon
  <2>5. call' = [call EXCEPT ![c] = [call[c] EXCEPT !.pc = "test", !.pins = p, !.engine = e,
                                                    !.clash = @ \/ Clash(p, E)]]
    BY <1>3, Zenon
  <2>6. call' \in [Callers -> CallType]
    BY <1>1, <2>4, <2>5
  <2>7. call'[c].pc = "test" /\ call'[c].engine = e /\ call'[c].slot = call[c].slot
    BY <1>1, <2>5 DEF CallType
  <2> QED
    BY <2>6, <2>7 DEF s
<1>8. eng' \in [Engines -> InstanceType] /\ eng'[e] = i /\ \A x \in Engines : x # e => eng'[x] = E[x]
  BY <1>3, <1>4, <1>5, <1>6
<1>9. /\ slots' \in [SlotIds -> Engines \union {NoEngine}] /\ slots'[s] = e
      /\ \A t \in SlotIds : t # s => slots'[t] = slots[t]
  BY <1>1, <1>3, <1>5
<1>10. \A t \in SlotIds : t # s /\ slots[t] # NoEngine =>
         /\ slots[t] \in Engines /\ slots[t] # slots[s] /\ slots[t] # e
         /\ eng'[slots[t]] = eng[slots[t]] /\ ~eng[slots[t]].stopped
  BY <1>1, <1>4, <1>5, <1>8 DEF PoolInv, Mapped
<1>11. PoolTypeOK'
  BY <1>7, <1>8, <1>9 DEF PoolTypeOK
<1>12. Mapped'
  <2>1. \A t \in SlotIds : slots'[t] # NoEngine => ~eng'[slots'[t]].stopped
    BY <1>6, <1>8, <1>9, <1>10
  <2>2. ASSUME NEW t \in SlotIds, NEW u \in SlotIds, slots'[t] = slots'[u], slots'[t] # NoEngine PROVE t = u
    <3>1. t # s /\ u # s => t = u
      BY <1>9, <2>2 DEF PoolInv, Mapped
    <3> QED
      BY <1>9, <1>10, <2>2, <3>1
  <2> QED
    BY <2>1, <2>2 DEF Mapped
<1>13. Owned'
  <2> SUFFICES ASSUME NEW x \in Engines, eng'[x] # NoInstance PROVE x \in Range(slots')
    BY DEF Owned
  <2>1. CASE x = e
    BY <1>1, <1>9, <2>1 DEF Range
  <2>2. CASE x # e
    <3>1. eng'[x] = E[x] /\ x # slots[s] /\ E[x] = eng[x]
      BY <1>4, <1>8, <2>2, PoolAssumption
    <3>2. PICK t \in SlotIds : slots[t] = x
      BY <3>1, AllIdle
    <3> QED
      BY <1>9, <3>1, <3>2 DEF Range
  <2> QED
    BY <2>1, <2>2
<1>14. Counted'
  <2>1. \A x \in Engines : x # e => eng'[x].refs = 0 /\ ~eng'[x].retired
    <3>1. NoInstance.refs = 0 /\ ~NoInstance.retired
      BY DEF NoInstance
    <3>2. \A x \in Engines : eng[x].refs = 0 /\ ~eng[x].retired
      BY AllIdle
    <3>3. \A x \in Engines : E[x] = NoInstance \/ E[x] = eng[x]
      BY <1>4, PoolAssumption
    <3> QED
      BY <1>8, <3>1, <3>2, <3>3
  <2> QED
    BY <1>6, <1>7, <1>8, <2>1 DEF Counted, Testing
<1>15. Held'
  BY <1>1, <1>5, <1>7, <1>9, PoolAssumption DEF Held, Testing, Private
<1> QED
  BY <1>11, <1>12, <1>13, <1>14, <1>15 DEF PoolInv

\* What the caller knows after its chunk's engine did not come up.
LEMMA RebuildFailsCall ==
  ASSUME NEW c, Callers = {c}, call \in [Callers -> CallType], NEW J, NEW p, RebuildFails(c, J, p)
  PROVE  LET E == Retire(slots[call[c].slot]) IN
         \E bisect \in BOOLEAN :
           /\ call' \in [Callers -> CallType]
           /\ Cardinality(J) = 1 => ~bisect
           /\ call'[c].pc = IF bisect THEN "bisect" ELSE "slot"
           /\ call'[c].slot = IF bisect THEN call[c].slot ELSE call[c].slot + 1
           /\ call'[c].fault <=> call[c].fault \/ ~Rejected(J, p, E) \/ (Cardinality(J) > 1 /\ ~bisect)
           /\ call'[c].clash <=> call[c].clash \/ Clash(p, E)
           /\ call'[c].batch = call[c].batch /\ call'[c].engine = call[c].engine
           /\ call'[c].passed = call[c].passed
<1> DEFINE E == Retire(slots[call[c].slot])
           Pc(b) == IF b THEN "bisect" ELSE "slot"
           Slot(b) == IF b THEN call[c].slot ELSE call[c].slot + 1
           Fault(b) == call[c].fault \/ ~Rejected(J, p, E) \/ (Cardinality(J) > 1 /\ ~b)
           Clashed == call[c].clash \/ Clash(p, E)
<1>1. PICK b \in IF Cardinality(J) = 1 THEN {FALSE} ELSE IF Faults THEN BOOLEAN ELSE {TRUE} :
        call' = [call EXCEPT ![c].pc = Pc(b), ![c].slot = Slot(b), ![c].fault = Fault(b), ![c].clash = Clashed]
  BY DEF RebuildFails
<1>2. b \in BOOLEAN /\ (Cardinality(J) = 1 => ~b)
  BY <1>1
<1>3. call[c] \in CallType
  OBVIOUS
<1>4. /\ Pc(b) \in {"bisect", "slot"} /\ Slot(b) \in Nat
      /\ Fault(b) \in BOOLEAN /\ Clashed \in BOOLEAN
  <2>1. call[c].slot \in Nat
    BY DEF CallType
  <2>2. Slot(b) \in Nat
    BY <1>2, <2>1
  <2>3. Pc(b) \in {"bisect", "slot"}
    BY <1>2
  <2>4. Fault(b) \in BOOLEAN /\ Clashed \in BOOLEAN
    OBVIOUS
  <2> QED
    BY <2>2, <2>3, <2>4
<1>5. call' = [call EXCEPT ![c] = [call[c] EXCEPT !.pc = Pc(b), !.slot = Slot(b), !.fault = Fault(b),
                                                  !.clash = Clashed]]
  BY <1>1, Zenon
<1> HIDE DEF Pc, Slot, Fault, Clashed
<1> DEFINE r == [call[c] EXCEPT !.pc = Pc(b), !.slot = Slot(b), !.fault = Fault(b), !.clash = Clashed]
<1>6. /\ r \in CallType /\ r.pc = Pc(b) /\ r.slot = Slot(b) /\ r.fault = Fault(b) /\ r.clash = Clashed
      /\ r.batch = call[c].batch /\ r.engine = call[c].engine /\ r.passed = call[c].passed
  <2>1. \A n \in Nat, x \in BOOLEAN, y \in BOOLEAN, a \in {"bisect", "slot"} :
          [call[c] EXCEPT !.pc = a, !.slot = n, !.fault = x, !.clash = y] \in CallType
    BY <1>3 DEF CallType
  <2>2. r \in CallType
    BY <1>4, <2>1, Zenon
  <2>3. r.pc = Pc(b) /\ r.slot = Slot(b) /\ r.batch = call[c].batch /\ r.engine = call[c].engine
        /\ r.passed = call[c].passed
    BY <1>3 DEF CallType
  <2>4. r.fault = Fault(b) /\ r.clash = Clashed
    BY <1>3, Zenon DEF CallType
  <2> QED
    BY <2>2, <2>3, <2>4, Zenon
<1> HIDE DEF r
<1>7. call' \in [Callers -> CallType] /\ call'[c] = r
  BY <1>5, <1>6 DEF r
<1>8. /\ call'[c].pc = IF b THEN "bisect" ELSE "slot"
      /\ call'[c].slot = IF b THEN call[c].slot ELSE call[c].slot + 1
  BY <1>6, <1>7 DEF Pc, Slot
<1>9. /\ call'[c].fault <=> call[c].fault \/ ~Rejected(J, p, E) \/ (Cardinality(J) > 1 /\ ~b)
      /\ call'[c].clash <=> call[c].clash \/ Clash(p, E)
  BY <1>6, <1>7, Zenon DEF Fault, Clashed
<1>10. call'[c].batch = call[c].batch /\ call'[c].engine = call[c].engine /\ call'[c].passed = call[c].passed
  BY <1>6, <1>7
<1> QED
  BY <1>2, <1>7, <1>8, <1>9, <1>10

LEMMA RebuildFailsInv ==
  ASSUME NEW c, Callers = {c}, OneCaller, PoolInv, ~Testing(c), ~Private(c), call[c].slot \in SlotIds,
         NEW J, NEW p, ports' \in Pins, RebuildFails(c, J, p)
  PROVE  PoolInv'
<1> DEFINE s == call[c].slot
           E == Retire(slots[s])
<1>1. /\ slots \in [SlotIds -> Engines \union {NoEngine}] /\ eng \in [Engines -> InstanceType]
      /\ call \in [Callers -> CallType] /\ s \in SlotIds
  BY DEF PoolInv, PoolTypeOK
<1>2. /\ E \in [Engines -> InstanceType]
      /\ slots[s] # NoEngine => E[slots[s]] = NoInstance
      /\ \A x \in Engines : x # slots[s] => E[x] = eng[x]
  BY <1>1, RetireIdle
<1>3. call' \in [Callers -> CallType] /\ call'[c].engine = NoEngine /\ call'[c].pc \in {"bisect", "slot"}
  <2>1. call[c].engine = NoEngine
    BY DEF PoolInv, Held
  <2> QED
    BY <1>1, <2>1, RebuildFailsCall
<1>4. eng' = E
  BY DEF RebuildFails
<1>5. /\ slots' \in [SlotIds -> Engines \union {NoEngine}] /\ slots'[s] = NoEngine
      /\ \A t \in SlotIds : t # s => slots'[t] = slots[t]
  <2>1. slots[s] # NoEngine => slots[s] \in Engines /\ eng[slots[s]].refs = 0
    BY <1>1, AllIdle
  <2>2. slots' = IF slots[s] # NoEngine THEN [slots EXCEPT ![s] = NoEngine] ELSE slots
    BY <2>1 DEF RebuildFails
  <2> QED
    BY <1>1, <2>2
<1> HIDE DEF E, s
<1>6. PoolTypeOK'
  BY <1>2, <1>3, <1>4, <1>5 DEF PoolTypeOK
<1>7. \A t \in SlotIds : t # s /\ slots[t] # NoEngine =>
        /\ slots[t] \in Engines /\ slots[t] # slots[s] /\ eng'[slots[t]] = eng[slots[t]] /\ ~eng[slots[t]].stopped
  BY <1>1, <1>2, <1>4 DEF PoolInv, Mapped
<1>8. Mapped'
  <2>1. \A t \in SlotIds : slots'[t] # NoEngine => ~eng'[slots'[t]].stopped
    BY <1>5, <1>7
  <2>2. ASSUME NEW t \in SlotIds, NEW u \in SlotIds, slots'[t] = slots'[u], slots'[t] # NoEngine PROVE t = u
    BY <1>5, <2>2 DEF PoolInv, Mapped
  <2> QED
    BY <2>1, <2>2 DEF Mapped
<1>9. Owned'
  <2> SUFFICES ASSUME NEW x \in Engines, eng'[x] # NoInstance PROVE x \in Range(slots')
    BY DEF Owned
  <2>1. x # slots[s] /\ E[x] = eng[x]
    BY <1>2, <1>4, PoolAssumption
  <2>2. PICK t \in SlotIds : slots[t] = x
    BY <1>4, <2>1, AllIdle
  <2> QED
    BY <1>5, <2>1, <2>2 DEF Range
<1>10. Counted'
  <2>1. NoInstance.refs = 0 /\ ~NoInstance.retired
    BY DEF NoInstance
  <2>2. \A x \in Engines : eng[x].refs = 0 /\ ~eng[x].retired
    BY AllIdle
  <2>3. \A x \in Engines : E[x] = NoInstance \/ E[x] = eng[x]
    BY <1>2, PoolAssumption
  <2> QED
    BY <1>3, <1>4, <2>1, <2>2, <2>3 DEF Counted, Testing
<1>11. Held'
  BY <1>3 DEF Held, Testing, Private
<1> QED
  BY <1>6, <1>8, <1>9, <1>10, <1>11 DEF PoolInv

\* The ports a chunk gets.
LEMMA ChunkPorts ==
  ASSUME ports \in Pins, NEW J, NEW f \in Allocations(Unpinned(J)), NEW B
  PROVE  Restricted(Pin(f), J) \in Pins /\ Restricted(Pin(f), B) \in Pins
<1>1. Pin(f) \in Pins
  BY AllocationsType, PinType
<1> QED
  BY <1>1, RestrictedType

LEMMA RunSlotInv ==
  ASSUME NEW c, Callers = {c}, OneCaller, PoolInv, RunSlot(c)
  PROVE  PoolInv'
<1> DEFINE J == ChunkOf(c)
<1>1. ports \in Pins /\ call[c] \in CallType
  BY DEF PoolInv, PoolTypeOK
<1>2. ~Testing(c) /\ ~Private(c)
  BY DEF RunSlot, Testing, Private
<1>3. call[c].slot \in SlotIds
  <2>1. call[c].batch \in SUBSET Keys
    BY <1>1 DEF CallType
  <2> QED
    BY <2>1, ChunkHasSlot DEF RunSlot, ChunkOf
<1>4. PICK f \in Allocations(Unpinned(J)) :
        LET p == Restricted(Pin(f), J) IN
        /\ ports' = Restricted(Pin(f), call[c].batch)
        /\ Reuse(c, p) \/ Rebuild(c, J, p) \/ RebuildFails(c, J, p)
  BY DEF RunSlot
<1> DEFINE p == Restricted(Pin(f), J)
<1>5. p \in Pins /\ ports' \in Pins
  BY <1>1, <1>4, ChunkPorts
<1> HIDE DEF p, J
<1>6. Reuse(c, p) \/ Rebuild(c, J, p) \/ RebuildFails(c, J, p)
  BY <1>4 DEF p
<1> QED
  BY <1>2, <1>3, <1>5, <1>6, ReuseInv, RebuildInv, RebuildFailsInv

\* The last tester leaves: the engine stays, idle, or goes if it was retired.
LEMMA ReleaseInv ==
  ASSUME NEW c, Callers = {c}, OneCaller, PoolInv, ReleaseSlot(c)
  PROVE  PoolInv'
<1> DEFINE s == call[c].slot
           w == slots[s]
<1>1. /\ slots \in [SlotIds -> Engines \union {NoEngine}] /\ eng \in [Engines -> InstanceType]
      /\ call \in [Callers -> CallType] /\ ports \in Pins
  BY DEF PoolInv, PoolTypeOK
<1>2. /\ Testing(c) /\ ~Private(c) /\ s \in SlotIds /\ w = call[c].engine /\ w # NoEngine /\ w \in Engines
  <2>1. Testing(c) /\ ~Private(c)
    BY DEF ReleaseSlot, Testing, Private
  <2>2. s \in SlotIds /\ w = call[c].engine /\ w # NoEngine
    BY <2>1 DEF PoolInv, Held
  <2> QED
    BY <1>1, <2>1, <2>2
<1>3. \A e \in Engines : eng[e].refs = (IF e = w THEN 1 ELSE 0) /\ (e # w => ~eng[e].retired)
  BY <1>2 DEF PoolInv, Counted
<1>4. call' \in [Callers -> CallType] /\ call'[c].pc = "slot" /\ call'[c].engine = NoEngine
  <2>1. call' = [call EXCEPT ![c].pc = "slot", ![c].slot = s + 1, ![c].engine = NoEngine, ![c].pins = NoPins]
    BY DEF ReleaseSlot
  <2>2. s + 1 \in Nat
    BY <1>1 DEF CallType
  <2> QED
    BY <1>1, <2>1, <2>2, NoPinsType DEF CallType
<1>5. ports' = ports
  BY DEF ReleaseSlot
<1>6. CASE eng[w].retired
  <2>1. eng' = [eng EXCEPT ![w] = NoInstance] /\ slots' = [slots EXCEPT ![s] = NoEngine]
    BY <1>2, <1>3, <1>6 DEF ReleaseSlot, Torn
  <2> HIDE DEF s, w
  <2>2. eng' \in [Engines -> InstanceType] /\ eng'[w] = NoInstance /\ \A e \in Engines : e # w => eng'[e] = eng[e]
    BY <1>1, <1>2, <2>1, NoInstanceType
  <2>3. /\ slots' \in [SlotIds -> Engines \union {NoEngine}] /\ slots'[s] = NoEngine
        /\ \A t \in SlotIds : t # s => slots'[t] = slots[t]
    BY <1>1, <1>2, <2>1
  <2>4. \A t \in SlotIds : t # s /\ slots[t] # NoEngine =>
          slots[t] \in Engines /\ slots[t] # w /\ ~eng[slots[t]].stopped
    BY <1>1, <1>2 DEF PoolInv, Mapped, w
  <2>5. PoolTypeOK'
    BY <1>1, <1>4, <1>5, <2>2, <2>3 DEF PoolTypeOK
  <2>6. Mapped'
    <3>1. \A t \in SlotIds : slots'[t] # NoEngine => ~eng'[slots'[t]].stopped
      BY <2>2, <2>3, <2>4
    <3>2. ASSUME NEW t \in SlotIds, NEW u \in SlotIds, slots'[t] = slots'[u], slots'[t] # NoEngine PROVE t = u
      BY <2>3, <3>2 DEF PoolInv, Mapped
    <3> QED
      BY <3>1, <3>2 DEF Mapped
  <2>7. Owned'
    <3> SUFFICES ASSUME NEW x \in Engines, eng'[x] # NoInstance PROVE x \in Range(slots')
      BY DEF Owned
    <3>1. x # w /\ eng'[x] = eng[x]
      BY <2>2
    <3>2. x \in Range(slots)
      BY <1>2, <3>1 DEF PoolInv, Owned
    <3>3. PICK t \in SlotIds : slots[t] = x
      BY <1>1, <3>2, InRange
    <3>4. t # s
      BY <3>1, <3>3 DEF w
    <3> QED
      BY <2>3, <3>3, <3>4 DEF Range
  <2>8. Counted'
    <3>1. NoInstance.refs = 0 /\ ~NoInstance.retired
      BY DEF NoInstance
    <3> QED
      BY <1>3, <1>4, <2>2, <3>1 DEF Counted, Testing
  <2>9. Held'
    BY <1>4 DEF Held, Testing, Private
  <2> QED
    BY <2>5, <2>6, <2>7, <2>8, <2>9 DEF PoolInv
<1>7. CASE ~eng[w].retired
  <2>1. eng' = [eng EXCEPT ![w].refs = @ - 1] /\ slots' = slots
    BY <1>2, <1>3, <1>7 DEF ReleaseSlot
  <2> HIDE DEF s, w
  <2>2. eng' \in [Engines -> InstanceType]
    <3>1. Cardinality(Callers) = 1
      BY Alone
    <3>2. [eng[w] EXCEPT !.refs = @ - 1] \in InstanceType
      BY <1>1, <1>2, <1>3, <3>1 DEF InstanceType
    <3> QED
      BY <1>1, <1>2, <2>1, <3>2
  <2>3. \A e \in Engines : /\ eng'[e].refs = 0 /\ ~eng'[e].retired /\ eng'[e].stopped = eng[e].stopped
                           /\ e # w => eng'[e] = eng[e]
    BY <1>1, <1>2, <1>3, <1>7, <2>1 DEF InstanceType
  <2>4. PoolTypeOK'
    BY <1>1, <1>4, <1>5, <2>1, <2>2 DEF PoolTypeOK
  <2>5. Mapped'
    BY <1>1, <2>1, <2>3 DEF PoolInv, Mapped
  <2>6. Owned'
    <3>1. w \in Range(slots)
      BY <1>1, <1>2, InRange DEF w
    <3> QED
      BY <1>2, <2>1, <2>3, <3>1 DEF PoolInv, Owned
  <2>7. Counted'
    BY <1>4, <2>3 DEF Counted, Testing
  <2>8. Held'
    BY <1>4 DEF Held, Testing, Private
  <2> QED
    BY <2>4, <2>5, <2>6, <2>7, <2>8 DEF PoolInv
<1> QED
  BY <1>6, <1>7

\* The engine that dies keeps its place; the one that tests it learns of it.
LEMMA EngineDiesInv ==
  ASSUME NEW c, Callers = {c}, PoolInv, NEW e \in Engines, EngineDies(e)
  PROVE  PoolInv'
<1>1. /\ slots \in [SlotIds -> Engines \union {NoEngine}] /\ eng \in [Engines -> InstanceType]
      /\ call \in [Callers -> CallType] /\ ports \in Pins
  BY DEF PoolInv, PoolTypeOK
<1>2. /\ eng' = [eng EXCEPT ![e].up = FALSE] /\ slots' = slots /\ ports' = ports /\ eng[e].up
      /\ call' = [x \in Callers |-> IF call[x].engine = e THEN [call[x] EXCEPT !.fault = TRUE] ELSE call[x]]
  BY DEF EngineDies
<1>3. /\ call' \in [Callers -> CallType]
      /\ call'[c].pc = call[c].pc /\ call'[c].engine = call[c].engine /\ call'[c].slot = call[c].slot
      /\ call'[c].todo = call[c].todo
  <2>1. call[c] \in CallType
    BY <1>1
  <2>2. [call[c] EXCEPT !.fault = TRUE] \in CallType
    BY <2>1 DEF CallType
  <2>3. call'[c] = IF call[c].engine = e THEN [call[c] EXCEPT !.fault = TRUE] ELSE call[c]
    BY <1>2
  <2>4. call' \in [Callers -> CallType]
    BY <1>2, <2>1, <2>2
  <2> QED
    BY <2>1, <2>3, <2>4 DEF CallType
<1>4. eng' \in [Engines -> InstanceType]
  <2>1. [eng[e] EXCEPT !.up = FALSE] \in InstanceType
    BY <1>1 DEF InstanceType
  <2> QED
    BY <1>1, <1>2, <2>1
<1>5. \A x \in Engines : /\ eng'[x].refs = eng[x].refs /\ eng'[x].retired = eng[x].retired
                         /\ eng'[x].stopped = eng[x].stopped /\ (x # e => eng'[x] = eng[x])
  BY <1>1, <1>2 DEF InstanceType
<1>6. PoolTypeOK'
  BY <1>1, <1>2, <1>3, <1>4 DEF PoolTypeOK
<1>7. Mapped'
  BY <1>1, <1>2, <1>5 DEF PoolInv, Mapped
<1>8. Owned'
  <2>1. eng[e] # NoInstance
    BY <1>2 DEF NoInstance
  <2>2. \A x \in Engines : x \in Range(slots) \/ (Private(c) /\ call[c].engine = x) \/ eng[x] = NoInstance
    BY DEF PoolInv, Owned
  <2> QED
    BY <1>2, <1>3, <1>5, <2>1, <2>2 DEF Owned, Private
<1>9. Counted'
  <2>1. Testing(c)' <=> Testing(c)
    BY <1>3 DEF Testing
  <2> QED
    BY <1>3, <1>5, <2>1 DEF PoolInv, Counted
<1>10. Held'
  <2>1. (Testing(c)' <=> Testing(c)) /\ (Private(c)' <=> Private(c))
    BY <1>3 DEF Testing, Private
  <2> QED
    BY <1>2, <1>3, <1>5, <2>1 DEF PoolInv, Held
<1> QED
  BY <1>6, <1>7, <1>8, <1>9, <1>10 DEF PoolInv

\* Close takes the idle instances and leaves the tested one its slot.
LEMMA CloseInv ==
  ASSUME OneCaller, PoolInv, Close
  PROVE  PoolInv'
<1> DEFINE idle == {e \in Engines : eng[e].refs = 0}
<1>1. /\ slots \in [SlotIds -> Engines \union {NoEngine}] /\ eng \in [Engines -> InstanceType]
      /\ call \in [Callers -> CallType] /\ ports \in Pins
  BY DEF PoolInv, PoolTypeOK
<1>2. /\ eng' = [e \in Engines |->
           IF e \notin Range(slots) THEN eng[e]
           ELSE IF e \in idle THEN NoInstance ELSE [eng[e] EXCEPT !.retired = TRUE]]
      /\ slots' = [s \in SlotIds |-> IF slots[s] \in idle THEN NoEngine ELSE slots[s]]
      /\ ports' = ports /\ call' = call
  BY DEF Close
<1>3. ASSUME NEW e \in Engines
      PROVE  /\ eng'[e] \in InstanceType
             /\ e \notin Range(slots) => eng'[e] = eng[e]
             /\ e \in Range(slots) /\ e \in idle => eng'[e] = NoInstance
             /\ e \in Range(slots) /\ e \notin idle =>
                  eng'[e].retired /\ eng'[e].refs = eng[e].refs /\ eng'[e].stopped = eng[e].stopped
  <2>1. eng[e] \in InstanceType
    BY <1>1
  <2>2. eng'[e] = IF e \notin Range(slots) THEN eng[e]
                  ELSE IF e \in idle THEN NoInstance ELSE [eng[e] EXCEPT !.retired = TRUE]
    BY <1>2
  <2>3. [eng[e] EXCEPT !.retired = TRUE] \in InstanceType
    BY <2>1 DEF InstanceType
  <2> HIDE DEF idle
  <2>4. eng'[e] \in InstanceType
    BY <2>1, <2>2, <2>3, NoInstanceType
  <2> QED
    BY <2>1, <2>2, <2>4 DEF InstanceType
<1>4. PoolTypeOK'
  <2>1. eng' \in [Engines -> InstanceType]
    BY <1>2, <1>3
  <2>2. slots' \in [SlotIds -> Engines \union {NoEngine}]
    BY <1>1, <1>2
  <2> QED
    BY <1>1, <1>2, <2>1, <2>2 DEF PoolTypeOK
<1>5. \A s \in SlotIds : slots'[s] # NoEngine =>
        /\ slots'[s] = slots[s] /\ slots[s] \in Engines \ idle /\ slots[s] \in Range(slots)
  BY <1>1, <1>2, InRange
<1>6. \A s \in SlotIds : slots[s] \in Engines \ idle => slots'[s] = slots[s]
  BY <1>1, <1>2
<1>7. Mapped'
  BY <1>3, <1>5 DEF PoolInv, Mapped
<1>8. Owned'
  <2> SUFFICES ASSUME NEW e \in Engines, eng'[e] # NoInstance,
                      ~ \E c \in Callers : Private(c) /\ call[c].engine = e
               PROVE  e \in Range(slots')
    BY <1>2 DEF Owned, Private
  <2>1. e \in Range(slots)
    BY <1>3 DEF PoolInv, Owned
  <2>2. e \notin idle
    BY <1>3, <2>1
  <2>3. PICK s \in SlotIds : slots[s] = e
    BY <1>1, <2>1, InRange
  <2>4. slots'[s] = e
    BY <1>6, <2>2, <2>3
  <2> QED
    BY <1>2, <2>4 DEF Range
<1>9. Counted'
  <2>1. NoInstance.refs = 0 /\ ~NoInstance.retired
    BY DEF NoInstance
  <2>2. \A e \in Engines : eng'[e].refs = eng[e].refs
    BY <1>3, <2>1
  <2>3. ASSUME NEW e \in Engines, eng'[e].retired PROVE eng'[e].refs = 1
    <3>1. e \notin idle => eng[e].refs = 1
      BY DEF PoolInv, Counted
    <3>2. eng[e].retired => eng[e].refs = 1
      BY DEF PoolInv, Counted
    <3> QED
      BY <1>3, <2>1, <2>2, <2>3, <3>1, <3>2
  <2> QED
    BY <1>2, <2>2, <2>3 DEF PoolInv, Counted, Testing
<1>10. Held'
  <2> SUFFICES ASSUME NEW c \in Callers
               PROVE  /\ ~Testing(c) /\ ~Private(c) => call[c].engine = NoEngine
                      /\ Testing(c) => /\ call[c].slot \in SlotIds /\ call[c].engine = slots'[call[c].slot]
                                       /\ call[c].engine # NoEngine
                      /\ Private(c) => /\ call[c].engine \in Engines \ Range(slots')
                                       /\ ~eng'[call[c].engine].stopped /\ call[c].todo # <<>>
    BY <1>2 DEF Held, Testing, Private
  <2>1. ~Testing(c) /\ ~Private(c) => call[c].engine = NoEngine
    BY DEF PoolInv, Held
  <2>2. ASSUME Testing(c)
        PROVE  call[c].slot \in SlotIds /\ call[c].engine = slots'[call[c].slot] /\ call[c].engine # NoEngine
    <3>1. call[c].slot \in SlotIds /\ call[c].engine = slots[call[c].slot] /\ call[c].engine # NoEngine
      BY <2>2 DEF PoolInv, Held
    <3>2. call[c].engine \in Engines
      BY <1>1, <3>1
    <3>3. eng[call[c].engine].refs = 1
      BY <2>2, <3>2 DEF PoolInv, Counted
    <3> QED
      BY <1>6, <3>1, <3>2, <3>3
  <2>3. ASSUME Private(c)
        PROVE  call[c].engine \in Engines \ Range(slots') /\ ~eng'[call[c].engine].stopped /\ call[c].todo # <<>>
    <3>1. call[c].engine \in Engines \ Range(slots) /\ ~eng[call[c].engine].stopped /\ call[c].todo # <<>>
      BY <2>3 DEF PoolInv, Held
    <3>2. \A e \in Engines \ Range(slots) : e \notin Range(slots')
      <4>1. ASSUME NEW e \in Engines, e \in Range(slots') PROVE e \in Range(slots)
        <5>1. PICK s \in SlotIds : slots'[s] = e
          BY <1>2, <4>1 DEF Range
        <5> QED
          BY <1>5, <5>1, PoolAssumption
      <4> QED
        BY <4>1
    <3> QED
      BY <1>3, <3>1, <3>2
  <2> QED
    BY <2>1, <2>2, <2>3
<1> QED
  BY <1>4, <1>7, <1>8, <1>9, <1>10 DEF PoolInv

-----------------------------------------------------------------------------
(* Private instances                                                       *)

LEMMA HalvesType ==
  ASSUME NEW J \in SUBSET Keys
  PROVE  Halves(J) \in Seq(SUBSET Keys)
<1> DEFINE mid == Cardinality(J) \div 2
           A == {j \in J : Rank(J, j) < mid}
           B == {j \in J : Rank(J, j) >= mid}
<1>1. A \in SUBSET Keys /\ B \in SUBSET Keys
  OBVIOUS
<1>2. Halves(J) = <<A, B>>
  BY DEF Halves
<1> HIDE DEF A, B
<1> QED
  BY <1>1, <1>2

\* What is left to do after an engine for the first part did not come up.
LEMMA PartsType ==
  ASSUME NEW todo \in Seq(SUBSET Keys), todo # <<>>, NEW b \in BOOLEAN
  PROVE  /\ Head(todo) \in SUBSET Keys /\ Tail(todo) \in Seq(SUBSET Keys)
         /\ (IF b THEN Halves(Head(todo)) ELSE <<>>) \o Tail(todo) \in Seq(SUBSET Keys)
<1>1. Head(todo) \in SUBSET Keys /\ Tail(todo) \in Seq(SUBSET Keys)
  OBVIOUS
<1>2. Halves(Head(todo)) \in Seq(SUBSET Keys)
  BY <1>1, HalvesType
<1>3. (IF b THEN Halves(Head(todo)) ELSE <<>>) \in Seq(SUBSET Keys)
  BY <1>2
<1>4. \A S, T \in Seq(SUBSET Keys) : S \o T \in Seq(SUBSET Keys)
  OBVIOUS
<1> QED
  BY <1>1, <1>3, <1>4, Zenon

\* The two outcomes of a private instance for the jobs J on the ports p, as
\* the caller records them.
Outcome(c, J, p) ==
  /\ call[c].pc = "ephemeral" /\ call[c].todo # <<>> /\ UNCHANGED <<ports, slots>>
  /\ call' \in [Callers -> CallType]
  /\ call'[c].clash <=> call[c].clash \/ Clash(p, eng)
  /\ call'[c].batch = call[c].batch /\ call'[c].slot = call[c].slot
  /\ call'[c].pins = call[c].pins /\ call'[c].passed = call[c].passed
  /\ \/ \E e \in Unused(eng) : \E i \in Started(J, p, eng, 0) :
          /\ eng' = [eng EXCEPT ![e] = i]
          /\ call'[c].pc = "private" /\ call'[c].engine = e
          /\ call'[c].todo = call[c].todo /\ call'[c].fault = call[c].fault
     \/ \E bisect \in BOOLEAN :
          /\ eng' = eng /\ (Cardinality(J) = 1 => ~bisect)
          /\ call'[c].pc = "ephemeral" /\ call'[c].engine = call[c].engine
          /\ call'[c].todo = (IF bisect THEN Halves(J) ELSE <<>>) \o Tail(call[c].todo)
          /\ call'[c].fault <=> call[c].fault \/ ~Rejected(J, p, eng) \/ (Cardinality(J) > 1 /\ ~bisect)

LEMMA EphemeralCall ==
  ASSUME NEW c, Callers = {c}, call \in [Callers -> CallType], RunEphemeral(c)
  PROVE  Outcome(c, Head(call[c].todo), Restricted(call[c].pins, Head(call[c].todo)))
<1> DEFINE J == Head(call[c].todo)
           p == Restricted(call[c].pins, J)
<1>1. call[c].pc = "ephemeral" /\ call[c].todo # <<>> /\ UNCHANGED <<ports, slots>>
  BY DEF RunEphemeral
<1>2. call[c] \in CallType
  OBVIOUS
<1> DEFINE Clashed == call[c].clash \/ Clash(p, eng)
<1>3. Clashed \in BOOLEAN
  OBVIOUS
<1>4. CASE \E e \in Unused(eng) : \E i \in Started(J, p, eng, 0) :
             /\ eng' = [eng EXCEPT ![e] = i]
             /\ call' = [call EXCEPT ![c].pc = "private", ![c].engine = e, ![c].clash = Clashed]
  <2>1. PICK e \in Unused(eng) : \E i \in Started(J, p, eng, 0) :
             /\ eng' = [eng EXCEPT ![e] = i]
             /\ call' = [call EXCEPT ![c].pc = "private", ![c].engine = e, ![c].clash = Clashed]
    BY <1>4
  <2>2. e \in Engines
    BY <2>1 DEF Unused
  <2>3. call' = [call EXCEPT ![c] = [call[c] EXCEPT !.pc = "private", !.engine = e, !.clash = Clashed]]
    BY <2>1, Zenon
  <2> HIDE DEF Clashed
  <2> DEFINE r == [call[c] EXCEPT !.pc = "private", !.engine = e, !.clash = Clashed]
  <2>4. r \in CallType
    <3>1. \A y \in BOOLEAN : [call[c] EXCEPT !.pc = "private", !.engine = e, !.clash = y] \in CallType
      BY <1>2, <2>2 DEF CallType
    <3> QED
      BY <1>3, <3>1, Zenon
  <2>5. /\ r.pc = "private" /\ r.engine = e /\ r.batch = call[c].batch /\ r.slot = call[c].slot
        /\ r.pins = call[c].pins /\ r.passed = call[c].passed /\ r.todo = call[c].todo
    BY <1>2 DEF CallType
  <2>6. r.clash = Clashed /\ r.fault = call[c].fault
    BY <1>2, Zenon DEF CallType
  <2> HIDE DEF r
  <2>7. call' \in [Callers -> CallType] /\ call'[c] = r
    BY <2>3, <2>4 DEF r
  <2>8. call'[c].clash <=> call[c].clash \/ Clash(p, eng)
    BY <2>6, <2>7, Zenon DEF Clashed
  <2>9. call'[c].pc = "private" /\ call'[c].engine = e
    BY <2>5, <2>7
  <2>10. /\ call'[c].batch = call[c].batch /\ call'[c].slot = call[c].slot
         /\ call'[c].pins = call[c].pins /\ call'[c].passed = call[c].passed
         /\ call'[c].todo = call[c].todo
    BY <2>5, <2>7
  <2>11. call'[c].fault = call[c].fault
    BY <2>6, <2>7, Zenon
  <2> QED
    BY <1>1, <2>1, <2>7, <2>8, <2>9, <2>10, <2>11, Zenon DEF Outcome
<1>5. CASE /\ UNCHANGED eng
           /\ \E bisect \in IF Cardinality(J) = 1 THEN {FALSE} ELSE IF Faults THEN BOOLEAN ELSE {TRUE} :
                call' = [call EXCEPT ![c].todo = (IF bisect THEN Halves(J) ELSE <<>>) \o Tail(@),
                                     ![c].fault = @ \/ ~Rejected(J, p, eng) \/ (Cardinality(J) > 1 /\ ~bisect),
                                     ![c].clash = Clashed]
  <2> DEFINE Todo(b) == (IF b THEN Halves(J) ELSE <<>>) \o Tail(call[c].todo)
             Fault(b) == call[c].fault \/ ~Rejected(J, p, eng) \/ (Cardinality(J) > 1 /\ ~b)
  <2>1. PICK b \in IF Cardinality(J) = 1 THEN {FALSE} ELSE IF Faults THEN BOOLEAN ELSE {TRUE} :
             call' = [call EXCEPT ![c].todo = Todo(b), ![c].fault = Fault(b), ![c].clash = Clashed]
    BY <1>5, Zenon
  <2>2. b \in BOOLEAN /\ (Cardinality(J) = 1 => ~b)
    BY <2>1
  <2>3. call' = [call EXCEPT ![c] = [call[c] EXCEPT !.todo = Todo(b), !.fault = Fault(b), !.clash = Clashed]]
    BY <2>1, Zenon
  <2>4. Todo(b) \in Seq(SUBSET Keys)
    <3>1. call[c].todo \in Seq(SUBSET Keys)
      BY <1>2 DEF CallType
    <3> QED
      BY <1>1, <2>2, <3>1, PartsType
  <2>5. Fault(b) \in BOOLEAN
    OBVIOUS
  <2> HIDE DEF Clashed, Todo, Fault
  <2> DEFINE r == [call[c] EXCEPT !.todo = Todo(b), !.fault = Fault(b), !.clash = Clashed]
  <2>6. r \in CallType
    <3>1. \A x \in BOOLEAN, y \in BOOLEAN, t \in Seq(SUBSET Keys) :
            [call[c] EXCEPT !.todo = t, !.fault = x, !.clash = y] \in CallType
      BY <1>2 DEF CallType
    <3> QED
      BY <1>3, <2>4, <2>5, <3>1, Zenon
  <2>7. /\ r.pc = call[c].pc /\ r.engine = call[c].engine /\ r.batch = call[c].batch /\ r.slot = call[c].slot
        /\ r.pins = call[c].pins /\ r.passed = call[c].passed /\ r.todo = Todo(b)
    BY <1>2 DEF CallType
  <2>8. r.clash = Clashed /\ r.fault = Fault(b)
    BY <1>2, Zenon DEF CallType
  <2> HIDE DEF r
  <2>9. call' \in [Callers -> CallType] /\ call'[c] = r
    BY <2>3, <2>6 DEF r
  <2>10. call'[c].clash <=> call[c].clash \/ Clash(p, eng)
    BY <2>8, <2>9, Zenon DEF Clashed
  <2>11. call'[c].fault <=> call[c].fault \/ ~Rejected(J, p, eng) \/ (Cardinality(J) > 1 /\ ~b)
    BY <2>8, <2>9, Zenon DEF Fault
  <2>12. call'[c].todo = (IF b THEN Halves(J) ELSE <<>>) \o Tail(call[c].todo)
    BY <2>7, <2>9, Zenon DEF Todo
  <2>13. /\ call'[c].batch = call[c].batch /\ call'[c].slot = call[c].slot
         /\ call'[c].pins = call[c].pins /\ call'[c].passed = call[c].passed
         /\ call'[c].pc = "ephemeral" /\ call'[c].engine = call[c].engine
    BY <1>1, <2>7, <2>9
  <2> QED
    BY <1>1, <1>5, <2>2, <2>9, <2>10, <2>11, <2>12, <2>13, Zenon DEF Outcome
<1> QED
  BY <1>4, <1>5 DEF RunEphemeral

LEMMA RunEphemeralInv ==
  ASSUME NEW c, Callers = {c}, OneCaller, PoolInv, RunEphemeral(c)
  PROVE  PoolInv'
<1> DEFINE J == Head(call[c].todo)
           p == Restricted(call[c].pins, J)
<1>1. /\ slots \in [SlotIds -> Engines \union {NoEngine}] /\ eng \in [Engines -> InstanceType]
      /\ call \in [Callers -> CallType] /\ ports \in Pins
  BY DEF PoolInv, PoolTypeOK
<1>2. /\ call[c].pc = "ephemeral" /\ call[c].todo # <<>> /\ UNCHANGED <<ports, slots>>
      /\ call' \in [Callers -> CallType]
      /\ \/ \E e \in Unused(eng) : \E i \in Started(J, p, eng, 0) :
              /\ eng' = [eng EXCEPT ![e] = i]
              /\ call'[c].pc = "private" /\ call'[c].engine = e /\ call'[c].todo = call[c].todo
         \/ eng' = eng /\ call'[c].pc = "ephemeral" /\ call'[c].engine = call[c].engine
  <2>1. Outcome(c, J, p)
    BY <1>1, EphemeralCall
  <2> HIDE DEF J, p
  <2> QED
    BY <2>1, Zenon DEF Outcome
<1>3. p \in Pins
  BY <1>1, RestrictedType DEF CallType
<1> HIDE DEF J, p
<1>4. ~Testing(c) /\ ~Private(c)
  BY <1>2 DEF Testing, Private
<1>5. CASE eng' = eng /\ call'[c].pc = "ephemeral" /\ call'[c].engine = call[c].engine
  BY <1>1, <1>2, <1>4, <1>5, OnlyCall DEF Testing, Private
<1>6. ASSUME NEW e \in Unused(eng), NEW i \in Started(J, p, eng, 0), eng' = [eng EXCEPT ![e] = i],
             call'[c].pc = "private", call'[c].engine = e, call'[c].todo = call[c].todo
      PROVE  PoolInv'
  <2>1. e \in Engines /\ eng[e].stopped
    BY DEF Unused
  <2>2. e \notin Range(slots)
    BY <1>1, <2>1, InRange, PoolAssumption DEF PoolInv, Mapped
  <2>3. i \in InstanceType /\ i.refs = 0 /\ ~i.retired /\ ~i.stopped
    <3>1. 0 \in 0 .. Cardinality(Callers)
      BY Alone
    <3>2. \E up \in BOOLEAN :
           /\ i = [pins |-> p, up |-> up, refs |-> 0, retired |-> FALSE, stopped |-> FALSE]
           /\ up \/ p[FirstOf(J)] \in Busy(eng)
      BY StartedIs
    <3> QED
      BY <1>3, <3>1, <3>2 DEF InstanceType
  <2>4. eng' \in [Engines -> InstanceType] /\ eng'[e] = i /\ \A x \in Engines : x # e => eng'[x] = eng[x]
    BY <1>1, <1>6, <2>1, <2>3
  <2>5. PoolTypeOK'
    BY <1>1, <1>2, <2>4 DEF PoolTypeOK
  <2>6. Mapped'
    <3>1. \A s \in SlotIds : slots[s] # NoEngine => slots[s] \in Engines /\ slots[s] # e
      BY <1>1, <2>2, InRange
    <3> QED
      BY <1>2, <2>4, <3>1 DEF PoolInv, Mapped
  <2>7. Owned'
    <3>1. \A x \in Engines : x # e => eng'[x] = NoInstance \/ x \in Range(slots)
      BY <1>4, <2>4 DEF PoolInv, Owned
    <3>2. c \in Callers /\ Private(c)' /\ call'[c].engine = e
      BY <1>6 DEF Private
    <3> QED
      BY <1>2, <3>1, <3>2 DEF Owned
  <2>8. Counted'
    <3>1. \A x \in Engines : eng'[x].refs = 0 /\ ~eng'[x].retired
      BY <1>4, <2>3, <2>4, AllIdle
    <3> QED
      BY <1>6, <3>1 DEF Counted, Testing
  <2>9. Held'
    <3>1. ~Testing(c)' /\ Private(c)'
      BY <1>6 DEF Testing, Private
    <3> QED
      BY <1>2, <1>6, <2>1, <2>2, <2>3, <2>4, <3>1 DEF Held
  <2> QED
    BY <2>5, <2>6, <2>7, <2>8, <2>9 DEF PoolInv
<1> QED
  BY <1>2, <1>5, <1>6

\* The caller's record after the tests of a private instance.
LEMMA TestEphemeralCall ==
  ASSUME NEW c, Callers = {c}, call \in [Callers -> CallType], TestEphemeral(c), call[c].todo # <<>>,
         NEW J, J = Head(call[c].todo), NEW p, p = Restricted(call[c].pins, J)
  PROVE  /\ call[c].pc = "private" /\ UNCHANGED <<ports, slots>> /\ eng' = Torn(eng, call[c].engine)
         /\ call' \in [Callers -> CallType]
         /\ call'[c].pc = "ephemeral" /\ call'[c].engine = NoEngine /\ call'[c].todo = Tail(call[c].todo)
         /\ call'[c].passed = call[c].passed \union Served(p, J)
         /\ call'[c].batch = call[c].batch /\ call'[c].slot = call[c].slot /\ call'[c].pins = call[c].pins
         /\ call'[c].fault = call[c].fault /\ call'[c].clash = call[c].clash
<1>1. call[c] \in CallType
  OBVIOUS
<1>2. /\ call[c].pc = "private" /\ UNCHANGED <<ports, slots>> /\ eng' = Torn(eng, call[c].engine)
      /\ call' = [call EXCEPT ![c].pc = "ephemeral", ![c].engine = NoEngine, ![c].todo = Tail(@),
                              ![c].passed = @ \union Served(p, J)]
  BY DEF TestEphemeral
<1>3. J \in SUBSET Keys /\ Tail(call[c].todo) \in Seq(SUBSET Keys)
  BY <1>1, PartsType DEF CallType
<1>4. call[c].passed \union Served(p, J) \in SUBSET Keys
  BY <1>1, <1>3 DEF Served, CallType
<1> DEFINE r == [call[c] EXCEPT !.pc = "ephemeral", !.engine = NoEngine, !.todo = Tail(@),
                                !.passed = @ \union Served(p, J)]
<1>5. call' = [call EXCEPT ![c] = r]
  BY <1>2, Zenon
<1>6. r \in CallType
  BY <1>1, <1>3, <1>4 DEF CallType
<1>7. /\ r.pc = "ephemeral" /\ r.engine = NoEngine /\ r.todo = Tail(call[c].todo)
      /\ r.passed = call[c].passed \union Served(p, J)
      /\ r.batch = call[c].batch /\ r.slot = call[c].slot /\ r.pins = call[c].pins
      /\ r.fault = call[c].fault /\ r.clash = call[c].clash
  BY <1>1 DEF CallType
<1> HIDE DEF r
<1>8. call' \in [Callers -> CallType] /\ call'[c] = r
  BY <1>5, <1>6
<1> QED
  BY <1>2, <1>7, <1>8

LEMMA TestEphemeralInv ==
  ASSUME NEW c, Callers = {c}, OneCaller, PoolInv, TestEphemeral(c)
  PROVE  PoolInv'
<1> DEFINE e == call[c].engine
<1>1. /\ slots \in [SlotIds -> Engines \union {NoEngine}] /\ eng \in [Engines -> InstanceType]
      /\ call \in [Callers -> CallType] /\ ports \in Pins
  BY DEF PoolInv, PoolTypeOK
<1>2. Private(c) /\ ~Testing(c)
  BY DEF TestEphemeral, Private, Testing
<1>3. e \in Engines \ Range(slots) /\ call[c].todo # <<>>
  BY <1>2 DEF PoolInv, Held
<1>4. /\ UNCHANGED <<ports, slots>> /\ eng' = [eng EXCEPT ![e] = NoInstance]
      /\ call' \in [Callers -> CallType] /\ call'[c].pc = "ephemeral" /\ call'[c].engine = NoEngine
  BY <1>1, <1>3, TestEphemeralCall DEF Torn
<1> HIDE DEF e
<1>5. eng' \in [Engines -> InstanceType] /\ eng'[e] = NoInstance /\ \A x \in Engines : x # e => eng'[x] = eng[x]
  BY <1>1, <1>3, <1>4, NoInstanceType
<1>6. PoolTypeOK'
  BY <1>1, <1>4, <1>5 DEF PoolTypeOK
<1>7. Mapped'
  <2>1. \A s \in SlotIds : slots[s] # NoEngine => slots[s] \in Engines /\ slots[s] # e
    BY <1>1, <1>3, InRange
  <2> QED
    BY <1>4, <1>5, <2>1 DEF PoolInv, Mapped
<1>8. Owned'
  <2>1. \A x \in Engines : x # e => eng[x] = NoInstance \/ x \in Range(slots)
    BY DEF PoolInv, Owned, e
  <2> QED
    BY <1>4, <1>5, <2>1 DEF Owned
<1>9. Counted'
  <2>1. NoInstance.refs = 0 /\ ~NoInstance.retired
    BY DEF NoInstance
  <2>2. \A x \in Engines : eng[x].refs = 0 /\ ~eng[x].retired
    BY <1>2 DEF PoolInv, Counted
  <2> QED
    BY <1>4, <1>5, <2>1, <2>2 DEF Counted, Testing
<1>10. Held'
  BY <1>4 DEF Held, Testing, Private
<1> QED
  BY <1>6, <1>7, <1>8, <1>9, <1>10 DEF PoolInv

LEMMA PoolStep == ASSUME OneCaller PROVE PoolInv /\ [PoolNext]_poolVars => PoolInv'
<1> SUFFICES ASSUME PoolInv, [PoolNext]_poolVars PROVE PoolInv'
  OBVIOUS
<1>1. ASSUME NEW c \in Callers, NEW J \in SUBSET Keys,
             \/ CheckBatch(c, J) \/ AllocateFails(c) \/ TestJobs(c) \/ CheckBatchReturns(c)
             \/ RunBisected(c) \/ EphemeralDone(c)
      PROVE  PoolInv'
  BY <1>1, Alone, CallSteps
<1>2. ASSUME NEW c \in Callers, RunSlot(c) \/ ReleaseSlot(c) \/ RunEphemeral(c) \/ TestEphemeral(c)
      PROVE  PoolInv'
  BY <1>2, Alone, RunSlotInv, ReleaseInv, RunEphemeralInv, TestEphemeralInv
<1>3. ASSUME NEW e \in Engines, EngineDies(e) PROVE PoolInv'
  <2>1. CASE Callers = {}
    <3>1. /\ slots \in [SlotIds -> Engines \union {NoEngine}] /\ eng \in [Engines -> InstanceType]
          /\ ports \in Pins
      BY DEF PoolInv, PoolTypeOK
    <3>2. /\ eng' = [eng EXCEPT ![e].up = FALSE] /\ slots' = slots /\ ports' = ports /\ eng[e].up
          /\ call' \in [Callers -> CallType]
      BY <1>3, <2>1 DEF EngineDies
    <3>3. eng' \in [Engines -> InstanceType]
      <4>1. [eng[e] EXCEPT !.up = FALSE] \in InstanceType
        BY <3>1 DEF InstanceType
      <4> QED
        BY <3>1, <3>2, <4>1
    <3>4. \A x \in Engines : /\ eng'[x].refs = eng[x].refs /\ eng'[x].retired = eng[x].retired
                             /\ eng'[x].stopped = eng[x].stopped /\ (x # e => eng'[x] = eng[x])
      BY <3>1, <3>2 DEF InstanceType
    <3>5. eng[e] # NoInstance
      BY <3>2 DEF NoInstance
    <3>6. PoolTypeOK'
      BY <3>1, <3>2, <3>3 DEF PoolTypeOK
    <3>7. Mapped'
      BY <3>1, <3>2, <3>4 DEF PoolInv, Mapped
    <3>8. Owned'
      BY <2>1, <3>2, <3>4, <3>5 DEF PoolInv, Owned
    <3>9. Counted'
      BY <2>1, <3>4 DEF PoolInv, Counted
    <3>10. Held'
      BY <2>1 DEF Held
    <3> QED
      BY <3>6, <3>7, <3>8, <3>9, <3>10 DEF PoolInv
  <2>2. CASE Callers # {}
    BY <1>3, <2>2, Alone, EngineDiesInv
  <2> QED
    BY <2>1, <2>2
<1>4. CASE UNCHANGED poolVars
  BY <1>4 DEF poolVars, PoolInv, PoolTypeOK, Mapped, Owned, Counted, Held, Testing, Private
<1>5. CASE Close
  BY <1>5, CloseInv
<1> QED
  BY <1>1, <1>2, <1>3, <1>4, <1>5 DEF PoolNext

LEMMA PoolInvariant == ASSUME OneCaller PROVE PoolSpec => []PoolInv
BY PoolInitInv, PoolStep, PTL DEF PoolSpec

\* The maps of the pool keep their shape, and an instance counts as many
\* testers as there are callers at most: releaseSlot undoes what runSlot did.
THEOREM PoolTypeCorrect == ASSUME OneCaller PROVE PoolSpec => []PoolTypeOK
<1>1. PoolInv => PoolTypeOK
  BY DEF PoolInv
<1> QED
  BY <1>1, PoolInvariant, PTL

\* No engine process outlives its place in c.slots, whatever Close, a failing
\* build or an exit of the process itself comes in between.
THEOREM NoEngineOrphaned == ASSUME OneCaller PROVE PoolSpec => []NoOrphan
<1>1. PoolInv => NoOrphan
  <2> SUFFICES ASSUME PoolInv, NEW e \in Engines, eng[e].up
               PROVE  e \in Range(slots) \/ \E c \in Callers : call[c].pc = "private" /\ call[c].engine = e
    BY DEF NoOrphan
  <2>1. eng[e] # NoInstance
    BY DEF NoInstance
  <2> QED
    BY <2>1 DEF PoolInv, Owned, Private
<1> QED
  BY <1>1, PoolInvariant, PTL

-----------------------------------------------------------------------------
(* The pool: what is left to do of a batch                                 *)

\* The jobs of chunk s and of the chunks after it.
From(J, s) == {j \in J : Rank(J, j) \div MaxJobs >= s}

\* The jobs of a list of sets of jobs.
Parts(todo) == UNION {todo[i] : i \in 1 .. Len(todo)}

Spoiled(c) == call[c].fault \/ call[c].clash

\* Jobs the call has still to test.
Left(c) ==
  IF call[c].pc = "idle" THEN {}
  ELSE IF call[c].pc \in {"slot", "test", "bisect"} THEN From(call[c].batch, call[c].slot)
  ELSE IF call[c].pc = "release" THEN From(call[c].batch, call[c].slot + 1)
  ELSE Parts(call[c].todo) \union From(call[c].batch, call[c].slot + 1)

\* BisectionIsolates, while the call is under way.
Accounted(c) == Spoiled(c) \/ call[c].batch \ Bad \subseteq call[c].passed \union Left(c)

\* An engine under test serves the jobs it is tested for, on their ports.
Ready(c) ==
  /\ call[c].pc \in {"test", "ephemeral", "private"} => \A j \in ChunkOf(c) : call[c].pins[j] # NoPort
  /\ call[c].pc \in {"ephemeral", "private"} => Parts(call[c].todo) \subseteq ChunkOf(c)
  /\ call[c].pc = "test" =>
       Spoiled(c) \/ (eng[call[c].engine].up /\ eng[call[c].engine].pins = call[c].pins)
  /\ Private(c) =>
       \/ Spoiled(c) \/ Head(call[c].todo) = {}
       \/ /\ eng[call[c].engine].up
          /\ eng[call[c].engine].pins = Restricted(call[c].pins, Head(call[c].todo))

ServedInv == PoolInv /\ \A c \in Callers : Accounted(c) /\ Ready(c)

LEMMA ChunkType ==
  ASSUME NEW J \in SUBSET Keys, NEW s
  PROVE  Chunk(J, s) \in SUBSET J
BY DEF Chunk

LEMMA RankNat ==
  ASSUME NEW J \in SUBSET Keys, NEW j \in J
  PROVE  Rank(J, j) \in Nat
<1>1. Rank(J, j) \in 0 .. Cardinality(Keys) - 1
  BY RankType, Zenon
<1> QED
  BY <1>1

\* Chunk s, then the chunks after it.
LEMMA FromSplit ==
  ASSUME NEW J \in SUBSET Keys, NEW s \in Nat
  PROVE  From(J, s) = Chunk(J, s) \union From(J, s + 1) /\ From(J, 0) = J
<1>1. \A j \in J : Rank(J, j) \div MaxJobs \in Nat
  <2> SUFFICES ASSUME NEW j \in J PROVE Rank(J, j) \div MaxJobs \in Nat
    OBVIOUS
  <2>1. Rank(J, j) \in Nat
    BY RankNat
  <2> QED
    BY <2>1, Quotient
<1> QED
  BY <1>1 DEF From, Chunk

\* A nonempty set of naturals below a bound has a greatest element.
LEMMA GreatestBelow ==
  ASSUME NEW S \in SUBSET Nat, S # {}, NEW k \in Nat, \A x \in S : x < k
  PROVE  \E m \in S : \A x \in S : x <= m
<1> DEFINE D == {k - x : x \in S}
<1>1. D \in SUBSET Nat /\ D # {}
  <2>1. \A x \in S : k - x \in Nat
    <3> SUFFICES ASSUME NEW x \in S PROVE k - x \in Nat
      OBVIOUS
    <3>1. x \in Nat /\ x < k
      OBVIOUS
    <3> QED
      BY <3>1
  <2> QED
    BY <2>1
<1>2. PICK d \in D : \A y \in D : d <= y
  BY <1>1, LeastIn
<1>3. PICK m \in S : d = k - m
  BY <1>2
<1>4. \A x \in S : k - m <= k - x
  BY <1>2, <1>3
<1> QED
  BY <1>3, <1>4

\* Quotients that differ by one or more.
LEMMA QuotientStep ==
  ASSUME NEW r \in Nat, NEW s \in Nat, r \div MaxJobs >= s + 1
  PROVE  r >= 1 /\ (r - 1) \div MaxJobs >= s
<1> DEFINE a == r \div MaxJobs
           b == (r - 1) \div MaxJobs
<1>1. MaxJobs \in Nat \ {0}
  BY PoolAssumption
<1>2. a \in Nat /\ MaxJobs * a <= r /\ a >= s + 1
  BY Quotient
<1> HIDE DEF a
<1>3. MaxJobs * a >= MaxJobs * s + MaxJobs
  BY <1>1, <1>2
<1>4. MaxJobs * s \in Nat
  BY <1>1
<1>5. r >= 1 /\ r - 1 \in Nat /\ r - 1 >= MaxJobs * s
  BY <1>1, <1>2, <1>3, <1>4
<1>6. b \in Nat /\ r - 1 < MaxJobs * b + MaxJobs
  BY <1>5, Quotient
<1> HIDE DEF b
<1>7. SUFFICES ASSUME b + 1 <= s PROVE FALSE
  BY <1>5, <1>6 DEF b
<1>8. MaxJobs * b + MaxJobs <= MaxJobs * s
  BY <1>1, <1>6, <1>7
<1> QED
  BY <1>1, <1>4, <1>5, <1>6, <1>8

\* Chunks have no gaps: the first one that is empty ends the batch.
LEMMA ChunksContiguous ==
  ASSUME NEW J \in SUBSET Keys, NEW s \in Nat, Chunk(J, s) = {}
  PROVE  From(J, s) = {}
<1> SUFFICES ASSUME From(J, s) # {} PROVE FALSE
  OBVIOUS
<1>1. J \in SUBSET Nat
  BY PoolAssumption
<1>2. PICK k \in From(J, s) : \A x \in From(J, s) : k <= x
  <2>1. From(J, s) \in SUBSET Nat
    BY <1>1 DEF From
  <2> QED
    BY <2>1, LeastIn
<1>3. k \in J /\ k \in Nat /\ Rank(J, k) \div MaxJobs >= s
  BY <1>1, <1>2 DEF From
<1> DEFINE B == {x \in J : x < k}
           r == Rank(J, k)
<1>4. IsFiniteSet(B) /\ r = Cardinality(B) /\ r \in Nat
  <2>1. IsFiniteSet(B)
    BY <1>3, RankType
  <2> QED
    BY <2>1, FS_CardinalityType DEF Rank
<1>5. r \div MaxJobs >= s + 1
  <2>1. r \div MaxJobs # s
    BY <1>3 DEF Chunk
  <2>2. r \div MaxJobs \in Nat
    BY <1>4, Quotient
  <2> QED
    BY <1>3, <2>1, <2>2
<1>6. r >= 1 /\ (r - 1) \div MaxJobs >= s
  BY <1>4, <1>5, QuotientStep
<1>7. B # {}
  BY <1>4, <1>6, FS_EmptySet
<1>8. PICK m \in B : \A x \in B : x <= m
  <2>1. B \in SUBSET Nat /\ \A x \in B : x < k
    BY <1>1
  <2> HIDE DEF B
  <2> QED
    BY <1>3, <1>7, <2>1, GreatestBelow
<1>9. {x \in J : x < m} = B \ {m}
  <2>1. m \in J /\ m \in Nat /\ m < k
    BY <1>1, <1>8
  <2>2. \A x \in J : x < m <=> x < k /\ x # m
    <3> SUFFICES ASSUME NEW x \in J PROVE x < m <=> x < k /\ x # m
      OBVIOUS
    <3>1. x \in Nat /\ (x < k => x <= m)
      BY <1>1, <1>8
    <3> QED
      BY <1>3, <2>1, <3>1
  <2> QED
    BY <2>2
<1>10. Rank(J, m) = r - 1
  <2>1. Cardinality(B \ {m}) = Cardinality(B) - 1
    BY <1>4, <1>8, FS_RemoveElement
  <2> QED
    BY <1>4, <1>9, <2>1 DEF Rank
<1>11. m \in From(J, s)
  BY <1>6, <1>8, <1>10 DEF From
<1> QED
  BY <1>1, <1>2, <1>3, <1>8, <1>11

-----------------------------------------------------------------------------
(* Lists of jobs to bisect                                                 *)

LEMMA PartsOfOne ==
  ASSUME NEW J \in SUBSET Keys
  PROVE  Parts(<<J>>) = J /\ Parts(<<>>) = {}
<1>1. Len(<<J>>) = 1 /\ <<J>>[1] = J /\ Len(<<>>) = 0
  OBVIOUS
<1>2. 1 .. 1 = {1} /\ 1 .. 0 = {}
  OBVIOUS
<1> QED
  BY <1>1, <1>2 DEF Parts

LEMMA PartsSplit ==
  ASSUME NEW todo \in Seq(SUBSET Keys), todo # <<>>
  PROVE  Parts(todo) = Head(todo) \union Parts(Tail(todo))
<1>1. Len(todo) \in Nat /\ Len(todo) >= 1 /\ Len(Tail(todo)) = Len(todo) - 1 /\ Head(todo) = todo[1]
  OBVIOUS
<1>2. \A i \in 1 .. Len(todo) - 1 : Tail(todo)[i] = todo[i + 1]
  OBVIOUS
<1>3. \A x : x \in Parts(todo) <=> \E i \in 1 .. Len(todo) : x \in todo[i]
  BY DEF Parts
<1>4. \A x : x \in Parts(Tail(todo)) <=> \E i \in 1 .. Len(todo) - 1 : x \in todo[i + 1]
  BY <1>1, <1>2 DEF Parts
<1>5. ASSUME NEW x, x \in Parts(todo) PROVE x \in Head(todo) \union Parts(Tail(todo))
  <2>1. PICK i \in 1 .. Len(todo) : x \in todo[i]
    BY <1>3, <1>5
  <2>2. CASE i = 1
    BY <1>1, <2>1, <2>2
  <2>3. CASE i # 1
    <3>1. i - 1 \in 1 .. Len(todo) - 1 /\ x \in todo[(i - 1) + 1]
      BY <1>1, <2>1, <2>3
    <3> QED
      BY <1>4, <3>1
  <2> QED
    BY <2>2, <2>3
<1>6. ASSUME NEW x, x \in Head(todo) \union Parts(Tail(todo)) PROVE x \in Parts(todo)
  <2>1. CASE x \in Head(todo)
    BY <1>1, <1>3, <2>1
  <2>2. CASE x \in Parts(Tail(todo))
    <3>1. PICK i \in 1 .. Len(todo) - 1 : x \in todo[i + 1]
      BY <1>4, <2>2
    <3>2. i + 1 \in 1 .. Len(todo)
      BY <1>1, <3>1
    <3> QED
      BY <1>3, <3>1, <3>2
  <2> QED
    BY <1>6, <2>1, <2>2
<1> QED
  BY <1>5, <1>6

LEMMA PartsAppend ==
  ASSUME NEW S \in Seq(SUBSET Keys), NEW T \in Seq(SUBSET Keys)
  PROVE  Parts(S \o T) = Parts(S) \union Parts(T)
<1>1. Len(S) \in Nat /\ Len(T) \in Nat /\ Len(S \o T) = Len(S) + Len(T)
  OBVIOUS
<1>2. \A i \in 1 .. Len(S) + Len(T) : (S \o T)[i] = IF i <= Len(S) THEN S[i] ELSE T[i - Len(S)]
  OBVIOUS
<1>3. \A x : x \in Parts(S \o T) <=> \E i \in 1 .. Len(S) + Len(T) : x \in (S \o T)[i]
  BY <1>1 DEF Parts
<1>4. \A x : x \in Parts(S) <=> \E i \in 1 .. Len(S) : x \in S[i]
  BY DEF Parts
<1>5. \A x : x \in Parts(T) <=> \E i \in 1 .. Len(T) : x \in T[i]
  BY DEF Parts
<1>6. ASSUME NEW x, x \in Parts(S \o T) PROVE x \in Parts(S) \union Parts(T)
  <2>1. PICK i \in 1 .. Len(S) + Len(T) : x \in (S \o T)[i]
    BY <1>3, <1>6
  <2>2. CASE i <= Len(S)
    BY <1>1, <1>2, <1>4, <2>1, <2>2
  <2>3. CASE ~ (i <= Len(S))
    <3>1. i - Len(S) \in 1 .. Len(T) /\ x \in T[i - Len(S)]
      BY <1>1, <1>2, <2>1, <2>3
    <3> QED
      BY <1>5, <3>1
  <2> QED
    BY <2>2, <2>3
<1>7. ASSUME NEW x, x \in Parts(S) PROVE x \in Parts(S \o T)
  <2>1. PICK i \in 1 .. Len(S) : x \in S[i]
    BY <1>4, <1>7
  <2>2. i \in 1 .. Len(S) + Len(T) /\ x \in (S \o T)[i]
    BY <1>1, <1>2, <2>1
  <2> QED
    BY <1>3, <2>2
<1>8. ASSUME NEW x, x \in Parts(T) PROVE x \in Parts(S \o T)
  <2>1. PICK i \in 1 .. Len(T) : x \in T[i]
    BY <1>5, <1>8
  <2>2. i + Len(S) \in 1 .. Len(S) + Len(T) /\ ~ (i + Len(S) <= Len(S)) /\ (i + Len(S)) - Len(S) = i
    BY <1>1, <2>1
  <2>3. x \in (S \o T)[i + Len(S)]
    BY <1>2, <2>1, <2>2
  <2> QED
    BY <1>3, <2>2, <2>3
<1> QED
  BY <1>6, <1>7, <1>8

\* The halves lose no job.
LEMMA PartsOfHalves ==
  ASSUME NEW J \in SUBSET Keys
  PROVE  Parts(Halves(J)) = J
<1> DEFINE mid == Cardinality(J) \div 2
           A == {j \in J : Rank(J, j) < mid}
           B == {j \in J : Rank(J, j) >= mid}
<1>1. IsFiniteSet(J) /\ Cardinality(J) \in Nat
  BY PoolAssumption, FS_Subset, FS_CardinalityType
<1>2. mid \in Nat
  BY <1>1
<1>3. \A j \in J : Rank(J, j) \in Nat
  BY RankNat
<1> HIDE DEF mid
<1>4. A \union B = J
  BY <1>2, <1>3
<1>5. Halves(J) = <<A, B>>
  BY DEF Halves, mid
<1> HIDE DEF A, B
<1>6. Len(<<A, B>>) = 2 /\ <<A, B>>[1] = A /\ <<A, B>>[2] = B
  OBVIOUS
<1>7. 1 .. 2 = {1, 2}
  OBVIOUS
<1>8. Parts(<<A, B>>) = A \union B
  BY <1>6, <1>7 DEF Parts
<1> QED
  BY <1>4, <1>5, <1>8

-----------------------------------------------------------------------------
(* Jobs and ports of one instance                                          *)

\* A rejected instance of one job, with no clash, names the culprit.
LEMMA Culprit ==
  ASSUME NEW J \in SUBSET Keys, NEW p, NEW E, Rejected(J, p, E), ~Clash(p, E), ~ (Cardinality(J) > 1)
  PROVE  J \subseteq Bad
<1>1. IsFiniteSet(J) /\ Cardinality(J) \in Nat
  BY PoolAssumption, FS_Subset, FS_CardinalityType
<1>2. J \intersect Bad # {}
  BY DEF Rejected
<1>3. Cardinality(J) # 0
  BY <1>1, <1>2, FS_EmptySet
<1>4. Cardinality(J) = 1
  BY <1>1, <1>3
<1>5. PICK x : J = {x}
  BY <1>1, <1>4, FS_Singleton
<1> QED
  BY <1>2, <1>5

\* Where the dial of a started instance is answered by another process, that
\* process holds a port of the instance.
LEMMA StartedUp ==
  ASSUME NEW J \in SUBSET Keys, J # {}, NEW p \in Pins, NEW E, NEW n, NEW i \in Started(J, p, E, n)
  PROVE  i.pins = p /\ (i.up \/ Clash(p, E))
<1>1. PICK up \in BOOLEAN :
        /\ i = [pins |-> p, up |-> up, refs |-> n, retired |-> FALSE, stopped |-> FALSE]
        /\ up \/ p[FirstOf(J)] \in Busy(E)
  BY StartedIs
<1>2. ASSUME p[FirstOf(J)] \in Busy(E) PROVE Clash(p, E)
  <2>1. FirstOf(J) \in J
    <3>1. \E m \in J : \A s \in J : m <= s
      BY LeastIn, PoolAssumption
    <3> QED
      BY <3>1 DEF FirstOf
  <2>2. p[FirstOf(J)] \in Range(p)
    BY <2>1 DEF Range, Pins
  <2>3. p[FirstOf(J)] # NoPort
    BY <1>2 DEF Busy, Pinned
  <2> QED
    BY <1>2, <2>2, <2>3 DEF Clash, Pinned
<1> QED
  BY <1>1, <1>2

\* Every job of the chunk has a port.
LEMMA ChunkPinned ==
  ASSUME NEW J \in SUBSET Keys, NEW f, f \in [Unpinned(J) -> Ports], NEW j \in J
  PROVE  Restricted(Pin(f), J)[j] # NoPort
<1>1. j \in Keys
  OBVIOUS
<1>2. Restricted(Pin(f), J)[j] = Pin(f)[j]
  BY <1>1 DEF Restricted
<1>3. Pin(f)[j] = IF j \in Unpinned(J) THEN f[j] ELSE ports[j]
  BY <1>1 DEF Pin
<1>4. j \in Unpinned(J) => f[j] # NoPort
  BY PoolAssumption
<1>5. j \notin Unpinned(J) => ports[j] # NoPort
  BY DEF Unpinned
<1> QED
  BY <1>2, <1>3, <1>4, <1>5

-----------------------------------------------------------------------------
(* The pool: good jobs are served                                          *)

\* A step that accounts for the jobs it takes off the list.
LEMMA KeepsAccount ==
  ASSUME NEW c, Accounted(c), call'[c].batch = call[c].batch, Spoiled(c) => Spoiled(c)',
         call[c].passed \subseteq call'[c].passed,
         Spoiled(c)' \/ Left(c) \ Bad \subseteq call'[c].passed \union Left(c)'
  PROVE  Accounted(c)'
<1>1. CASE Spoiled(c)'
  BY <1>1, Zenon DEF Accounted
<1>2. CASE ~Spoiled(c)'
  <2>1. call[c].batch \ Bad \subseteq call[c].passed \union Left(c)
    BY <1>2, Zenon DEF Accounted
  <2>2. call'[c].batch \ Bad \subseteq call'[c].passed \union Left(c)'
    BY <1>2, <2>1
  <2> QED
    BY <2>2, Zenon DEF Accounted
<1> QED
  BY <1>1, <1>2

LEMMA NothingToBeReady ==
  ASSUME NEW c, call'[c].pc \notin {"test", "ephemeral", "private"}
  PROVE  Ready(c)'
BY DEF Ready, Private

LEMMA CheckBatchServes ==
  ASSUME NEW c, Callers = {c}, call \in [Callers -> CallType], NEW J \in SUBSET Keys, CheckBatch(c, J)
  PROVE  Accounted(c)' /\ Ready(c)'
<1>1. call'[c] = [NoCall EXCEPT !.pc = "slot", !.batch = J]
  BY DEF CheckBatch
<1>2. call'[c].pc = "slot" /\ call'[c].batch = J /\ call'[c].slot = 0
  BY <1>1 DEF NoCall
<1>3. Left(c)' = From(J, 0)
  BY <1>2 DEF Left
<1>4. Left(c)' = J
  BY <1>3, FromSplit
<1>5. call'[c].batch \ Bad \subseteq call'[c].passed \union Left(c)'
  BY <1>2, <1>4
<1> QED
  BY <1>2, <1>5, NothingToBeReady DEF Accounted

\* A chunk given up: a fault, or nothing but bad jobs.
LEMMA AllocateFailsServes ==
  ASSUME NEW c, Callers = {c}, call \in [Callers -> CallType], AllocateFails(c)
  PROVE  Accounted(c)' /\ Ready(c)'
<1>1. call' = [call EXCEPT ![c].slot = @ + 1, ![c].fault = TRUE] /\ call[c].pc = "slot"
  BY DEF AllocateFails
<1>2. call'[c].pc = "slot"
  BY <1>1 DEF CallType
<1>3. call'[c].fault = TRUE
  BY <1>1 DEF CallType
<1>4. Spoiled(c)'
  BY <1>3, Zenon DEF Spoiled
<1> QED
  BY <1>2, <1>4, NothingToBeReady DEF Accounted

LEMMA TestJobsServes ==
  ASSUME NEW c, Callers = {c}, PoolInv, Accounted(c), Ready(c), TestJobs(c)
  PROVE  Accounted(c)' /\ Ready(c)'
<1>1. call \in [Callers -> CallType] /\ call[c] \in CallType /\ slots \in [SlotIds -> Engines \union {NoEngine}]
  BY DEF PoolInv, PoolTypeOK
<1>2. /\ call[c].pc = "test" /\ eng' = eng
      /\ call' = [call EXCEPT ![c].pc = "release", ![c].passed = @ \union Served(call[c].pins, ChunkOf(c))]
  BY DEF TestJobs
<1>3. /\ call'[c].pc = "release" /\ call'[c].batch = call[c].batch /\ call'[c].slot = call[c].slot
      /\ call'[c].passed = call[c].passed \union Served(call[c].pins, ChunkOf(c))
      /\ call'[c].fault = call[c].fault /\ call'[c].clash = call[c].clash
  BY <1>1, <1>2 DEF CallType
<1>4. Spoiled(c)' <=> Spoiled(c)
  BY <1>3, Zenon DEF Spoiled
<1>5. Spoiled(c) \/ ChunkOf(c) \subseteq Served(call[c].pins, ChunkOf(c))
  <2>1. call[c].engine \in Engines
    BY <1>1, <1>2 DEF PoolInv, Held, Testing
  <2>2. \A j \in ChunkOf(c) : call[c].pins[j] # NoPort
    BY <1>2 DEF Ready
  <2>3. Spoiled(c) \/ (eng[call[c].engine].up /\ eng[call[c].engine].pins = call[c].pins)
    BY <1>2, Zenon DEF Ready
  <2> QED
    BY <2>1, <2>2, <2>3 DEF Served
<1>6. Left(c) = ChunkOf(c) \union Left(c)'
  <2>1. Left(c) = From(call[c].batch, call[c].slot) /\ Left(c)' = From(call[c].batch, call[c].slot + 1)
    BY <1>2, <1>3 DEF Left
  <2>2. call[c].batch \in SUBSET Keys /\ call[c].slot \in Nat
    BY <1>1 DEF CallType
  <2> QED
    BY <2>1, <2>2, FromSplit DEF ChunkOf
<1>7. Spoiled(c)' \/ Left(c) \ Bad \subseteq call'[c].passed \union Left(c)'
  BY <1>3, <1>4, <1>5, <1>6
<1>8. Accounted(c)'
  BY <1>3, <1>4, <1>7, KeepsAccount
<1> QED
  BY <1>3, <1>8, NothingToBeReady

\* The end of a chunk.
LEMMA ReleaseServes ==
  ASSUME NEW c, Callers = {c}, PoolInv, Accounted(c), ReleaseSlot(c) \/ EphemeralDone(c)
  PROVE  Accounted(c)' /\ Ready(c)'
<1>1. call \in [Callers -> CallType] /\ call[c] \in CallType
  BY DEF PoolInv, PoolTypeOK
<1>2. /\ call'[c].pc = "slot" /\ call'[c].batch = call[c].batch /\ call'[c].slot = call[c].slot + 1
      /\ call'[c].passed = call[c].passed
      /\ call'[c].fault = call[c].fault /\ call'[c].clash = call[c].clash
  BY <1>1 DEF ReleaseSlot, EphemeralDone, CallType
<1>3. Spoiled(c)' <=> Spoiled(c)
  BY <1>2, Zenon DEF Spoiled
<1>4. Left(c) \subseteq Left(c)'
  <2>1. Left(c)' = From(call[c].batch, call[c].slot + 1)
    BY <1>2 DEF Left
  <2>2. CASE ReleaseSlot(c)
    BY <2>1, <2>2 DEF Left, ReleaseSlot
  <2>3. CASE EphemeralDone(c)
    <3>1. Left(c) = Parts(<<>>) \union From(call[c].batch, call[c].slot + 1)
      BY <2>3 DEF Left, EphemeralDone
    <3> QED
      BY <2>1, <3>1, PartsOfOne
  <2> QED
    BY <2>2, <2>3
<1>5. Accounted(c)'
  BY <1>2, <1>3, <1>4, KeepsAccount
<1> QED
  BY <1>2, <1>5, NothingToBeReady

LEMMA ReturnsServes ==
  ASSUME NEW c, Callers = {c}, PoolInv, Accounted(c), CheckBatchReturns(c)
  PROVE  Accounted(c)' /\ Ready(c)'
<1>1. call \in [Callers -> CallType] /\ call[c] \in CallType
  BY DEF PoolInv, PoolTypeOK
<1>2. /\ call'[c].pc = "idle" /\ call'[c].batch = call[c].batch /\ call'[c].passed = call[c].passed
      /\ call'[c].fault = call[c].fault /\ call'[c].clash = call[c].clash
  BY <1>1 DEF CheckBatchReturns, CallType
<1>3. Spoiled(c)' <=> Spoiled(c)
  BY <1>2, Zenon DEF Spoiled
<1>4. Left(c) = {}
  <2>1. Left(c) = From(call[c].batch, call[c].slot) /\ Chunk(call[c].batch, call[c].slot) = {}
    BY DEF Left, CheckBatchReturns, ChunkOf
  <2>2. call[c].batch \in SUBSET Keys /\ call[c].slot \in Nat
    BY <1>1 DEF CallType
  <2> QED
    BY <2>1, <2>2, ChunksContiguous
<1>5. Accounted(c)'
  BY <1>2, <1>3, <1>4, KeepsAccount
<1> QED
  BY <1>2, <1>5, NothingToBeReady

LEMMA BisectedServes ==
  ASSUME NEW c, Callers = {c}, PoolInv, Accounted(c), RunBisected(c)
  PROVE  Accounted(c)' /\ Ready(c)'
<1> DEFINE J == ChunkOf(c)
<1>1. call \in [Callers -> CallType] /\ call[c] \in CallType
  BY DEF PoolInv, PoolTypeOK
<1>2. PICK f \in [Unpinned(J) -> Ports \ Busy(eng)] :
        call' = [call EXCEPT ![c].pc = "ephemeral", ![c].todo = <<J>>, ![c].pins = Restricted(Pin(f), J)]
  BY DEF RunBisected
<1>3. /\ call'[c].pc = "ephemeral" /\ call'[c].batch = call[c].batch /\ call'[c].slot = call[c].slot
      /\ call'[c].passed = call[c].passed /\ call'[c].todo = <<J>> /\ call'[c].pins = Restricted(Pin(f), J)
      /\ call'[c].fault = call[c].fault /\ call'[c].clash = call[c].clash
  BY <1>1, <1>2 DEF CallType
<1>4. Spoiled(c)' <=> Spoiled(c)
  BY <1>3, Zenon DEF Spoiled
<1>5. call[c].batch \in SUBSET Keys /\ call[c].slot \in Nat /\ J \in SUBSET Keys
  BY <1>1 DEF CallType, ChunkOf, Chunk
<1>6. Parts(call'[c].todo) = J /\ ChunkOf(c)' = J
  BY <1>3, <1>5, PartsOfOne DEF ChunkOf
<1>7. Left(c) \subseteq Left(c)'
  <2>1. Left(c) = From(call[c].batch, call[c].slot)
    BY DEF Left, RunBisected
  <2>2. Left(c)' = J \union From(call[c].batch, call[c].slot + 1)
    BY <1>3, <1>6 DEF Left
  <2> QED
    BY <1>5, <2>1, <2>2, FromSplit DEF ChunkOf
<1>8. Accounted(c)'
  BY <1>3, <1>4, <1>7, KeepsAccount
<1>9. \A j \in J : call'[c].pins[j] # NoPort
  <2>1. f \in [Unpinned(J) -> Ports]
    BY <1>2
  <2> HIDE DEF J
  <2> QED
    BY <1>3, <1>5, <2>1, ChunkPinned
<1>10. Ready(c)'
  BY <1>3, <1>6, <1>9 DEF Ready, Private
<1> QED
  BY <1>8, <1>10

LEMMA ReuseServes ==
  ASSUME NEW c, Callers = {c}, PoolInv, Accounted(c), call[c].pc = "slot", call[c].slot \in SlotIds,
         NEW p, \A j \in ChunkOf(c) : p[j] # NoPort, Reuse(c, p)
  PROVE  Accounted(c)' /\ Ready(c)'
<1> DEFINE w == slots[call[c].slot]
<1>1. /\ call \in [Callers -> CallType] /\ call[c] \in CallType /\ eng \in [Engines -> InstanceType]
      /\ slots \in [SlotIds -> Engines \union {NoEngine}]
  BY DEF PoolInv, PoolTypeOK
<1>2. /\ w \in Engines /\ eng[w].up /\ eng[w].pins = p
      /\ eng' = [eng EXCEPT ![w].refs = @ + 1]
      /\ call' = [call EXCEPT ![c].pc = "test", ![c].pins = p, ![c].engine = w]
  BY <1>1 DEF Reuse
<1> HIDE DEF w
<1>3. /\ call'[c].pc = "test" /\ call'[c].batch = call[c].batch /\ call'[c].slot = call[c].slot
      /\ call'[c].passed = call[c].passed /\ call'[c].pins = p /\ call'[c].engine = w
      /\ call'[c].fault = call[c].fault /\ call'[c].clash = call[c].clash
  BY <1>1, <1>2 DEF CallType
<1>4. Spoiled(c)' <=> Spoiled(c)
  BY <1>3, Zenon DEF Spoiled
<1>5. eng'[w].up /\ eng'[w].pins = p
  BY <1>1, <1>2 DEF InstanceType
<1>6. ChunkOf(c)' = ChunkOf(c) /\ Left(c)' = Left(c)
  BY <1>3 DEF ChunkOf, Left
<1>7. Accounted(c)'
  BY <1>3, <1>4, <1>6, KeepsAccount
<1>8. Ready(c)'
  BY <1>3, <1>5, <1>6 DEF Ready, Private
<1> QED
  BY <1>7, <1>8

LEMMA RebuildServes ==
  ASSUME NEW c, Callers = {c}, OneCaller, PoolInv, Accounted(c), call[c].pc = "slot", call[c].slot \in SlotIds,
         NEW J, J = ChunkOf(c), J # {},
         NEW p \in Pins, \A j \in J : p[j] # NoPort, Rebuild(c, J, p)
  PROVE  Accounted(c)' /\ Ready(c)'
<1> DEFINE s == call[c].slot
           E == Retire(slots[s])
<1>1. call \in [Callers -> CallType] /\ call[c] \in CallType
  BY DEF PoolInv, PoolTypeOK
<1>2. PICK e \in Unused(E) : \E i \in Started(J, p, E, 1) :
        /\ eng' = [E EXCEPT ![e] = i]
        /\ call' = [call EXCEPT ![c].pc = "test", ![c].pins = p, ![c].engine = e,
                                ![c].clash = @ \/ Clash(p, E)]
  BY DEF Rebuild
<1>3. PICK i \in Started(J, p, E, 1) :
        /\ eng' = [E EXCEPT ![e] = i]
        /\ call' = [call EXCEPT ![c].pc = "test", ![c].pins = p, ![c].engine = e,
                                ![c].clash = @ \/ Clash(p, E)]
  BY <1>2
<1>4. E \in [Engines -> InstanceType]
  <2>1. ~Testing(c) /\ ~Private(c)
    BY DEF Testing, Private
  <2>2. s \in SlotIds
    OBVIOUS
  <2> QED
    BY <2>1, <2>2, RetireIdle
<1>5. e \in Engines
  BY <1>2 DEF Unused
<1> HIDE DEF E, s
<1>6. eng'[e] = i
  BY <1>3, <1>4, <1>5
<1>7. J \in SUBSET Keys
  BY <1>1 DEF CallType, ChunkOf, Chunk
<1>8. i.pins = p /\ (i.up \/ Clash(p, E))
  <2>1. i \in Started(J, p, E, 1)
    BY <1>3
  <2> QED
    BY <1>7, <2>1, StartedUp
<1> DEFINE r == [call[c] EXCEPT !.pc = "test", !.pins = p, !.engine = e, !.clash = @ \/ Clash(p, E)]
<1>9. call'[c] = r
  BY <1>1, <1>3, Zenon
<1>10. r.clash = (call[c].clash \/ Clash(p, E))
  BY <1>1, Zenon DEF CallType
<1>11. /\ r.pc = "test" /\ r.batch = call[c].batch /\ r.slot = call[c].slot
       /\ r.passed = call[c].passed /\ r.pins = p /\ r.engine = e /\ r.fault = call[c].fault
  BY <1>1 DEF CallType
<1> HIDE DEF r
<1>12. (Spoiled(c) => Spoiled(c)') /\ (Clash(p, E) => Spoiled(c)')
  BY <1>9, <1>10, <1>11, Zenon DEF Spoiled
<1>13. /\ call'[c].pc = "test" /\ call'[c].batch = call[c].batch /\ call'[c].slot = call[c].slot
       /\ call'[c].passed = call[c].passed /\ call'[c].pins = p /\ call'[c].engine = e
  BY <1>9, <1>11
<1>14. ChunkOf(c)' = J /\ Left(c)' = Left(c)
  BY <1>13 DEF ChunkOf, Left
<1>15. Accounted(c)'
  BY <1>12, <1>13, <1>14, KeepsAccount
<1>16. Spoiled(c)' \/ (eng'[e].up /\ eng'[e].pins = p)
  BY <1>6, <1>8, <1>12, Zenon
<1>17. Ready(c)'
  BY <1>13, <1>14, <1>16 DEF Ready, Private
<1> QED
  BY <1>15, <1>17

LEMMA RebuildFailsServes ==
  ASSUME NEW c, Callers = {c}, PoolInv, Accounted(c), call[c].pc = "slot",
         NEW J, J = ChunkOf(c), NEW p, RebuildFails(c, J, p)
  PROVE  Accounted(c)' /\ Ready(c)'
<1> DEFINE E == Retire(slots[call[c].slot])
<1>1. call \in [Callers -> CallType] /\ call[c] \in CallType
  BY DEF PoolInv, PoolTypeOK
<1>2. PICK bisect \in BOOLEAN :
        /\ call'[c].pc = IF bisect THEN "bisect" ELSE "slot"
        /\ call'[c].slot = IF bisect THEN call[c].slot ELSE call[c].slot + 1
        /\ call'[c].fault <=> call[c].fault \/ ~Rejected(J, p, E) \/ (Cardinality(J) > 1 /\ ~bisect)
        /\ call'[c].clash <=> call[c].clash \/ Clash(p, E)
        /\ call'[c].batch = call[c].batch
        /\ call'[c].passed = call[c].passed
  BY <1>1, RebuildFailsCall
<1> HIDE DEF E
<1>3. Spoiled(c) => Spoiled(c)'
  BY <1>2, Zenon DEF Spoiled
<1>4. ~Spoiled(c)' => Rejected(J, p, E) /\ ~Clash(p, E) /\ (bisect \/ ~ (Cardinality(J) > 1))
  BY <1>2, Zenon DEF Spoiled
<1>5. /\ call[c].batch \in SUBSET Keys /\ call[c].slot \in Nat /\ J \in SUBSET Keys
  BY <1>1 DEF CallType, ChunkOf, Chunk
<1>6. Left(c) = From(call[c].batch, call[c].slot)
  BY DEF Left
<1>7. CASE bisect
  <2>1. call'[c].pc = "bisect" /\ call'[c].slot = call[c].slot
    BY <1>2, <1>7
  <2>2. Left(c)' = Left(c)
    BY <1>2, <1>6, <2>1 DEF Left
  <2> QED
    BY <1>2, <1>3, <2>1, <2>2, KeepsAccount, NothingToBeReady
<1>8. CASE ~bisect
  <2>1. call'[c].pc = "slot" /\ call'[c].slot = call[c].slot + 1
    BY <1>2, <1>8
  <2>2. Left(c)' = From(call[c].batch, call[c].slot + 1)
    BY <1>2, <2>1 DEF Left
  <2>3. Spoiled(c)' \/ J \subseteq Bad
    BY <1>4, <1>5, <1>8, Culprit
  <2>4. Left(c) = J \union Left(c)'
    BY <1>5, <1>6, <2>2, FromSplit DEF ChunkOf
  <2>5. Accounted(c)'
    BY <1>2, <1>3, <2>3, <2>4, KeepsAccount
  <2> QED
    BY <2>1, <2>5, NothingToBeReady
<1> QED
  BY <1>7, <1>8

LEMMA RunSlotServes ==
  ASSUME NEW c, Callers = {c}, OneCaller, PoolInv, Accounted(c), RunSlot(c)
  PROVE  Accounted(c)' /\ Ready(c)'
<1> DEFINE J == ChunkOf(c)
<1>1. ports \in Pins /\ call[c] \in CallType
  BY DEF PoolInv, PoolTypeOK
<1>2. call[c].pc = "slot" /\ J # {}
  BY DEF RunSlot
<1>3. call[c].slot \in SlotIds /\ J \in SUBSET Keys
  <2>1. call[c].batch \in SUBSET Keys
    BY <1>1 DEF CallType
  <2> QED
    BY <1>2, <2>1, ChunkHasSlot DEF ChunkOf, Chunk
<1>4. PICK f \in Allocations(Unpinned(J)) :
        LET p == Restricted(Pin(f), J) IN
        Reuse(c, p) \/ Rebuild(c, J, p) \/ RebuildFails(c, J, p)
  BY DEF RunSlot
<1> DEFINE p == Restricted(Pin(f), J)
<1>5. p \in Pins
  BY <1>1, <1>4, ChunkPorts
<1>6. \A j \in J : p[j] # NoPort
  <2>1. f \in [Unpinned(J) -> Ports]
    BY <1>4, AllocationsType
  <2> QED
    BY <1>3, <2>1, ChunkPinned
<1>7. J = ChunkOf(c)
  OBVIOUS
<1> HIDE DEF p, J
<1>8. Reuse(c, p) \/ Rebuild(c, J, p) \/ RebuildFails(c, J, p)
  BY <1>4 DEF p
<1>9. CASE Reuse(c, p)
  BY <1>2, <1>3, <1>6, <1>7, <1>9, ReuseServes
<1>10. CASE Rebuild(c, J, p)
  BY <1>2, <1>3, <1>5, <1>6, <1>7, <1>10, RebuildServes
<1>11. CASE RebuildFails(c, J, p)
  BY <1>2, <1>7, <1>11, RebuildFailsServes
<1> QED
  BY <1>8, <1>9, <1>10, <1>11

LEMMA RunEphemeralServes ==
  ASSUME NEW c, Callers = {c}, PoolInv, Accounted(c), Ready(c), RunEphemeral(c)
  PROVE  Accounted(c)' /\ Ready(c)'
<1> DEFINE todo == call[c].todo
           J == Head(todo)
           p == Restricted(call[c].pins, J)
<1>1. call \in [Callers -> CallType] /\ call[c] \in CallType /\ eng \in [Engines -> InstanceType]
  BY DEF PoolInv, PoolTypeOK
<1>2. Outcome(c, J, p)
  BY <1>1, EphemeralCall
<1>3. p \in Pins
  BY <1>1, RestrictedType DEF CallType
<1>4. p = Restricted(call[c].pins, J) /\ J = Head(call[c].todo) /\ todo = call[c].todo
  OBVIOUS
<1> HIDE DEF todo, J, p
<1>5. /\ call[c].pc = "ephemeral" /\ call[c].todo # <<>>
      /\ call'[c].clash <=> call[c].clash \/ Clash(p, eng)
      /\ call'[c].batch = call[c].batch /\ call'[c].slot = call[c].slot
      /\ call'[c].pins = call[c].pins /\ call'[c].passed = call[c].passed
  BY <1>2, Zenon DEF Outcome
<1>6. todo \in Seq(SUBSET Keys) /\ todo # <<>>
  BY <1>1, <1>4, <1>5 DEF CallType
<1>7. J \in SUBSET Keys /\ Tail(todo) \in Seq(SUBSET Keys) /\ Halves(J) \in Seq(SUBSET Keys)
  BY <1>4, <1>6, PartsType, HalvesType
<1>8. Parts(todo) = J \union Parts(Tail(todo)) /\ Parts(Halves(J)) = J
  BY <1>4, <1>6, <1>7, PartsSplit, PartsOfHalves
<1>9. ChunkOf(c)' = ChunkOf(c)
  BY <1>5 DEF ChunkOf
<1>10. Parts(todo) \subseteq ChunkOf(c) /\ \A j \in ChunkOf(c) : call[c].pins[j] # NoPort
  BY <1>4, <1>5 DEF Ready
<1>11. Left(c) = Parts(todo) \union From(call[c].batch, call[c].slot + 1)
  BY <1>4, <1>5 DEF Left
<1>12. ASSUME NEW e \in Unused(eng), NEW i \in Started(J, p, eng, 0), eng' = [eng EXCEPT ![e] = i],
              call'[c].pc = "private", call'[c].engine = e, call'[c].todo = call[c].todo,
              call'[c].fault = call[c].fault
       PROVE  Accounted(c)' /\ Ready(c)'
  <2>1. e \in Engines
    BY DEF Unused
  <2>2. eng'[e] = i
    BY <1>1, <1>12, <2>1
  <2>3. (Spoiled(c) => Spoiled(c)') /\ (Clash(p, eng) => Spoiled(c)')
    BY <1>5, <1>12, Zenon DEF Spoiled
  <2>4. J = {} \/ (i.pins = p /\ (i.up \/ Clash(p, eng)))
    BY <1>3, <1>7, StartedUp
  <2>5. Left(c)' = Left(c)
    BY <1>4, <1>5, <1>11, <1>12 DEF Left
  <2>6. Accounted(c)'
    BY <1>5, <2>3, <2>5, KeepsAccount
  <2>7. Spoiled(c)' \/ J = {} \/ (eng'[e].up /\ eng'[e].pins = p)
    BY <2>2, <2>3, <2>4, Zenon
  <2>8. Ready(c)'
    BY <1>4, <1>5, <1>9, <1>10, <1>12, <2>7 DEF Ready, Private
  <2> QED
    BY <2>6, <2>8
<1>13. ASSUME NEW bisect \in BOOLEAN,
              call'[c].pc = "ephemeral",
              call'[c].todo = (IF bisect THEN Halves(J) ELSE <<>>) \o Tail(call[c].todo),
              call'[c].fault <=> call[c].fault \/ ~Rejected(J, p, eng) \/ (Cardinality(J) > 1 /\ ~bisect)
       PROVE  Accounted(c)' /\ Ready(c)'
  <2>1. Spoiled(c) => Spoiled(c)'
    BY <1>5, <1>13, Zenon DEF Spoiled
  <2>2. ~Spoiled(c)' => Rejected(J, p, eng) /\ ~Clash(p, eng) /\ (bisect \/ ~ (Cardinality(J) > 1))
    BY <1>5, <1>13, Zenon DEF Spoiled
  <2>3. Parts(call'[c].todo) = (IF bisect THEN J ELSE {}) \union Parts(Tail(todo))
    <3>1. CASE bisect
      <4>1. call'[c].todo = Halves(J) \o Tail(todo)
        BY <1>4, <1>13, <3>1
      <4> QED
        BY <1>7, <1>8, <3>1, <4>1, PartsAppend
    <3>2. CASE ~bisect
      <4>1. call'[c].todo = <<>> \o Tail(todo)
        BY <1>4, <1>13, <3>2
      <4>2. <<>> \o Tail(todo) = Tail(todo)
        BY <1>7
      <4> QED
        BY <3>2, <4>1, <4>2
    <3> QED
      BY <3>1, <3>2
  <2>4. Spoiled(c)' \/ bisect \/ J \subseteq Bad
    BY <1>7, <2>2, Culprit
  <2>5. Left(c)' = Parts(call'[c].todo) \union From(call[c].batch, call[c].slot + 1)
    BY <1>5, <1>13 DEF Left
  <2>6. Spoiled(c)' \/ Left(c) \ Bad \subseteq call'[c].passed \union Left(c)'
    BY <1>8, <1>11, <2>3, <2>4, <2>5
  <2>7. Accounted(c)'
    BY <1>5, <2>1, <2>6, KeepsAccount
  <2>8. Parts(call'[c].todo) \subseteq ChunkOf(c)
    BY <1>8, <1>10, <2>3
  <2>9. Ready(c)'
    BY <1>5, <1>9, <1>10, <1>13, <2>8 DEF Ready, Private
  <2> QED
    BY <2>7, <2>9
<1>14. \/ \E e \in Unused(eng) : \E i \in Started(J, p, eng, 0) :
            /\ eng' = [eng EXCEPT ![e] = i]
            /\ call'[c].pc = "private" /\ call'[c].engine = e
            /\ call'[c].todo = call[c].todo /\ call'[c].fault = call[c].fault
       \/ \E bisect \in BOOLEAN :
            /\ call'[c].pc = "ephemeral"
            /\ call'[c].todo = (IF bisect THEN Halves(J) ELSE <<>>) \o Tail(call[c].todo)
            /\ call'[c].fault <=> call[c].fault \/ ~Rejected(J, p, eng) \/ (Cardinality(J) > 1 /\ ~bisect)
  BY <1>2, Zenon DEF Outcome
<1> QED
  BY <1>12, <1>13, <1>14

LEMMA TestEphemeralServes ==
  ASSUME NEW c, Callers = {c}, PoolInv, Accounted(c), Ready(c), TestEphemeral(c)
  PROVE  Accounted(c)' /\ Ready(c)'
<1> DEFINE todo == call[c].todo
           J == Head(todo)
           p == Restricted(call[c].pins, J)
<1>1. call \in [Callers -> CallType] /\ call[c] \in CallType
  BY DEF PoolInv, PoolTypeOK
<1>2. call[c].pc = "private" /\ Private(c)
  BY DEF TestEphemeral, Private
<1>3. call[c].engine \in Engines /\ todo # <<>> /\ todo \in Seq(SUBSET Keys)
  BY <1>1, <1>2 DEF PoolInv, Held, CallType
<1>4. /\ call'[c].pc = "ephemeral" /\ call'[c].todo = Tail(todo)
      /\ call'[c].passed = call[c].passed \union Served(p, J)
      /\ call'[c].batch = call[c].batch /\ call'[c].slot = call[c].slot /\ call'[c].pins = call[c].pins
      /\ call'[c].fault = call[c].fault /\ call'[c].clash = call[c].clash
  BY <1>1, <1>3, TestEphemeralCall
<1>5. J \in SUBSET Keys /\ Parts(todo) = J \union Parts(Tail(todo))
  BY <1>3, PartsType, PartsSplit
<1>6. /\ Parts(todo) \subseteq ChunkOf(c) /\ \A j \in ChunkOf(c) : call[c].pins[j] # NoPort
  BY <1>2 DEF Ready
<1>7. Spoiled(c) \/ J = {} \/ (eng[call[c].engine].up /\ eng[call[c].engine].pins = p)
  BY <1>2, Zenon DEF Ready
<1>8. \A j \in J : p[j] = call[c].pins[j]
  BY <1>5 DEF Restricted
<1> HIDE DEF J, p, todo
<1>9. Spoiled(c)' <=> Spoiled(c)
  BY <1>4, Zenon DEF Spoiled
<1>10. Spoiled(c) \/ J \subseteq Served(p, J)
  BY <1>3, <1>5, <1>6, <1>7, <1>8 DEF Served
<1>11. Left(c) = J \union Left(c)'
  <2>1. Left(c) = Parts(todo) \union From(call[c].batch, call[c].slot + 1)
    BY <1>2 DEF Left, todo
  <2>2. Left(c)' = Parts(Tail(todo)) \union From(call[c].batch, call[c].slot + 1)
    BY <1>4 DEF Left
  <2> QED
    BY <1>5, <2>1, <2>2
<1>12. Accounted(c)'
  BY <1>4, <1>9, <1>10, <1>11, KeepsAccount
<1>13. ChunkOf(c)' = ChunkOf(c)
  BY <1>4 DEF ChunkOf
<1>14. Ready(c)'
  BY <1>4, <1>5, <1>6, <1>13 DEF Ready, Private
<1> QED
  BY <1>12, <1>14

\* A death under test is a fault; any other leaves what is under test alone.
LEMMA EngineDiesServes ==
  ASSUME NEW c, Callers = {c}, PoolInv, Accounted(c), Ready(c), NEW e \in Engines, EngineDies(e)
  PROVE  Accounted(c)' /\ Ready(c)'
<1>1. call \in [Callers -> CallType] /\ call[c] \in CallType /\ eng \in [Engines -> InstanceType]
  BY DEF PoolInv, PoolTypeOK
<1>2. /\ eng' = [eng EXCEPT ![e].up = FALSE]
      /\ call'[c] = IF call[c].engine = e THEN [call[c] EXCEPT !.fault = TRUE] ELSE call[c]
  BY DEF EngineDies
<1>3. CASE call[c].engine = e
  <2>1. /\ call'[c].pc = call[c].pc /\ call'[c].batch = call[c].batch /\ call'[c].slot = call[c].slot
        /\ call'[c].pins = call[c].pins /\ call'[c].todo = call[c].todo /\ call'[c].passed = call[c].passed
        /\ call'[c].fault = TRUE
    BY <1>1, <1>2, <1>3 DEF CallType
  <2>2. Spoiled(c)'
    BY <2>1, Zenon DEF Spoiled
  <2>3. ChunkOf(c)' = ChunkOf(c)
    BY <2>1 DEF ChunkOf
  <2> QED
    BY <2>1, <2>2, <2>3 DEF Accounted, Ready, Private
<1>4. CASE call[c].engine # e
  <2>1. call'[c] = call[c]
    BY <1>2, <1>4
  <2>2. /\ ChunkOf(c)' = ChunkOf(c) /\ Left(c)' = Left(c) /\ (Spoiled(c)' <=> Spoiled(c))
        /\ (Private(c)' <=> Private(c))
    BY <2>1, Zenon DEF ChunkOf, Left, Spoiled, Private
  <2>3. Testing(c) \/ Private(c) => call[c].engine \in Engines
    BY <1>1 DEF PoolInv, PoolTypeOK, Held
  <2>4. Testing(c) \/ Private(c) => eng'[call[c].engine] = eng[call[c].engine]
    BY <1>1, <1>2, <1>4, <2>3
  <2>5. Accounted(c)'
    BY <2>1, <2>2 DEF Accounted
  <2>6. Ready(c)'
    BY <2>1, <2>2, <2>4 DEF Ready, Private, Testing
  <2> QED
    BY <2>5, <2>6
<1> QED
  BY <1>3, <1>4

\* Close marks the engine under test and leaves it running.
LEMMA CloseServes ==
  ASSUME NEW c, Callers = {c}, PoolInv, Accounted(c), Ready(c), Close
  PROVE  Accounted(c)' /\ Ready(c)'
<1>1. /\ eng \in [Engines -> InstanceType] /\ slots \in [SlotIds -> Engines \union {NoEngine}]
      /\ call \in [Callers -> CallType]
  BY DEF PoolInv, PoolTypeOK
<1>2. /\ call' = call
      /\ eng' = [e \in Engines |->
           IF e \notin Range(slots) THEN eng[e]
           ELSE IF e \in {x \in Engines : eng[x].refs = 0} THEN NoInstance ELSE [eng[e] EXCEPT !.retired = TRUE]]
  BY DEF Close
<1>3. /\ ChunkOf(c)' = ChunkOf(c) /\ Left(c)' = Left(c) /\ (Spoiled(c)' <=> Spoiled(c))
      /\ (Private(c)' <=> Private(c))
  BY <1>2, Zenon DEF ChunkOf, Left, Spoiled, Private
<1>4. Accounted(c)'
  BY <1>2, <1>3 DEF Accounted
<1>5. ASSUME call[c].pc = "test"
      PROVE  eng'[call[c].engine].up = eng[call[c].engine].up /\ eng'[call[c].engine].pins = eng[call[c].engine].pins
  <2>1. Testing(c)
    BY <1>5 DEF Testing
  <2>2. call[c].engine \in Engines
    BY <1>1, <2>1 DEF PoolInv, Held
  <2>3. eng[call[c].engine].refs = 1
    BY <2>1, <2>2 DEF PoolInv, Counted
  <2>4. eng'[call[c].engine] = eng[call[c].engine] \/ eng'[call[c].engine] = [eng[call[c].engine] EXCEPT !.retired = TRUE]
    BY <1>2, <2>2, <2>3
  <2>5. eng[call[c].engine] \in InstanceType
    BY <1>1, <2>2
  <2> QED
    BY <2>4, <2>5 DEF InstanceType
<1>6. Private(c) => eng'[call[c].engine] = eng[call[c].engine]
  BY <1>2 DEF PoolInv, Held
<1>7. Ready(c)'
  BY <1>2, <1>3, <1>5, <1>6 DEF Ready
<1> QED
  BY <1>4, <1>7

LEMMA ServedStep == ASSUME OneCaller PROVE ServedInv /\ [PoolNext]_poolVars => ServedInv'
<1> SUFFICES ASSUME ServedInv, [PoolNext]_poolVars PROVE ServedInv'
  OBVIOUS
<1>1. PoolInv /\ PoolInv'
  BY PoolStep DEF ServedInv
<1>2. ASSUME NEW c \in Callers PROVE Accounted(c)' /\ Ready(c)'
  <2>1. Callers = {c} /\ Accounted(c) /\ Ready(c) /\ call \in [Callers -> CallType]
    BY <1>1, Alone DEF ServedInv, PoolInv, PoolTypeOK
  <2>2. CASE UNCHANGED poolVars
    BY <2>1, <2>2 DEF poolVars, Accounted, Ready, Spoiled, Left, ChunkOf, Private
  <2>3. ASSUME NEW J \in SUBSET Keys, CheckBatch(c, J) PROVE Accounted(c)' /\ Ready(c)'
    BY <2>1, <2>3, CheckBatchServes
  <2>4. CASE AllocateFails(c)
    BY <2>1, <2>4, AllocateFailsServes
  <2>5. CASE TestJobs(c)
    BY <1>1, <2>1, <2>5, TestJobsServes
  <2>6. CASE ReleaseSlot(c) \/ EphemeralDone(c)
    BY <1>1, <2>1, <2>6, ReleaseServes
  <2>7. CASE CheckBatchReturns(c)
    BY <1>1, <2>1, <2>7, ReturnsServes
  <2>8. CASE RunBisected(c)
    BY <1>1, <2>1, <2>8, BisectedServes
  <2>9. CASE RunSlot(c)
    BY <1>1, <2>1, <2>9, RunSlotServes
  <2>10. CASE RunEphemeral(c)
    BY <1>1, <2>1, <2>10, RunEphemeralServes
  <2>11. CASE TestEphemeral(c)
    BY <1>1, <2>1, <2>11, TestEphemeralServes
  <2>12. ASSUME NEW e \in Engines, EngineDies(e) PROVE Accounted(c)' /\ Ready(c)'
    BY <1>1, <2>1, <2>12, EngineDiesServes
  <2>13. CASE Close
    BY <1>1, <2>1, <2>13, CloseServes
  <2> QED
    BY <2>1, <2>2, <2>3, <2>4, <2>5, <2>6, <2>7, <2>8, <2>9, <2>10, <2>11, <2>12, <2>13 DEF PoolNext
<1> QED
  BY <1>1, <1>2 DEF ServedInv

LEMMA ServedInit == ASSUME OneCaller PROVE PoolInit => ServedInv
<1> SUFFICES ASSUME PoolInit PROVE ServedInv
  OBVIOUS
<1>1. NoCall.pc = "idle" /\ NoCall.batch = {}
  BY DEF NoCall
<1>2. \A c \in Callers : call[c].pc = "idle" /\ call[c].batch = {}
  BY <1>1 DEF PoolInit
<1>3. \A c \in Callers : Accounted(c) /\ Ready(c)
  BY <1>2 DEF Accounted, Ready, Private
<1> QED
  BY <1>3, PoolInitInv DEF ServedInv

\* "one malformed config costs only its own result and every healthy sibling
\* still reports" (src/internal/module/pool.go:406), for every batch, every set
\* of bad jobs and every size of an instance.
THEOREM GoodJobsAreServed == ASSUME OneCaller PROVE PoolSpec => []BisectionIsolates
<1>1. ServedInv => BisectionIsolates
  <2> SUFFICES ASSUME ServedInv, NEW c \in Callers, call[c].pc = "idle",
                      ~ (call[c].fault \/ call[c].clash)
               PROVE  call[c].batch \ Bad \subseteq call[c].passed
    BY Zenon DEF BisectionIsolates
  <2>1. Accounted(c) /\ ~Spoiled(c)
    BY DEF ServedInv, Spoiled
  <2>2. Left(c) = {}
    BY DEF Left
  <2> QED
    BY <2>1, <2>2 DEF Accounted
<1> QED
  BY <1>1, ServedInit, ServedStep, PTL DEF PoolSpec
=============================================================================
