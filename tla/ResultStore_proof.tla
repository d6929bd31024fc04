------------------------- MODULE ResultStore_proof -------------------------
(***************************************************************************)
(* For every number of results, rows, maintainers and every chunk size:    *)
(* no recorded result is lost, no row is rolled up twice or skipped, and   *)
(* the store implements the abstract outbox.                               *)
(***************************************************************************)
EXTENDS ResultStore, FiniteSetTheorems, WellFoundedInduction, TLAPS

\* LIMIT n only ever drops rows.
LEMMA OldestSubset ==
  ASSUME NEW S, NEW n PROVE Oldest(S, n) \subseteq S
BY DEF Oldest

\* ORDER BY seq LIMIT n is a prefix: with a row it contains every older one.
LEMMA OldestPrefix ==
  ASSUME NEW S, S \subseteq Seqs, NEW n \in Nat,
         NEW s \in S, NEW t \in Oldest(S, n), s <= t
  PROVE  s \in Oldest(S, n)
<1> DEFINE Below(u) == {v \in S : v < u}
<1>1. t \in S /\ Cardinality(Below(t)) < n
  BY DEF Oldest
<1>2. Below(s) \subseteq Below(t)
  <2>1. S \subseteq Int
    BY BoundsAssumption DEF Seqs
  <2>2. \A v \in S : v < s => v < t
    BY <1>1, <2>1
  <2> QED
    BY <2>2
<1>3. IsFiniteSet(Seqs)
  BY FS_Interval, BoundsAssumption DEF Seqs
<1>4. IsFiniteSet(Below(t)) /\ IsFiniteSet(Below(s))
  BY <1>3, FS_Subset
<1>5. Cardinality(Below(s)) <= Cardinality(Below(t))
  BY <1>2, <1>4, FS_Subset
<1>6. Cardinality(Below(s)) \in Nat /\ Cardinality(Below(t)) \in Nat
  BY <1>4, FS_CardinalityType
<1> QED
  BY <1>1, <1>5, <1>6 DEF Oldest

\* LIMIT n returns nothing only when there is nothing.
LEMMA OldestEmpty ==
  ASSUME NEW S, S \subseteq Seqs, NEW n \in Nat \ {0}, Oldest(S, n) = {}
  PROVE  S = {}
<1> SUFFICES ASSUME S # {} PROVE FALSE
  OBVIOUS
<1>1. S \subseteq Nat
  BY BoundsAssumption DEF Seqs
<1>2. PICK x \in S : \A y \in S : ~ (<<y, x>> \in OpToRel(<, Nat))
  BY <1>1, NatLessThanWellFounded, WFMin, Zenon
<1>3. \A y \in S : ~ (y < x)
  BY <1>1, <1>2 DEF OpToRel
<1>4. {t \in S : t < x} = {}
  BY <1>3
<1>5. Cardinality({t \in S : t < x}) = 0
  BY <1>4, FS_EmptySet
<1> QED
  BY <1>5 DEF Oldest

\* A drain that gives up leaves a well-formed record behind.
LEMMA IdleDrainType == IdleDrain \in DrainType
BY DEF IdleDrain, DrainType, Acks

\* So does a Maintain call that ends or is interrupted.
LEMMA IdleMaintType == IdleMaint \in MaintType
BY BoundsAssumption DEF IdleMaint, MaintType

\* An empty database satisfies the inductive invariant.
LEMMA InitIInv == Init => IInv
<1> SUFFICES ASSUME Init PROVE IInv
  OBVIOUS
<1> USE BoundsAssumption DEF Init, Seqs
<1>1. TypeOK
  <2>1. maint \in [Maintainers -> MaintType] /\ drain \in DrainType
    BY IdleDrainType, IdleMaintType
  <2>2. waiting \in BOOLEAN
    OBVIOUS
  <2>3. state \in [Seqs -> States] /\ key \in [Seqs -> Results \union {NoKey}]
    BY DEF States, NoKey
  <2>4. server \in [Results -> {"none", "stored", "refused"}]
    OBVIOUS
  <2> QED
    BY <2>1, <2>2, <2>3, <2>4 DEF TypeOK, Times
<1>2. SeqsInOrder /\ CursorBound /\ RecordedNotLost /\ KeysKnown /\ FoldedOnce /\ NoneSkipped
  BY DEF SeqsInOrder, CursorBound, RecordedNotLost, KeysKnown, FoldedOnce, NoneSkipped, Live
<1>3. ChunkIsPrefix /\ BatchJudged
  BY DEF ChunkIsPrefix, BatchJudged, IdleMaint, IdleDrain
<1>4. PassEnded /\ FoldedBeforePruning
  BY DEF PassEnded, FoldedBeforePruning, IdleMaint
<1> QED
  BY <1>1, <1>2, <1>3, <1>4 DEF IInv

-----------------------------------------------------------------------------
(* Type correctness                                                        *)

\* Every statement keeps the shape of the tables and of its caller.
LEMMA TypeStep == TypeOK /\ [Next]_vars => TypeOK'
<1> SUFFICES ASSUME TypeOK, [Next]_vars PROVE TypeOK'
  OBVIOUS
<1> USE BoundsAssumption, IdleDrainType, IdleMaintType
    DEF TypeOK, journalVars, rollupVars, drainVars
<1>1. ASSUME NEW batch \in SUBSET Results, NEW when \in Times, RecordResults(batch, when)
      PROVE  TypeOK'
  BY <1>1 DEF RecordResults, Fresh, States, Seqs
<1>2. ASSUME NEW batch \in SUBSET Results, ReportFallback(batch) PROVE TypeOK'
  BY <1>2 DEF ReportFallback, Judge
<1>3. CASE PendingResults
  <2>1. Oldest(PendingSet, BatchLimit) \in SUBSET Seqs
    BY OldestSubset DEF PendingSet
  <2>2. drain' \in DrainType
    BY <1>3, <2>1 DEF PendingResults, DrainType
  <2> QED
    BY <1>3, <2>2 DEF PendingResults
<1>4. CASE PendingResultsFails \/ MarkOutcomesFails \/ BackoffElapses
  BY <1>4 DEF PendingResultsFails, MarkOutcomesFails, BackoffElapses, Backoff
<1>5. CASE PostAnswered
  <2>1. drain' \in DrainType
    BY <1>5 DEF PostAnswered, DrainType
  <2> QED
    BY <1>5, <2>1 DEF PostAnswered, Judge
<1>6. CASE PostFails
  BY <1>6 DEF PostFails, Backoff, Judge
<1>7. CASE MarkOutcomes
  BY <1>7 DEF MarkOutcomes, Outcome, States
<1>8. ASSUME NEW m \in Maintainers, Maintain(m) PROVE TypeOK'
  <2>1. CASE MaintainStart(m)
    <3>1. [IdleMaint EXCEPT !.pc = "read", !.after = cursor] \in MaintType
      BY DEF MaintType
    <3> QED
      BY <2>1, <3>1 DEF MaintainStart
  <2>2. CASE ReadRollupChunk(m)
    <3>1. RollupRows(maint[m].after) \in SUBSET Seqs
      BY OldestSubset DEF RollupRows, Live
    <3>2. \A q \in {"retain", "write"} : \A u \in 0 .. MaxSeq + 1 :
            [maint[m] EXCEPT !.pc = q, !.chunk = RollupRows(maint[m].after), !.upto = u] \in MaintType
      BY <3>1 DEF MaintType
    <3>3. 0 \in 0 .. MaxSeq + 1 /\ nextSeq \in 0 .. MaxSeq + 1
      OBVIOUS
    <3>4. maint' \in [Maintainers -> MaintType]
      BY <2>2, <3>2, <3>3 DEF ReadRollupChunk
    <3> QED
      BY <2>2, <3>4 DEF ReadRollupChunk
  <2>3. CASE WriteRollups(m)
    <3>1. PICK last \in maint[m].chunk :
            /\ folded' = [s \in Seqs |-> IF s \in maint[m].chunk THEN folded[s] + 1 ELSE folded[s]]
            /\ cursor' = last
            /\ maint' = [maint EXCEPT ![m].pc = "read", ![m].after = last, ![m].chunk = {}]
      BY <2>3 DEF WriteRollups
    <3>2. last \in 0 .. MaxSeq
      BY <3>1 DEF MaintType, Seqs
    <3>3. [maint[m] EXCEPT !.pc = "read", !.after = last, !.chunk = {}] \in MaintType
      BY <3>2 DEF MaintType
    <3>4. maint' \in [Maintainers -> MaintType]
      BY <3>1, <3>3
    <3> QED
      BY <2>3, <3>1, <3>2, <3>4 DEF WriteRollups
  <2>4. CASE RollupCursorMoved(m)
    <3>1. maint[m].moves < MaxMoves =>
            [IdleMaint EXCEPT !.pc = "read", !.after = cursor, !.moves = maint[m].moves + 1] \in MaintType
      <4>1. maint[m].moves \in 0 .. MaxMoves
        BY DEF MaintType
      <4>2. maint[m].moves < MaxMoves => maint[m].moves + 1 \in 0 .. MaxMoves
        BY <4>1
      <4> QED
        BY <4>2 DEF MaintType
    <3>2. maint[m].moves \in 0 .. MaxMoves
      BY DEF MaintType
    <3>3. maint' \in [Maintainers -> MaintType]
      BY <2>4, <3>1, <3>2 DEF RollupCursorMoved
    <3> QED
      BY <2>4, <3>3 DEF RollupCursorMoved
  <2>5. CASE PruneExpired(m)
    <3>1. \A q \in {"size", "retain"} : [maint[m] EXCEPT !.pc = q] \in MaintType
      BY DEF MaintType
    <3>2. maint' \in [Maintainers -> MaintType]
      BY <2>5, <3>1 DEF PruneExpired, Goto
    <3> QED
      BY <2>5, <3>2 DEF PruneExpired, Prune, States
  <2>6. CASE SizeFits(m) \/ MaintainAborts(m)
    BY <2>6 DEF SizeFits, MaintainAborts
  <2>7. CASE PruneForSize(m)
    <3>1. \A q \in {"size", "rollups"} : [maint[m] EXCEPT !.pc = q] \in MaintType
      BY DEF MaintType
    <3>2. maint' \in [Maintainers -> MaintType]
      BY <2>7, <3>1 DEF PruneForSize, Goto
    <3> QED
      BY <2>7, <3>2 DEF PruneForSize, Prune, States
  <2>8. CASE PruneRollups(m)
    <3>1. [maint[m] EXCEPT !.pc = "size"] \in MaintType
      BY DEF MaintType
    <3>2. maint' \in [Maintainers -> MaintType]
      BY <2>8, <3>1 DEF PruneRollups
    <3> QED
      BY <2>8, <3>2 DEF PruneRollups
  <2> QED
    BY <1>8, <2>1, <2>2, <2>3, <2>4, <2>5, <2>6, <2>7, <2>8 DEF Maintain
<1>9. CASE ClockTick
  BY <1>9 DEF ClockTick, Times
<1>10. CASE Crash
  <2>1. maint' \in [Maintainers -> MaintType]
    BY <1>10, AgentAssumption DEF Crash
  <2>2. crashes' \in 0 .. MaxCrashes
    BY <1>10 DEF Crash
  <2> QED
    BY <1>10, <2>1, <2>2 DEF Crash
<1>11. CASE UNCHANGED vars
  BY <1>11 DEF vars
<1> QED
  BY <1>1, <1>2, <1>3, <1>4, <1>5, <1>6, <1>7, <1>8, <1>9, <1>10, <1>11 DEF Next, Drain

\* The tables, the drain and the Maintain calls keep their shape (the CHECK
\* constraint on delivery_state, the bounds of the cursors and of a run's
\* cursor moves).
THEOREM TypeCorrect == Spec => []TypeOK
<1>1. Init => TypeOK
  BY InitIInv DEF IInv
<1> QED
  BY <1>1, TypeStep, PTL DEF Spec

-----------------------------------------------------------------------------
(* Rows: allocation order and keys                                         *)

\* Only four statements write journal rows.
LEMMA JournalWriters ==
  ASSUME [Next]_vars
  PROVE  \/ \E batch \in SUBSET Results : \E when \in Times : RecordResults(batch, when)
         \/ MarkOutcomes
         \/ \E m \in Maintainers : PruneExpired(m) \/ PruneForSize(m)
         \/ UNCHANGED journalVars
BY DEF Next, Drain, Maintain, vars, journalVars, ReportFallback, PendingResults, PendingResultsFails,
   PostAnswered, PostFails, MarkOutcomesFails, BackoffElapses, MaintainStart, ReadRollupChunk,
   WriteRollups, RollupCursorMoved, SizeFits, PruneRollups, MaintainAborts, ClockTick, Crash

\* A row's life: a row is used once, keeps its key, its deletion is final, and
\* only settled rows are deleted.
RowLife ==
  /\ nextSeq <= nextSeq' /\ nextSeq' \in Nat
  /\ \A s \in Seqs :
       /\ s \in nextSeq .. nextSeq' - 1 => state'[s] = "pending" /\ key'[s] \in Results
       /\ s \notin nextSeq .. nextSeq' - 1 =>
            /\ key'[s] = key[s]
            /\ state[s] \in {"unused", "pruned"} => state'[s] = state[s]
            /\ state[s] = "pending" => state'[s] \in {"pending", "delivered", "rejected"}
            /\ state[s] \in {"delivered", "rejected"} => state'[s] \in {state[s], "pruned"}

\* Deleting settled rows moves them from settled to deleted, nothing else.
LEMMA PruneIsFinal ==
  ASSUME TypeOK, NEW rows \in SUBSET Settled, Prune(rows), UNCHANGED <<key, nextSeq>>
  PROVE  RowLife
BY BoundsAssumption DEF TypeOK, Prune, Settled, RowLife, States

\* Every step moves rows along queued, settled, deleted, never back.
LEMMA RowLifeStep ==
  ASSUME TypeOK, [Next]_vars PROVE RowLife
<1> USE BoundsAssumption DEF TypeOK
<1>1. ASSUME NEW batch \in SUBSET Results, NEW when \in Times, RecordResults(batch, when)
      PROVE  RowLife
  <2>1. PICK last \in (nextSeq - 1) .. MaxSeq :
          \E row \in [nextSeq .. last -> Fresh(batch)] :
            /\ \A s, t \in nextSeq .. last : row[s] = row[t] => s = t
            /\ \A r \in Fresh(batch) : \E s \in nextSeq .. last : row[s] = r
            /\ state' = [s \in Seqs |-> IF s \in nextSeq .. last THEN "pending" ELSE state[s]]
            /\ key' = [s \in Seqs |-> IF s \in nextSeq .. last THEN row[s] ELSE key[s]]
            /\ at' = [s \in Seqs |-> IF s \in nextSeq .. last THEN when ELSE at[s]]
            /\ nextSeq' = last + 1
    BY <1>1 DEF RecordResults
  <2>2. PICK row \in [nextSeq .. last -> Fresh(batch)] :
            /\ state' = [s \in Seqs |-> IF s \in nextSeq .. last THEN "pending" ELSE state[s]]
            /\ key' = [s \in Seqs |-> IF s \in nextSeq .. last THEN row[s] ELSE key[s]]
            /\ nextSeq' = last + 1
    BY <2>1
  <2>3. Fresh(batch) \subseteq Results
    BY DEF Fresh
  <2>4. nextSeq' - 1 = last
    BY <2>2
  <2> QED
    BY <2>2, <2>3, <2>4 DEF RowLife, States
<1>2. CASE MarkOutcomes
  BY <1>2 DEF MarkOutcomes, Outcome, RowLife, States
<1>3. ASSUME NEW m \in Maintainers, PruneExpired(m) PROVE RowLife
  <2>1. Oldest(Expired, PruneChunk) \subseteq Settled
    BY OldestSubset DEF Expired
  <2> QED
    BY <1>3, <2>1, PruneIsFinal DEF PruneExpired
<1>4. ASSUME NEW m \in Maintainers, PruneForSize(m) PROVE RowLife
  <2>1. Oldest(Settled, PruneChunk) \subseteq Settled
    BY OldestSubset
  <2> QED
    BY <1>4, <2>1, PruneIsFinal DEF PruneForSize
<1>5. CASE UNCHANGED journalVars
  BY <1>5 DEF journalVars, RowLife, States
<1> QED
  BY <1>1, <1>2, <1>3, <1>4, <1>5, JournalWriters

\* A seq once handed out keeps its key and is never handed out again.
LEMMA UsedRowKept ==
  ASSUME TypeOK, SeqsInOrder, RowLife, NEW s \in Seqs, state[s] # "unused"
  PROVE  state'[s] # "unused" /\ key'[s] = key[s] /\ s < nextSeq
<1>1. s \in Int /\ nextSeq \in Int
  BY BoundsAssumption DEF TypeOK, Seqs
<1>2. s < nextSeq /\ s \notin nextSeq .. nextSeq' - 1
  BY <1>1 DEF SeqsInOrder
<1> QED
  BY <1>2 DEF RowLife, TypeOK, States

\* An element of an interval lies below its end.
LEMMA BelowEnd ==
  ASSUME NEW a \in Nat, NEW b \in Nat, NEW c \in Nat, a \in b .. c - 1
  PROVE  ~(a >= c)
OBVIOUS

\* And every row at or above its start that is below its end is in it.
LEMMA WithinEnd ==
  ASSUME NEW a \in Nat, NEW b \in Nat, NEW c \in Nat, a >= b, ~(a >= c)
  PROVE  a \in b .. c - 1
OBVIOUS

\* Allocation order and known keys are preserved.
LEMMA RowsStep ==
  ASSUME IInv, [Next]_vars PROVE SeqsInOrder' /\ KeysKnown'
<1>1. RowLife
  BY RowLifeStep DEF IInv
<1>2. nextSeq \in Nat /\ state \in [Seqs -> States] /\ Seqs \subseteq Nat
  BY BoundsAssumption DEF IInv, TypeOK, Seqs
<1>3. SeqsInOrder /\ KeysKnown
  BY DEF IInv
<1>4. ASSUME NEW s \in Seqs
      PROVE  ((state'[s] = "unused") <=> (s >= nextSeq')) /\ (state'[s] # "unused" => key'[s] \in Results)
  <2>1. CASE s \in nextSeq .. nextSeq' - 1
    <3>1. state'[s] = "pending" /\ key'[s] \in Results
      BY <1>1, <2>1 DEF RowLife
    <3>2. ~(s >= nextSeq')
      BY <1>1, <1>2, <2>1, BelowEnd DEF RowLife
    <3> QED
      BY <3>1, <3>2
  <2>2. CASE s \notin nextSeq .. nextSeq' - 1
    <3>1. (state'[s] = "unused") <=> (state[s] = "unused")
      BY <1>1, <1>2, <2>2 DEF RowLife, States
    <3>2. key'[s] = key[s] /\ nextSeq' \in Nat /\ nextSeq <= nextSeq'
      BY <1>1, <2>2 DEF RowLife
    <3>3. (s >= nextSeq') <=> (s >= nextSeq)
      <4>1. s \in Nat
        BY <1>2
      <4>2. ASSUME s >= nextSeq, ~(s >= nextSeq') PROVE FALSE
        <5>1. s \in nextSeq .. nextSeq' - 1
          BY <1>2, <3>2, <4>1, <4>2, WithinEnd
        <5> QED
          BY <2>2, <5>1
      <4>3. s >= nextSeq' => s >= nextSeq
        BY <1>2, <3>2, <4>1
      <4> QED
        BY <4>2, <4>3
    <3> QED
      BY <1>3, <3>1, <3>2, <3>3 DEF SeqsInOrder, KeysKnown
  <2> QED
    BY <2>1, <2>2
<1> QED
  BY <1>4 DEF SeqsInOrder, KeysKnown

-----------------------------------------------------------------------------
(* Delivery: what is settled has been judged                               *)

\* radar-api never forgets that it judged a result.
LEMMA ServerMonotone ==
  ASSUME TypeOK, [Next]_vars
  PROVE  \A r \in Results : server[r] # "none" => server'[r] # "none"
<1> USE DEF TypeOK
<1>1. ASSUME NEW ids, Judge(ids)
      PROVE  \A r \in Results : server[r] # "none" => server'[r] # "none"
  BY <1>1 DEF Judge
<1>2. ASSUME NEW batch \in SUBSET Results, ReportFallback(batch)
      PROVE  \A r \in Results : server[r] # "none" => server'[r] # "none"
  BY <1>1, <1>2 DEF ReportFallback
<1>3. CASE PostAnswered \/ PostFails
  BY <1>1, <1>3 DEF PostAnswered, PostFails
<1>4. CASE UNCHANGED server
  BY <1>4
<1> QED
  BY <1>2, <1>3, <1>4 DEF Next, Drain, Maintain, vars, RecordResults, PendingResults,
     PendingResultsFails, MarkOutcomes, MarkOutcomesFails, BackoffElapses, MaintainStart,
     ReadRollupChunk, WriteRollups, RollupCursorMoved, PruneExpired, SizeFits, PruneForSize,
     PruneRollups, MaintainAborts, ClockTick, Crash

\* Only MarkOutcomes takes a row out of the queue.
LEMMA OnlyOutcomesSettle ==
  ASSUME TypeOK, [Next]_vars, NEW s \in Seqs, state[s] = "pending", state'[s] # "pending"
  PROVE  drain.pc = "settle" /\ s \in drain.batch
<1> USE DEF TypeOK
<1>1. ASSUME NEW batch \in SUBSET Results, NEW when \in Times, RecordResults(batch, when)
      PROVE  state'[s] = "pending"
  BY <1>1 DEF RecordResults
<1>2. ASSUME NEW m \in Maintainers, PruneExpired(m) PROVE state'[s] = "pending"
  BY <1>2, OldestSubset DEF PruneExpired, Prune, Expired, Settled
<1>3. ASSUME NEW m \in Maintainers, PruneForSize(m) PROVE state'[s] = "pending"
  BY <1>3, OldestSubset DEF PruneForSize, Prune, Settled
<1>4. CASE MarkOutcomes
  BY <1>4 DEF MarkOutcomes
<1>5. CASE UNCHANGED journalVars
  BY <1>5 DEF journalVars
<1> QED
  BY <1>1, <1>2, <1>3, <1>4, <1>5, JournalWriters

\* No step gives up a row that radar-api has not judged.
LEMMA LostStep ==
  ASSUME IInv, [Next]_vars PROVE RecordedNotLost'
<1> SUFFICES ASSUME NEW s \in Seqs, state'[s] \in {"delivered", "rejected", "pruned"}
             PROVE  server'[key'[s]] # "none"
  BY DEF RecordedNotLost
<1>1. RowLife
  BY RowLifeStep DEF IInv
<1>2. s \notin nextSeq .. nextSeq' - 1
  BY <1>1 DEF RowLife
<1>3. key'[s] = key[s] /\ state[s] # "unused"
  BY <1>1, <1>2 DEF RowLife
<1>4. key[s] \in Results
  BY <1>3 DEF IInv, KeysKnown
<1>5. CASE state[s] = "pending"
  <2>1. drain.pc = "settle" /\ s \in drain.batch
    BY <1>5, OnlyOutcomesSettle DEF IInv
  <2>2. server[key[s]] # "none"
    BY <2>1 DEF IInv, BatchJudged
  <2> QED
    BY <1>3, <1>4, <2>2, ServerMonotone DEF IInv
<1>6. CASE state[s] # "pending"
  <2>1. server[key[s]] # "none"
    BY <1>3, <1>6 DEF IInv, RecordedNotLost, TypeOK, States
  <2> QED
    BY <1>3, <1>4, <2>1, ServerMonotone DEF IInv
<1> QED
  BY <1>5, <1>6

\* The batch under way stays a batch of used rows, judged once answered.
LEMMA BatchStep ==
  ASSUME IInv, [Next]_vars PROVE BatchJudged'
<1>1. RowLife
  BY RowLifeStep DEF IInv
<1>2. ASSUME NEW s \in Seqs, state[s] # "unused"
      PROVE  state'[s] # "unused" /\ key'[s] = key[s]
  BY <1>1, <1>2, UsedRowKept DEF IInv
<1>3. drain.batch \subseteq Seqs /\ IdleDrain.batch = {} /\ IdleDrain.pc = "idle"
  BY DEF IInv, TypeOK, DrainType, IdleDrain
<1>4. CASE drain' = drain
  <2>1. \A s \in drain.batch : key[s] \in Results
    BY <1>3 DEF IInv, BatchJudged, KeysKnown
  <2> QED
    BY <1>2, <1>3, <1>4, <2>1, ServerMonotone DEF IInv, BatchJudged
<1>5. CASE drain' = IdleDrain
  BY <1>3, <1>5 DEF BatchJudged
<1>6. CASE PendingResults
  <2>1. drain'.batch = Oldest(PendingSet, BatchLimit) /\ drain'.pc = "post"
    BY <1>6 DEF PendingResults, IdleDrain
  <2>2. \A s \in drain'.batch : state[s] # "unused" /\ s \in Seqs
    BY <2>1, OldestSubset DEF PendingSet
  <2> QED
    BY <1>2, <2>1, <2>2 DEF BatchJudged
<1>7. CASE PostAnswered
  <2>1. drain'.batch = drain.batch
    BY <1>7 DEF PostAnswered, IInv, TypeOK, DrainType
  <2>2. \A s \in drain.batch : key[s] \in Results /\ key[s] \in Posted
    BY <1>3 DEF IInv, BatchJudged, KeysKnown, Posted
  <2>3. \A s \in drain.batch : server'[key[s]] # "none"
    BY <1>7, <2>2 DEF PostAnswered, Judge
  <2> QED
    BY <1>2, <1>3, <2>1, <2>3 DEF IInv, BatchJudged
<1> QED
  BY <1>4, <1>5, <1>6, <1>7 DEF Next, Drain, Maintain, vars, drainVars, RecordResults, ReportFallback,
     PendingResultsFails, PostFails, MarkOutcomes, MarkOutcomesFails, BackoffElapses, Backoff,
     MaintainStart, ReadRollupChunk, WriteRollups, RollupCursorMoved, PruneExpired, SizeFits,
     PruneForSize, PruneRollups, MaintainAborts, ClockTick, Crash

-----------------------------------------------------------------------------
(* Rollups: the cursor, the chunks and what has been counted               *)

\* No row becomes live below the rows already handed out.
LEMMA LiveStep ==
  ASSUME TypeOK, SeqsInOrder, RowLife, NEW s \in Live'
  PROVE  s \in Seqs /\ (s \in Live \/ s >= nextSeq)
<1>1. s \in Seqs /\ state'[s] \notin {"unused", "pruned"}
  BY DEF Live, Seqs
<1>2. s \in Int /\ nextSeq \in Int
  BY <1>1, BoundsAssumption DEF TypeOK, Seqs
<1>3. CASE s \in nextSeq .. nextSeq' - 1
  BY <1>1, <1>2, <1>3
<1>4. CASE s \notin nextSeq .. nextSeq' - 1
  BY <1>1, <1>4 DEF RowLife, Live, TypeOK, States
<1> QED
  BY <1>3, <1>4

\* What one transaction of writeRollups does to the counts.
LEMMA WriteRollupsStep ==
  ASSUME IInv, NEW m \in Maintainers, WriteRollups(m), RowLife
  PROVE  CursorBound' /\ ChunkIsPrefix' /\ FoldedOnce' /\ NoneSkipped'
<1> DEFINE chunk == maint[m].chunk
<1>1. PICK last \in chunk :
        /\ \A s \in chunk : s <= last
        /\ folded' = [s \in Seqs |-> IF s \in chunk THEN folded[s] + 1 ELSE folded[s]]
        /\ cursor' = last
        /\ maint' = [maint EXCEPT ![m].pc = "read", ![m].after = last, ![m].chunk = {}]
  BY DEF WriteRollups
<1>2. /\ maint[m].pc = "write" /\ cursor = maint[m].after
      /\ state' = state /\ nextSeq' = nextSeq /\ evicted' = evicted
  BY DEF WriteRollups, CursorHeld, journalVars
<1>3. /\ chunk \subseteq Seqs /\ Seqs \subseteq Nat /\ cursor \in Nat /\ nextSeq \in Nat
      /\ folded \in [Seqs -> Nat] /\ maint \in [Maintainers -> MaintType]
  BY BoundsAssumption DEF IInv, TypeOK, MaintType, Seqs
<1>4. \A s \in chunk : cursor < s /\ s < nextSeq
  BY <1>2 DEF IInv, ChunkIsPrefix
<1>5. \A s \in Live : cursor < s /\ s <= last => s \in chunk
  BY <1>1, <1>2 DEF IInv, ChunkIsPrefix
<1>6. \A s \in Seqs : s > cursor => folded[s] = 0
  BY DEF IInv, CursorBound
<1>7. cursor < last /\ last < nextSeq /\ last \in Nat
  BY <1>1, <1>3, <1>4
<1>8. CursorBound'
  BY <1>1, <1>2, <1>3, <1>6, <1>7 DEF CursorBound
<1>9. FoldedOnce'
  BY <1>1, <1>3, <1>4, <1>6 DEF IInv, FoldedOnce
<1>10. NoneSkipped'
  <2> SUFFICES ASSUME NEW s \in Live, s <= last PROVE folded'[s] = 1 \/ s \in evicted
    BY <1>1, <1>2 DEF NoneSkipped, Live
  <2>1. s \in Seqs
    BY DEF Live
  <2>2. CASE s <= cursor
    <3>1. s \notin chunk
      BY <1>3, <1>4, <2>1, <2>2
    <3> QED
      BY <1>1, <2>1, <2>2, <3>1 DEF IInv, NoneSkipped
  <2>3. CASE cursor < s
    BY <1>1, <1>3, <1>5, <1>6, <2>1, <2>3
  <2> QED
    BY <1>3, <2>1, <2>2, <2>3
<1>11. ChunkIsPrefix'
  <2>1. ASSUME NEW q \in Maintainers, q # m
        PROVE  maint'[q] = maint[q] /\ maint[q].after <= last
    BY <1>1, <1>3, <1>7, <2>1 DEF IInv, ChunkIsPrefix, MaintType
  <2>2. maint'[m].after = last /\ maint'[m].chunk = {} /\ maint'[m].pc = "read"
    BY <1>1, <1>3 DEF MaintType
  <2>3. Live' = Live
    BY <1>2 DEF Live
  <2> QED
    BY <1>1, <1>2, <1>7, <2>1, <2>2, <2>3 DEF IInv, ChunkIsPrefix
<1> QED
  BY <1>8, <1>9, <1>10, <1>11

\* The size cap's last resort forgets whole buckets, and says so.
LEMMA PruneRollupsStep ==
  ASSUME IInv, NEW m \in Maintainers, PruneRollups(m)
  PROVE  CursorBound' /\ ChunkIsPrefix' /\ FoldedOnce' /\ NoneSkipped'
<1>1. PICK gone \in SUBSET Seqs :
        /\ folded' = [s \in Seqs |-> IF s \in gone THEN 0 ELSE folded[s]]
        /\ evicted' = evicted \union gone
  BY DEF PruneRollups
<1>2. state' = state /\ nextSeq' = nextSeq /\ cursor' = cursor
  BY DEF PruneRollups, journalVars
<1>3. Live' = Live /\ Live \subseteq Seqs /\ folded \in [Seqs -> Nat]
  BY <1>2 DEF Live, IInv, TypeOK
<1>4. maint \in [Maintainers -> MaintType]
  BY DEF IInv, TypeOK
<1>5. ASSUME NEW q \in Maintainers
      PROVE  \/ maint'[q].after = maint[q].after /\ maint'[q].chunk = maint[q].chunk
                /\ (maint'[q].pc = "write" => maint[q].pc = "write")
             \/ maint'[q] = IdleMaint
  BY <1>4 DEF PruneRollups, MaintType
<1>6. ChunkIsPrefix'
  BY <1>2, <1>3, <1>4, <1>5, BoundsAssumption DEF IInv, ChunkIsPrefix, IdleMaint, TypeOK
<1> QED
  BY <1>1, <1>2, <1>3, <1>6 DEF IInv, CursorBound, FoldedOnce, NoneSkipped

\* A Maintain call that reads keeps the prefix property of its own chunk.
LEMMA ReadChunkStep ==
  ASSUME IInv, NEW m \in Maintainers, ReadRollupChunk(m)
  PROVE  ChunkIsPrefix'
<1> DEFINE after == maint[m].after
           rows == RollupRows(after)
           above == {s \in Live : s > after}
<1>1. /\ maint' = [maint EXCEPT ![m].pc = IF rows = {} THEN "retain" ELSE "write",
                               ![m].chunk = rows, ![m].upto = IF rows = {} THEN nextSeq ELSE 0]
      /\ state' = state /\ nextSeq' = nextSeq /\ cursor' = cursor
  BY DEF ReadRollupChunk, journalVars, rollupVars
<1>2. /\ maint \in [Maintainers -> MaintType] /\ Seqs \subseteq Nat /\ nextSeq \in Nat
      /\ above \subseteq Seqs /\ Live \subseteq Seqs /\ after \in Nat /\ Live' = Live
  <2>1. maint \in [Maintainers -> MaintType] /\ nextSeq \in Nat
    BY BoundsAssumption DEF IInv, TypeOK
  <2>2. after \in Nat
    BY <2>1, BoundsAssumption DEF MaintType
  <2>3. Live' = Live
    BY <1>1 DEF Live
  <2> QED
    BY <2>1, <2>2, <2>3, BoundsAssumption DEF Seqs, Live
<1>3. rows \subseteq above
  BY OldestSubset DEF RollupRows
<1>4. \A s \in rows : after < s /\ s < nextSeq
  <2>1. \A s \in Live : s < nextSeq
    BY <1>2 DEF IInv, SeqsInOrder, Live
  <2> QED
    BY <1>2, <1>3, <2>1
<1>5. ASSUME NEW s \in Live, NEW t \in rows, after < s, s <= t
      PROVE  s \in rows
  <2>1. s \in above
    BY <1>2, <1>5
  <2> QED
    BY <1>2, <1>5, <2>1, OldestPrefix, BoundsAssumption DEF RollupRows
<1>6. maint'[m].after = after /\ maint'[m].chunk = rows
  BY <1>1, <1>2 DEF MaintType
<1>7. \A q \in Maintainers : q # m => maint'[q] = maint[q]
  BY <1>1, <1>2
<1> QED
  BY <1>1, <1>2, <1>4, <1>5, <1>6, <1>7 DEF IInv, ChunkIsPrefix

\* Every other step leaves the rollups alone, and each Maintain call either
\* keeps its chunk or starts afresh at or below the cursor.
LEMMA RollupsUntouched ==
  ASSUME IInv, RowLife, SeqsInOrder, UNCHANGED rollupVars,
         \A q \in Maintainers :
           \/ maint'[q].after = maint[q].after /\ maint'[q].chunk = maint[q].chunk
              /\ (maint'[q].pc = "write" => maint[q].pc = "write")
           \/ maint'[q].after \in {0, cursor} /\ maint'[q].chunk = {}
  PROVE  CursorBound' /\ ChunkIsPrefix' /\ FoldedOnce' /\ NoneSkipped'
<1>1. /\ Seqs \subseteq Nat /\ nextSeq \in Nat /\ cursor \in Nat /\ nextSeq' \in Nat
      /\ maint \in [Maintainers -> MaintType] /\ nextSeq <= nextSeq' /\ cursor < nextSeq
  BY BoundsAssumption DEF IInv, TypeOK, Seqs, RowLife, CursorBound
<1>2. folded' = folded /\ cursor' = cursor /\ evicted' = evicted
  BY DEF rollupVars
<1>3. \A s \in Live' : s \in Seqs /\ (s \in Live \/ s >= nextSeq)
  BY LiveStep DEF IInv
<1>4. CursorBound' /\ FoldedOnce'
  <2>1. FoldedOnce /\ \A s \in Seqs : s > cursor => folded[s] = 0
    BY DEF IInv, CursorBound
  <2>2. FoldedOnce'
    BY <1>2, <2>1 DEF FoldedOnce
  <2>3. cursor' < nextSeq'
    BY <1>1, <1>2
  <2>4. \A s \in Seqs : s > cursor' => folded'[s] = 0
    BY <1>2, <2>1
  <2> QED
    BY <2>2, <2>3, <2>4 DEF CursorBound
<1>5. NoneSkipped'
  <2> SUFFICES ASSUME NEW s \in Live', s <= cursor PROVE folded[s] = 1 \/ s \in evicted
    BY <1>2 DEF NoneSkipped
  <2>1. s \in Nat
    BY <1>1, <1>3
  <2>2. ~ (s >= nextSeq)
    BY <1>1, <2>1
  <2>3. s \in Live
    BY <1>3, <2>2
  <2> QED
    BY <2>3 DEF IInv, NoneSkipped
<1>6. ASSUME NEW q \in Maintainers
      PROVE  /\ maint'[q].after <= cursor
             /\ \A s \in maint'[q].chunk : maint'[q].after < s /\ s < nextSeq'
             /\ maint'[q].pc = "write" => \A s \in Live' : \A t \in maint'[q].chunk :
                  maint'[q].after < s /\ s <= t => s \in maint'[q].chunk
  <2>1. CASE maint'[q].after \in {0, cursor} /\ maint'[q].chunk = {}
    BY <1>1, <2>1
  <2>2. CASE /\ maint'[q].after = maint[q].after /\ maint'[q].chunk = maint[q].chunk
             /\ maint'[q].pc = "write" => maint[q].pc = "write"
    <3>1. maint[q].chunk \subseteq Seqs /\ maint[q].after <= cursor
      BY <1>1 DEF IInv, ChunkIsPrefix, MaintType
    <3>2. \A s \in maint[q].chunk : maint[q].after < s /\ s < nextSeq
      BY DEF IInv, ChunkIsPrefix
    <3>3. ASSUME NEW s \in Live', NEW t \in maint[q].chunk, maint[q].after < s, s <= t,
                 maint[q].pc = "write"
          PROVE  s \in maint[q].chunk
      <4>1. s \in Nat /\ t \in Nat /\ t < nextSeq
        BY <1>1, <1>3, <3>1, <3>2
      <4>2. s \in Live
        BY <1>1, <1>3, <3>3, <4>1
      <4> QED
        BY <3>3, <4>2 DEF IInv, ChunkIsPrefix
    <3>4. ASSUME NEW s \in maint[q].chunk PROVE s < nextSeq'
      <4>1. s \in Nat /\ s < nextSeq
        BY <1>1, <3>1, <3>2
      <4> QED
        BY <1>1, <4>1
    <3> QED
      BY <2>2, <3>1, <3>2, <3>3, <3>4
  <2> QED
    BY <2>1, <2>2
<1> QED
  BY <1>2, <1>4, <1>5, <1>6 DEF ChunkIsPrefix

\* Cursor, chunks and counts are preserved together.
LEMMA RollupsStep ==
  ASSUME IInv, [Next]_vars PROVE CursorBound' /\ ChunkIsPrefix' /\ FoldedOnce' /\ NoneSkipped'
<1> DEFINE Kept(q) ==
             \/ maint'[q].after = maint[q].after /\ maint'[q].chunk = maint[q].chunk
                /\ (maint'[q].pc = "write" => maint[q].pc = "write")
             \/ maint'[q].after \in {0, cursor} /\ maint'[q].chunk = {}
<1>1. RowLife /\ SeqsInOrder /\ maint \in [Maintainers -> MaintType]
  BY RowLifeStep DEF IInv, TypeOK
<1>2. CASE UNCHANGED <<rollupVars, maint>>
  BY <1>1, <1>2, RollupsUntouched
<1>3. ASSUME NEW m \in Maintainers, Maintain(m)
      PROVE  CursorBound' /\ ChunkIsPrefix' /\ FoldedOnce' /\ NoneSkipped'
  <2>1. CASE MaintainStart(m)
    <3>1. \A q \in Maintainers : Kept(q)
      BY <1>1, <2>1 DEF MaintainStart, IdleMaint
    <3> QED
      BY <1>1, <2>1, <3>1, RollupsUntouched DEF MaintainStart
  <2>2. CASE ReadRollupChunk(m)
    <3>1. UNCHANGED <<journalVars, rollupVars>> /\ Live' = Live
      BY <2>2 DEF ReadRollupChunk, journalVars, Live
    <3>2. CursorBound' /\ FoldedOnce' /\ NoneSkipped'
      BY <3>1 DEF IInv, CursorBound, FoldedOnce, NoneSkipped, journalVars, rollupVars
    <3> QED
      BY <2>2, <3>2, ReadChunkStep
  <2>3. CASE WriteRollups(m)
    BY <1>1, <2>3, WriteRollupsStep
  <2>4. CASE RollupCursorMoved(m)
    <3>1. \A q \in Maintainers : Kept(q)
      BY <1>1, <2>4 DEF RollupCursorMoved, IdleMaint
    <3> QED
      BY <1>1, <2>4, <3>1, RollupsUntouched DEF RollupCursorMoved
  <2>5. CASE PruneExpired(m)
    <3>1. \A q \in Maintainers : Kept(q)
      BY <1>1, <2>5 DEF PruneExpired, Goto, MaintType
    <3> QED
      BY <1>1, <2>5, <3>1, RollupsUntouched DEF PruneExpired
  <2>6. CASE SizeFits(m) \/ MaintainAborts(m)
    <3>1. \A q \in Maintainers : Kept(q)
      BY <1>1, <2>6 DEF SizeFits, MaintainAborts, IdleMaint
    <3> QED
      BY <1>1, <2>6, <3>1, RollupsUntouched DEF SizeFits, MaintainAborts
  <2>7. CASE PruneForSize(m)
    <3>1. \A q \in Maintainers : Kept(q)
      BY <1>1, <2>7 DEF PruneForSize, Goto, MaintType
    <3> QED
      BY <1>1, <2>7, <3>1, RollupsUntouched DEF PruneForSize
  <2>8. CASE PruneRollups(m)
    BY <2>8, PruneRollupsStep
  <2> QED
    BY <1>3, <2>1, <2>2, <2>3, <2>4, <2>5, <2>6, <2>7, <2>8 DEF Maintain
<1>4. CASE Crash
  <2>1. \A q \in Maintainers : Kept(q)
    BY <1>1, <1>4 DEF Crash, IdleMaint
  <2> QED
    BY <1>1, <1>4, <2>1, RollupsUntouched DEF Crash
<1> QED
  BY <1>2, <1>3, <1>4 DEF Next, Drain, vars, RecordResults, ReportFallback, PendingResults,
     PendingResultsFails, PostAnswered, PostFails, MarkOutcomes, MarkOutcomesFails, BackoffElapses,
     ClockTick

\* A row that is counted, or whose bucket was given up, stays so.
LEMMA CountedKept ==
  ASSUME IInv, [Next]_vars, NEW s \in Seqs, folded[s] = 1 \/ s \in evicted
  PROVE  folded'[s] = 1 \/ s \in evicted'
<1>1. folded \in [Seqs -> Nat]
  BY DEF IInv, TypeOK
<1>2. CASE UNCHANGED <<folded, evicted>>
  BY <1>2
<1>3. ASSUME NEW m \in Maintainers, WriteRollups(m)
      PROVE  folded'[s] = 1 \/ s \in evicted'
  <2>1. evicted' = evicted /\ cursor = maint[m].after
    BY <1>3 DEF WriteRollups, CursorHeld
  <2>2. folded' = [t \in Seqs |-> IF t \in maint[m].chunk THEN folded[t] + 1 ELSE folded[t]]
    BY <1>3 DEF WriteRollups
  <2>3. s \in maint[m].chunk => folded[s] = 0
    BY <2>1 DEF IInv, ChunkIsPrefix, CursorBound
  <2> QED
    BY <1>1, <2>1, <2>2, <2>3
<1>4. ASSUME NEW m \in Maintainers, PruneRollups(m)
      PROVE  folded'[s] = 1 \/ s \in evicted'
  BY <1>1, <1>4 DEF PruneRollups
<1> QED
  BY <1>2, <1>3, <1>4 DEF Next, Drain, vars, rollupVars, Maintain, RecordResults, ReportFallback,
     PendingResults, PendingResultsFails, PostAnswered, PostFails, MarkOutcomes, MarkOutcomesFails,
     BackoffElapses, ClockTick, Crash, MaintainStart, ReadRollupChunk, RollupCursorMoved,
     PruneExpired, SizeFits, PruneForSize, MaintainAborts

\* A rollup pass that finds nothing above its cursor has counted every row.
LEMMA PassComplete ==
  ASSUME IInv, NEW m \in Maintainers, RollupRows(maint[m].after) = {}, NEW s \in Live
  PROVE  folded[s] = 1 \/ s \in evicted
<1> DEFINE after == maint[m].after
           above == {t \in Live : t > after}
<1>1. after \in Nat /\ s \in Nat /\ cursor \in Nat /\ after <= cursor /\ above \subseteq Seqs
  BY BoundsAssumption DEF IInv, TypeOK, MaintType, Seqs, Live, ChunkIsPrefix
<1>2. Oldest(above, RollupChunk) = {}
  BY DEF RollupRows
<1>3. above = {}
  BY <1>1, <1>2, BoundsAssumption, OldestEmpty
<1> QED
  BY <1>1, <1>3 DEF IInv, NoneSkipped

\* What a call's rollup pass had to count is counted while the call prunes.
LEMMA PassStep ==
  ASSUME IInv, [Next]_vars PROVE PassEnded' /\ FoldedBeforePruning'
<1> DEFINE Pruning(q) == maint[q].pc \in {"retain", "size", "rollups"}
           PruningNext(q) == maint'[q].pc \in {"retain", "size", "rollups"}
           Keeps(q) == maint'[q].upto = maint[q].upto /\ (PruningNext(q) => Pruning(q))
           Ends(q) == /\ RollupRows(maint[q].after) = {}
                      /\ maint'[q].upto = nextSeq /\ UNCHANGED <<state, folded, evicted>>
           Fresh0(q) == maint'[q].upto = 0
<1>0. TypeOK /\ TypeOK' /\ RowLife /\ SeqsInOrder
  BY TypeStep, RowLifeStep DEF IInv
<1>1. /\ maint \in [Maintainers -> MaintType] /\ Seqs \subseteq Nat /\ nextSeq \in Nat
      /\ nextSeq' \in Nat /\ nextSeq <= nextSeq'
  BY <1>0, BoundsAssumption DEF TypeOK, Seqs, RowLife
<1>2. ASSUME NEW q \in Maintainers PROVE Keeps(q) \/ Ends(q) \/ Fresh0(q)
  <2>1. CASE UNCHANGED maint
    BY <2>1
  <2>2. ASSUME Maintain(q) PROVE Keeps(q) \/ Ends(q) \/ Fresh0(q)
    <3>1. CASE ReadRollupChunk(q)
      BY <1>1, <3>1 DEF ReadRollupChunk, MaintType, journalVars, rollupVars
    <3>2. CASE PruneExpired(q) \/ PruneForSize(q)
      BY <1>1, <3>2 DEF PruneExpired, PruneForSize, Goto, MaintType
    <3>7. CASE PruneRollups(q)
      BY <1>1, <3>7 DEF PruneRollups, IdleMaint, MaintType
    <3>3. CASE WriteRollups(q)
      BY <1>1, <3>3 DEF WriteRollups, MaintType
    <3>4. CASE MaintainStart(q)
      BY <1>1, <3>4 DEF MaintainStart, IdleMaint
    <3>5. CASE RollupCursorMoved(q)
      BY <1>1, <3>5 DEF RollupCursorMoved, IdleMaint
    <3>6. CASE SizeFits(q) \/ MaintainAborts(q)
      BY <1>1, <3>6 DEF SizeFits, MaintainAborts, IdleMaint
    <3> QED
      BY <2>2, <3>1, <3>2, <3>3, <3>4, <3>5, <3>6, <3>7 DEF Maintain
  <2>3. ASSUME NEW m \in Maintainers, Maintain(m), m # q PROVE maint'[q] = maint[q]
    BY <1>1, <2>3 DEF Maintain, MaintainStart, ReadRollupChunk, WriteRollups, RollupCursorMoved,
       PruneExpired, SizeFits, PruneForSize, PruneRollups, MaintainAborts, Goto
  <2>4. CASE Crash
    BY <1>1, <2>4 DEF Crash, IdleMaint
  <2> QED
    BY <2>1, <2>2, <2>3, <2>4 DEF Next, Drain, vars, RecordResults, ReportFallback,
       PendingResults, PendingResultsFails, PostAnswered, PostFails, MarkOutcomes,
       MarkOutcomesFails, BackoffElapses, ClockTick
<1>3. ASSUME NEW q \in Maintainers PROVE maint[q].upto \in Nat /\ maint[q].upto <= nextSeq
  BY <1>1, BoundsAssumption DEF IInv, PassEnded, MaintType
<1>4. PassEnded'
  BY <1>1, <1>2, <1>3 DEF PassEnded
<1>5. ASSUME NEW q \in Maintainers, PruningNext(q), NEW s \in Live', s < maint'[q].upto
      PROVE  folded'[s] = 1 \/ s \in evicted'
  <2>1. s \in Seqs /\ s \in Nat /\ (s \in Live \/ s >= nextSeq)
    BY <1>0, <1>1, LiveStep
  <2>2. s \in Live
    BY <1>1, <1>2, <1>3, <1>5, <2>1
  <2>3. CASE Keeps(q)
    BY <1>5, <2>1, <2>2, <2>3, CountedKept DEF IInv, FoldedBeforePruning
  <2>4. CASE Ends(q)
    BY <2>2, <2>4, PassComplete
  <2>5. CASE Fresh0(q)
    BY <1>5, <2>1, <2>5
  <2> QED
    BY <1>2, <2>3, <2>4, <2>5
<1> QED
  BY <1>4, <1>5 DEF FoldedBeforePruning

-----------------------------------------------------------------------------
(* The theorems                                                            *)

\* The inductive invariant holds in every reachable state.
LEMMA IInvHolds == Spec => []IInv
<1>1. IInv /\ [Next]_vars => IInv'
  BY TypeStep, RowsStep, LostStep, BatchStep, RollupsStep, PassStep DEF IInv
<1> QED
  BY <1>1, InitIInv, PTL DEF Spec

\* Whatever crashes, failed posts, lost responses and pruning runs interleave,
\* a result RecordResults committed is pending until radar-api has judged it.
THEOREM NoResultLost == Spec => []RecordedNotLost
<1>1. IInv => RecordedNotLost
  BY DEF IInv
<1> QED
  BY <1>1, IInvHolds, PTL

\* Any number of concurrent Maintain calls fold a row into its bucket at most
\* once (the cursor comparison in writeRollups).
THEOREM RolledUpAtMostOnce == Spec => []FoldedOnce
<1>1. IInv => FoldedOnce
  BY DEF IInv
<1> QED
  BY <1>1, IInvHolds, PTL

\* The cursor never passes a live row without counting it (readRollupChunk's
\* ORDER BY and the journal's AUTOINCREMENT).
THEOREM CursorSkipsNothing == Spec => []NoneSkipped
<1>1. IInv => NoneSkipped
  BY DEF IInv
<1> QED
  BY <1>1, IInvHolds, PTL

\* Whatever moves the cursor meanwhile, a Maintain call starts deleting only
\* when everything the journal then held is in the rollups.
THEOREM HistoryBeforePruning == Spec => []FoldedBeforePruning
<1>1. IInv => FoldedBeforePruning
  BY DEF IInv
<1> QED
  BY <1>1, IInvHolds, PTL

-----------------------------------------------------------------------------
(* Refinement                                                              *)

\* What radar-api has judged only grows.
LEMMA SeenGrows == ASSUME IInv, [Next]_vars PROVE SeenOf \subseteq SeenOf'
<1> SUFFICES ASSUME NEW s \in Seqs, state[s] # "unused", server[key[s]] # "none"
             PROVE  s \in SeenOf'
  BY DEF SeenOf
<1>1. state'[s] # "unused" /\ key'[s] = key[s] /\ key[s] \in Results
  BY RowLifeStep, UsedRowKept DEF IInv, KeysKnown
<1>2. server'[key[s]] # "none"
  BY <1>1, ServerMonotone DEF IInv
<1> QED
  BY <1>1, <1>2 DEF SeenOf

\* A committed batch is an Enqueue.
LEMMA RecordEnqueues ==
  ASSUME IInv, [Next]_vars, NEW batch, NEW when, RecordResults(batch, when)
  PROVE  Abstract!Next
<1> DEFINE rows  == {s \in Seqs : state[s] = "unused" /\ state'[s] = "pending"}
           known == SeenOf' \ SeenOf
<1>1. server' = server
  BY DEF RecordResults
<1>2. \A s \in Seqs : s \notin rows => state'[s] = state[s] /\ key'[s] = key[s]
  <2>1. PICK last \in (nextSeq - 1) .. MaxSeq :
          \E row \in [nextSeq .. last -> Fresh(batch)] :
            /\ \A s, t \in nextSeq .. last : row[s] = row[t] => s = t
            /\ \A r \in Fresh(batch) : \E s \in nextSeq .. last : row[s] = r
            /\ state' = [s \in Seqs |-> IF s \in nextSeq .. last THEN "pending" ELSE state[s]]
            /\ key' = [s \in Seqs |-> IF s \in nextSeq .. last THEN row[s] ELSE key[s]]
            /\ at' = [s \in Seqs |-> IF s \in nextSeq .. last THEN when ELSE at[s]]
            /\ nextSeq' = last + 1
    BY DEF RecordResults
  <2>2. \A s \in Seqs : s \in nextSeq .. last => state[s] = "unused"
    BY BoundsAssumption DEF IInv, SeqsInOrder, TypeOK, Seqs
  <2> QED
    BY <2>1, <2>2
<1>3. rows \in SUBSET Abstract!In("absent")
  BY DEF Abstract!In, BoxOf, Place
<1>4. BoxOf' = [s \in Seqs |-> IF s \in rows THEN "queued" ELSE BoxOf[s]]
  BY <1>2 DEF BoxOf, Place
<1>5. known \in SUBSET rows
  BY <1>1, <1>2 DEF SeenOf
<1>6. SeenOf' = SeenOf \union known
  BY SeenGrows
<1>7. Abstract!Enqueue(rows, known)
  BY <1>4, <1>6 DEF Abstract!Enqueue, Abstract!Move
<1> QED
  BY <1>3, <1>5, <1>7 DEF Abstract!Next

\* A committed MarkOutcomes is a Settle of rows already judged.
LEMMA OutcomesSettle ==
  ASSUME IInv, MarkOutcomes PROVE Abstract!Next
<1> DEFINE rows == {s \in drain.batch : state[s] = "pending"}
<1>1. /\ state \in [Seqs -> States] /\ drain.batch \subseteq Seqs
      /\ \A s \in drain.batch : server[key[s]] # "none"
  BY DEF IInv, TypeOK, DrainType, BatchJudged, MarkOutcomes
<1>2. state' = [s \in Seqs |-> IF s \in drain.batch /\ state[s] = "pending"
                                 THEN Outcome(drain.acks[s]) ELSE state[s]]
      /\ key' = key /\ server' = server
  BY DEF MarkOutcomes
<1>3. \A s \in Seqs : Outcome(drain.acks[s]) \in {"delivered", "rejected"}
  BY DEF Outcome
<1>4. rows \in SUBSET (Abstract!In("queued") \intersect SeenOf)
  BY <1>1 DEF Abstract!In, BoxOf, SeenOf, Place
<1>5. BoxOf' = [s \in Seqs |-> IF s \in rows THEN "settled" ELSE BoxOf[s]]
  BY <1>1, <1>2, <1>3 DEF BoxOf, Place
<1>6. SeenOf' = SeenOf
  BY <1>1, <1>2, <1>3 DEF SeenOf
<1>7. Abstract!Settle(rows)
  BY <1>5, <1>6 DEF Abstract!Settle, Abstract!Move
<1> QED
  BY <1>4, <1>7 DEF Abstract!Next

\* A DELETE of settled rows is a Forget.
LEMMA PruneForgets ==
  ASSUME IInv, NEW rows \in SUBSET Settled, Prune(rows), UNCHANGED <<key, server>>
  PROVE  Abstract!Next
<1>1. state \in [Seqs -> States] /\ rows \subseteq Seqs
  BY DEF IInv, TypeOK, Settled
<1>2. rows \in SUBSET Abstract!In("settled")
  BY <1>1 DEF Abstract!In, BoxOf, Place, Settled
<1>3. BoxOf' = [s \in Seqs |-> IF s \in rows THEN "forgotten" ELSE BoxOf[s]]
  BY <1>1 DEF BoxOf, Place, Prune
<1>4. SeenOf' = SeenOf
  BY <1>1 DEF SeenOf, Prune, Settled
<1>5. Abstract!Forget(rows)
  BY <1>3, <1>4 DEF Abstract!Forget, Abstract!Move
<1> QED
  BY <1>2, <1>5 DEF Abstract!Next

\* Every other step at most lets the server judge queued rows.
LEMMA OthersSee ==
  ASSUME IInv, [Next]_vars, UNCHANGED journalVars PROVE Abstract!Next
<1> DEFINE rows == SeenOf' \ SeenOf
<1>1. state' = state /\ key' = key /\ BoxOf' = BoxOf
  BY DEF journalVars, BoxOf
<1>2. rows \in SUBSET (Seqs \ Abstract!In("absent"))
  BY <1>1 DEF SeenOf, Abstract!In, BoxOf, Place, IInv, TypeOK, States
<1>3. Abstract!See(rows)
  BY <1>1, SeenGrows DEF Abstract!See
<1> QED
  BY <1>2, <1>3 DEF Abstract!Next

\* The store and its delivery loop implement the abstract outbox: a row is
\* settled only once seen, forgotten only once settled, and never queued again.
THEOREM StoreImplementsOutbox == Spec => ImplementsOutbox
<1>1. Init => Abstract!Init
  <2> SUFFICES ASSUME Init PROVE Abstract!Init
    OBVIOUS
  <2>1. \A s \in Seqs : state[s] = "unused"
    BY DEF Init
  <2> QED
    BY <2>1 DEF Abstract!Init, BoxOf, SeenOf, Place
<1>2. ASSUME IInv, [Next]_vars PROVE Abstract!Next
  <2>1. ASSUME NEW m \in Maintainers, PruneExpired(m) PROVE Abstract!Next
    <3>1. Oldest(Expired, PruneChunk) \subseteq Settled
      BY OldestSubset DEF Expired
    <3> QED
      BY <1>2, <2>1, <3>1, PruneForgets DEF PruneExpired
  <2>2. ASSUME NEW m \in Maintainers, PruneForSize(m) PROVE Abstract!Next
    <3>1. Oldest(Settled, PruneChunk) \subseteq Settled
      BY OldestSubset
    <3> QED
      BY <1>2, <2>2, <3>1, PruneForgets DEF PruneForSize
  <2> QED
    BY <1>2, <2>1, <2>2, JournalWriters, RecordEnqueues, OutcomesSettle, OthersSee
<1> QED
  BY <1>1, <1>2, IInvHolds, PTL DEF Spec, ImplementsOutbox, Abstract!Spec
=============================================================================
