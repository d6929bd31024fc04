--------------------------- MODULE Scheduler_proof ---------------------------
(***************************************************************************)
(* Scheduler for any probes, intervals, limits, clock skew and bounds: a   *)
(* tick stays within its budget, no due probe starves, remembered runs are *)
(* an interval apart and a last run lies ahead by the skew at most.        *)
(***************************************************************************)
EXTENDS Scheduler, FiniteSetTheorems, WellFoundedInduction, TLAPS

\* Only a row of the table holds a run time.
Marked == \A p \in Probes \ db.probes : db.last[p] = Never

\* What a heartbeat's answer has brought is not acted on before the clock is set.
Synced == (ready => calibrated) /\ (hb.pc # "idle" => calibrated)

\* FutureWithinSkew, whether or not the node runs probes, and for what becomes
\* a cached run time: a mark under way and the table.
Margin == IF Skew > 0 THEN Skew - 1 ELSE 0

Bounded ==
  /\ \A p \in Probes : cache.last[p] <= time + Margin /\ db.last[p] <= time
  /\ sch.now <= time

\* A remembered run is the one the cache counts from.
Remembered == \A p \in Probes : ranAt[p] # Never => cache.last[p] = ranAt[p]

\* A due probe that was left out has fewer probes before it each time.
Waiting ==
  \A p \in Probes : late[p] + Cardinality({q \in cache.probes : Before(q, p)}) < Cardinality(Probes)

IInv == TypeOK /\ Marked /\ Synced /\ Bounded /\ Remembered /\ Waiting

-----------------------------------------------------------------------------
(* The limits                                                              *)

LEMMA PerProbeType == PerProbe \in Nat \ {0} /\ PerProbe <= JobsPerTick
  BY SchedulerAssumption DEF PerProbe, Least

\* A probe has a job at least and fits an empty budget.
LEMMA JobsOfBound ==
  ASSUME NEW p \in Probes, NEW budget \in Nat \ {0}
  PROVE  JobsOf(p, budget) \in 1 .. budget
  <1>1. Count[p] \in Nat
    BY SchedulerAssumption
  <1>. QED
    BY <1>1, PerProbeType DEF JobsOf, Least

\* The triggers of one tick fit its jobs, each charged in full.
LEMMA TriggersFit ==
  /\ TriggerSlots \in Nat
  /\ \A n \in Nat : n <= TriggerSlots => n * PerProbe <= JobsPerTick
  <1>. DEFINE P == PerProbe  J == JobsPerTick  S == TriggersPerTick
  <1>1. P \in Nat \ {0} /\ J \in Nat \ {0} /\ P <= J /\ S \in Nat \ {0}
    BY PerProbeType, SchedulerAssumption
  <1>2. J = P * (J \div P) + (J % P) /\ J % P \in Nat /\ J \div P \in Nat
    BY <1>1
  <1>3. \A a, b \in Nat : a <= b => a * P <= b * P
    BY <1>1
  <1>4. CASE S * P > J
    <2>1. J \div P >= 1
      BY <1>1, <1>2
    <2>2. TriggerSlots = J \div P
      BY <1>2, <1>4, <2>1 DEF TriggerSlots
    <2>3. (J \div P) * P <= J
      BY <1>1, <1>2
    <2>4. ASSUME NEW n \in Nat, n <= TriggerSlots PROVE n * P <= J
      <3>1. n * P <= (J \div P) * P
        BY <1>2, <1>3, <2>2, <2>4
      <3>. QED
        BY <1>1, <1>2, <2>3, <3>1
    <2>. QED
      BY <1>2, <2>2, <2>4
  <1>5. CASE ~(S * P > J)
    <2>1. TriggerSlots = S
      BY <1>5 DEF TriggerSlots
    <2>2. ASSUME NEW n \in Nat, n <= TriggerSlots PROVE n * P <= J
      <3>1. n * P <= S * P
        BY <1>1, <1>3, <2>1, <2>2
      <3>. QED
        BY <1>1, <1>5, <3>1
    <2>. QED
      BY <1>1, <2>1, <2>2
  <1>. QED
    BY <1>4, <1>5

\* What they leave.
LEMMA BudgetLeftIs ==
  ASSUME NEW n \in Nat, n <= TriggerSlots
  PROVE  BudgetLeft(n) \in Nat /\ BudgetLeft(n) + n * PerProbe = JobsPerTick
  <1>1. n * PerProbe <= JobsPerTick /\ n * PerProbe \in Nat
    BY TriggersFit, PerProbeType
  <1>. QED
    BY <1>1, SchedulerAssumption DEF BudgetLeft, Least

-----------------------------------------------------------------------------
(* The order of the due probes                                             *)

\* Longest without a run first is a strict total order.
LEMMA BeforeOrder ==
  ASSUME TypeOK
  PROVE  /\ \A p \in Probes : ~Before(p, p)
         /\ \A p, q \in Probes : p # q => Before(p, q) \/ Before(q, p)
         /\ \A p, q, r \in Probes : Before(p, q) /\ Before(q, r) => Before(p, r)
  <1>1. Probes \subseteq Int /\ \A p \in Probes : cache.last[p] \in Int
    BY SchedulerAssumption DEF TypeOK, RowType
  <1>. QED
    BY <1>1 DEF Before

\* Every set of probes is finite.
LEMMA ProbesFinite ==
  ASSUME NEW T \in SUBSET Probes
  PROVE  IsFiniteSet(T) /\ Cardinality(T) \in Nat /\ Cardinality(T) <= Cardinality(Probes)
  <1>1. IsFiniteSet(Probes)
    BY SchedulerAssumption
  <1>2. IsFiniteSet(T) /\ Cardinality(T) <= Cardinality(Probes)
    BY <1>1, FS_Subset
  <1>. QED
    BY <1>2, FS_CardinalityType

\* A set of natural numbers has a smallest one.
LEMMA SmallestOf ==
  ASSUME NEW N, N \subseteq Nat, N # {}
  PROVE  \E n \in N : \A m \in N : n <= m
  <1>1. PICK x \in N : \A y \in N : ~ (<<y, x>> \in OpToRel(<, Nat))
    BY NatLessThanWellFounded, WFMin, Zenon
  <1>2. \A y \in N : ~ (y < x)
    BY <1>1 DEF OpToRel
  <1>3. x \in N
    BY <1>1, Zenon
  <1>. QED
    BY <1>2, <1>3

\* A set of probes has a first and a last one.
LEMMA LastProbe ==
  ASSUME TypeOK, NEW T \in SUBSET Probes, T # {}
  PROVE  \E p \in T : \A q \in T \ {p} : Before(q, p)
  <1>. DEFINE After(p) == {q \in T : Before(p, q)}
              N == {Cardinality(After(p)) : p \in T}
  <1>1. \A p \in T : IsFiniteSet(After(p)) /\ Cardinality(After(p)) \in Nat
    BY ProbesFinite
  <1>2. N \subseteq Nat /\ N # {}
    BY <1>1
  <1>3. PICK p \in T : \A q \in T : Cardinality(After(p)) <= Cardinality(After(q))
    <2>1. PICK n \in N : \A m \in N : n <= m
      BY <1>2, SmallestOf
    <2>. QED
      BY <2>1
  <1>4. ASSUME NEW q \in T \ {p}, ~Before(q, p) PROVE FALSE
    <2>1. Before(p, q)
      BY <1>4, BeforeOrder
    <2>2. After(q) \in SUBSET After(p) /\ q \in After(p) /\ q \notin After(q)
      BY <2>1, BeforeOrder
    <2>3. Cardinality(After(q)) <= Cardinality(After(p)) /\ Cardinality(After(q)) # Cardinality(After(p))
      <3>. HIDE DEF After
      <3>. QED
        BY <1>1, <2>2, FS_Subset
    <2>. HIDE DEF After
    <2>. QED
      BY <1>1, <1>3, <2>3
  <1>. QED
    BY <1>4

LEMMA FirstProbe ==
  ASSUME TypeOK, NEW T \in SUBSET Probes, T # {}
  PROVE  \E p \in T : \A q \in T \ {p} : Before(p, q)
  <1>. DEFINE Ahead(p) == {q \in T : Before(q, p)}
              N == {Cardinality(Ahead(p)) : p \in T}
  <1>1. \A p \in T : IsFiniteSet(Ahead(p)) /\ Cardinality(Ahead(p)) \in Nat
    BY ProbesFinite
  <1>2. N \subseteq Nat /\ N # {}
    BY <1>1
  <1>3. PICK p \in T : \A q \in T : Cardinality(Ahead(p)) <= Cardinality(Ahead(q))
    <2>1. PICK n \in N : \A m \in N : n <= m
      BY <1>2, SmallestOf
    <2>. QED
      BY <2>1
  <1>4. ASSUME NEW q \in T \ {p}, ~Before(p, q) PROVE FALSE
    <2>1. Before(q, p)
      BY <1>4, BeforeOrder
    <2>2. Ahead(q) \in SUBSET Ahead(p) /\ q \in Ahead(p) /\ q \notin Ahead(q)
      BY <2>1, BeforeOrder
    <2>3. Cardinality(Ahead(q)) <= Cardinality(Ahead(p)) /\ Cardinality(Ahead(q)) # Cardinality(Ahead(p))
      <3>. HIDE DEF Ahead
      <3>. QED
        BY <1>1, <2>2, FS_Subset
    <2>. HIDE DEF Ahead
    <2>. QED
      BY <1>1, <1>3, <2>3
  <1>. QED
    BY <1>4

-----------------------------------------------------------------------------
(* First fit                                                               *)

LEMMA BudgetFinite == ASSUME NEW budget \in Nat PROVE IsFiniteSet(1 .. budget)
  <1>1. 1 \in Int /\ budget \in Int
    OBVIOUS
  <1>. QED
    BY <1>1, FS_Interval

\* A finite number of jobs; none for no probe.
LEMMA UsedType ==
  ASSUME NEW T \in SUBSET Probes, NEW budget \in Nat
  PROVE  Used(T, budget) \in Nat
  <1>. DEFINE A == T \X (1 .. budget)
              B == {j \in A : j[2] <= JobsOf(j[1], budget)}
  <1>1. IsFiniteSet(T) /\ IsFiniteSet(1 .. budget)
    BY ProbesFinite, BudgetFinite
  <1>2. IsFiniteSet(A)
    BY <1>1, FS_Product
  <1>3. B \in SUBSET A
    OBVIOUS
  <1>4. Cardinality(B) \in Nat
    <2>. HIDE DEF A, B
    <2>. QED
      BY <1>2, <1>3, FS_Subset, FS_CardinalityType
  <1>. QED
    BY <1>4 DEF Used

LEMMA UsedNone == ASSUME NEW budget PROVE Used({}, budget) = 0
  <1>1. {j \in {} \X (1 .. budget) : j[2] <= JobsOf(j[1], budget)} = {}
    OBVIOUS
  <1>. QED
    BY <1>1, FS_EmptySet DEF Used

\* One more probe adds its jobs.
LEMMA UsedOneMore ==
  ASSUME NEW T \in SUBSET Probes, NEW p \in Probes, p \notin T, NEW budget \in Nat \ {0}
  PROVE  Used(T \union {p}, budget) = Used(T, budget) + JobsOf(p, budget)
  <1>. DEFINE A == {j \in T \X (1 .. budget) : j[2] <= JobsOf(j[1], budget)}
              n == JobsOf(p, budget)
              B == {p} \X (1 .. n)
              C == {j \in (T \union {p}) \X (1 .. budget) : j[2] <= JobsOf(j[1], budget)}
  <1>1. n \in 1 .. budget
    BY JobsOfBound
  <1>2. C = A \union B
    <2>1. ASSUME NEW j \in C PROVE j \in A \union B
      <3>1. CASE j[1] = p
        <4>1. j = <<p, j[2]>> /\ j[2] \in 1 .. n
          BY <1>1, <2>1, <3>1
        <4>. QED
          BY <4>1
      <3>2. CASE j[1] # p
        BY <2>1, <3>2
      <3>. QED
        BY <3>1, <3>2
    <2>2. ASSUME NEW j \in A PROVE j \in C
      BY <2>2
    <2>3. ASSUME NEW j \in B PROVE j \in C
      <3>1. PICK i \in 1 .. n : j = <<p, i>>
        BY <2>3
      <3>2. i \in 1 .. budget /\ i <= n
        BY <1>1, <3>1
      <3>. QED
        BY <3>1, <3>2
    <2>. QED
      BY <2>1, <2>2, <2>3
  <1>3. A \intersect B = {}
    OBVIOUS
  <1>4. IsFiniteSet(A)
    <2>1. IsFiniteSet(T) /\ IsFiniteSet(1 .. budget)
      BY ProbesFinite, BudgetFinite
    <2>2. IsFiniteSet(T \X (1 .. budget))
      BY <2>1, FS_Product
    <2>3. A \in SUBSET (T \X (1 .. budget))
      OBVIOUS
    <2>. QED
      BY <2>2, <2>3, FS_Subset
  <1>5. IsFiniteSet(B) /\ Cardinality(B) = n
    <2>1. IsFiniteSet({p}) /\ Cardinality({p}) = 1
      BY FS_Singleton
    <2>2. IsFiniteSet(1 .. n) /\ Cardinality(1 .. n) = n
      <3>1. n \in Int /\ n >= 1
        BY <1>1
      <3>. HIDE DEF n
      <3>. QED
        BY <3>1, FS_Interval
    <2>3. IsFiniteSet(B) /\ Cardinality(B) = 1 * n
      <3>. HIDE DEF n
      <3>. QED
        BY <2>1, <2>2, FS_Product
    <2>. QED
      BY <1>1, <2>3
  <1>6. Cardinality(C) = Cardinality(A) + Cardinality(B)
    <2>. HIDE DEF A, B, C
    <2>1. Cardinality(A) \in Nat /\ Cardinality(B) \in Nat
      BY <1>4, <1>5, FS_CardinalityType
    <2>2. Cardinality(A \intersect B) = 0
      BY <1>3, FS_EmptySet
    <2>3. Cardinality(A \union B) = Cardinality(A) + Cardinality(B) - Cardinality(A \intersect B)
      BY <1>4, <1>5, FS_Union
    <2>. QED
      BY <1>2, <2>1, <2>2, <2>3
  <1>. QED
    BY <1>5, <1>6 DEF Used

\* The probes taken fit the budget: the last of them did.
LEMMA TakenFit ==
  ASSUME TypeOK, NEW budget \in Nat, NEW due \in SUBSET Probes, NEW T \in SUBSET due,
         TakeDue(T, due, budget)
  PROVE  Used(T, budget) <= budget
  <1>1. CASE T = {}
    BY <1>1, UsedNone
  <1>2. CASE T # {}
    <2>1. PICK p \in T : \A q \in T \ {p} : Before(q, p)
      BY <1>2, LastProbe
    <2>2. budget > 0 /\ Used({q \in T : Before(q, p)}, budget) + JobsOf(p, budget) <= budget
      BY DEF TakeDue
    <2>3. {q \in T : Before(q, p)} = T \ {p}
      BY <2>1, BeforeOrder
    <2>4. Used((T \ {p}) \union {p}, budget) = Used(T \ {p}, budget) + JobsOf(p, budget)
      BY <2>2, UsedOneMore
    <2>5. (T \ {p}) \union {p} = T
      OBVIOUS
    <2>. QED
      BY <2>2, <2>3, <2>4, <2>5
  <1>. QED
    BY <1>1, <1>2

\* The selection of takeDueProbes is well defined: for any due probes and any
\* budget there is one.
LEMMA TakeDueExists ==
  ASSUME TypeOK, NEW budget \in Nat, NEW due \in SUBSET Probes
  PROVE  \E T \in SUBSET due : TakeDue(T, due, budget)
  <1>. DEFINE Some(D) == \E T \in SUBSET D : TakeDue(T, D, budget)
              Bad == {D \in SUBSET Probes : ~Some(D)}
              N == {Cardinality(D) : D \in Bad}
  <1>1. SUFFICES ASSUME Bad # {} PROVE FALSE
    OBVIOUS
  <1>2. N \subseteq Nat /\ N # {}
    BY <1>1, ProbesFinite
  <1>3. PICK D \in Bad : \A E \in Bad : Cardinality(D) <= Cardinality(E)
    <2>1. PICK n \in N : \A m \in N : n <= m
      BY <1>2, SmallestOf
    <2>. QED
      BY <2>1
  <1>4. D # {}
    <2>1. TakeDue({}, {}, budget)
      BY DEF TakeDue
    <2>. QED
      BY <2>1
  <1>5. PICK p \in D : \A q \in D \ {p} : Before(q, p)
    BY <1>4, LastProbe
  <1>. DEFINE E == D \ {p}
  <1>6. E \in SUBSET Probes /\ E \notin Bad
    <2>1. IsFiniteSet(D) /\ Cardinality(D) \in Nat
      BY ProbesFinite
    <2>2. Cardinality(E) = Cardinality(D) - 1
      BY <2>1, FS_RemoveElement
    <2>. QED
      BY <1>3, <2>1, <2>2
  <1>7. PICK T \in SUBSET E : TakeDue(T, E, budget)
    BY <1>6
  <1>. DEFINE fits == budget > 0 /\ Used(T, budget) + JobsOf(p, budget) <= budget
              S == IF fits THEN T \union {p} ELSE T
  <1>8. S \in SUBSET D /\ p \notin T
    OBVIOUS
  <1>9. ASSUME NEW q \in E PROVE {r \in S : Before(r, q)} = {r \in T : Before(r, q)}
    <2>1. ~Before(p, q)
      BY <1>5, BeforeOrder
    <2>. QED
      BY <2>1
  <1>10. {r \in S : Before(r, p)} = T
    BY <1>5, BeforeOrder
  <1>11. \A q \in E : q \in S <=> q \in T
    OBVIOUS
  <1>12. TakeDue(S, D, budget)
    <2>1. SUFFICES ASSUME NEW q \in D
                   PROVE  q \in S <=> /\ budget > 0
                                      /\ Used({r \in S : Before(r, q)}, budget) + JobsOf(q, budget) <= budget
      BY DEF TakeDue
    <2>2. CASE q = p
      BY <1>8, <1>10, <2>2
    <2>3. CASE q # p
      <3>1. q \in E
        BY <2>3
      <3>. HIDE DEF S, E
      <3>. QED
        BY <1>7, <1>9, <1>11, <3>1 DEF TakeDue
    <2>. QED
      BY <2>2, <2>3
  <1>. QED
    BY <1>8, <1>12

\* And only one: a first probe on which two selections differ has the same
\* probes before it in both.
LEMMA TakeDueUnique ==
  ASSUME TypeOK, NEW budget \in Nat, NEW due \in SUBSET Probes,
         NEW S \in SUBSET due, TakeDue(S, due, budget),
         NEW T \in SUBSET due, TakeDue(T, due, budget)
  PROVE  S = T
  <1>. DEFINE Diff == (S \ T) \union (T \ S)
  <1>1. SUFFICES ASSUME Diff # {} PROVE FALSE
    OBVIOUS
  <1>2. PICK p \in Diff : \A q \in Diff \ {p} : Before(p, q)
    BY <1>1, FirstProbe
  <1>3. {q \in S : Before(q, p)} = {q \in T : Before(q, p)}
    BY <1>2, BeforeOrder
  <1>. QED
    BY <1>3 DEF TakeDue

-----------------------------------------------------------------------------
(* Steps                                                                   *)

\* The zero time is before every clock reading.
LEMMA NowIs ==
  ASSUME TypeOK
  PROVE  /\ time \in Nat /\ Now \in Int /\ Never \in Int /\ Skew \in Int
         /\ Probes # {} => Never < Now /\ Never < time /\ Never < time + Skew
         /\ \A p \in Probes : Interval[p] \in Nat \ {0}
  <1>1. time \in Nat /\ Never \in Int /\ Skew \in Int /\ \A p \in Probes : Interval[p] \in Nat \ {0}
    BY SchedulerAssumption DEF TypeOK
  <1>2. Now \in {time, time + Skew}
    BY DEF Now
  <1>3. ASSUME NEW p \in Probes PROVE Never < 0 /\ Never < Skew
    <2>1. Interval[p] \in Nat /\ Never + Interval[p] < 0 /\ Never + Interval[p] < Skew
      BY <1>1, SchedulerAssumption
    <2>. QED
      BY <1>1, <2>1
  <1>. QED
    BY <1>1, <1>2, <1>3

\* A row of probes.
LEMMA RowIs ==
  ASSUME NEW P \in SUBSET Probes, NEW f \in [Probes -> Int]
  PROVE  /\ Row(P, f) \in RowType /\ Row(P, f).probes = P
         /\ \A p \in Probes : Row(P, f).last[p] = IF p \in P THEN f[p] ELSE Never
  BY SchedulerAssumption DEF Row, RowType

\* The empty table.
LEMMA NoRowIs == NoRow \in RowType /\ NoRow.probes = {} /\ \A p \in Probes : NoRow.last[p] = Never
  <1>1. NoRuns \in [Probes -> Int]
    BY SchedulerAssumption DEF NoRuns
  <1>. QED
    BY <1>1, RowIs DEF NoRow

\* Staggering touches probes that never ran, and its made-up run is over.
LEMMA StaggeredIs ==
  ASSUME NEW c \in RowType, NEW now \in Int, NEW d \in Staggered(c, now)
  PROVE  /\ d \in RowType /\ d.probes = c.probes
         /\ \A p \in Probes : \/ d.last[p] = c.last[p]
                              \/ p \in c.probes /\ c.last[p] = Never /\ d.last[p] < now
  <1>1. CASE Jitter = 0
    BY <1>1 DEF Staggered
  <1>2. CASE Jitter # 0
    <2>1. PICK off \in [Probes -> UNION {Offsets(p) : p \in Probes}] :
             /\ \A p \in Probes : off[p] \in Offsets(p)
             /\ d = [c EXCEPT !.last = [p \in Probes |->
                      IF p \in c.probes /\ c.last[p] = Never THEN now - Interval[p] + off[p] ELSE c.last[p]]]
      BY <1>2 DEF Staggered
    <2>2. \A p \in Probes : off[p] \in Int /\ off[p] < Interval[p] /\ Interval[p] \in Int
      BY <2>1, SchedulerAssumption DEF Offsets, Least
    <2>3. c = [probes |-> c.probes, last |-> c.last] /\ c.probes \in SUBSET Probes /\ c.last \in [Probes -> Int]
      BY DEF RowType
    <2>. DEFINE f == [p \in Probes |->
                      IF p \in c.probes /\ c.last[p] = Never THEN now - Interval[p] + off[p] ELSE c.last[p]]
    <2>4. f \in [Probes -> Int]
      BY <2>2, <2>3
    <2>5. d = [probes |-> c.probes, last |-> f]
      BY <2>1, <2>3
    <2>6. \A p \in Probes : f[p] = c.last[p] \/ (p \in c.probes /\ c.last[p] = Never /\ f[p] < now)
      BY <2>2
    <2>. HIDE DEF f
    <2>. QED
      BY <2>3, <2>4, <2>5, <2>6 DEF RowType
  <1>. QED
    BY <1>1, <1>2

\* What a tick does: T is the first fit among the due probes.
LEMMA TickIs ==
  ASSUME TypeOK, RunDueProbes
  PROVE  \E n \in Nat : \E budget \in Nat : \E T \in SUBSET Due(Now) :
           /\ n <= queue /\ n <= TriggerSlots /\ budget + n * PerProbe = JobsPerTick
           /\ TakeDue(T, Due(Now), budget)
           /\ queue' = queue - n
           /\ \E each \in Nat : each <= PerProbe /\ jobs' = Used(T, budget) + n * each
           /\ cache' \in RowType /\ cache'.probes = cache.probes
           /\ \A p \in Probes : cache'.last[p] = IF p \in T THEN Now ELSE cache.last[p]
           /\ sch' = IF T = {} THEN sch ELSE [pc |-> "mark", due |-> T, now |-> Now]
           /\ late' = [p \in Probes |->
                IF p \in Due(Now) \ T THEN IF budget > 0 THEN late[p] + 1 ELSE late[p] ELSE 0]
           /\ ranAt' = [p \in Probes |-> IF p \in T THEN time ELSE ranAt[p]]
  <1>. DEFINE n == Least(queue, TriggerSlots)
              budget == BudgetLeft(n)
  <1>1. n \in Nat /\ n <= queue /\ n <= TriggerSlots
    BY TriggersFit, SchedulerAssumption DEF Least, TypeOK
  <1>. HIDE DEF n
  <1>2. budget \in Nat /\ budget + n * PerProbe = JobsPerTick
    BY <1>1, BudgetLeftIs
  <1>. HIDE DEF budget
  <1>3. PICK T \in SUBSET Due(Now) :
           /\ TakeDue(T, Due(Now), budget)
           /\ queue' = queue - n
           /\ \E each \in IF n = 0 THEN {0} ELSE 1 .. PerProbe : jobs' = Used(T, budget) + n * each
           /\ cache' = [cache EXCEPT !.last = [p \in Probes |-> IF p \in T THEN Now ELSE cache.last[p]]]
           /\ sch' = IF T = {} THEN sch ELSE [pc |-> "mark", due |-> T, now |-> Now]
           /\ late' = [p \in Probes |->
                IF p \in Due(Now) \ T THEN IF budget > 0 THEN late[p] + 1 ELSE late[p] ELSE 0]
           /\ ranAt' = [p \in Probes |-> IF p \in T THEN time ELSE ranAt[p]]
    BY Zenon DEF RunDueProbes, n, budget
  <1>4. \E each \in Nat : each <= PerProbe /\ jobs' = Used(T, budget) + n * each
    <2>1. \A each \in IF n = 0 THEN {0} ELSE 1 .. PerProbe : each \in Nat /\ each <= PerProbe
      BY PerProbeType
    <2>. QED
      BY <1>3, <2>1
  <1>. DEFINE f == [p \in Probes |-> IF p \in T THEN Now ELSE cache.last[p]]
  <1>5. cache = [probes |-> cache.probes, last |-> cache.last] /\ cache.probes \in SUBSET Probes
        /\ cache.last \in [Probes -> Int]
    BY DEF TypeOK, RowType
  <1>6. f \in [Probes -> Int]
    BY <1>5, NowIs
  <1>7. cache' = [probes |-> cache.probes, last |-> f]
    BY <1>3, <1>5
  <1>8. \A p \in Probes : f[p] = IF p \in T THEN Now ELSE cache.last[p]
    OBVIOUS
  <1>9. /\ cache' \in RowType /\ cache'.probes = cache.probes
        /\ \A p \in Probes : cache'.last[p] = IF p \in T THEN Now ELSE cache.last[p]
    <2>. HIDE DEF f
    <2>. QED
      BY <1>5, <1>6, <1>7, <1>8 DEF RowType
  <1>. QED
    BY <1>1, <1>2, <1>3, <1>4, <1>9

\* The mark of a run.
LEMMA MarkIs ==
  ASSUME TypeOK, MarkProbesRun
  PROVE  /\ db' \in RowType /\ db'.probes = db.probes
         /\ \A p \in Probes : \/ db'.last[p] = db.last[p]
                              \/ p \in db.probes /\ db'.last[p] = sch.now
  <1>1. CASE UNCHANGED db
    BY <1>1 DEF TypeOK
  <1>2. CASE db' = [db EXCEPT !.last = [p \in Probes |->
                 IF p \in sch.due \intersect db.probes THEN sch.now ELSE db.last[p]]]
    <2>. DEFINE f == [p \in Probes |-> IF p \in sch.due \intersect db.probes THEN sch.now ELSE db.last[p]]
    <2>1. db = [probes |-> db.probes, last |-> db.last] /\ db.probes \in SUBSET Probes
          /\ db.last \in [Probes -> Int] /\ sch.now \in Int
      BY DEF TypeOK, RowType
    <2>2. f \in [Probes -> Int] /\ db' = [probes |-> db.probes, last |-> f]
      BY <1>2, <2>1
    <2>3. \A p \in Probes : f[p] = db.last[p] \/ (p \in db.probes /\ f[p] = sch.now)
      OBVIOUS
    <2>. HIDE DEF f
    <2>. QED
      BY <2>1, <2>2, <2>3 DEF RowType
  <1>. QED
    BY <1>1, <1>2, Zenon DEF MarkProbesRun

-----------------------------------------------------------------------------
(* Initially                                                               *)

LEMMA InitInv == Init => IInv
  <1>. SUFFICES ASSUME Init PROVE IInv
    OBVIOUS
  <1>1. NoRuns \in [Probes -> Int] /\ \A p \in Probes : NoRuns[p] = Never /\ Never < 0
    BY SchedulerAssumption DEF NoRuns
  <1>2. TypeOK
    <2>1. hb \in [pc : {"idle", "replace", "stagger", "confirm"}, probes : SUBSET Probes]
      BY DEF Init, IdleHB
    <2>2. sch \in [pc : {"idle", "mark"}, due : SUBSET Probes, now : Int]
      BY DEF Init, IdleSch
    <2>3. cache \in RowType /\ db \in RowType /\ \A p \in Probes \ cache.probes : cache.last[p] = Never
      BY NoRowIs DEF Init
    <2>4. /\ time \in 0 .. MaxTime /\ queue \in 0 .. MaxQueue /\ jobs \in Nat
          /\ late \in [Probes -> Nat] /\ ranAt \in [Probes -> Int] /\ crashes \in 0 .. MaxCrashes
      BY <1>1, SchedulerAssumption DEF Init
    <2>. QED
      BY <2>1, <2>2, <2>3, <2>4 DEF Init, TypeOK
  <1>3. Marked /\ Synced /\ Remembered
    BY <1>1, NoRowIs DEF Init, Marked, Synced, Remembered, IdleHB
  <1>4. Bounded
    BY <1>1, NoRowIs, SchedulerAssumption DEF Init, Bounded, Margin, IdleSch
  <1>5. Waiting
    <2>1. SUFFICES ASSUME NEW p \in Probes
                   PROVE  0 + Cardinality({q \in cache.probes : Before(q, p)}) < Cardinality(Probes)
      BY DEF Waiting, Init
    <2>2. {q \in cache.probes : Before(q, p)} = {}
      BY NoRowIs DEF Init
    <2>3. Cardinality(Probes) \in Nat /\ Cardinality(Probes) # 0
      BY ProbesFinite, FS_EmptySet
    <2>. QED
      BY <2>2, <2>3, FS_EmptySet
  <1>. QED
    BY <1>2, <1>3, <1>4, <1>5 DEF IInv

-----------------------------------------------------------------------------
(* The type invariant                                                      *)

LEMMA TypeStep == TypeOK /\ Marked /\ [Next]_vars => TypeOK' /\ Marked'
  <1>. SUFFICES ASSUME TypeOK, Marked, [Next]_vars PROVE TypeOK' /\ Marked'
    OBVIOUS
  <1>. DEFINE HBType == [pc : {"idle", "replace", "stagger", "confirm"}, probes : SUBSET Probes]
              SchType == [pc : {"idle", "mark"}, due : SUBSET Probes, now : Int]
  <1>1. /\ IdleHB \in HBType /\ [IdleHB EXCEPT !.pc = "confirm"] \in HBType
        /\ \A P \in SUBSET Probes : [pc |-> "replace", probes |-> P] \in HBType
        /\ hb \in HBType /\ hb.probes \in SUBSET Probes
        /\ \A pc \in {"stagger", "confirm"} : [hb EXCEPT !.pc = pc] \in HBType
    BY DEF TypeOK, IdleHB
  <1>2. IdleSch \in SchType /\ sch \in SchType
    BY DEF TypeOK, IdleSch
  <1>3. /\ [p \in Probes |-> 0] \in [Probes -> Nat] /\ late \in [Probes -> Nat]
        /\ ranAt \in [Probes -> Int] /\ Never \in Int /\ time \in 0 .. MaxTime /\ Skew \in Int
        /\ cache \in RowType /\ db \in RowType
        /\ cache.last \in [Probes -> Int] /\ db.last \in [Probes -> Int]
    BY SchedulerAssumption DEF TypeOK, RowType
  <1>. HIDE DEF HBType, SchType
  <1>4. ASSUME NEW P \in SUBSET Probes, HeartbeatAnswered(P) PROVE TypeOK' /\ Marked'
    <2>1. hb' \in HBType
      BY <1>1, <1>4 DEF HeartbeatAnswered
    <2>2. db' = Row(P, db.last) \/ db' = db
      BY <1>4 DEF HeartbeatAnswered
    <2>3. Row(P, db.last) \in RowType /\ \A p \in Probes \ Row(P, db.last).probes : Row(P, db.last).last[p] = Never
      BY <1>3, RowIs
    <2>4. db' \in RowType /\ Marked'
      BY <1>3, <2>2, <2>3 DEF Marked
    <2>. QED
      BY <1>4, <2>1, <2>4 DEF HeartbeatAnswered, TypeOK, history, HBType
  <1>5. CASE ReplaceAssignment
    <2>0. cache' = Row(hb.probes, cache.last)
      BY <1>5 DEF ReplaceAssignment
    <2>1. cache' \in RowType /\ \A p \in Probes \ cache'.probes : cache'.last[p] = Never
      BY <1>1, <1>3, <2>0, RowIs
    <2>2. hb' \in HBType
      BY <1>1, <1>5 DEF ReplaceAssignment
    <2>3. late' \in [Probes -> Nat] /\ ranAt' \in [Probes -> Int]
      BY <1>3, <1>5 DEF ReplaceAssignment
    <2>. QED
      BY <1>5, <2>1, <2>2, <2>3 DEF ReplaceAssignment, TypeOK, Marked, HBType
  <1>6. CASE StaggerUnstarted
    <2>1. cache' \in RowType /\ cache'.probes = cache.probes
          /\ \A p \in Probes : cache'.last[p] = cache.last[p] \/ p \in cache.probes
      BY <1>3, <1>6, StaggeredIs, NowIs DEF StaggerUnstarted
    <2>2. \A p \in Probes \ cache'.probes : cache'.last[p] = Never
      BY <2>1 DEF TypeOK
    <2>3. hb' \in HBType
      BY <1>1, <1>6 DEF StaggerUnstarted
    <2>. QED
      BY <1>3, <1>6, <2>1, <2>2, <2>3 DEF StaggerUnstarted, TypeOK, Marked, HBType
  <1>7. CASE Confirm
    BY <1>1, <1>7 DEF Confirm, TypeOK, Marked, HBType, history
  <1>8. CASE RunDueProbes
    <2>1. PICK n \in Nat, budget \in Nat, T \in SUBSET Due(Now) :
           /\ n <= queue /\ queue' = queue - n
           /\ \E each \in Nat : jobs' = Used(T, budget) + n * each
           /\ cache' \in RowType /\ cache'.probes = cache.probes
           /\ \A p \in Probes : cache'.last[p] = IF p \in T THEN Now ELSE cache.last[p]
           /\ sch' = IF T = {} THEN sch ELSE [pc |-> "mark", due |-> T, now |-> Now]
           /\ late' = [p \in Probes |->
                IF p \in Due(Now) \ T THEN IF budget > 0 THEN late[p] + 1 ELSE late[p] ELSE 0]
           /\ ranAt' = [p \in Probes |-> IF p \in T THEN time ELSE ranAt[p]]
      BY <1>8, TickIs
    <2>2. T \in SUBSET Probes /\ T \subseteq cache.probes
      BY <1>3 DEF Due, RowType
    <2>3. queue' \in 0 .. MaxQueue
      BY <2>1, SchedulerAssumption DEF TypeOK
    <2>4. jobs' \in Nat
      BY <2>1, <2>2, UsedType
    <2>5. \A p \in Probes \ cache'.probes : cache'.last[p] = Never
      BY <2>1, <2>2 DEF TypeOK
    <2>6. sch' \in SchType
      <3>1. [pc |-> "mark", due |-> T, now |-> Now] \in SchType
        BY <2>2, NowIs DEF SchType
      <3>. QED
        BY <1>2, <2>1, <3>1
    <2>7. late' \in [Probes -> Nat] /\ ranAt' \in [Probes -> Int]
      BY <1>3, <2>1
    <2>. QED
      BY <1>8, <2>1, <2>3, <2>4, <2>5, <2>6, <2>7 DEF RunDueProbes, TypeOK, Marked, SchType
  <1>9. CASE MarkProbesRun
    <2>1. db' \in RowType /\ Marked'
      BY <1>9, MarkIs DEF Marked
    <2>. QED
      BY <1>2, <1>9, <2>1 DEF MarkProbesRun, TypeOK, SchType, history
  <1>10. CASE Tick \/ TriggersArrive
    BY <1>10, SchedulerAssumption DEF Tick, TriggersArrive, TypeOK, Marked, history
  <1>11. ASSUME NEW load \in BOOLEAN, Crash(load) PROVE TypeOK' /\ Marked'
    <2>. DEFINE c == IF load THEN db ELSE NoRow
    <2>1. c \in RowType /\ time + Skew \in Int
      BY <1>3, NoRowIs
    <2>2. cache' \in Staggered(c, time + Skew)
      BY <1>11 DEF Crash
    <2>. HIDE DEF c
    <2>3. cache' \in RowType /\ cache'.probes = c.probes
          /\ \A p \in Probes : cache'.last[p] = c.last[p] \/ p \in c.probes
      BY <2>1, <2>2, StaggeredIs
    <2>4. \A p \in Probes \ c.probes : c.last[p] = Never
      BY NoRowIs DEF Marked, c
    <2>5. \A p \in Probes \ cache'.probes : cache'.last[p] = Never
      BY <2>3, <2>4
    <2>6. late' \in [Probes -> Nat] /\ ranAt' \in [Probes -> Int]
      BY <1>3, <1>11 DEF Crash
    <2>7. queue' \in 0 .. MaxQueue /\ crashes' \in 0 .. MaxCrashes
      BY <1>11, SchedulerAssumption DEF Crash, TypeOK
    <2>8. hb' \in HBType /\ sch' \in SchType
      BY <1>1, <1>2, <1>11 DEF Crash
    <2>. QED
      BY <1>11, <2>3, <2>5, <2>6, <2>7, <2>8 DEF Crash, TypeOK, Marked, HBType, SchType
  <1>12. CASE UNCHANGED vars
    BY <1>12 DEF vars, TypeOK, Marked, history
  <1>. QED
    BY <1>4, <1>5, <1>6, <1>7, <1>8, <1>9, <1>10, <1>11, <1>12 DEF Next

\* The cache, the table and the two goroutines keep their shape: only assigned
\* probes have a run time.
THEOREM TypeCorrect == Spec => []TypeOK
  <1>1. Init => TypeOK /\ Marked
    BY InitInv DEF IInv
  <1>. QED
    BY <1>1, TypeStep, PTL DEF Spec

-----------------------------------------------------------------------------
(* Run times                                                               *)

\* Nothing of a heartbeat's answer is used before its clock is.
LEMMA SyncedStep == TypeOK /\ Synced /\ [Next]_vars => Synced'
  <1>. SUFFICES ASSUME TypeOK, Synced, [Next]_vars PROVE Synced'
    OBVIOUS
  <1>1. ASSUME NEW P \in SUBSET Probes, HeartbeatAnswered(P) PROVE Synced'
    BY <1>1 DEF HeartbeatAnswered, Synced
  <1>2. CASE ReplaceAssignment \/ StaggerUnstarted
    <2>1. hb.pc # "idle" /\ UNCHANGED <<ready, calibrated>>
      BY <1>2 DEF ReplaceAssignment, StaggerUnstarted
    <2>. QED
      BY <2>1 DEF Synced
  <1>3. CASE Confirm
    BY <1>3 DEF Confirm, Synced
  <1>4. CASE RunDueProbes \/ MarkProbesRun \/ Tick \/ TriggersArrive
    BY <1>4 DEF RunDueProbes, MarkProbesRun, Tick, TriggersArrive, Synced
  <1>5. ASSUME NEW load \in BOOLEAN, Crash(load) PROVE Synced'
    BY <1>5 DEF Crash, Synced, IdleHB
  <1>6. CASE UNCHANGED vars
    BY <1>6 DEF vars, Synced
  <1>. QED
    BY <1>1, <1>2, <1>3, <1>4, <1>5, <1>6 DEF Next

\* Times are numbers, and the margin is what the skew leaves.
LEMMA TimesAre ==
  ASSUME TypeOK
  PROVE  /\ \A p \in Probes : cache.last[p] \in Int /\ db.last[p] \in Int
         /\ sch.now \in Int /\ time \in Nat /\ Margin \in Nat /\ Skew \in Int /\ Skew <= Margin + 1
  BY SchedulerAssumption DEF TypeOK, RowType, Margin

\* Run times come from the calibrated clock, except those the staggering at
\* startup makes up.
LEMMA BoundedStep == TypeOK /\ Synced /\ Bounded /\ [Next]_vars => Bounded'
  <1>. SUFFICES ASSUME TypeOK, Synced, Bounded, [Next]_vars PROVE Bounded'
    OBVIOUS
  <1>1. /\ \A p \in Probes : cache.last[p] <= time + Margin /\ db.last[p] <= time /\ Never <= time
        /\ sch.now <= time
    <2>1. \A p \in Probes : Never <= time
      BY NowIs
    <2>. QED
      BY <2>1 DEF Bounded
  <1>2. cache \in RowType /\ db \in RowType /\ cache.last \in [Probes -> Int] /\ db.last \in [Probes -> Int]
        /\ hb.probes \in SUBSET Probes
    BY DEF TypeOK, RowType
  <1>3. ASSUME NEW P \in SUBSET Probes, HeartbeatAnswered(P) PROVE Bounded'
    <2>1. db' = Row(P, db.last) \/ db' = db
      BY <1>3 DEF HeartbeatAnswered
    <2>2. \A p \in Probes : Row(P, db.last).last[p] <= time
      BY <1>1, <1>2, RowIs
    <2>3. \A p \in Probes : db'.last[p] <= time
      BY <1>1, <2>1, <2>2
    <2>. QED
      BY <1>1, <1>3, <2>3 DEF HeartbeatAnswered, Bounded
  <1>4. CASE ReplaceAssignment
    <2>1. cache' = Row(hb.probes, cache.last)
      BY <1>4 DEF ReplaceAssignment
    <2>2. \A p \in Probes : cache'.last[p] \in {cache.last[p], Never}
      BY <1>2, <2>1, RowIs
    <2>3. \A p \in Probes : cache'.last[p] <= time + Margin
      BY <1>1, <2>2, TimesAre, NowIs
    <2>. QED
      BY <1>1, <1>4, <2>3 DEF ReplaceAssignment, Bounded
  <1>5. CASE StaggerUnstarted
    <2>1. Now = time
      BY <1>5 DEF StaggerUnstarted, Synced, Now
    <2>2. \A p \in Probes : cache'.last[p] = cache.last[p] \/ cache'.last[p] < time
      BY <1>2, <1>5, <2>1, StaggeredIs, NowIs DEF StaggerUnstarted
    <2>3. cache' \in RowType
      BY <1>2, <1>5, StaggeredIs, NowIs DEF StaggerUnstarted
    <2>4. \A p \in Probes : cache'.last[p] <= time + Margin
      BY <1>1, <2>2, <2>3, TimesAre DEF RowType
    <2>. QED
      BY <1>1, <1>5, <2>4 DEF StaggerUnstarted, Bounded
  <1>6. CASE RunDueProbes
    <2>1. Now = time
      BY <1>6 DEF RunDueProbes, Synced, Now
    <2>2. PICK T \in SUBSET Due(Now) :
           /\ \A p \in Probes : cache'.last[p] = IF p \in T THEN Now ELSE cache.last[p]
           /\ sch' = IF T = {} THEN sch ELSE [pc |-> "mark", due |-> T, now |-> Now]
      BY <1>6, TickIs
    <2>3. sch'.now <= time
      BY <1>1, <2>1, <2>2, TimesAre
    <2>4. \A p \in Probes : cache'.last[p] <= time + Margin
      BY <1>1, <2>1, <2>2, TimesAre
    <2>. QED
      BY <1>1, <1>6, <2>3, <2>4 DEF RunDueProbes, Bounded
  <1>7. CASE MarkProbesRun
    <2>1. \A p \in Probes : db'.last[p] <= time
      BY <1>1, <1>7, MarkIs
    <2>2. sch'.now <= time
      BY <1>7, TimesAre DEF MarkProbesRun, IdleSch
    <2>. QED
      BY <1>1, <1>7, <2>1, <2>2 DEF MarkProbesRun, Bounded
  <1>8. CASE Tick
    BY <1>1, <1>8, TimesAre DEF Tick, Bounded
  <1>9. CASE Confirm \/ TriggersArrive \/ UNCHANGED vars
    BY <1>1, <1>9 DEF Confirm, TriggersArrive, vars, Bounded
  <1>10. ASSUME NEW load \in BOOLEAN, Crash(load) PROVE Bounded'
    <2>. DEFINE c == IF load THEN db ELSE NoRow
    <2>1. c \in RowType /\ \A p \in Probes : c.last[p] \in Int /\ c.last[p] <= time
      BY <1>1, <1>2, NoRowIs, NowIs
    <2>2. cache' \in Staggered(c, time + Skew) /\ time + Skew \in Int
      BY <1>10, TimesAre DEF Crash
    <2>. HIDE DEF c
    <2>3. cache' \in RowType /\ \A p \in Probes : cache'.last[p] = c.last[p] \/ cache'.last[p] < time + Skew
      BY <2>1, <2>2, StaggeredIs
    <2>4. \A p \in Probes : cache'.last[p] <= time + Margin
      BY <2>1, <2>3, TimesAre DEF RowType
    <2>. QED
      BY <1>1, <1>10, <2>4, TimesAre DEF Crash, Bounded, IdleSch
  <1>. QED
    BY <1>3, <1>4, <1>5, <1>6, <1>7, <1>8, <1>9, <1>10 DEF Next

\* Once the node runs probes, whatever the local clock's skew, the restarts
\* and the failed saves, no probe counts as run later than the skew of the
\* startup staggering allows.
THEOREM RunsNotInFuture == Spec => []FutureWithinSkew
  <1>1. Init => TypeOK /\ Marked /\ Synced /\ Bounded
    BY InitInv DEF IInv
  <1>2. TypeOK /\ Bounded => FutureWithinSkew
    BY DEF TypeOK, RowType, Bounded, FutureWithinSkew, Margin
  <1>. QED
    BY <1>1, <1>2, TypeStep, SyncedStep, BoundedStep, PTL DEF Spec

\* A remembered run stays the one the cache counts from, until it is replaced
\* or forgotten.
LEMMA RememberedStep == TypeOK /\ Marked /\ Synced /\ Remembered /\ [Next]_vars => Remembered'
  <1>. SUFFICES ASSUME TypeOK, Marked, Synced, Remembered, [Next]_vars,
                       NEW p \in Probes, ranAt'[p] # Never
                PROVE  cache'.last[p] = ranAt'[p]
    BY DEF Remembered
  <1>1. cache \in RowType /\ db \in RowType /\ cache.last \in [Probes -> Int] /\ hb.probes \in SUBSET Probes
    BY DEF TypeOK, RowType
  <1>2. ranAt[p] # Never => cache.last[p] = ranAt[p]
    BY DEF Remembered
  <1>3. CASE ReplaceAssignment
    <2>1. p \in hb.probes /\ ranAt'[p] = ranAt[p]
      BY <1>3 DEF ReplaceAssignment
    <2>2. cache' = Row(hb.probes, cache.last)
      BY <1>3 DEF ReplaceAssignment
    <2>. QED
      BY <1>1, <1>2, <2>1, <2>2, RowIs
  <1>4. CASE StaggerUnstarted
    <2>1. cache'.last[p] = cache.last[p] \/ cache.last[p] = Never
      BY <1>1, <1>4, StaggeredIs, NowIs DEF StaggerUnstarted
    <2>2. ranAt' = ranAt
      BY <1>4 DEF StaggerUnstarted
    <2>. QED
      BY <1>2, <2>1, <2>2
  <1>5. CASE RunDueProbes
    <2>1. Now = time
      BY <1>5 DEF RunDueProbes, Synced, Now
    <2>2. PICK T \in SUBSET Due(Now) :
           /\ \A q \in Probes : cache'.last[q] = IF q \in T THEN Now ELSE cache.last[q]
           /\ ranAt' = [q \in Probes |-> IF q \in T THEN time ELSE ranAt[q]]
      BY <1>5, TickIs
    <2>. QED
      BY <1>2, <2>1, <2>2
  <1>6. ASSUME NEW load \in BOOLEAN, Crash(load) PROVE cache'.last[p] = ranAt'[p]
    <2>1. load /\ db.last[p] = cache.last[p] /\ ranAt'[p] = ranAt[p]
      BY <1>6 DEF Crash
    <2>2. cache' \in Staggered(db, time + Skew) /\ time + Skew \in Int
      BY <1>6, <2>1, TimesAre DEF Crash
    <2>3. cache'.last[p] = db.last[p] \/ db.last[p] = Never
      BY <1>1, <2>2, StaggeredIs
    <2>. QED
      BY <1>2, <2>1, <2>3
  <1>7. CASE (\E P \in SUBSET Probes : HeartbeatAnswered(P)) \/ Confirm \/ MarkProbesRun
             \/ Tick \/ TriggersArrive \/ UNCHANGED vars
    BY <1>2, <1>7 DEF HeartbeatAnswered, Confirm, MarkProbesRun, Tick, TriggersArrive, vars, history
  <1>. QED
    BY <1>3, <1>4, <1>5, <1>6, <1>7 DEF Next

\* Only a tick adds a run, to a due probe.
LEMMA RunsSpacedStep ==
  TypeOK /\ Synced /\ Remembered /\ [Next]_vars =>
    \A p \in Probes : ranAt'[p] # ranAt[p] /\ ranAt'[p] # Never /\ ranAt[p] # Never
       => ranAt'[p] - ranAt[p] >= Interval[p]
  <1>. SUFFICES ASSUME TypeOK, Synced, Remembered, [Next]_vars,
                       NEW p \in Probes, ranAt'[p] # ranAt[p], ranAt'[p] # Never, ranAt[p] # Never
                PROVE  ranAt'[p] - ranAt[p] >= Interval[p]
    OBVIOUS
  <1>1. CASE RunDueProbes
    <2>1. Now = time
      BY <1>1 DEF RunDueProbes, Synced, Now
    <2>2. PICK T \in SUBSET Due(Now) : ranAt' = [q \in Probes |-> IF q \in T THEN time ELSE ranAt[q]]
      BY <1>1, TickIs
    <2>3. p \in Due(Now) /\ ranAt'[p] = time /\ cache.last[p] = ranAt[p]
      BY <2>2 DEF Remembered
    <2>4. time >= cache.last[p] + Interval[p]
      BY <2>1, <2>3 DEF Due
    <2>. QED
      BY <2>3, <2>4, TimesAre, NowIs
  <1>2. ASSUME NEW load \in BOOLEAN, Crash(load) PROVE FALSE
    BY <1>2 DEF Crash
  <1>3. CASE ReplaceAssignment
    BY <1>3 DEF ReplaceAssignment
  <1>4. CASE (\E P \in SUBSET Probes : HeartbeatAnswered(P)) \/ StaggerUnstarted \/ Confirm \/ MarkProbesRun
             \/ Tick \/ TriggersArrive \/ UNCHANGED vars
    BY <1>4 DEF HeartbeatAnswered, StaggerUnstarted, Confirm, MarkProbesRun, Tick, TriggersArrive, vars, history
  <1>. QED
    BY <1>1, <1>2, <1>3, <1>4 DEF Next

\* Two remembered scheduled runs of a probe are an interval apart in server
\* time, whatever happens between them: assignments, restarts and failed marks.
THEOREM RunsAreSpaced == Spec => RunsSpaced
  <1>1. Init => TypeOK /\ Marked /\ Synced /\ Remembered
    BY InitInv DEF IInv
  <1>2. TypeOK /\ Synced /\ Remembered /\ [Next]_vars =>
          [\A p \in Probes : ranAt'[p] # ranAt[p] /\ ranAt'[p] # Never /\ ranAt[p] # Never
             => ranAt'[p] - ranAt[p] >= Interval[p]]_vars
    BY RunsSpacedStep
  <1>. QED
    BY <1>1, <1>2, TypeStep, SyncedStep, RememberedStep, PTL DEF Spec, RunsSpaced

-----------------------------------------------------------------------------
(* The budget                                                              *)

LEMMA BudgetStep == TypeOK /\ TickWithinBudget /\ [Next]_vars => TickWithinBudget'
  <1>. SUFFICES ASSUME TypeOK, TickWithinBudget, [Next]_vars PROVE TickWithinBudget'
    OBVIOUS
  <1>1. CASE RunDueProbes
    <2>1. PICK n \in Nat, budget \in Nat, T \in SUBSET Due(Now) :
           /\ budget + n * PerProbe = JobsPerTick
           /\ TakeDue(T, Due(Now), budget)
           /\ \E each \in Nat : each <= PerProbe /\ jobs' = Used(T, budget) + n * each
      BY <1>1, TickIs
    <2>2. PICK each \in Nat : each <= PerProbe /\ jobs' = Used(T, budget) + n * each
      BY <2>1
    <2>3. Due(Now) \in SUBSET Probes /\ T \in SUBSET Probes
      BY DEF Due, TypeOK, RowType
    <2>4. Used(T, budget) \in Nat /\ Used(T, budget) <= budget
      BY <2>1, <2>3, TakenFit, UsedType
    <2>5. n * each <= n * PerProbe /\ n * each \in Nat /\ n * PerProbe \in Nat
      BY <2>2, PerProbeType
    <2>6. jobs' <= JobsPerTick
      BY <2>1, <2>2, <2>4, <2>5
    <2>. QED
      BY <2>6 DEF TickWithinBudget
  <1>2. CASE ~RunDueProbes
    <2>1. jobs' = jobs
      BY <1>2 DEF Next, HeartbeatAnswered, ReplaceAssignment, StaggerUnstarted, Confirm, MarkProbesRun,
                  Tick, TriggersArrive, Crash, vars, history
    <2>. QED
      BY <2>1 DEF TickWithinBudget
  <1>. QED
    BY <1>1, <1>2

\* Whatever the three limits are and however many triggers wait, triggered and
\* scheduled runs together start no more jobs in a tick than one may.
THEOREM TicksWithinBudget == Spec => []TickWithinBudget
  <1>1. Init => TypeOK /\ Marked /\ TickWithinBudget
    BY InitInv, SchedulerAssumption DEF IInv, Init, TickWithinBudget
  <1>. QED
    BY <1>1, TypeStep, BudgetStep, PTL DEF Spec

-----------------------------------------------------------------------------
(* Fairness of the order                                                   *)

\* The other probes are fewer than all.
LEMMA OthersBound ==
  ASSUME NEW p \in Probes, NEW B \in SUBSET (Probes \ {p})
  PROVE  /\ IsFiniteSet(B) /\ Cardinality(B) \in Nat /\ Cardinality(B) < Cardinality(Probes)
         /\ Cardinality(Probes) \in Nat
  <1>1. IsFiniteSet(Probes) /\ Cardinality(Probes) \in Nat
    BY ProbesFinite
  <1>2. IsFiniteSet(Probes \ {p}) /\ Cardinality(Probes \ {p}) = Cardinality(Probes) - 1
    BY <1>1, FS_RemoveElement
  <1>3. IsFiniteSet(B) /\ Cardinality(B) <= Cardinality(Probes) - 1 /\ Cardinality(B) \in Nat
    BY <1>2, FS_Subset, FS_CardinalityType
  <1>. QED
    BY <1>1, <1>3

\* A probe is not among the probes before it.
LEMMA BeforeBound ==
  ASSUME TypeOK, NEW p \in Probes
  PROVE  LET B == {q \in cache.probes : Before(q, p)} IN
         /\ IsFiniteSet(B) /\ Cardinality(B) \in Nat /\ Cardinality(B) < Cardinality(Probes)
         /\ Cardinality(Probes) \in Nat
  <1>. DEFINE B == {q \in cache.probes : Before(q, p)}
  <1>1. B \in SUBSET (Probes \ {p})
    BY BeforeOrder DEF TypeOK, RowType
  <1>. QED
    BY <1>1, OthersBound

\* A probe the tick leaves out although it is due: the probes taken before it,
\* one at least, fall behind it.
LEMMA LeftOut ==
  ASSUME TypeOK, TypeOK', NEW budget \in Nat \ {0}, NEW T \in SUBSET Due(Now),
         TakeDue(T, Due(Now), budget), cache'.probes = cache.probes,
         \A q \in Probes : cache'.last[q] = IF q \in T THEN Now ELSE cache.last[q],
         NEW p \in Due(Now) \ T
  PROVE  Cardinality({q \in cache.probes : Before(q, p)}') < Cardinality({q \in cache.probes : Before(q, p)})
  <1>. DEFINE B == {q \in cache.probes : Before(q, p)}
  <1>1. /\ Due(Now) \in SUBSET Probes /\ T \subseteq cache.probes /\ cache.probes \subseteq Probes
        /\ p \in Probes
    BY DEF Due, TypeOK, RowType
  <1>2. cache.last[p] < Now
    <2>1. cache.last[p] = Never \/ Now >= cache.last[p] + Interval[p]
      BY DEF Due
    <2>. QED
      BY <1>1, <2>1, NowIs, TimesAre
  <1>3. B' = B \ T
    <2>1. cache'.last[p] = cache.last[p]
      BY <1>1
    <2>2. ASSUME NEW q \in T PROVE ~Before(q, p)'
      <3>1. cache'.last[q] = Now
        BY <1>1, <2>2
      <3>. QED
        BY <1>1, <1>2, <2>1, <3>1, NowIs, TimesAre DEF Before
    <2>3. ASSUME NEW q \in cache.probes \ T PROVE Before(q, p)' <=> Before(q, p)
      <3>1. cache'.last[q] = cache.last[q]
        BY <1>1, <2>3
      <3>. QED
        BY <2>1, <3>1 DEF Before
    <2>. QED
      BY <2>2, <2>3
  <1>4. PICK q \in T : Before(q, p)
    <2>1. SUFFICES ASSUME {q \in T : Before(q, p)} = {} PROVE FALSE
      OBVIOUS
    <2>2. ~(Used({}, budget) + JobsOf(p, budget) <= budget)
      BY <2>1 DEF TakeDue
    <2>. QED
      BY <1>1, <2>2, UsedNone, JobsOfBound
  <1>5. q \in B /\ q \notin B' /\ B' \in SUBSET B
    BY <1>1, <1>3, <1>4
  <1>6. IsFiniteSet(B) /\ Cardinality(B) \in Nat
    BY <1>1, BeforeBound
  <1>7. Cardinality(B') \in Nat /\ Cardinality(B') <= Cardinality(B) /\ Cardinality(B') # Cardinality(B)
    <2>. HIDE DEF B
    <2>. QED
      BY <1>5, <1>6, FS_Subset, FS_CardinalityType
  <1>8. Cardinality(B') < Cardinality(B)
    <2>. HIDE DEF B
    <2>. QED
      BY <1>6, <1>7
  <1>. QED
    BY <1>8

LEMMA WaitingStep == TypeOK /\ TypeOK' /\ Waiting /\ [Next]_vars => Waiting'
  <1>. SUFFICES ASSUME TypeOK, TypeOK', Waiting, [Next]_vars, NEW p \in Probes
                PROVE  late'[p] + Cardinality({q \in cache.probes : Before(q, p)}') < Cardinality(Probes)
    BY DEF Waiting
  <1>. DEFINE b == Cardinality({q \in cache.probes : Before(q, p)})
  <1>1. late[p] \in Nat /\ b \in Nat /\ late[p] + b < Cardinality(Probes) /\ Cardinality(Probes) \in Nat
    BY BeforeBound DEF Waiting, TypeOK
  <1>2. b' \in Nat /\ b' < Cardinality(Probes)
    <2>1. p \in Int /\ cache'.last[p] \in Int /\ cache'.probes \in SUBSET Probes
      BY SchedulerAssumption DEF TypeOK, RowType
    <2>2. {q \in cache.probes : Before(q, p)}' \in SUBSET (Probes \ {p})
      BY <2>1 DEF Before
    <2>. QED
      BY <2>2, OthersBound
  <1>3. CASE late'[p] = 0
    BY <1>2, <1>3
  <1>4. CASE late'[p] = late[p] /\ cache' = cache
    <2>1. b' = b
      BY <1>4 DEF Before
    <2>. QED
      BY <1>1, <1>4, <2>1
  <1>5. CASE RunDueProbes
    <2>1. PICK n \in Nat, budget \in Nat, T \in SUBSET Due(Now) :
           /\ TakeDue(T, Due(Now), budget)
           /\ cache' \in RowType /\ cache'.probes = cache.probes
           /\ \A q \in Probes : cache'.last[q] = IF q \in T THEN Now ELSE cache.last[q]
           /\ late' = [q \in Probes |->
                IF q \in Due(Now) \ T THEN IF budget > 0 THEN late[q] + 1 ELSE late[q] ELSE 0]
      BY <1>5, TickIs
    <2>2. CASE p \notin Due(Now) \ T
      BY <1>3, <2>1, <2>2
    <2>3. CASE p \in Due(Now) \ T /\ budget > 0
      <3>1. b' < b
        BY <2>1, <2>3, LeftOut
      <3>2. late'[p] = late[p] + 1
        BY <2>1, <2>3
      <3>. HIDE DEF b
      <3>. QED
        BY <1>1, <1>2, <3>1, <3>2 DEF b
    <2>4. CASE p \in Due(Now) \ T /\ ~(budget > 0)
      <3>1. T = {}
        BY <2>1, <2>4 DEF TakeDue
      <3>2. \A q \in Probes : cache'.last[q] = cache.last[q]
        BY <2>1, <3>1
      <3>3. cache.probes \in SUBSET Probes
        BY DEF TypeOK, RowType
      <3>4. b' = b
        BY <2>1, <3>2, <3>3 DEF Before
      <3>5. late'[p] = late[p]
        BY <2>1, <2>4
      <3>. QED
        BY <1>1, <3>4, <3>5
    <2>. QED
      BY <2>2, <2>3, <2>4
  <1>6. CASE ReplaceAssignment \/ StaggerUnstarted \/ \E load \in BOOLEAN : Crash(load)
    <2>1. late'[p] = 0
      BY <1>6 DEF ReplaceAssignment, StaggerUnstarted, Crash
    <2>. QED
      BY <1>3, <2>1
  <1>7. CASE (\E P \in SUBSET Probes : HeartbeatAnswered(P)) \/ Confirm \/ MarkProbesRun
             \/ Tick \/ TriggersArrive \/ UNCHANGED vars
    <2>1. late' = late /\ cache' = cache
      BY <1>7 DEF HeartbeatAnswered, Confirm, MarkProbesRun, Tick, TriggersArrive, vars, history
    <2>. QED
      BY <1>4, <2>1
  <1>. QED
    BY <1>5, <1>6, <1>7 DEF Next

\* For any number of probes, any intervals, sizes and limits: under an unchanged
\* assignment a due probe is left out of fewer ticks with a budget than there
\* are probes (takeDueProbes: "cannot starve forever").
THEOREM WaitIsBounded == Spec => []BoundedWait
  <1>1. Init => TypeOK /\ Marked /\ Waiting
    BY InitInv DEF IInv
  <1>2. TypeOK /\ Waiting => BoundedWait
    <2>. SUFFICES ASSUME TypeOK, Waiting, NEW p \in Probes PROVE late[p] < Cardinality(Probes)
      BY DEF BoundedWait
    <2>1. late[p] \in Nat /\ late[p] + Cardinality({q \in cache.probes : Before(q, p)}) < Cardinality(Probes)
      BY DEF TypeOK, Waiting
    <2>. QED
      BY <2>1, BeforeBound
  <1>. QED
    BY <1>1, <1>2, TypeStep, WaitingStep, PTL DEF Spec

=============================================================================
