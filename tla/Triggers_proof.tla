--------------------------- MODULE Triggers_proof ---------------------------
(***************************************************************************)
(* Triggers for any probes, runs, queue cap, slots, crashes and disk       *)
(* errors: a run is executed at most once more than the node has crashed   *)
(* or its disk has failed, a queued trigger has its pending row, the       *)
(* advertised assignment is the saved one, and a trigger is retired only   *)
(* when its results are durable.                                           *)
(***************************************************************************)
EXTENDS Triggers, FiniteSetTheorems, SequenceTheorems, WellFoundedInduction, TLAPS

-----------------------------------------------------------------------------
(* Folds: loops of the code over a list of triggers                        *)

\* A set of naturals has a least element.
LEMMA Smallest ==
  ASSUME NEW S \in SUBSET Nat, S # {}
  PROVE  \E m \in S : \A s \in S : m <= s
  <1>1. PICK x \in S : \A y \in S : ~ (<<y, x>> \in OpToRel(<, Nat))
    BY NatLessThanWellFounded, WFMin, Zenon
  <1>2. x \in S
    BY <1>1, Zenon
  <1>3. \A y \in S : ~ (y < x)
    BY <1>1 DEF OpToRel
  <1>. QED
    BY <1>2, <1>3

\* The ways through n steps from a, F[i] being the i-th.
Folds(S, a, n, F) == {f \in [0 .. n -> S] : f[0] = a /\ \A i \in 1 .. n : f[i] = F[i][f[i - 1]]}

\* There is such a way: a least number of steps that cannot be made would be
\* one more than a number that can.
LEMMA FoldExists ==
  ASSUME NEW S, NEW a \in S, NEW n \in Nat, NEW F \in [1 .. n -> [S -> S]]
  PROVE  Folds(S, a, n, F) # {}
  <1>. DEFINE P(k) == \E f \in [0 .. k -> S] : f[0] = a /\ \A i \in 1 .. k : f[i] = F[i][f[i - 1]]
              Bad == {k \in 0 .. n : ~ P(k)}
  <1>1. SUFFICES ASSUME Bad # {} PROVE FALSE
    <2>1. SUFFICES ASSUME Bad = {} PROVE Folds(S, a, n, F) # {}
      OBVIOUS
    <2>2. P(n)
      <3>1. n \in 0 .. n
        OBVIOUS
      <3>. QED
        BY <2>1, <3>1
    <2>3. PICK f \in [0 .. n -> S] : f[0] = a /\ \A i \in 1 .. n : f[i] = F[i][f[i - 1]]
      BY <2>2
    <2>4. f \in Folds(S, a, n, F)
      BY <2>3 DEF Folds
    <2>. QED
      BY <2>4
  <1>2. PICK m \in Bad : \A k \in Bad : m <= k
    <2>1. Bad \in SUBSET Nat
      OBVIOUS
    <2>. HIDE DEF Bad
    <2>. QED
      BY <1>1, <2>1, Smallest
  <1>3. P(0)
    <2>. DEFINE f == [i \in 0 .. 0 |-> a]
    <2>1. f \in [0 .. 0 -> S] /\ f[0] = a /\ \A i \in 1 .. 0 : f[i] = F[i][f[i - 1]]
      OBVIOUS
    <2>. QED
      BY <2>1
  <1>4. m \in 1 .. n /\ m - 1 \in 0 .. n /\ m - 1 < m
    <2>1. m # 0
      BY <1>3
    <2>. QED
      BY <2>1
  <1>5. P(m - 1)
    <2>1. m - 1 \notin Bad
      <3>. HIDE DEF Bad
      <3>1. m \in Nat /\ m - 1 \in Nat
        BY <1>4
      <3>. QED
        BY <1>2, <1>4, <3>1
    <2>. QED
      BY <1>4, <2>1
  <1>6. PICK f \in [0 .. m - 1 -> S] : f[0] = a /\ \A i \in 1 .. m - 1 : f[i] = F[i][f[i - 1]]
    BY <1>5
  <1>. DEFINE g == [i \in 0 .. m |-> IF i = m THEN F[m][f[m - 1]] ELSE f[i]]
  <1>7. f[m - 1] \in S
    BY <1>4, <1>6
  <1>8. F[m][f[m - 1]] \in S
    BY <1>4, <1>7
  <1>9. g \in [0 .. m -> S]
    BY <1>4, <1>6, <1>8
  <1>10. g[0] = a
    BY <1>4, <1>6
  <1>11. ASSUME NEW i \in 1 .. m PROVE g[i] = F[i][g[i - 1]]
    <2>1. g[i - 1] = f[i - 1]
      BY <1>4
    <2>2. CASE i = m
      <3>1. m \in 0 .. m
        BY <1>4
      <3>2. g[m] = F[m][f[m - 1]]
        BY <3>1
      <3>. HIDE DEF g
      <3>. QED
        BY <2>1, <2>2, <3>2
    <2>3. CASE i # m
      <3>1. i \in 1 .. m - 1 /\ i \in 0 .. m
        BY <1>4, <2>3
      <3>2. g[i] = f[i]
        BY <2>3, <3>1
      <3>. QED
        BY <1>6, <2>1, <3>1, <3>2
    <2>. QED
      BY <2>2, <2>3
  <1>12. P(m)
    BY <1>9, <1>10, <1>11
  <1>. QED
    BY <1>2, <1>12

\* What holds before the first step and is kept by each holds all the way.
LEMMA FoldIn ==
  ASSUME NEW S, NEW n \in Nat, NEW g, g[0] \in S[0],
         \A i \in 1 .. n : g[i - 1] \in S[i - 1] => g[i] \in S[i]
  PROVE  g[n] \in S[n] /\ \A i \in 0 .. n : g[i] \in S[i]
  <1>. DEFINE Bad == {i \in 0 .. n : g[i] \notin S[i]}
  <1>1. SUFFICES ASSUME Bad # {} PROVE FALSE
    <2>1. n \in 0 .. n
      OBVIOUS
    <2>. QED
      BY <2>1
  <1>2. PICK m \in Bad : \A k \in Bad : m <= k
    <2>1. Bad \in SUBSET Nat
      OBVIOUS
    <2>. HIDE DEF Bad
    <2>. QED
      BY <1>1, <2>1, Smallest
  <1>3. m \in 1 .. n /\ m - 1 \in 0 .. n /\ m - 1 < m
    OBVIOUS
  <1>4. m - 1 \notin Bad
    BY <1>2, <1>3
  <1>. QED
    BY <1>2, <1>3, <1>4

-----------------------------------------------------------------------------
(* The cache's queue                                                       *)

\* Where a loop over triggers of R can take the cache from c.
From(c, R) ==
  {d \in CacheType :
     /\ d.hash = c.hash /\ d.probes = c.probes
     /\ IsInjective(d.queue) /\ Len(d.queue) <= MaxPending
     /\ ToSet(d.queue) \subseteq ToSet(c.queue) \union R}

LEMMA ContainsIsIn ==
  ASSUME NEW q \in Seq(Runs), NEW r
  PROVE  Contains(q, r) <=> r \in ToSet(q)
  <1>1. DOMAIN q = 1 .. Len(q)
    OBVIOUS
  <1>. QED
    BY <1>1 DEF Contains, ToSet

LEMMA AppendNew ==
  ASSUME NEW q \in Seq(Runs), NEW r \in Runs, IsInjective(q), ~ Contains(q, r)
  PROVE  /\ Append(q, r) \in Seq(Runs) /\ IsInjective(Append(q, r))
         /\ Len(Append(q, r)) = Len(q) + 1
         /\ ToSet(Append(q, r)) = ToSet(q) \union {r}
  <1>1. Append(q, r) \in Seq(Runs) /\ Len(Append(q, r)) = Len(q) + 1
    OBVIOUS
  <1>2. IsInjective(Append(q, r))
    BY <1>1 DEF IsInjective, Contains
  <1>3. ToSet(Append(q, r)) = ToSet(q) \union {r}
    <2>1. \A i \in 1 .. Len(q) : Append(q, r)[i] = q[i]
      OBVIOUS
    <2>2. Append(q, r)[Len(q) + 1] = r
      OBVIOUS
    <2>3. DOMAIN q = 1 .. Len(q) /\ DOMAIN Append(q, r) = 1 .. Len(q) + 1
      BY <1>1
    <2>4. ASSUME NEW x \in ToSet(Append(q, r)) PROVE x \in ToSet(q) \union {r}
      <3>1. PICK i \in 1 .. Len(q) + 1 : x = Append(q, r)[i]
        BY <2>3, <2>4 DEF ToSet
      <3>. QED
        BY <2>1, <2>2, <2>3, <3>1 DEF ToSet
    <2>5. ASSUME NEW x \in ToSet(q) PROVE x \in ToSet(Append(q, r))
      <3>1. PICK i \in 1 .. Len(q) : x = q[i]
        BY <2>3 DEF ToSet
      <3>2. i \in 1 .. Len(q) + 1 /\ x = Append(q, r)[i]
        BY <2>1, <3>1
      <3>. QED
        BY <2>3, <3>2 DEF ToSet
    <2>6. r \in ToSet(Append(q, r))
      <3>1. Len(q) + 1 \in 1 .. Len(q) + 1
        OBVIOUS
      <3>. QED
        BY <2>2, <2>3, <3>1 DEF ToSet
    <2>. QED
      BY <2>4, <2>5, <2>6
  <1>. QED
    BY <1>1, <1>2, <1>3

LEMMA FromType ==
  ASSUME NEW c, NEW R, NEW d \in From(c, R)
  PROVE  /\ d \in CacheType /\ d.hash = c.hash /\ d.probes = c.probes
         /\ IsInjective(d.queue) /\ Len(d.queue) <= MaxPending
         /\ ToSet(d.queue) \subseteq ToSet(c.queue) \union R
  BY DEF From

\* One trigger offered to the queue.
LEMMA OfferFrom ==
  ASSUME NEW c, NEW R \in SUBSET Runs, NEW d \in From(c, R), NEW r \in R, ~ Queued(d, r)
  PROVE  Offer(d, r) \in From(c, R)
  <1>1. /\ d \in CacheType /\ d.hash = c.hash /\ d.probes = c.probes
        /\ IsInjective(d.queue) /\ Len(d.queue) <= MaxPending
        /\ ToSet(d.queue) \subseteq ToSet(c.queue) \union R
    BY FromType
  <1>2. d.queue \in Seq(Runs) /\ d.turned \in SUBSET Runs
    BY <1>1 DEF CacheType
  <1>3. CASE Full(d)
    <2>. DEFINE e == [d EXCEPT !.turned = @ \union {r}]
    <2>1. Offer(d, r) = e
      BY <1>3 DEF Offer
    <2>2. e \in CacheType /\ e.hash = d.hash /\ e.probes = d.probes /\ e.queue = d.queue
      BY <1>1 DEF CacheType
    <2>. HIDE DEF e
    <2>. QED
      BY <1>1, <2>1, <2>2 DEF From
  <1>4. CASE ~ Full(d)
    <2>. DEFINE q == Append(d.queue, r)
                t == d.turned \ {r}
                e == [d EXCEPT !.queue = q, !.turned = t]
    <2>1. Len(d.queue) < MaxPending
      BY <1>2, <1>4, ConstantsAssumption DEF Full
    <2>2. q \in Seq(Runs) /\ IsInjective(q) /\ Len(q) <= MaxPending
          /\ ToSet(q) \subseteq ToSet(d.queue) \union {r}
      BY <1>1, <1>2, <2>1, AppendNew, ConstantsAssumption DEF Queued
    <2>3. t \in SUBSET Runs
      BY <1>2
    <2>4. Offer(d, r) = e
      BY <1>4 DEF Offer
    <2>. HIDE DEF q, t
    <2>5. e \in CacheType /\ e.hash = d.hash /\ e.probes = d.probes /\ e.queue = q
      BY <1>1, <2>2, <2>3 DEF CacheType
    <2>. HIDE DEF e
    <2>. QED
      BY <1>1, <2>2, <2>4, <2>5 DEF From
  <1>. QED
    BY <1>3, <1>4

\* One trigger through applyTriggeredEventLocked.
LEMMA AdmitFrom ==
  ASSUME NEW c, NEW R \in SUBSET Runs, NEW d \in From(c, R), NEW r \in R
  PROVE  Admit(d, r) \in From(c, R)
  <1>1. /\ d \in CacheType /\ d.hash = c.hash /\ d.probes = c.probes
        /\ IsInjective(d.queue) /\ Len(d.queue) <= MaxPending
        /\ ToSet(d.queue) \subseteq ToSet(c.queue) \union R
    BY FromType
  <1>2. ProbeOf[r] \in Probes /\ r \in Runs
    BY ConstantsAssumption
  <1>3. CASE Known(d, r)
    BY <1>3 DEF Admit
  <1>4. CASE ~ Known(d, r)
    <2>. DEFINE e == Noted(d, r)
    <2>1. e \in CacheType /\ e.hash = d.hash /\ e.probes = d.probes /\ e.queue = d.queue
      <3>1. CASE ProbeOf[r] \in d.probes
        <4>. DEFINE l == [d.last EXCEPT ![ProbeOf[r]] = r]
        <4>1. l \in [Probes -> Runs \union {None}]
          BY <1>1, <1>2 DEF CacheType
        <4>2. e = [d EXCEPT !.last = l]
          BY <3>1 DEF Noted
        <4>. HIDE DEF l, e
        <4>. QED
          BY <1>1, <4>1, <4>2 DEF CacheType
      <3>2. CASE ProbeOf[r] \notin d.probes
        BY <1>1, <3>2 DEF Noted
      <3>. QED
        BY <3>1, <3>2
    <2>2. Admit(d, r) = Offer(e, r)
      BY <1>4 DEF Admit
    <2>. HIDE DEF e
    <2>3. e \in From(c, R) /\ ~ Queued(e, r)
      BY <1>1, <1>4, <2>1 DEF From, Known, Queued
    <2>. QED
      BY <2>2, <2>3, OfferFrom
  <1>. QED
    BY <1>3, <1>4

\* One trigger through requeueTriggers.
LEMMA RequeueFrom ==
  ASSUME NEW c, NEW R \in SUBSET Runs, NEW d \in From(c, R), NEW r \in R
  PROVE  Requeue(d, r) \in From(c, R)
  BY OfferFrom DEF Requeue

\* The loop of applyTriggeredEvents.
LEMMA AdmitAllFrom ==
  ASSUME NEW c, NEW R \in SUBSET Runs, c \in From(c, R), NEW runs \in Seq(R)
  PROVE  Fold(Admit, c, runs) \in From(c, R)
  <1>. DEFINE n == Len(runs)
              S == From(c, R)
              F == [i \in 1 .. n |-> [s \in S |-> Admit(s, runs[i])]]
              E(f) == f = [i \in 0 .. n |-> IF i = 0 THEN c ELSE Admit(f[i - 1], runs[i])]
              at == CHOOSE f : E(f)
  <1>1. n \in Nat /\ \A i \in 1 .. n : runs[i] \in R
    OBVIOUS
  <1>2. \A s \in S, r \in R : Admit(s, r) \in S
    BY AdmitFrom
  <1>3. Fold(Admit, c, runs) = at[n]
    BY DEF Fold
  <1>4. c \in S
    OBVIOUS
  <1>. HIDE DEF n, S
  <1>5. F \in [1 .. n -> [S -> S]] /\ \A s \in S, i \in 1 .. n : F[i][s] = Admit(s, runs[i])
    BY <1>1, <1>2
  <1>. HIDE DEF F
  <1>6. PICK f \in [0 .. n -> S] : f[0] = c /\ \A i \in 1 .. n : f[i] = F[i][f[i - 1]]
    <2>1. Folds(S, c, n, F) # {}
      BY <1>1, <1>4, <1>5, FoldExists, Zenon
    <2>. QED
      BY <2>1 DEF Folds
  <1>7. ASSUME NEW i \in 1 .. n PROVE f[i - 1] \in S /\ f[i] = Admit(f[i - 1], runs[i])
    <2>1. i - 1 \in 0 .. n
      BY <1>1
    <2>2. f[i - 1] \in S
      BY <2>1, <1>6
    <2>. QED
      BY <1>5, <1>6, <2>2
  <1>8. E(f)
    <2>1. \A i \in 0 .. n : f[i] = IF i = 0 THEN c ELSE Admit(f[i - 1], runs[i])
      BY <1>1, <1>6, <1>7
    <2>. QED
      BY <2>1, <1>6
  <1>9. at = [i \in 0 .. n |-> IF i = 0 THEN c ELSE Admit(at[i - 1], runs[i])]
    <2>1. E(at)
      BY <1>8
    <2>. QED
      BY <2>1
  <1>. HIDE DEF at, E
  <1>10. at[0] = c /\ \A i \in 1 .. n : at[i] = Admit(at[i - 1], runs[i])
    <2>1. 0 \in 0 .. n /\ \A i \in 1 .. n : i \in 0 .. n /\ i # 0
      BY <1>1
    <2>. QED
      BY <1>9, <2>1
  <1>. DEFINE T == [i \in 0 .. n |-> S]
  <1>11. at[n] \in T[n]
    <2>1. \A i \in 0 .. n : T[i] = S
      OBVIOUS
    <2>2. 0 \in 0 .. n /\ \A i \in 1 .. n : i - 1 \in 0 .. n /\ i \in 0 .. n
      BY <1>1
    <2>. HIDE DEF T
    <2>3. at[0] \in T[0]
      BY <1>4, <1>10, <2>1, <2>2
    <2>4. \A i \in 1 .. n : at[i - 1] \in T[i - 1] => at[i] \in T[i]
      BY <1>1, <1>2, <1>10, <2>1, <2>2
    <2>. QED
      BY <1>1, <2>3, <2>4, FoldIn
  <1>12. n \in 0 .. n
    BY <1>1
  <1>. QED
    BY <1>3, <1>11, <1>12 DEF S

\* The loop of requeueTriggers.
LEMMA RequeueAllFrom ==
  ASSUME NEW c, NEW R \in SUBSET Runs, c \in From(c, R), NEW runs \in Seq(R)
  PROVE  Fold(Requeue, c, runs) \in From(c, R)
  <1>. DEFINE n == Len(runs)
              S == From(c, R)
              F == [i \in 1 .. n |-> [s \in S |-> Requeue(s, runs[i])]]
              E(f) == f = [i \in 0 .. n |-> IF i = 0 THEN c ELSE Requeue(f[i - 1], runs[i])]
              at == CHOOSE f : E(f)
  <1>1. n \in Nat /\ \A i \in 1 .. n : runs[i] \in R
    OBVIOUS
  <1>2. \A s \in S, r \in R : Requeue(s, r) \in S
    BY RequeueFrom
  <1>3. Fold(Requeue, c, runs) = at[n]
    BY DEF Fold
  <1>4. c \in S
    OBVIOUS
  <1>. HIDE DEF n, S
  <1>5. F \in [1 .. n -> [S -> S]] /\ \A s \in S, i \in 1 .. n : F[i][s] = Requeue(s, runs[i])
    BY <1>1, <1>2
  <1>. HIDE DEF F
  <1>6. PICK f \in [0 .. n -> S] : f[0] = c /\ \A i \in 1 .. n : f[i] = F[i][f[i - 1]]
    <2>1. Folds(S, c, n, F) # {}
      BY <1>1, <1>4, <1>5, FoldExists, Zenon
    <2>. QED
      BY <2>1 DEF Folds
  <1>7. ASSUME NEW i \in 1 .. n PROVE f[i - 1] \in S /\ f[i] = Requeue(f[i - 1], runs[i])
    <2>1. i - 1 \in 0 .. n
      BY <1>1
    <2>2. f[i - 1] \in S
      BY <2>1, <1>6
    <2>. QED
      BY <1>5, <1>6, <2>2
  <1>8. E(f)
    <2>1. \A i \in 0 .. n : f[i] = IF i = 0 THEN c ELSE Requeue(f[i - 1], runs[i])
      BY <1>1, <1>6, <1>7
    <2>. QED
      BY <2>1, <1>6
  <1>9. at = [i \in 0 .. n |-> IF i = 0 THEN c ELSE Requeue(at[i - 1], runs[i])]
    <2>1. E(at)
      BY <1>8
    <2>. QED
      BY <2>1
  <1>. HIDE DEF at, E
  <1>10. at[0] = c /\ \A i \in 1 .. n : at[i] = Requeue(at[i - 1], runs[i])
    <2>1. 0 \in 0 .. n /\ \A i \in 1 .. n : i \in 0 .. n /\ i # 0
      BY <1>1
    <2>. QED
      BY <1>9, <2>1
  <1>. DEFINE T == [i \in 0 .. n |-> S]
  <1>11. at[n] \in T[n]
    <2>1. \A i \in 0 .. n : T[i] = S
      OBVIOUS
    <2>2. 0 \in 0 .. n /\ \A i \in 1 .. n : i - 1 \in 0 .. n /\ i \in 0 .. n
      BY <1>1
    <2>. HIDE DEF T
    <2>3. at[0] \in T[0]
      BY <1>4, <1>10, <2>1, <2>2
    <2>4. \A i \in 1 .. n : at[i - 1] \in T[i - 1] => at[i] \in T[i]
      BY <1>1, <1>2, <1>10, <2>1, <2>2
    <2>. QED
      BY <1>1, <2>3, <2>4, FoldIn
  <1>12. n \in 0 .. n
    BY <1>1
  <1>. QED
    BY <1>3, <1>11, <1>12 DEF S

\* The loop of queueTriggers.
LEMMA QueueAllFrom ==
  ASSUME NEW c, NEW R \in SUBSET Runs, c \in From(c, R), NEW runs \in Seq(R)
  PROVE  QueueTriggers(c, runs) \in From(c, R)
  <1>. DEFINE n == Len(runs)
              S == [c : From(c, R), stop : BOOLEAN]
              a == [c |-> c, stop |-> FALSE]
              F == [i \in 1 .. n |-> [s \in S |-> QueueNext(s, runs[i])]]
              E(f) == f = [i \in 0 .. n |-> IF i = 0 THEN a ELSE QueueNext(f[i - 1], runs[i])]
              at == CHOOSE f : E(f)
  <1>1. n \in Nat /\ \A i \in 1 .. n : runs[i] \in R
    OBVIOUS
  <1>2. \A s \in S, r \in R : QueueNext(s, r) \in S
    <2>. SUFFICES ASSUME NEW s \in S, NEW r \in R PROVE QueueNext(s, r) \in S
      OBVIOUS
    <2>1. s.c \in From(c, R) /\ s.stop \in BOOLEAN
      OBVIOUS
    <2>2. Admit(s.c, r) \in From(c, R)
      BY <2>1, AdmitFrom
    <2>3. CASE ~ s.stop
      BY <2>2, <2>3 DEF QueueNext
    <2>4. CASE s.stop
      <3>. DEFINE t == IF Known(s.c, r) THEN s.c.turned ELSE s.c.turned \union {r}
                  e == [s.c EXCEPT !.turned = t]
      <3>1. /\ s.c \in CacheType /\ s.c.hash = c.hash /\ s.c.probes = c.probes
            /\ IsInjective(s.c.queue) /\ Len(s.c.queue) <= MaxPending
            /\ ToSet(s.c.queue) \subseteq ToSet(c.queue) \union R
        BY <2>1, FromType
      <3>2. t \in SUBSET Runs
        BY <3>1 DEF CacheType
      <3>3. QueueNext(s, r) = [s EXCEPT !.c = e]
        BY <2>4 DEF QueueNext
      <3>. HIDE DEF t
      <3>4. e \in CacheType /\ e.hash = s.c.hash /\ e.probes = s.c.probes /\ e.queue = s.c.queue
        BY <3>1, <3>2 DEF CacheType
      <3>. HIDE DEF e
      <3>5. e \in From(c, R)
        BY <3>1, <3>4 DEF From
      <3>. QED
        BY <2>1, <3>3, <3>5
    <2>. QED
      BY <2>1, <2>3, <2>4
  <1>3. QueueTriggers(c, runs) = at[n].c
    BY DEF Fold, QueueTriggers
  <1>4. a \in S
    OBVIOUS
  <1>. HIDE DEF n, S, a
  <1>5. F \in [1 .. n -> [S -> S]] /\ \A s \in S, i \in 1 .. n : F[i][s] = QueueNext(s, runs[i])
    BY <1>1, <1>2
  <1>. HIDE DEF F
  <1>6. PICK f \in [0 .. n -> S] : f[0] = a /\ \A i \in 1 .. n : f[i] = F[i][f[i - 1]]
    <2>1. Folds(S, a, n, F) # {}
      BY <1>1, <1>4, <1>5, FoldExists, Zenon
    <2>. QED
      BY <2>1 DEF Folds
  <1>7. ASSUME NEW i \in 1 .. n PROVE f[i - 1] \in S /\ f[i] = QueueNext(f[i - 1], runs[i])
    <2>1. i - 1 \in 0 .. n
      BY <1>1
    <2>2. f[i - 1] \in S
      BY <2>1, <1>6
    <2>. QED
      BY <1>5, <1>6, <2>2
  <1>8. E(f)
    <2>1. \A i \in 0 .. n : f[i] = IF i = 0 THEN a ELSE QueueNext(f[i - 1], runs[i])
      BY <1>1, <1>6, <1>7
    <2>. QED
      BY <2>1, <1>6
  <1>9. at = [i \in 0 .. n |-> IF i = 0 THEN a ELSE QueueNext(at[i - 1], runs[i])]
    <2>1. E(at)
      BY <1>8
    <2>. QED
      BY <2>1
  <1>. HIDE DEF at, E
  <1>10. at[0] = a /\ \A i \in 1 .. n : at[i] = QueueNext(at[i - 1], runs[i])
    <2>1. 0 \in 0 .. n /\ \A i \in 1 .. n : i \in 0 .. n /\ i # 0
      BY <1>1
    <2>. QED
      BY <1>9, <2>1
  <1>. DEFINE T == [i \in 0 .. n |-> S]
  <1>11. at[n] \in T[n]
    <2>1. \A i \in 0 .. n : T[i] = S
      OBVIOUS
    <2>2. 0 \in 0 .. n /\ \A i \in 1 .. n : i - 1 \in 0 .. n /\ i \in 0 .. n
      BY <1>1
    <2>. HIDE DEF T
    <2>3. at[0] \in T[0]
      BY <1>4, <1>10, <2>1, <2>2
    <2>4. \A i \in 1 .. n : at[i - 1] \in T[i - 1] => at[i] \in T[i]
      BY <1>1, <1>2, <1>10, <2>1, <2>2
    <2>. QED
      BY <1>1, <2>3, <2>4, FoldIn
  <1>12. n \in 0 .. n
    BY <1>1
  <1>. QED
    BY <1>3, <1>11, <1>12 DEF S

\* The rows CompleteTriggers leaves: all but those of runs, in their order.
LEMMA WithoutIs ==
  ASSUME NEW pend \in Seq(Runs), IsInjective(pend), NEW runs \in Seq(Runs)
  PROVE  /\ Without(pend, runs) \in Seq(Runs)
         /\ IsInjective(Without(pend, runs))
         /\ ToSet(Without(pend, runs)) = ToSet(pend) \ ToSet(runs)
  <1>. DEFINE Step(kept, r) == IF Contains(runs, r) THEN kept ELSE Append(kept, r)
              n == Len(pend)
              S == Seq(Runs)
              a == << >>
              F == [i \in 1 .. n |-> [s \in S |-> Step(s, pend[i])]]
              E(f) == f = [i \in 0 .. n |-> IF i = 0 THEN a ELSE Step(f[i - 1], pend[i])]
              at == CHOOSE f : E(f)
  <1>1. n \in Nat /\ \A i \in 1 .. n : pend[i] \in Runs
    OBVIOUS
  <1>2. \A s \in S, r \in Runs : Step(s, r) \in S
    OBVIOUS
  <1>3. Without(pend, runs) = at[n]
    BY DEF Fold, Without
  <1>4. a \in S
    OBVIOUS
  <1>. HIDE DEF n, S, a, Step
  <1>5. F \in [1 .. n -> [S -> S]] /\ \A s \in S, i \in 1 .. n : F[i][s] = Step(s, pend[i])
    BY <1>1, <1>2
  <1>. HIDE DEF F
  <1>6. PICK f \in [0 .. n -> S] : f[0] = a /\ \A i \in 1 .. n : f[i] = F[i][f[i - 1]]
    <2>1. Folds(S, a, n, F) # {}
      BY <1>1, <1>4, <1>5, FoldExists, Zenon
    <2>. QED
      BY <2>1 DEF Folds
  <1>7. ASSUME NEW i \in 1 .. n PROVE f[i - 1] \in S /\ f[i] = Step(f[i - 1], pend[i])
    <2>1. i - 1 \in 0 .. n
      BY <1>1
    <2>2. f[i - 1] \in S
      BY <2>1, <1>6
    <2>. QED
      BY <1>5, <1>6, <2>2
  <1>8. E(f)
    <2>1. \A i \in 0 .. n : f[i] = IF i = 0 THEN a ELSE Step(f[i - 1], pend[i])
      BY <1>1, <1>6, <1>7
    <2>. QED
      BY <2>1, <1>6
  <1>9. at = [i \in 0 .. n |-> IF i = 0 THEN a ELSE Step(at[i - 1], pend[i])]
    <2>1. E(at)
      BY <1>8
    <2>. QED
      BY <2>1
  <1>. HIDE DEF at, E
  <1>10. at[0] = a /\ \A i \in 1 .. n : at[i] = Step(at[i - 1], pend[i])
    <2>1. 0 \in 0 .. n /\ \A i \in 1 .. n : i \in 0 .. n /\ i # 0
      BY <1>1
    <2>. QED
      BY <1>9, <2>1
  <1>. DEFINE T == [i \in 0 .. n |->
                     {k \in S : IsInjective(k) /\ ToSet(k) = {pend[j] : j \in 1 .. i} \ ToSet(runs)}]
  <1>11. at[n] \in T[n]
    <2>1. \A i \in 0 .. n :
            T[i] = {k \in S : IsInjective(k) /\ ToSet(k) = {pend[j] : j \in 1 .. i} \ ToSet(runs)}
      OBVIOUS
    <2>2. 0 \in 0 .. n /\ \A i \in 1 .. n : i - 1 \in 0 .. n /\ i \in 0 .. n
      BY <1>1
    <2>. HIDE DEF T
    <2>3. at[0] \in T[0]
      <3>1. IsInjective(a) /\ ToSet(a) = {} /\ {pend[j] : j \in 1 .. 0} = {}
        BY DEF IsInjective, ToSet, a
      <3>. QED
        BY <1>4, <1>10, <2>1, <2>2, <3>1
    <2>4. ASSUME NEW i \in 1 .. n, at[i - 1] \in T[i - 1] PROVE at[i] \in T[i]
      <3>. DEFINE k == at[i - 1]
                  r == pend[i]
      <3>1. /\ k \in Seq(Runs) /\ IsInjective(k) /\ r \in Runs
            /\ ToSet(k) = {pend[j] : j \in 1 .. i - 1} \ ToSet(runs)
        BY <1>1, <2>1, <2>2, <2>4 DEF S
      <3>2. at[i] = Step(k, r)
        BY <1>10
      <3>3. {pend[j] : j \in 1 .. i} = {pend[j] : j \in 1 .. i - 1} \union {r}
        BY <1>1
      <3>4. i \in 0 .. n
        BY <2>2
      <3>5. CASE Contains(runs, r)
        <4>1. r \in ToSet(runs)
          BY <3>5, ContainsIsIn
        <4>. QED
          BY <3>1, <3>2, <3>3, <3>4, <3>5, <4>1, <2>1 DEF S, Step
      <3>6. CASE ~ Contains(runs, r)
        <4>1. r \notin ToSet(runs)
          BY <3>6, <3>1, ContainsIsIn
        <4>2. r \notin ToSet(k)
          <5>1. \A j \in 1 .. i - 1 : pend[j] # pend[i]
            BY <1>1 DEF IsInjective, n
          <5>. QED
            BY <3>1, <5>1
        <4>3. ~ Contains(k, r)
          BY <3>1, <4>2, ContainsIsIn
        <4>. HIDE DEF k, r
        <4>4. Append(k, r) \in Seq(Runs) /\ IsInjective(Append(k, r))
              /\ ToSet(Append(k, r)) = ToSet(k) \union {r}
          BY <3>1, <4>3, AppendNew
        <4>5. at[i] = Append(k, r)
          BY <3>2, <3>6 DEF Step
        <4>6. ToSet(k) \union {r} = {pend[j] : j \in 1 .. i} \ ToSet(runs)
          BY <3>1, <3>3, <4>1
        <4>7. at[i] \in S /\ IsInjective(at[i]) /\ ToSet(at[i]) = {pend[j] : j \in 1 .. i} \ ToSet(runs)
          BY <4>4, <4>5, <4>6 DEF S
        <4>. QED
          BY <3>4, <4>7, <2>1
      <3>. QED
        BY <3>5, <3>6
    <2>. QED
      BY <1>1, <2>3, <2>4, FoldIn
  <1>12. n \in 0 .. n /\ {pend[j] : j \in 1 .. n} = ToSet(pend)
    BY <1>1 DEF n, ToSet
  <1>. QED
    BY <1>3, <1>11, <1>12 DEF S

\* A cache in order.
GoodCache(c) == c \in CacheType /\ IsInjective(c.queue) /\ Len(c.queue) <= MaxPending

LEMMA FromGood ==
  ASSUME NEW c, NEW R, NEW d \in From(c, R)
  PROVE  GoodCache(d)
  BY FromType DEF GoodCache

LEMMA GoodFrom ==
  ASSUME NEW c, GoodCache(c), NEW R
  PROVE  c \in From(c, R)
  BY DEF GoodCache, From

LEMMA SeqOfOwn ==
  ASSUME NEW runs \in Seq(Runs)
  PROVE  ToSet(runs) \in SUBSET Runs /\ runs \in Seq(ToSet(runs))
  <1>1. DOMAIN runs = 1 .. Len(runs) /\ Len(runs) \in Nat /\ \A i \in 1 .. Len(runs) : runs[i] \in Runs
    OBVIOUS
  <1>2. runs \in [1 .. Len(runs) -> ToSet(runs)]
    BY <1>1 DEF ToSet
  <1>3. ToSet(runs) \in SUBSET Runs
    BY <1>1 DEF ToSet
  <1>. QED
    BY <1>1, <1>2, <1>3

LEMMA QueueTriggersFrom ==
  ASSUME NEW c, GoodCache(c), NEW runs \in Seq(Runs)
  PROVE  QueueTriggers(c, runs) \in From(c, ToSet(runs))
  <1>1. c \in From(c, ToSet(runs))
    BY GoodFrom
  <1>. QED
    BY <1>1, SeqOfOwn, QueueAllFrom, Zenon

LEMMA RequeueTriggersFrom ==
  ASSUME NEW c, GoodCache(c), NEW runs \in Seq(Runs)
  PROVE  RequeueTriggers(c, runs) \in From(c, ToSet(runs))
  <1>1. c \in From(c, ToSet(runs))
    BY GoodFrom
  <1>2. Fold(Requeue, c, runs) \in From(c, ToSet(runs))
    BY <1>1, SeqOfOwn, RequeueAllFrom, Zenon
  <1>. QED
    BY <1>2 DEF RequeueTriggers

LEMMA ApplyAllFrom ==
  ASSUME NEW c, GoodCache(c), NEW events \in SUBSET Runs, NEW order \in SetToSeqs(events)
  PROVE  Fold(Admit, c, order) \in From(c, events)
  <1>1. c \in From(c, events)
    BY GoodFrom
  <1>2. Cardinality(events) \in Nat
    BY FS_Subset, FS_CardinalityType, ConstantsAssumption
  <1>3. order \in Seq(events)
    BY <1>2 DEF SetToSeqs
  <1>. QED
    BY <1>1, <1>3, AdmitAllFrom, Zenon

LEMMA AdmitOneFrom ==
  ASSUME NEW c, GoodCache(c), NEW r \in Runs
  PROVE  Admit(c, r) \in From(c, {r})
  <1>1. c \in From(c, {r}) /\ {r} \in SUBSET Runs /\ r \in {r}
    BY GoodFrom
  <1>. QED
    BY <1>1, AdmitFrom, Zenon

\* drainPendingTriggersLimited: what is taken and what is left.
LEMMA TakeSplits ==
  ASSUME NEW q \in Seq(Runs), IsInjective(q), NEW k \in 1 .. Len(q)
  PROVE  /\ SubSeq(q, 1, k) \in Seq(Runs) /\ SubSeq(q, 1, k) # <<>>
         /\ SubSeq(q, k + 1, Len(q)) \in Seq(Runs) /\ IsInjective(SubSeq(q, k + 1, Len(q)))
         /\ Len(SubSeq(q, k + 1, Len(q))) <= Len(q)
         /\ ToSet(SubSeq(q, 1, k)) \subseteq ToSet(q)
         /\ ToSet(SubSeq(q, k + 1, Len(q))) \subseteq ToSet(q)
         /\ ToSet(SubSeq(q, 1, k)) \intersect ToSet(SubSeq(q, k + 1, Len(q))) = {}
  <1>. DEFINE a == SubSeq(q, 1, k)
              b == SubSeq(q, k + 1, Len(q))
  <1>0. Len(q) \in Nat /\ DOMAIN q = 1 .. Len(q) /\ k \in Nat /\ 1 <= k /\ k <= Len(q)
    OBVIOUS
  <1>1. a \in Seq(Runs) /\ Len(a) = k /\ \A i \in 1 .. k : a[i] = q[i]
    BY <1>0
  <1>2. b \in Seq(Runs) /\ Len(b) = Len(q) - k /\ \A i \in 1 .. Len(q) - k : b[i] = q[k + i]
    <2>1. \A i \in k + 1 .. Len(q) : q[i] \in Runs
      BY <1>0
    <2>2. /\ b \in Seq(Runs)
          /\ Len(b) = IF k + 1 <= Len(q) THEN Len(q) - (k + 1) + 1 ELSE 0
          /\ \A i \in 1 .. Len(q) - (k + 1) + 1 : b[i] = q[(k + 1) + i - 1]
      BY <1>0, <2>1, SubSeqProperties
    <2>. HIDE DEF b
    <2>3. Len(b) = Len(q) - k /\ Len(q) - (k + 1) + 1 = Len(q) - k
      <3>1. Len(q) - (k + 1) + 1 = Len(q) - k
        BY <1>0
      <3>2. CASE k + 1 <= Len(q)
        <4>1. Len(b) = Len(q) - (k + 1) + 1
          BY <2>2, <3>2
        <4>. QED
          BY <3>1, <4>1
      <3>3. CASE ~ (k + 1 <= Len(q))
        <4>1. Len(b) = 0
          BY <2>2, <3>3
        <4>2. \A x, y \in Nat : y <= x /\ ~ (y + 1 <= x) => x - y = 0
          OBVIOUS
        <4>3. Len(q) - k = 0
          BY <1>0, <3>3, <4>2
        <4>. QED
          BY <3>1, <4>1, <4>3
      <3>. QED
        BY <3>2, <3>3
    <2>4. ASSUME NEW i \in 1 .. Len(q) - k PROVE b[i] = q[k + i]
      <3>1. (k + 1) + i - 1 = k + i
        BY <1>0
      <3>. QED
        BY <2>2, <2>3, <3>1
    <2>. QED
      BY <2>2, <2>3, <2>4
  <1>3. DOMAIN a = 1 .. k /\ DOMAIN b = 1 .. Len(q) - k
    BY <1>1, <1>2
  <1>4. a # <<>>
    BY <1>0, <1>1
  <1>. HIDE DEF a, b
  <1>5. IsInjective(b)
    <2>. SUFFICES ASSUME NEW i \in DOMAIN b, NEW j \in DOMAIN b, b[i] = b[j] PROVE i = j
      BY DEF IsInjective
    <2>1. k + i \in DOMAIN q /\ k + j \in DOMAIN q /\ q[k + i] = q[k + j]
      BY <1>0, <1>2, <1>3
    <2>2. k + i = k + j
      BY <2>1 DEF IsInjective
    <2>. QED
      BY <1>0, <1>3, <2>2
  <1>6. ToSet(a) \subseteq ToSet(q)
    BY <1>0, <1>1, <1>3 DEF ToSet
  <1>7. ToSet(b) \subseteq ToSet(q)
    <2>. SUFFICES ASSUME NEW x \in ToSet(b) PROVE x \in ToSet(q)
      OBVIOUS
    <2>1. PICK i \in 1 .. Len(q) - k : x = b[i]
      BY <1>3 DEF ToSet
    <2>2. k + i \in 1 .. Len(q) /\ x = q[k + i]
      BY <1>0, <1>2, <2>1
    <2>. QED
      BY <1>0, <2>2 DEF ToSet
  <1>8. ToSet(a) \intersect ToSet(b) = {}
    <2>. SUFFICES ASSUME NEW x \in ToSet(a), x \in ToSet(b) PROVE FALSE
      OBVIOUS
    <2>1. PICK i \in 1 .. k : x = q[i]
      BY <1>1, <1>3 DEF ToSet
    <2>2. PICK j \in 1 .. Len(q) - k : x = q[k + j]
      BY <1>2, <1>3 DEF ToSet
    <2>3. i \in DOMAIN q /\ k + j \in DOMAIN q /\ i # k + j
      BY <1>0
    <2>. QED
      BY <2>1, <2>2, <2>3 DEF IsInjective
  <1>9. Len(b) <= Len(q)
    BY <1>0, <1>2
  <1>. QED
    BY <1>1, <1>2, <1>4, <1>5, <1>6, <1>7, <1>8, <1>9 DEF a, b

\* The largest of finitely many positions.
LEMMA MaxIsIn ==
  ASSUME NEW n \in Nat, NEW S \in SUBSET (1 .. n), S # {}
  PROVE  Max(S) \in S
  <1>. DEFINE D == {k \in 0 .. n : n - k \in S}
  <1>1. D \in SUBSET Nat /\ D # {}
    <2>1. PICK x \in S : TRUE
      OBVIOUS
    <2>2. x \in 1 .. n /\ n - x \in 0 .. n /\ n - (n - x) = x
      OBVIOUS
    <2>3. n - x \in D
      BY <2>2
    <2>4. D \in SUBSET Nat
      OBVIOUS
    <2>. QED
      BY <2>3, <2>4
  <1>. HIDE DEF D
  <1>2. PICK m \in D : \A k \in D : m <= k
    BY <1>1, Smallest
  <1>3. m \in 0 .. n /\ n - m \in S
    BY DEF D
  <1>4. ASSUME NEW y \in S PROVE n - m >= y
    <2>1. y \in 1 .. n /\ n - y \in 0 .. n /\ n - (n - y) = y
      OBVIOUS
    <2>2. n - y \in D
      BY <2>1 DEF D
    <2>3. m <= n - y
      BY <1>2, <2>2
    <2>. QED
      BY <1>3, <2>1, <2>3
  <1>. QED
    BY <1>3, <1>4 DEF Max

\* CompleteTriggers on the tables.
LEMMA RetireRowsIs ==
  ASSUME NEW d \in DBType, IsInjective(d.pend), NEW runs \in Seq(Runs)
  PROVE  LET e == RetireRows(d, runs) IN
           /\ e \in DBType /\ IsInjective(e.pend)
           /\ e.hash = d.hash /\ e.done = d.done \union ToSet(runs)
           /\ ToSet(e.pend) = ToSet(d.pend) \ ToSet(runs)
           /\ \A p \in Probes : e.last[p] = d.last[p] \/ e.last[p] \in ToSet(runs)
  <1>. DEFINE l == [p \in Probes |-> IF p \in DBProbes THEN LastOf(runs, p, d.last[p]) ELSE d.last[p]]
              w == Without(d.pend, runs)
              e == [d EXCEPT !.pend = w, !.done = d.done \union ToSet(runs), !.last = l]
  <1>1. /\ d.pend \in Seq(Runs) /\ d.last \in [Probes -> Runs \union {None}]
        /\ d.done \in SUBSET Runs /\ d.hash \in Assignments
    BY DEF DBType
  <1>2. w \in Seq(Runs) /\ IsInjective(w) /\ ToSet(w) = ToSet(d.pend) \ ToSet(runs)
    BY <1>1, WithoutIs
  <1>3. ToSet(runs) \subseteq Runs
    BY SeqOfOwn
  <1>4. ASSUME NEW p \in Probes PROVE l[p] = d.last[p] \/ l[p] \in ToSet(runs)
    <2>. DEFINE mine == {i \in 1 .. Len(runs) : ProbeOf[runs[i]] = p}
    <2>1. CASE mine = {}
      BY <2>1 DEF LastOf
    <2>2. CASE mine # {}
      <3>1. Max(mine) \in mine
        <4>1. mine \in SUBSET (1 .. Len(runs)) /\ Len(runs) \in Nat
          OBVIOUS
        <4>. HIDE DEF mine
        <4>. QED
          BY <2>2, <4>1, MaxIsIn
      <3>2. runs[Max(mine)] \in ToSet(runs)
        <4>1. Max(mine) \in 1 .. Len(runs)
          BY <3>1
        <4>2. DOMAIN runs = 1 .. Len(runs)
          OBVIOUS
        <4>. HIDE DEF mine
        <4>. QED
          BY <4>1, <4>2 DEF ToSet
      <3>3. LastOf(runs, p, d.last[p]) = runs[Max(mine)]
        BY <2>2 DEF LastOf
      <3>. QED
        BY <3>2, <3>3
    <2>. QED
      BY <2>1, <2>2
  <1>5. l \in [Probes -> Runs \union {None}]
    <2>1. \A p \in Probes : l[p] \in Runs \union {None}
      BY <1>1, <1>3, <1>4
    <2>2. l = [p \in Probes |-> l[p]]
      OBVIOUS
    <2>. HIDE DEF l
    <2>. QED
      BY <2>1, <2>2
  <1>6. RetireRows(d, runs) = e
    BY DEF RetireRows
  <1>. HIDE DEF l, w
  <1>7. /\ e \in DBType /\ e.pend = w /\ e.hash = d.hash /\ e.last = l
        /\ e.done = d.done \union ToSet(runs)
    BY <1>1, <1>2, <1>3, <1>5 DEF DBType
  <1>. HIDE DEF e
  <1>. QED
    BY <1>2, <1>4, <1>6, <1>7

-----------------------------------------------------------------------------
(* The type invariant, in parts                                            *)

ServerOK ==
  /\ node \in Nodes /\ trig \in [Runs -> {"new", "open", "reported"}] /\ want \in SUBSET Probes
TablesOK == db \in DBType /\ IsInjective(db.pend)
CacheOK == GoodCache(cache)
GateOK == restored \in BOOLEAN /\ ready \in BOOLEAN /\ status \in {"active", "paused"}
HBOK ==
  /\ hb \in HBType
  /\ hb.pc = "apply" => hb.cur # None
  /\ hb.pc \in {"replace", "replace_keeping_hash"} => hb.probes # None
SchOK == sch \in SchType /\ (sch.pc # "idle" => sch.runs # <<>>)
ResultsOK ==
  /\ outbox \in SUBSET Runs /\ ran \in [Runs -> 0 .. MaxRan]
  /\ skipped \in SUBSET Runs /\ retired \in SUBSET Runs /\ evicted \in SUBSET Runs
FaultsOK == node \in Nodes /\ crashes \in 0 .. node.crashes /\ errors \in 0 .. node.errors

LEMMA TypeParts ==
  TypeOK <=> ServerOK /\ TablesOK /\ CacheOK /\ GateOK /\ HBOK /\ SchOK /\ ResultsOK /\ FaultsOK
  BY DEF TypeOK, ServerOK, TablesOK, CacheOK, GateOK, HBOK, SchOK, ResultsOK, FaultsOK, GoodCache

LEMMA EmptyTypes ==
  /\ EmptyDB \in DBType /\ IsInjective(EmptyDB.pend)
  /\ GoodCache(NewCache)
  /\ IdleHB \in HBType /\ IdleSch \in SchType
  <1>1. NoLast \in [Probes -> Runs \union {None}]
    BY DEF NoLast
  <1>2. None \in Assignments /\ {} \in SUBSET Probes /\ <<>> \in Seq(Runs)
    BY DEF Assignments
  <1>3. IsInjective(<<>>) /\ Len(<<>>) <= MaxPending
    BY ConstantsAssumption DEF IsInjective
  <1>4. EmptyDB \in DBType /\ EmptyDB.pend = <<>>
    BY <1>1, <1>2 DEF EmptyDB, DBType
  <1>5. NewCache \in CacheType /\ NewCache.queue = <<>>
    BY <1>1, <1>2 DEF NewCache, CacheType
  <1>6. IdleHB \in HBType
    BY <1>2 DEF IdleHB, HBType
  <1>7. IdleSch \in SchType
    BY <1>2 DEF IdleSch, SchType
  <1>. QED
    BY <1>3, <1>4, <1>5, <1>6, <1>7 DEF GoodCache

LEMMA TypeInit == Init => TypeOK
  <1>. SUFFICES ASSUME Init PROVE TypeOK
    OBVIOUS
  <1>1. ServerOK /\ GateOK /\ ResultsOK /\ FaultsOK
    <2>1. node \in Nodes /\ 0 \in 0 .. MaxRan /\ 0 \in 0 .. node.crashes /\ 0 \in 0 .. node.errors
      BY ConstantsAssumption DEF Init
    <2>2. ResultsOK
      BY <2>1 DEF Init, ResultsOK
    <2>3. FaultsOK
      BY <2>1 DEF Init, FaultsOK
    <2>4. ServerOK /\ GateOK
      BY DEF Init, ServerOK, GateOK
    <2>. QED
      BY <2>2, <2>3, <2>4
  <1>2. TablesOK /\ CacheOK
    BY EmptyTypes DEF Init, TablesOK, CacheOK
  <1>3. HBOK /\ SchOK
    <2>1. IdleHB.pc = "idle" /\ IdleSch.pc = "idle"
      BY DEF IdleHB, IdleSch
    <2>. QED
      BY <2>1, EmptyTypes DEF Init, HBOK, SchOK
  <1>. QED
    BY <1>1, <1>2, <1>3, TypeParts

\* A disk error is counted up to its bound.
LEMMA FaultType ==
  ASSUME FaultsOK, Fault \/ NoFault
  PROVE  errors' \in 0 .. node.errors /\ errors' >= errors
  <1>1. CASE Fault
    BY <1>1, ConstantsAssumption DEF Fault, FaultsOK
  <1>2. CASE NoFault
    BY <1>2, ConstantsAssumption DEF NoFault, FaultsOK
  <1>. QED
    BY <1>1, <1>2

\* What the API knows only grows.
LEMMA ReportedType ==
  ASSUME ServerOK, NEW rs, Reported(rs)
  PROVE  /\ trig' \in [Runs -> {"new", "open", "reported"}]
         /\ \A r \in Runs : r \in rs \/ trig[r] = "reported" => trig'[r] = "reported"
  BY DEF ServerOK, Reported

LEMMA BootedIs ==
  ASSUME TablesOK, NEW load \in BOOLEAN
  PROVE  /\ GoodCache(Booted(load)) /\ ToSet(Booted(load).queue) = {}
         /\ Booted(load).hash # None => UseStore /\ Booted(load).hash = db.hash
  <1>1. ToSet(<<>>) = {}
    BY DEF ToSet
  <1>2. CASE UseStore /\ load /\ db.hash # None
    <2>. DEFINE b == [NewCache EXCEPT !.hash = db.hash, !.probes = db.hash, !.last = db.last]
    <2>1. Booted(load) = b
      BY <1>2 DEF Booted
    <2>2. db.hash \in Assignments /\ db.hash \in SUBSET Probes /\ db.last \in [Probes -> Runs \union {None}]
      BY <1>2 DEF TablesOK, DBType, Assignments
    <2>3. b \in CacheType /\ b.queue = <<>> /\ b.hash = db.hash
      <3>1. NewCache \in CacheType
        BY EmptyTypes DEF GoodCache
      <3>2. NewCache.queue = <<>>
        BY DEF NewCache
      <3>. QED
        BY <2>2, <3>1, <3>2 DEF CacheType
    <2>4. IsInjective(<<>>) /\ Len(<<>>) <= MaxPending
      BY ConstantsAssumption DEF IsInjective
    <2>. HIDE DEF b
    <2>. QED
      BY <1>1, <1>2, <2>1, <2>3, <2>4 DEF GoodCache
  <1>3. CASE ~ (UseStore /\ load /\ db.hash # None)
    <2>1. Booted(load) = NewCache
      BY <1>3 DEF Booted
    <2>2. NewCache.hash = None /\ NewCache.queue = <<>>
      BY DEF NewCache
    <2>. QED
      BY <1>1, <2>1, <2>2, EmptyTypes
  <1>. QED
    BY <1>2, <1>3

-----------------------------------------------------------------------------
(* What each step leaves of the types                                      *)

LEMMA ServerSteps ==
  ASSUME TypeOK, (\E r \in Runs : Click(r)) \/ (\E P \in SUBSET Probes : Reassign(P))
  PROVE  TypeOK'
  <1>1. ASSUME NEW r \in Runs, Click(r) PROVE TypeOK'
    BY <1>1 DEF Click, TypeOK, gateVars, ranVars, faultVars, Taken
  <1>2. ASSUME NEW P \in SUBSET Probes, Reassign(P) PROVE TypeOK'
    BY <1>2 DEF Reassign, TypeOK, gateVars, ranVars, faultVars, Taken
  <1>. QED
    BY <1>1, <1>2

\* The fields of the heartbeat loop.
LEMMA HBFields ==
  ASSUME HBOK
  PROVE  /\ hb.pc \in {"idle", "restore", "send", "sync", "replace", "replace_keeping_hash", "events", "apply"}
         /\ hb.events \in SUBSET Runs /\ hb.cur \in Runs \union {None} /\ hb.probes \in Assignments
         /\ hb.status \in {"active", "paused", ""} /\ hb.read \in Seq(Runs)
         /\ hb.pc = "apply" => hb.cur \in Runs
         /\ hb.pc \in {"replace", "replace_keeping_hash"} => hb.probes \in SUBSET Probes
  BY DEF HBOK, HBType, Assignments

LEMMA DBFields ==
  ASSUME TablesOK
  PROVE  /\ db.hash \in Assignments /\ db.last \in [Probes -> Runs \union {None}]
         /\ db.pend \in Seq(Runs) /\ db.done \in SUBSET Runs /\ IsInjective(db.pend)
  BY DEF TablesOK, DBType

LEMMA SchFields ==
  ASSUME SchOK
  PROVE  /\ sch.pc \in {"idle", "check", "report", "post", "deliver", "complete", "mark"}
         /\ sch.runs \in Seq(Runs) /\ sch.got \in SUBSET Runs /\ Taken \in SUBSET Runs
         /\ sch.pc # "idle" => sch.runs # <<>>
  <1>1. /\ sch.pc \in {"idle", "check", "report", "post", "deliver", "complete", "mark"}
        /\ sch.runs \in Seq(Runs) /\ sch.got \in SUBSET Runs
        /\ sch.pc # "idle" => sch.runs # <<>>
    BY DEF SchOK, SchType
  <1>. QED
    BY <1>1, SeqOfOwn DEF Taken

LEMMA CacheFields ==
  ASSUME CacheOK
  PROVE  /\ cache.hash \in Assignments /\ cache.probes \in SUBSET Probes
         /\ cache.last \in [Probes -> Runs \union {None}] /\ cache.queue \in Seq(Runs)
         /\ IsInjective(cache.queue) /\ Len(cache.queue) <= MaxPending
  BY DEF CacheOK, GoodCache, CacheType

\* beat() and its answer.
LEMMA TypePendingTriggers ==
  ASSUME TypeOK, PendingTriggers
  PROVE  TypeOK'
  <1>1. /\ ServerOK /\ TablesOK /\ CacheOK /\ GateOK /\ HBOK /\ SchOK /\ ResultsOK /\ FaultsOK
    BY TypeParts
  <1>2. hb' \in HBType /\ hb'.pc \in {"restore", "send"}
    <2>1. db.pend \in Seq(Runs)
      BY <1>1, DBFields
    <2>. QED
      BY <1>1, <2>1 DEF PendingTriggers, HBOK, HBType
  <1>3. errors' \in 0 .. node.errors
    BY <1>1, FaultType DEF PendingTriggers
  <1>. QED
    BY <1>2, <1>3 DEF PendingTriggers, TypeOK, serverVars, gateVars, ranVars

LEMMA TypeRestorePendingTriggers ==
  ASSUME TypeOK, RestorePendingTriggers
  PROVE  TypeOK' /\ cache' \in From(cache, ToSet(hb.read))
  <1>1. CacheOK /\ HBOK
    BY TypeParts
  <1>2. cache' \in From(cache, ToSet(hb.read))
    BY <1>1, HBFields, QueueTriggersFrom DEF RestorePendingTriggers, CacheOK
  <1>3. GoodCache(cache')
    BY <1>2, FromGood
  <1>4. hb' \in HBType /\ hb'.pc = "send"
    <2>1. <<>> \in Seq(Runs)
      OBVIOUS
    <2>. QED
      BY <1>1, <2>1 DEF RestorePendingTriggers, HBOK, HBType
  <1>. QED
    BY <1>2, <1>3, <1>4 DEF RestorePendingTriggers, TypeOK, GoodCache, serverVars, gateVars, ranVars, faultVars

LEMMA TypeHeartbeatAnswered ==
  ASSUME TypeOK, NEW st \in {"active", "paused", ""}, HeartbeatAnswered(st)
  PROVE  TypeOK' /\ hb'.pc = "sync" /\ hb'.read = <<>>
  <1>1. {r \in Runs : trig[r] = "open"} \in SUBSET Runs
    OBVIOUS
  <1>2. (IF want # cache.hash THEN want ELSE None) \in Assignments
    BY DEF TypeOK, Assignments
  <1>3. hb' \in HBType /\ hb'.pc = "sync" /\ hb'.read = <<>>
    <2>1. IdleHB \in HBType /\ IdleHB.read = <<>>
      BY EmptyTypes DEF IdleHB
    <2>. QED
      BY <1>1, <1>2, <2>1 DEF HeartbeatAnswered, HBType
  <1>. QED
    BY <1>3 DEF HeartbeatAnswered, TypeOK, serverVars, gateVars, ranVars, faultVars

LEMMA TypeHeartbeatFails ==
  ASSUME TypeOK, HeartbeatFails
  PROVE  TypeOK'
  <1>1. hb' \in HBType /\ hb'.pc = "idle"
    BY EmptyTypes DEF HeartbeatFails, IdleHB
  <1>. QED
    BY <1>1 DEF HeartbeatFails, TypeOK, serverVars, gateVars, ranVars, faultVars

LEMMA TypeBeatDone ==
  ASSUME TypeOK, BeatDone
  PROVE  TypeOK'
  <1>1. hb' \in HBType /\ hb'.pc = "idle"
    BY EmptyTypes DEF BeatDone, IdleHB
  <1>2. ready' \in BOOLEAN
    BY DEF BeatDone, TypeOK
  <1>. QED
    BY <1>1, <1>2 DEF BeatDone, TypeOK, serverVars, ranVars, faultVars

\* The assignment, saved and taken over.
LEMMA TypeSaveAssignment ==
  ASSUME TypeOK, SaveAssignment
  PROVE  TypeOK' /\ db'.pend = db.pend /\ db'.done = db.done
         /\ \A p \in Probes : db'.last[p] \in {db.last[p], None}
  <1>1. TablesOK /\ HBOK /\ FaultsOK /\ GateOK
    BY TypeParts
  <1>2. status' \in {"active", "paused"}
    BY <1>1, HBFields DEF SaveAssignment, GateOK
  <1>3. errors' \in 0 .. node.errors
    BY <1>1, FaultType DEF SaveAssignment
  <1>4. hb' \in HBType /\ hb'.pc # "apply"
        /\ (hb'.pc \in {"replace", "replace_keeping_hash"} => hb'.probes # None)
    BY <1>1 DEF SaveAssignment, HBOK, HBType
  <1>5. /\ db' \in DBType /\ db'.pend = db.pend /\ db'.done = db.done
        /\ \A p \in Probes : db'.last[p] \in {db.last[p], None}
    <2>1. CASE db' = db
      BY <1>1, <2>1 DEF TablesOK
    <2>2. CASE db' # db
      <3>. DEFINE l == [p \in Probes |-> IF p \in hb.probes THEN db.last[p] ELSE None]
      <3>1. db' = [db EXCEPT !.hash = hb.probes, !.last = l]
        BY <2>2 DEF SaveAssignment
      <3>2. l \in [Probes -> Runs \union {None}] /\ \A p \in Probes : l[p] \in {db.last[p], None}
        BY <1>1, DBFields
      <3>3. hb.probes \in Assignments
        BY <1>1, HBFields
      <3>. HIDE DEF l
      <3>. QED
        BY <1>1, <3>1, <3>2, <3>3 DEF TablesOK, DBType
    <2>. QED
      BY <2>1, <2>2
  <1>. QED
    BY <1>2, <1>3, <1>4, <1>5 DEF SaveAssignment, TypeOK, serverVars, ranVars

LEMMA TypeSyncAssignment ==
  ASSUME TypeOK, SyncAssignment
  PROVE  TypeOK' /\ cache'.queue = cache.queue /\ hb'.pc = "events"
         /\ cache'.hash = IF hb.pc = "replace" THEN hb.probes ELSE cache.hash
  <1>1. CacheOK /\ HBOK
    BY TypeParts
  <1>2. hb.probes \in SUBSET Probes /\ hb.probes \in Assignments
    BY <1>1, HBFields DEF SyncAssignment, Assignments
  <1>. DEFINE l == [p \in Probes |-> IF p \in hb.probes THEN cache.last[p] ELSE None]
              c == [cache EXCEPT !.probes = hb.probes, !.last = l]
  <1>3. l \in [Probes -> Runs \union {None}]
    BY <1>1, CacheFields
  <1>4. cache' = IF hb.pc = "replace" THEN [c EXCEPT !.hash = hb.probes] ELSE c
    BY DEF SyncAssignment, ReplaceAssignment
  <1>. HIDE DEF l
  <1>5. c \in CacheType /\ c.queue = cache.queue /\ c.hash = cache.hash
    BY <1>1, <1>2, <1>3 DEF CacheOK, GoodCache, CacheType
  <1>. HIDE DEF c
  <1>6. /\ cache' \in CacheType /\ cache'.queue = cache.queue
        /\ cache'.hash = IF hb.pc = "replace" THEN hb.probes ELSE cache.hash
    BY <1>2, <1>4, <1>5 DEF CacheType
  <1>7. hb' \in HBType /\ hb'.pc = "events"
    BY <1>1 DEF SyncAssignment, HBOK, HBType
  <1>. QED
    BY <1>6, <1>7 DEF SyncAssignment, TypeOK, serverVars, gateVars, ranVars, faultVars

\* The events of the answer.
LEMMA TypeApplyTriggeredEvents ==
  ASSUME TypeOK, ApplyTriggeredEvents
  PROVE  TypeOK' /\ cache' \in From(cache, Runs)
  <1>1. CacheOK /\ HBOK
    BY TypeParts
  <1>2. PICK order \in SetToSeqs(hb.events) : cache' = Fold(Admit, cache, order)
    BY DEF ApplyTriggeredEvents
  <1>3. cache' \in From(cache, hb.events) /\ hb.events \in SUBSET Runs
    BY <1>1, <1>2, HBFields, ApplyAllFrom DEF CacheOK
  <1>4. GoodCache(cache')
    BY <1>3, FromGood
  <1>5. cache' \in From(cache, Runs)
    BY <1>3 DEF From
  <1>6. hb' \in HBType /\ hb'.pc = "events"
    BY <1>1 DEF ApplyTriggeredEvents, HBOK, HBType
  <1>. QED
    BY <1>4, <1>5, <1>6 DEF ApplyTriggeredEvents, TypeOK, GoodCache, serverVars, gateVars, ranVars, faultVars

LEMMA TypeRecordTrigger ==
  ASSUME TypeOK, NEW r \in Runs, RecordTrigger(r)
  PROVE  TypeOK'
  <1>1. TablesOK /\ HBOK /\ FaultsOK
    BY TypeParts
  <1>2. errors' \in 0 .. node.errors
    BY <1>1, FaultType DEF RecordTrigger
  <1>3. hb' \in HBType /\ (hb'.pc = "apply" => hb'.cur = r) /\ hb'.pc \in {"events", "apply"}
    BY <1>1 DEF RecordTrigger, HBOK, HBType
  <1>4. db' \in DBType /\ IsInjective(db'.pend)
    <2>1. CASE db' = db
      BY <1>1, <2>1 DEF TablesOK
    <2>2. CASE db' # db
      <3>1. ~ Contains(db.pend, r) /\ db' = [db EXCEPT !.pend = Append(db.pend, r)]
        BY <2>2 DEF RecordTrigger, QueueTriggerRow
      <3>2. Append(db.pend, r) \in Seq(Runs) /\ IsInjective(Append(db.pend, r))
        BY <1>1, <3>1, DBFields, AppendNew
      <3>. QED
        BY <1>1, <3>1, <3>2 DEF TablesOK, DBType
    <2>. QED
      BY <2>1, <2>2
  <1>5. r # None
    BY ConstantsAssumption
  <1>. QED
    BY <1>2, <1>3, <1>4, <1>5 DEF RecordTrigger, TypeOK, serverVars, gateVars, ranVars

LEMMA TypeApplyTriggeredEvent ==
  ASSUME TypeOK, ApplyTriggeredEvent
  PROVE  TypeOK' /\ cache' \in From(cache, {hb.cur}) /\ hb.cur \in Runs
  <1>1. CacheOK /\ HBOK
    BY TypeParts
  <1>2. hb.cur \in Runs
    BY <1>1, HBFields DEF ApplyTriggeredEvent
  <1>3. cache' \in From(cache, {hb.cur})
    BY <1>1, <1>2, AdmitOneFrom DEF ApplyTriggeredEvent, CacheOK
  <1>4. GoodCache(cache')
    BY <1>3, FromGood
  <1>5. hb' \in HBType /\ hb'.pc = "events"
    BY <1>1 DEF ApplyTriggeredEvent, HBOK, HBType
  <1>. QED
    BY <1>2, <1>3, <1>4, <1>5 DEF ApplyTriggeredEvent, TypeOK, GoodCache, serverVars, gateVars, ranVars, faultVars

\* A tick's triggers.
LEMMA TypeTakeTriggers ==
  ASSUME TypeOK, TakeTriggers
  PROVE  /\ TypeOK'
         /\ sch'.pc = "check" /\ cache'.hash = cache.hash
         /\ Taken' \subseteq ToSet(cache.queue) /\ ToSet(cache'.queue) \subseteq ToSet(cache.queue)
         /\ Taken' \intersect ToSet(cache'.queue) = {}
  <1>. DEFINE n == IF Slots < Len(cache.queue) THEN Slots ELSE Len(cache.queue)
              a == SubSeq(cache.queue, 1, n)
              b == SubSeq(cache.queue, n + 1, Len(cache.queue))
  <1>1. CacheOK /\ SchOK
    BY TypeParts
  <1>2. cache.queue \in Seq(Runs) /\ IsInjective(cache.queue) /\ Len(cache.queue) <= MaxPending
    BY <1>1, CacheFields
  <1>3. n \in 1 .. Len(cache.queue)
    <2>1. Len(cache.queue) \in Nat /\ Len(cache.queue) # 0
      BY <1>2 DEF TakeTriggers
    <2>. QED
      BY <2>1, ConstantsAssumption
  <1>4. sch' = [IdleSch EXCEPT !.pc = "check", !.runs = a] /\ cache' = [cache EXCEPT !.queue = b]
    BY DEF TakeTriggers
  <1>. HIDE DEF n
  <1>5. /\ a \in Seq(Runs) /\ a # <<>> /\ b \in Seq(Runs) /\ IsInjective(b)
        /\ Len(b) <= Len(cache.queue)
        /\ ToSet(a) \subseteq ToSet(cache.queue) /\ ToSet(b) \subseteq ToSet(cache.queue)
        /\ ToSet(a) \intersect ToSet(b) = {}
    BY <1>2, <1>3, TakeSplits
  <1>. HIDE DEF a, b
  <1>6. Len(b) <= MaxPending
    BY <1>2, <1>5, ConstantsAssumption
  <1>7. cache' \in CacheType /\ cache'.queue = b /\ cache'.hash = cache.hash
    BY <1>1, <1>4, <1>5 DEF CacheOK, GoodCache, CacheType
  <1>8. sch' \in SchType /\ sch'.pc = "check" /\ sch'.runs = a
    BY <1>4, <1>5, EmptyTypes DEF SchType
  <1>9. Taken' = ToSet(a)
    BY <1>8 DEF Taken
  <1>10. TypeOK'
    BY <1>5, <1>6, <1>7, <1>8 DEF TakeTriggers, TypeOK, serverVars, gateVars, ranVars, faultVars
  <1>. QED
    BY <1>5, <1>7, <1>8, <1>9, <1>10

LEMMA TypeExecuteTriggers ==
  ASSUME TypeOK, NEW got \in SUBSET Runs, NEW scheduled \in BOOLEAN, ExecuteTriggers(got, scheduled)
  PROVE  /\ TypeOK' /\ sch'.runs = sch.runs /\ sch'.got = got
         /\ sch'.pc \in {"report", "complete"} /\ (sch'.pc = "complete" => got = {})
  <1>1. SchOK /\ ResultsOK
    BY TypeParts
  <1>2. /\ sch' \in SchType /\ sch'.runs = sch.runs /\ sch'.got = got
        /\ sch'.pc \in {"report", "complete"} /\ (sch'.pc = "complete" => got = {})
    BY <1>1 DEF ExecuteTriggers, SchOK, SchType
  <1>3. ran' \in [Runs -> 0 .. MaxRan]
    <2>1. ASSUME NEW r \in Runs
          PROVE  (IF r \in got /\ ran[r] < MaxRan THEN ran[r] + 1 ELSE ran[r]) \in 0 .. MaxRan
      <3>1. ran[r] \in 0 .. MaxRan
        BY <1>1 DEF ResultsOK
      <3>. QED
        BY <3>1, ConstantsAssumption
    <2>. QED
      BY <2>1 DEF ExecuteTriggers
  <1>4. skipped' \subseteq Runs
    BY <1>1, SchFields DEF ExecuteTriggers, ResultsOK
  <1>5. sch.runs # <<>>
    BY <1>1, SchFields DEF ExecuteTriggers
  <1>. QED
    BY <1>2, <1>3, <1>4, <1>5 DEF ExecuteTriggers, TypeOK, serverVars, gateVars, faultVars

\* The pc of the scheduler moves on; its batch stays.
LEMMA SchMoves ==
  ASSUME SchOK, NEW p \in {"idle", "check", "report", "post", "deliver", "complete", "mark"},
         sch.pc # "idle", sch' = [sch EXCEPT !.pc = p]
  PROVE  sch' \in SchType /\ sch'.pc = p /\ sch'.runs = sch.runs /\ sch'.got = sch.got
         /\ sch'.runs # <<>> /\ Taken' = Taken
  BY DEF SchOK, SchType, Taken

LEMMA EnqueueType ==
  ASSUME ResultsOK, NEW batch \in SUBSET Runs, Enqueue(batch)
  PROVE  /\ outbox' \in SUBSET Runs /\ evicted' \in SUBSET Runs
         /\ outbox \union batch \subseteq outbox' \union evicted'
         /\ outbox' \subseteq outbox \union batch /\ evicted \subseteq evicted'
  <1>1. PICK gone \in Prunable(batch) :
          outbox' = (outbox \union batch) \ gone /\ evicted' = evicted \union gone
    BY DEF Enqueue
  <1>2. gone \subseteq outbox \union batch
    BY <1>1 DEF Prunable
  <1>. QED
    BY <1>1, <1>2 DEF ResultsOK

LEMMA TypeReportResults ==
  ASSUME TypeOK, ReportResults
  PROVE  /\ TypeOK' /\ Taken' = Taken /\ sch'.got = sch.got
         /\ \/ /\ node.mode # "none" /\ sch'.pc = "deliver" /\ errors' = errors
               /\ outbox \union sch.got \subseteq outbox' \union evicted' /\ evicted \subseteq evicted'
            \/ /\ sch'.pc = "post" /\ outbox' = outbox /\ evicted' = evicted
               /\ (node.mode # "none" => errors' = errors + 1)
  <1>1. SchOK /\ ResultsOK /\ FaultsOK
    BY TypeParts
  <1>2. errors' \in 0 .. node.errors
    BY <1>1, FaultType DEF ReportResults
  <1>3. sch.got \in SUBSET Runs
    BY <1>1, SchFields
  <1>4. CASE node.mode # "none" /\ NoFault /\ Enqueue(sch.got) /\ sch' = [sch EXCEPT !.pc = "deliver"]
    <2>1. /\ sch' \in SchType /\ sch'.pc = "deliver" /\ sch'.runs = sch.runs /\ sch'.got = sch.got
          /\ sch'.runs # <<>> /\ Taken' = Taken
      BY <1>1, <1>4, SchMoves DEF ReportResults
    <2>2. /\ outbox' \in SUBSET Runs /\ evicted' \in SUBSET Runs
          /\ outbox \union sch.got \subseteq outbox' \union evicted' /\ evicted \subseteq evicted'
      BY <1>1, <1>3, <1>4, EnqueueType
    <2>3. TypeOK'
      BY <1>2, <2>1, <2>2 DEF ReportResults, TypeOK, serverVars, gateVars
    <2>. QED
      BY <1>4, <2>1, <2>2, <2>3 DEF NoFault
  <1>5. CASE /\ IF node.mode = "none" THEN NoFault ELSE Fault
             /\ sch' = [sch EXCEPT !.pc = "post"]
             /\ UNCHANGED <<outbox, evicted>>
    <2>1. /\ sch' \in SchType /\ sch'.pc = "post" /\ sch'.runs = sch.runs /\ sch'.got = sch.got
          /\ sch'.runs # <<>> /\ Taken' = Taken
      BY <1>1, <1>5, SchMoves DEF ReportResults
    <2>2. TypeOK'
      BY <1>2, <1>5, <2>1 DEF ReportResults, TypeOK, serverVars, gateVars
    <2>. QED
      BY <1>5, <2>1, <2>2 DEF Fault
  <1>. QED
    BY <1>4, <1>5 DEF ReportResults

LEMMA TypePostResults ==
  ASSUME TypeOK, PostResults
  PROVE  /\ TypeOK' /\ Taken' = Taken /\ sch'.pc = "complete" /\ sch'.got = sch.got
         /\ \A r \in Runs : r \in sch.got \/ trig[r] = "reported" => trig'[r] = "reported"
  <1>1. SchOK /\ ServerOK
    BY TypeParts
  <1>2. /\ sch' \in SchType /\ sch'.pc = "complete" /\ sch'.runs = sch.runs /\ sch'.got = sch.got
        /\ sch'.runs # <<>> /\ Taken' = Taken
    BY <1>1, SchMoves DEF PostResults
  <1>3. /\ trig' \in [Runs -> {"new", "open", "reported"}]
        /\ \A r \in Runs : r \in sch.got \/ trig[r] = "reported" => trig'[r] = "reported"
    BY <1>1, ReportedType DEF PostResults
  <1>4. TypeOK'
    BY <1>2, <1>3 DEF PostResults, TypeOK, gateVars, ranVars, faultVars
  <1>. QED
    BY <1>2, <1>3, <1>4

LEMMA TypePostResultsFails ==
  ASSUME TypeOK, PostResultsFails
  PROVE  /\ TypeOK' /\ cache' \in From(cache, Taken) /\ sch' = IdleSch
         /\ \A r \in Runs : trig[r] = "reported" => trig'[r] = "reported"
  <1>1. SchOK /\ ServerOK /\ CacheOK
    BY TypeParts
  <1>2. cache' \in From(cache, Taken)
    BY <1>1, SchFields, RequeueTriggersFrom DEF PostResultsFails, CacheOK, Taken
  <1>3. GoodCache(cache')
    BY <1>2, FromGood
  <1>4. sch' \in SchType /\ sch'.pc = "idle" /\ sch' = IdleSch
    BY EmptyTypes DEF PostResultsFails, IdleSch
  <1>5. /\ trig' \in [Runs -> {"new", "open", "reported"}]
        /\ \A r \in Runs : trig[r] = "reported" => trig'[r] = "reported"
    <2>1. CASE Reported(sch.got)
      BY <1>1, <2>1, ReportedType
    <2>2. CASE UNCHANGED trig
      BY <1>1, <2>2 DEF ServerOK
    <2>. QED
      BY <2>1, <2>2 DEF PostResultsFails
  <1>6. TypeOK'
    BY <1>3, <1>4, <1>5 DEF PostResultsFails, TypeOK, GoodCache, gateVars, ranVars, faultVars
  <1>. QED
    BY <1>2, <1>4, <1>5, <1>6

\* drainDelivery: results leave the disk only when the API has them.
LEMMA TypeDrain ==
  ASSUME TypeOK, DrainDelivery \/ DrainDeliveryFails
  PROVE  /\ TypeOK' /\ Taken' = Taken /\ sch'.got = sch.got
         /\ sch'.pc = IF sch.pc = "deliver" THEN "complete" ELSE sch.pc
         /\ sch.pc \in {"idle", "deliver"} /\ outbox' \subseteq outbox
         /\ \A r \in Runs : trig[r] = "reported" => trig'[r] = "reported"
         /\ \A r \in outbox : r \in outbox' \/ trig'[r] = "reported"
  <1>1. SchOK /\ ServerOK /\ ResultsOK
    BY TypeParts
  <1>2. PICK seen \in SUBSET outbox, settled \in SUBSET outbox :
          settled \subseteq seen /\ Reported(seen) /\ outbox' = outbox \ settled
    <2>1. CASE DrainDelivery
      <3>1. outbox \in SUBSET outbox /\ Reported(outbox) /\ outbox' = outbox \ outbox
        BY <2>1 DEF DrainDelivery
      <3>. QED
        BY <3>1
    <2>2. CASE DrainDeliveryFails
      BY <2>2 DEF DrainDeliveryFails
    <2>. QED
      BY <2>1, <2>2
  <1>3. /\ trig' \in [Runs -> {"new", "open", "reported"}]
        /\ \A r \in Runs : r \in seen \/ trig[r] = "reported" => trig'[r] = "reported"
    BY <1>1, <1>2, ReportedType
  <1>4. MayDeliver /\ AfterDelivery
    BY DEF DrainDelivery, DrainDeliveryFails
  <1>5. /\ sch' \in SchType /\ (sch'.pc # "idle" => sch'.runs # <<>>) /\ Taken' = Taken
        /\ sch'.pc = IF sch.pc = "deliver" THEN "complete" ELSE sch.pc
        /\ sch'.got = sch.got
    <2>1. CASE sch.pc = "deliver"
      BY <1>1, <1>4, <2>1, SchMoves DEF AfterDelivery
    <2>2. CASE sch.pc # "deliver"
      BY <1>1, <1>4, <2>2 DEF AfterDelivery, SchOK, Taken
    <2>. QED
      BY <2>1, <2>2
  <1>6. outbox' \subseteq outbox /\ \A r \in outbox : r \in outbox' \/ trig'[r] = "reported"
    BY <1>1, <1>2, <1>3 DEF ResultsOK
  <1>7. TypeOK'
    BY <1>3, <1>5, <1>6 DEF DrainDelivery, DrainDeliveryFails, TypeOK, gateVars, ranVars, faultVars
  <1>. QED
    BY <1>3, <1>4, <1>5, <1>6, <1>7 DEF MayDeliver

\* finishTriggers: the rows, then the cache.
LEMMA TypeCompleteTriggers ==
  ASSUME TypeOK, CompleteTriggers
  PROVE  /\ TypeOK' /\ Taken' = Taken /\ sch'.pc = "mark"
         /\ db'.hash = db.hash /\ db.done \subseteq db'.done /\ db'.done \subseteq db.done \union Taken
         /\ ToSet(db'.pend) \subseteq ToSet(db.pend) /\ ToSet(db.pend) \subseteq ToSet(db'.pend) \union Taken
         /\ ToSet(db.pend) \subseteq ToSet(db'.pend) \union db'.done
         /\ \A p \in Probes : db'.last[p] = db.last[p] \/ (db'.last[p] \in Taken /\ Taken \subseteq db'.done)
  <1>1. SchOK /\ TablesOK /\ ResultsOK /\ FaultsOK
    BY TypeParts
  <1>2. /\ sch' \in SchType /\ sch'.pc = "mark" /\ sch'.runs = sch.runs
        /\ sch'.runs # <<>> /\ Taken' = Taken
    BY <1>1, SchMoves DEF CompleteTriggers
  <1>3. errors' \in 0 .. node.errors
    BY <1>1, FaultType DEF CompleteTriggers
  <1>4. retired' \subseteq Runs
    BY <1>1, SchFields DEF CompleteTriggers, ResultsOK
  <1>5. /\ db' \in DBType /\ IsInjective(db'.pend)
        /\ db'.hash = db.hash /\ db.done \subseteq db'.done /\ db'.done \subseteq db.done \union Taken
        /\ ToSet(db'.pend) \subseteq ToSet(db.pend) /\ ToSet(db.pend) \subseteq ToSet(db'.pend) \union Taken
        /\ ToSet(db.pend) \subseteq ToSet(db'.pend) \union db'.done
        /\ \A p \in Probes : db'.last[p] = db.last[p] \/ (db'.last[p] \in Taken /\ Taken \subseteq db'.done)
    <2>1. CASE db' = db
      BY <1>1, <2>1 DEF TablesOK
    <2>2. CASE db' # db
      <3>1. db' = RetireRows(db, sch.runs)
        BY <2>2 DEF CompleteTriggers
      <3>2. /\ db' \in DBType /\ IsInjective(db'.pend)
            /\ db'.hash = db.hash /\ db'.done = db.done \union ToSet(sch.runs)
            /\ ToSet(db'.pend) = ToSet(db.pend) \ ToSet(sch.runs)
            /\ \A p \in Probes : db'.last[p] = db.last[p] \/ db'.last[p] \in ToSet(sch.runs)
        BY <1>1, <3>1, SchFields, RetireRowsIs DEF TablesOK
      <3>. QED
        BY <3>2 DEF Taken
    <2>. QED
      BY <2>1, <2>2
  <1>6. TypeOK'
    BY <1>2, <1>3, <1>4, <1>5 DEF CompleteTriggers, TypeOK, serverVars, gateVars
  <1>. QED
    BY <1>2, <1>5, <1>6

LEMMA TypeMarkTriggerComplete ==
  ASSUME TypeOK, MarkTriggerComplete
  PROVE  /\ TypeOK' /\ sch'.pc \in {"idle", "mark"}
         /\ cache'.queue = cache.queue /\ cache'.hash = cache.hash
  <1>1. SchOK /\ CacheOK
    BY TypeParts
  <1>2. sch.runs \in Seq(Runs) /\ sch.runs # <<>> /\ Len(sch.runs) \in Nat
    BY <1>1, SchFields DEF MarkTriggerComplete
  <1>3. Head(sch.runs) \in Runs /\ ProbeOf[Head(sch.runs)] \in Probes
    BY <1>2, ConstantsAssumption
  <1>4. cache' \in CacheType /\ cache'.queue = cache.queue /\ cache'.hash = cache.hash
    BY <1>1, <1>3 DEF MarkTriggerComplete, CacheOK, GoodCache, CacheType
  <1>5. sch' \in SchType /\ (sch'.pc # "idle" => sch'.runs # <<>>) /\ sch'.pc \in {"idle", "mark"}
    <2>1. CASE Len(sch.runs) = 1
      BY <2>1, EmptyTypes DEF MarkTriggerComplete, IdleSch
    <2>2. CASE Len(sch.runs) # 1
      <3>1. Tail(sch.runs) \in Seq(Runs) /\ Tail(sch.runs) # <<>>
        <4>1. Len(sch.runs) # 0
          BY <1>2
        <4>2. Tail(sch.runs) \in Seq(Runs) /\ Len(Tail(sch.runs)) = Len(sch.runs) - 1
          BY <1>2
        <4>3. Len(Tail(sch.runs)) # 0
          BY <1>2, <2>2, <4>1, <4>2
        <4>4. Tail(sch.runs) # <<>>
          <5>. SUFFICES ASSUME Tail(sch.runs) = <<>> PROVE FALSE
            OBVIOUS
          <5>1. Len(<<>>) = 0
            OBVIOUS
          <5>. QED
            BY <4>3, <5>1, Zenon
        <4>. QED
          BY <4>2, <4>4
      <3>. QED
        BY <1>1, <2>2, <3>1 DEF MarkTriggerComplete, SchOK, SchType
    <2>. QED
      BY <2>1, <2>2
  <1>6. TypeOK'
    BY <1>4, <1>5 DEF MarkTriggerComplete, TypeOK, serverVars, gateVars, ranVars, faultVars
  <1>. QED
    BY <1>4, <1>5, <1>6

\* A restart has the queue of the pending rows, or none.
LEMMA TypeCrash ==
  ASSUME TypeOK, NEW load \in BOOLEAN, NEW restore \in BOOLEAN, Crash(load, restore)
  PROVE  /\ TypeOK' /\ sch' = IdleSch /\ hb' = IdleHB
         /\ ToSet(cache'.queue) \subseteq ToSet(db.pend) /\ (~ restore => ToSet(cache'.queue) = {})
         /\ cache'.hash # None => UseStore /\ cache'.hash = db.hash
  <1>1. TablesOK /\ ResultsOK /\ FaultsOK
    BY TypeParts
  <1>2. errors' \in 0 .. node.errors
    BY <1>1, FaultType DEF Crash
  <1>3. crashes' \in 0 .. node.crashes
    BY <1>1, ConstantsAssumption DEF Crash, FaultsOK
  <1>4. /\ GoodCache(Booted(load)) /\ ToSet(Booted(load).queue) = {}
        /\ Booted(load).hash # None => UseStore /\ Booted(load).hash = db.hash
    BY <1>1, BootedIs
  <1>5. /\ GoodCache(cache') /\ ToSet(cache'.queue) \subseteq ToSet(db.pend)
        /\ (~ restore => ToSet(cache'.queue) = {})
        /\ cache'.hash # None => UseStore /\ cache'.hash = db.hash
    <2>1. CASE UseStore /\ restore
      <3>1. cache' \in From(Booted(load), ToSet(db.pend))
        BY <1>1, <1>4, <2>1, DBFields, QueueTriggersFrom DEF Crash
      <3>2. GoodCache(cache')
        BY <3>1, FromGood
      <3>3. cache'.hash = Booted(load).hash /\ ToSet(cache'.queue) \subseteq ToSet(db.pend)
        BY <1>4, <3>1, FromType
      <3>. QED
        BY <1>4, <2>1, <3>2, <3>3
    <2>2. CASE ~ (UseStore /\ restore)
      <3>1. cache' = Booted(load)
        BY <2>2 DEF Crash
      <3>. QED
        BY <1>4, <3>1
    <2>. QED
      BY <2>1, <2>2
  <1>6. /\ sch' = IdleSch /\ hb' = IdleHB /\ sch' \in SchType /\ hb' \in HBType
        /\ sch'.pc = "idle" /\ hb'.pc = "idle"
    BY EmptyTypes DEF Crash, IdleSch, IdleHB
  <1>7. TypeOK'
    BY <1>2, <1>3, <1>5, <1>6 DEF Crash, TypeOK, GoodCache, serverVars, ranVars
  <1>. QED
    BY <1>5, <1>6, <1>7

\* Every step keeps the types.
LEMMA TypeStep == TypeOK /\ [Next]_vars => TypeOK'
  <1>. SUFFICES ASSUME TypeOK, [Next]_vars PROVE TypeOK'
    OBVIOUS
  <1>1. CASE Heartbeat
    BY <1>1, TypePendingTriggers, TypeRestorePendingTriggers, TypeHeartbeatAnswered, TypeHeartbeatFails,
       TypeSaveAssignment, TypeSyncAssignment, TypeApplyTriggeredEvents, TypeRecordTrigger,
       TypeApplyTriggeredEvent, TypeBeatDone DEF Heartbeat
  <1>2. CASE Scheduler
    BY <1>2, TypeTakeTriggers, TypeExecuteTriggers, TypeReportResults, TypePostResults,
       TypePostResultsFails, TypeDrain, TypeCompleteTriggers, TypeMarkTriggerComplete DEF Scheduler
  <1>3. CASE \E load, restore \in BOOLEAN : Crash(load, restore)
    BY <1>3, TypeCrash
  <1>4. CASE UNCHANGED vars
    BY <1>4 DEF TypeOK, vars, serverVars, gateVars, ranVars, faultVars
  <1>. QED
    BY <1>1, <1>2, <1>3, <1>4, ServerSteps DEF Next

-----------------------------------------------------------------------------
(* The advertised assignment                                               *)

\* What SyncAssignment is about to advertise has just been saved.
Saved == UseStore /\ hb.pc = "replace" => db.hash = hb.probes

Advertised == Saved /\ AdvertisedIsPersisted

LEMMA AdvertisedInit == Init => Advertised
  <1>1. NewCache.hash = None /\ IdleHB.pc = "idle"
    BY DEF NewCache, IdleHB
  <1>. QED
    BY <1>1 DEF Init, Advertised, Saved, AdvertisedIsPersisted

LEMMA AdvertisedStep == TypeOK /\ Advertised /\ [Next]_vars => Advertised'
  <1>. SUFFICES ASSUME TypeOK, Advertised, [Next]_vars PROVE Advertised'
    OBVIOUS
  <1>. USE DEF Advertised, Saved, AdvertisedIsPersisted, UseStore
  \* The steps of the others do not touch any of it.
  <1>1. ASSUME UNCHANGED <<node, hb>>, db'.hash = db.hash, cache'.hash = cache.hash PROVE Advertised'
    BY <1>1
  \* The loop moves on from a place other than "replace" to another.
  <1>2. ASSUME UNCHANGED node, db'.hash = db.hash, cache'.hash = cache.hash,
               hb.pc # "replace", hb'.pc # "replace"
        PROVE  Advertised'
    BY <1>2
  <1>3. TablesOK /\ HBOK
    BY TypeParts
  <1>4. ASSUME NEW r \in Runs, Click(r) PROVE Advertised'
    BY <1>4, <1>1 DEF Click
  <1>5. ASSUME NEW P \in SUBSET Probes, Reassign(P) PROVE Advertised'
    BY <1>5, <1>1 DEF Reassign
  <1>6. CASE PendingTriggers
    <2>1. hb'.pc \in {"restore", "send"}
      BY <1>3, <1>6 DEF PendingTriggers, HBOK, HBType
    <2>. QED
      BY <1>2, <1>6, <2>1 DEF PendingTriggers
  <1>7. CASE RestorePendingTriggers
    <2>1. cache'.hash = cache.hash
      BY <1>7, TypeRestorePendingTriggers, FromType
    <2>2. hb'.pc = "send"
      BY <1>3, <1>7 DEF RestorePendingTriggers, HBOK, HBType
    <2>. QED
      BY <1>2, <1>7, <2>1, <2>2 DEF RestorePendingTriggers
  <1>8. ASSUME NEW st \in {"active", "paused", ""}, HeartbeatAnswered(st) PROVE Advertised'
    <2>1. hb'.pc = "sync"
      BY <1>8, TypeHeartbeatAnswered
    <2>. QED
      BY <1>2, <1>8, <2>1 DEF HeartbeatAnswered
  <1>9. CASE HeartbeatFails
    BY <1>2, <1>9 DEF HeartbeatFails, IdleHB
  <1>10. CASE SaveAssignment
    <2>1. CASE hb.probes = None
      <3>1. hb'.pc = "events"
        BY <1>3, <1>10, <2>1 DEF SaveAssignment, HBOK, HBType
      <3>. QED
        BY <1>2, <1>10, <2>1, <3>1 DEF SaveAssignment
    <2>2. CASE hb' = [hb EXCEPT !.pc = "replace_keeping_hash"] /\ UNCHANGED db
      <3>1. hb'.pc = "replace_keeping_hash"
        BY <1>3, <2>2 DEF HBOK, HBType
      <3>. QED
        BY <1>2, <1>10, <2>2, <3>1 DEF SaveAssignment
    <2>3. CASE hb' = [hb EXCEPT !.pc = "replace"]
      <3>1. hb'.pc = "replace" /\ hb'.probes = hb.probes
        BY <1>3, <2>3 DEF HBOK, HBType
      <3>2. ASSUME UseStore PROVE db'.hash = hb.probes
        <4>1. db' = [db EXCEPT !.hash = hb.probes,
                       !.last = [p \in Probes |-> IF p \in hb.probes THEN db.last[p] ELSE None]]
          BY <1>3, <1>10, <3>1, <3>2 DEF SaveAssignment, HBOK, HBType
        <4>. QED
          BY <1>3, <4>1 DEF TablesOK, DBType
      <3>3. node' = node
        BY <1>10 DEF SaveAssignment
      <3>. QED
        BY <3>1, <3>2, <3>3
    <2>. QED
      BY <1>10, <2>1, <2>2, <2>3 DEF SaveAssignment
  <1>11. CASE SyncAssignment
    <2>1. hb'.pc = "events" /\ cache'.hash = IF hb.pc = "replace" THEN hb.probes ELSE cache.hash
      BY <1>11, TypeSyncAssignment
    <2>2. UNCHANGED <<node, db>> /\ hb.pc \in {"replace", "replace_keeping_hash"}
      BY <1>11 DEF SyncAssignment
    <2>. QED
      BY <2>1, <2>2
  <1>12. CASE ApplyTriggeredEvents
    <2>1. cache'.hash = cache.hash
      BY <1>12, TypeApplyTriggeredEvents, FromType
    <2>2. hb'.pc = "events"
      BY <1>3, <1>12 DEF ApplyTriggeredEvents, HBOK, HBType
    <2>. QED
      BY <1>2, <1>12, <2>1, <2>2 DEF ApplyTriggeredEvents
  <1>13. ASSUME NEW r \in Runs, RecordTrigger(r) PROVE Advertised'
    <2>1. hb'.pc \in {"events", "apply"}
      BY <1>3, <1>13 DEF RecordTrigger, HBOK, HBType
    <2>2. db'.hash = db.hash
      BY <1>3, <1>13 DEF RecordTrigger, QueueTriggerRow, TablesOK, DBType
    <2>. QED
      BY <1>2, <1>13, <2>1, <2>2 DEF RecordTrigger
  <1>14. CASE ApplyTriggeredEvent
    <2>1. cache'.hash = cache.hash
      BY <1>14, TypeApplyTriggeredEvent, FromType
    <2>2. hb'.pc = "events"
      BY <1>3, <1>14 DEF ApplyTriggeredEvent, HBOK, HBType
    <2>. QED
      BY <1>2, <1>14, <2>1, <2>2 DEF ApplyTriggeredEvent
  <1>15. CASE BeatDone
    BY <1>2, <1>15 DEF BeatDone, IdleHB
  <1>16. CASE TakeTriggers
    BY <1>1, <1>16, TypeTakeTriggers DEF TakeTriggers
  <1>17. ASSUME NEW got \in SUBSET Runs, NEW scheduled \in BOOLEAN, ExecuteTriggers(got, scheduled)
         PROVE  Advertised'
    BY <1>1, <1>17 DEF ExecuteTriggers
  <1>18. CASE ReportResults \/ PostResults
    BY <1>1, <1>18 DEF ReportResults, PostResults
  <1>19. CASE PostResultsFails
    <2>1. cache'.hash = cache.hash
      BY <1>19, TypePostResultsFails, FromType
    <2>. QED
      BY <1>1, <1>19, <2>1 DEF PostResultsFails
  <1>20. CASE DrainDelivery \/ DrainDeliveryFails
    BY <1>1, <1>20 DEF DrainDelivery, DrainDeliveryFails
  <1>21. CASE CompleteTriggers
    BY <1>1, <1>21, TypeCompleteTriggers DEF CompleteTriggers
  <1>22. CASE MarkTriggerComplete
    BY <1>1, <1>22, TypeMarkTriggerComplete DEF MarkTriggerComplete
  <1>23. ASSUME NEW load \in BOOLEAN, NEW restore \in BOOLEAN, Crash(load, restore) PROVE Advertised'
    <2>1. hb' = IdleHB /\ (cache'.hash # None => cache'.hash = db.hash)
      BY <1>23, TypeCrash
    <2>3. hb'.pc = "idle"
      BY <2>1 DEF IdleHB
    <2>2. UNCHANGED <<node, db>>
      BY <1>23 DEF Crash
    <2>. QED
      BY <2>1, <2>2, <2>3
  <1>24. CASE UNCHANGED vars
    BY <1>1, <1>24 DEF vars
  <1>. QED
    BY <1>4, <1>5, <1>6, <1>7, <1>8, <1>9, <1>10, <1>11, <1>12, <1>13, <1>14, <1>15, <1>16, <1>17,
       <1>18, <1>19, <1>20, <1>21, <1>22, <1>23, <1>24 DEF Next, Heartbeat, Scheduler

-----------------------------------------------------------------------------
(* Retired triggers                                                        *)

\* What may have become of a run's results.
Durable(r) == r \in outbox \union skipped \union evicted \/ trig[r] = "reported"

\* The checks without a result are skipped; recorded results are on disk until
\* drainDelivery has been through; a batch that is complete is durable.
Executed == sch.pc \in {"report", "post", "deliver"} => Taken \ sch.got \subseteq skipped
Recorded == sch.pc = "deliver" => sch.got \subseteq outbox \union evicted
Completing == sch.pc = "complete" => \A r \in Taken : Durable(r)
NoDisk == node.mode = "none" => outbox = {}

Retiring == Executed /\ Recorded /\ Completing /\ NoDisk /\ RetiredOnlyWhenDurable

LEMMA RetiringInit == Init => Retiring
  <1>1. IdleSch.pc = "idle"
    BY DEF IdleSch
  <1>. QED
    BY <1>1 DEF Init, Retiring, Executed, Recorded, Completing, NoDisk, RetiredOnlyWhenDurable

LEMMA RetiringStep == TypeOK /\ Retiring /\ [Next]_vars => Retiring'
  <1>. SUFFICES ASSUME TypeOK, Retiring, [Next]_vars PROVE Retiring'
    OBVIOUS
  <1>1. ServerOK /\ SchOK /\ ResultsOK /\ HBOK
    BY TypeParts
  <1>2. Taken \in SUBSET Runs /\ sch.got \in SUBSET Runs /\ retired \in SUBSET Runs
    BY <1>1, SchFields DEF ResultsOK
  <1>. USE DEF Retiring, Executed, Recorded, Completing, NoDisk, RetiredOnlyWhenDurable, Durable
  \* Nothing but what the API knows changes, and that grows.
  <1>3. ASSUME UNCHANGED <<node, sch, outbox, ranVars>>,
               \A r \in Runs : trig[r] = "reported" => trig'[r] = "reported"
        PROVE  Retiring'
    BY <1>2, <1>3 DEF ranVars, Taken
  <1>4. CASE \E r \in Runs : Click(r)
    <2>1. \A r \in Runs : trig[r] = "reported" => trig'[r] = "reported"
      BY <1>1, <1>4 DEF Click, ServerOK
    <2>. QED
      BY <1>3, <1>4, <2>1 DEF Click
  <1>5. CASE \E P \in SUBSET Probes : Reassign(P)
    BY <1>3, <1>5 DEF Reassign
  <1>6. CASE Heartbeat
    <2>1. UNCHANGED <<node, sch, outbox, ranVars, trig>>
      BY <1>6 DEF Heartbeat, PendingTriggers, RestorePendingTriggers, HeartbeatAnswered, HeartbeatFails,
         SaveAssignment, SyncAssignment, ApplyTriggeredEvents, RecordTrigger, ApplyTriggeredEvent,
         BeatDone, serverVars
    <2>. QED
      BY <1>3, <2>1
  <1>7. CASE TakeTriggers
    <2>1. sch'.pc = "check" /\ UNCHANGED <<node, outbox, skipped, evicted, retired, trig>>
      BY <1>7, TypeTakeTriggers DEF TakeTriggers, ranVars, serverVars
    <2>. QED
      BY <2>1
  <1>8. ASSUME NEW got \in SUBSET Runs, NEW scheduled \in BOOLEAN, ExecuteTriggers(got, scheduled)
        PROVE  Retiring'
    <2>1. /\ sch'.runs = sch.runs /\ sch'.got = got
          /\ sch'.pc \in {"report", "complete"} /\ (sch'.pc = "complete" => got = {})
      BY <1>8, TypeExecuteTriggers
    <2>2. Taken' = Taken
      BY <2>1 DEF Taken
    <2>3. skipped' = skipped \union (Taken \ got) /\ UNCHANGED <<node, outbox, evicted, retired, trig>>
      BY <1>8 DEF ExecuteTriggers, serverVars
    <2>. QED
      BY <2>1, <2>2, <2>3
  <1>9. CASE ReportResults
    <2>1. UNCHANGED <<node, skipped, retired, trig>> /\ sch.pc = "report"
      BY <1>9 DEF ReportResults, serverVars
    <2>2. Taken' = Taken /\ sch'.got = sch.got
      BY <1>9, TypeReportResults
    <2>3. CASE /\ node.mode # "none" /\ sch'.pc = "deliver"
               /\ outbox \union sch.got \subseteq outbox' \union evicted' /\ evicted \subseteq evicted'
      BY <2>1, <2>2, <2>3
    <2>4. CASE sch'.pc = "post" /\ outbox' = outbox /\ evicted' = evicted
      BY <2>1, <2>2, <2>4
    <2>. QED
      BY <1>9, <2>3, <2>4, TypeReportResults
  <1>10. CASE PostResults
    <2>1. UNCHANGED <<node, outbox, skipped, evicted, retired>> /\ sch.pc = "post"
      BY <1>10 DEF PostResults, ranVars
    <2>2. /\ Taken' = Taken /\ sch'.pc = "complete" /\ sch'.got = sch.got
          /\ \A r \in Runs : r \in sch.got \/ trig[r] = "reported" => trig'[r] = "reported"
      BY <1>10, TypePostResults
    <2>. QED
      BY <1>2, <2>1, <2>2
  <1>11. CASE PostResultsFails
    <2>1. UNCHANGED <<node, outbox, skipped, evicted, retired>>
      BY <1>11 DEF PostResultsFails, ranVars
    <2>2. sch' = IdleSch /\ \A r \in Runs : trig[r] = "reported" => trig'[r] = "reported"
      BY <1>11, TypePostResultsFails
    <2>3. sch'.pc = "idle"
      BY <2>2 DEF IdleSch
    <2>. QED
      BY <1>2, <2>1, <2>2, <2>3
  <1>12. CASE DrainDelivery \/ DrainDeliveryFails
    <2>1. UNCHANGED <<node, skipped, evicted, retired>>
      BY <1>12 DEF DrainDelivery, DrainDeliveryFails, ranVars
    <2>2. /\ Taken' = Taken /\ sch'.got = sch.got
          /\ sch'.pc = IF sch.pc = "deliver" THEN "complete" ELSE sch.pc
          /\ sch.pc \in {"idle", "deliver"} /\ outbox' \subseteq outbox
          /\ \A r \in Runs : trig[r] = "reported" => trig'[r] = "reported"
          /\ \A r \in outbox : r \in outbox' \/ trig'[r] = "reported"
      BY <1>12, TypeDrain
    <2>3. \A r \in Runs : Durable(r) => Durable(r)'
      BY <2>1, <2>2
    <2>4. RetiredOnlyWhenDurable' /\ NoDisk'
      BY <1>2, <2>1, <2>2, <2>3
    <2>5. CASE sch.pc = "deliver"
      <3>1. \A r \in Taken : Durable(r)
        BY <2>5
      <3>2. \A r \in Taken' : Durable(r)'
        BY <1>2, <2>2, <2>3, <3>1
      <3>. QED
        BY <2>2, <2>4, <2>5, <3>2
    <2>6. CASE sch.pc = "idle"
      BY <2>2, <2>4, <2>6
    <2>. QED
      BY <2>2, <2>5, <2>6
  <1>13. CASE CompleteTriggers
    <2>1. UNCHANGED <<node, trig, outbox, skipped, evicted>> /\ retired' = retired \union Taken
          /\ sch.pc = "complete"
      BY <1>13 DEF CompleteTriggers, serverVars
    <2>2. sch'.pc = "mark"
      BY <1>13, TypeCompleteTriggers
    <2>. QED
      BY <2>1, <2>2
  <1>14. CASE MarkTriggerComplete
    <2>1. UNCHANGED <<node, trig, outbox, skipped, evicted, retired>>
      BY <1>14 DEF MarkTriggerComplete, serverVars, ranVars
    <2>2. sch'.pc \in {"idle", "mark"}
      BY <1>14, TypeMarkTriggerComplete
    <2>. QED
      BY <2>1, <2>2
  <1>15. ASSUME NEW load \in BOOLEAN, NEW restore \in BOOLEAN, Crash(load, restore) PROVE Retiring'
    <2>1. UNCHANGED <<node, trig, skipped, evicted, retired>>
          /\ outbox' = IF node.mode = "none" THEN {} ELSE outbox
      BY <1>15 DEF Crash, serverVars, ranVars
    <2>2. sch' = IdleSch
      BY <1>15, TypeCrash
    <2>3. sch'.pc = "idle"
      BY <2>2 DEF IdleSch
    <2>. QED
      BY <2>1, <2>3
  <1>16. CASE UNCHANGED vars
    BY <1>3, <1>16 DEF vars, serverVars
  <1>. QED
    BY <1>4, <1>5, <1>6, <1>7, <1>8, <1>9, <1>10, <1>11, <1>12, <1>13, <1>14, <1>15, <1>16
       DEF Next, Scheduler

-----------------------------------------------------------------------------
(* Queued triggers have their rows                                         *)

Busy == {"check", "report", "post", "deliver", "complete"}

\* As long as the disk works: what is queued, in execution or about to be
\* queued has a pending row, and no run is at two of these places, so that
\* retiring the one leaves the rows of the others.
Persisted ==
  UseStore /\ errors = 0 =>
    /\ restored /\ hb.pc # "restore" /\ sch.pc # "post"
    /\ ToSet(cache.queue) \subseteq ToSet(db.pend)
    /\ sch.pc \in Busy => Taken \subseteq ToSet(db.pend) /\ Taken \intersect ToSet(cache.queue) = {}
    /\ hb.pc = "apply" =>
         /\ hb.cur \in ToSet(db.pend) \ ToSet(cache.queue)
         /\ sch.pc \in Busy => hb.cur \notin Taken

LEMMA PersistedInit == Init => Persisted
  <1>1. IdleSch.pc = "idle" /\ IdleHB.pc = "idle" /\ NewCache.queue = <<>>
    BY DEF IdleSch, IdleHB, NewCache
  <1>2. ToSet(<<>>) = {}
    BY DEF ToSet
  <1>. QED
    BY <1>1, <1>2 DEF Init, Persisted, Busy

LEMMA PersistedStep == TypeOK /\ Persisted /\ [Next]_vars => Persisted'
  <1>. SUFFICES ASSUME TypeOK, Persisted, [Next]_vars PROVE Persisted'
    OBVIOUS
  <1>1. ServerOK /\ TablesOK /\ CacheOK /\ SchOK /\ HBOK /\ FaultsOK
    BY TypeParts
  <1>2. ASSUME UNCHANGED vars PROVE Persisted'
    BY <1>2 DEF vars, Persisted, UseStore, Taken, serverVars, gateVars, ranVars, faultVars
  <1>. SUFFICES ASSUME UseStore', errors' = 0, Next PROVE Persisted'
    BY <1>2 DEF Persisted
  <1>3. node' = node /\ errors' >= errors
    <2>1. node' = node
      BY DEF Next, Heartbeat, Scheduler, Click, Reassign, Crash, PendingTriggers, RestorePendingTriggers,
         HeartbeatAnswered, HeartbeatFails, SaveAssignment, SyncAssignment, ApplyTriggeredEvents,
         RecordTrigger, ApplyTriggeredEvent, BeatDone, TakeTriggers, ExecuteTriggers, ReportResults,
         PostResults, PostResultsFails, DrainDelivery, DrainDeliveryFails, CompleteTriggers,
         MarkTriggerComplete
    <2>2. Fault \/ NoFault
      BY DEF Next, Heartbeat, Scheduler, Click, Reassign, Crash, PendingTriggers, RestorePendingTriggers,
         HeartbeatAnswered, HeartbeatFails, SaveAssignment, SyncAssignment, ApplyTriggeredEvents,
         RecordTrigger, ApplyTriggeredEvent, BeatDone, TakeTriggers, ExecuteTriggers, ReportResults,
         PostResults, PostResultsFails, DrainDelivery, DrainDeliveryFails, CompleteTriggers,
         MarkTriggerComplete, NoFault, faultVars
    <2>. QED
      BY <1>1, <2>1, <2>2, FaultType
  <1>4. UseStore /\ errors = 0 /\ NoFault
    <2>1. errors \in Nat
      BY <1>1, ConstantsAssumption DEF FaultsOK
    <2>2. errors = 0
      BY <1>3, <2>1
    <2>. QED
      BY <1>3, <2>2 DEF UseStore, NoFault
  <1>5. ~ Fault
    BY <1>4 DEF Fault, NoFault
  <1>6. /\ restored /\ hb.pc # "restore" /\ sch.pc # "post"
        /\ ToSet(cache.queue) \subseteq ToSet(db.pend)
        /\ sch.pc \in Busy => Taken \subseteq ToSet(db.pend) /\ Taken \intersect ToSet(cache.queue) = {}
        /\ hb.pc = "apply" =>
             /\ hb.cur \in ToSet(db.pend) \ ToSet(cache.queue)
             /\ sch.pc \in Busy => hb.cur \notin Taken
    BY <1>4 DEF Persisted
  \* The scheduler and the queue do not move, the rows stay.
  <1>7. ASSUME UNCHANGED sch, restored', cache'.queue = cache.queue, db'.pend = db.pend,
               hb' = hb \/ hb'.pc \notin {"restore", "apply"}
        PROVE  Persisted'
    BY <1>6, <1>7 DEF Persisted, Taken
  <1>8. ASSUME NEW r \in Runs, Click(r) PROVE Persisted'
    BY <1>6, <1>7, <1>8 DEF Click
  <1>9. ASSUME NEW P \in SUBSET Probes, Reassign(P) PROVE Persisted'
    BY <1>6, <1>7, <1>9 DEF Reassign
  <1>10. CASE PendingTriggers \/ RestorePendingTriggers
    BY <1>6, <1>10 DEF PendingTriggers, RestorePendingTriggers
  <1>11. ASSUME NEW st \in {"active", "paused", ""}, HeartbeatAnswered(st) PROVE Persisted'
    <2>1. hb'.pc = "sync"
      BY <1>11, TypeHeartbeatAnswered
    <2>. QED
      BY <1>6, <1>7, <1>11, <2>1 DEF HeartbeatAnswered
  <1>12. CASE HeartbeatFails \/ BeatDone
    <2>1. hb'.pc = "idle"
      <3>1. hb' = IdleHB
        BY <1>12 DEF HeartbeatFails, BeatDone
      <3>. QED
        BY <3>1 DEF IdleHB
    <2>. QED
      BY <1>6, <1>7, <1>12, <2>1 DEF HeartbeatFails, BeatDone
  <1>13. CASE SaveAssignment
    <2>1. hb'.pc \in {"events", "replace", "replace_keeping_hash"}
      BY <1>1, <1>13 DEF SaveAssignment, HBOK, HBType
    <2>2. db'.pend = db.pend
      BY <1>13, TypeSaveAssignment
    <2>. QED
      BY <1>6, <1>7, <1>13, <2>1, <2>2 DEF SaveAssignment
  <1>14. CASE SyncAssignment
    <2>1. cache'.queue = cache.queue /\ hb'.pc = "events"
      BY <1>14, TypeSyncAssignment
    <2>. QED
      BY <1>6, <1>7, <1>14, <2>1 DEF SyncAssignment
  <1>15. CASE ApplyTriggeredEvents
    BY <1>4, <1>15 DEF ApplyTriggeredEvents
  <1>16. ASSUME NEW r \in Runs, RecordTrigger(r) PROVE Persisted'
    <2>1. CASE AlreadySeen(r) /\ hb' = [hb EXCEPT !.events = @ \ {r}] /\ UNCHANGED db
      <3>1. hb'.pc = "events"
        BY <1>1, <1>16, <2>1 DEF RecordTrigger, HBOK, HBType
      <3>. QED
        BY <1>6, <1>7, <1>16, <2>1, <3>1 DEF RecordTrigger
    <2>2. CASE /\ ~ AlreadySeen(r) /\ db' = QueueTriggerRow(db, r)
               /\ hb' = [hb EXCEPT !.pc = "apply", !.events = @ \ {r}, !.cur = r]
      <3>1. ~ Contains(db.pend, r) /\ db' = [db EXCEPT !.pend = Append(db.pend, r)]
        BY <2>2 DEF AlreadySeen, QueueTriggerRow
      <3>2. db'.pend = Append(db.pend, r)
        BY <1>1, <3>1 DEF TablesOK, DBType
      <3>3. ToSet(db'.pend) = ToSet(db.pend) \union {r} /\ r \notin ToSet(db.pend)
        BY <1>1, <3>1, <3>2, DBFields, AppendNew, ContainsIsIn
      <3>4. hb'.pc = "apply" /\ hb'.cur = r
        BY <1>1, <2>2 DEF HBOK, HBType
      <3>5. UNCHANGED <<cache, sch, restored>>
        BY <1>16 DEF RecordTrigger
      <3>. QED
        BY <1>6, <3>3, <3>4, <3>5 DEF Persisted, Taken
    <2>. QED
      BY <1>5, <1>16, <2>1, <2>2 DEF RecordTrigger
  <1>17. CASE ApplyTriggeredEvent
    <2>1. cache' \in From(cache, {hb.cur})
      BY <1>17, TypeApplyTriggeredEvent
    <2>2. ToSet(cache'.queue) \subseteq ToSet(cache.queue) \union {hb.cur}
      BY <2>1, FromType
    <2>3. hb'.pc = "events"
      BY <1>1, <1>17 DEF ApplyTriggeredEvent, HBOK, HBType
    <2>4. UNCHANGED <<db, sch, restored>> /\ hb.pc = "apply"
      BY <1>17 DEF ApplyTriggeredEvent
    <2>. QED
      BY <1>6, <2>2, <2>3, <2>4 DEF Persisted, Taken
  <1>18. CASE TakeTriggers
    <2>1. UNCHANGED <<db, hb, restored>>
      BY <1>18 DEF TakeTriggers
    <2>2. /\ sch'.pc = "check"
          /\ Taken' \subseteq ToSet(cache.queue) /\ ToSet(cache'.queue) \subseteq ToSet(cache.queue)
          /\ Taken' \intersect ToSet(cache'.queue) = {}
      BY <1>18, TypeTakeTriggers
    <2>. QED
      BY <1>6, <2>1, <2>2 DEF Persisted
  \* The scheduler moves on with its batch.
  <1>19. ASSUME UNCHANGED <<db, hb, restored, cache>>, Taken' = Taken, sch.pc \in Busy, sch'.pc \in Busy \ {"post"}
         PROVE  Persisted'
    BY <1>6, <1>19 DEF Persisted
  <1>20. ASSUME NEW got \in SUBSET Runs, NEW scheduled \in BOOLEAN, ExecuteTriggers(got, scheduled)
         PROVE  Persisted'
    <2>1. sch'.runs = sch.runs /\ sch'.pc \in {"report", "complete"}
      BY <1>20, TypeExecuteTriggers
    <2>2. UNCHANGED <<db, hb, restored, cache>> /\ sch.pc = "check"
      BY <1>20 DEF ExecuteTriggers
    <2>3. Taken' = Taken
      BY <2>1 DEF Taken
    <2>. QED
      BY <1>19, <2>1, <2>2, <2>3 DEF Busy
  <1>21. CASE ReportResults
    <2>1. UNCHANGED <<db, hb, restored, cache>> /\ sch.pc = "report"
      BY <1>21 DEF ReportResults
    <2>2. sch'.pc = "deliver" /\ Taken' = Taken
      <3>1. node.mode # "none"
        BY <1>4 DEF UseStore
      <3>2. ~ (errors' = errors + 1)
        BY <1>4 DEF NoFault
      <3>. QED
        BY <1>21, <3>1, <3>2, TypeReportResults
    <2>. QED
      BY <1>19, <2>1, <2>2 DEF Busy
  <1>22. CASE PostResults \/ PostResultsFails
    BY <1>6, <1>22 DEF PostResults, PostResultsFails
  <1>23. CASE DrainDelivery \/ DrainDeliveryFails
    <2>1. UNCHANGED <<db, hb, restored, cache>>
      BY <1>23 DEF DrainDelivery, DrainDeliveryFails
    <2>2. /\ Taken' = Taken /\ sch.pc \in {"idle", "deliver"}
          /\ sch'.pc = IF sch.pc = "deliver" THEN "complete" ELSE sch.pc
      BY <1>23, TypeDrain
    <2>3. CASE sch.pc = "deliver"
      BY <1>19, <2>1, <2>2, <2>3 DEF Busy
    <2>4. CASE sch.pc = "idle"
      BY <1>6, <2>1, <2>2, <2>4 DEF Persisted, Busy
    <2>. QED
      BY <2>2, <2>3, <2>4
  <1>24. CASE CompleteTriggers
    <2>1. UNCHANGED <<hb, restored, cache>> /\ sch.pc = "complete"
      BY <1>24 DEF CompleteTriggers
    <2>2. sch'.pc = "mark" /\ ToSet(db.pend) \subseteq ToSet(db'.pend) \union Taken
      BY <1>24, TypeCompleteTriggers
    <2>. QED
      BY <1>6, <2>1, <2>2 DEF Persisted, Busy
  <1>25. CASE MarkTriggerComplete
    <2>1. UNCHANGED <<db, hb, restored>>
      BY <1>25 DEF MarkTriggerComplete
    <2>2. sch'.pc \in {"idle", "mark"} /\ cache'.queue = cache.queue
      BY <1>25, TypeMarkTriggerComplete
    <2>. QED
      BY <1>6, <2>1, <2>2 DEF Persisted, Busy
  <1>26. ASSUME NEW load \in BOOLEAN, NEW restore \in BOOLEAN, Crash(load, restore) PROVE Persisted'
    <2>1. UNCHANGED db /\ restored' = restore /\ restore
      BY <1>5, <1>26 DEF Crash
    <2>2. sch' = IdleSch /\ hb' = IdleHB /\ ToSet(cache'.queue) \subseteq ToSet(db.pend)
      BY <1>26, TypeCrash
    <2>3. sch'.pc = "idle" /\ hb'.pc = "idle"
      BY <2>2 DEF IdleSch, IdleHB
    <2>. QED
      BY <2>1, <2>2, <2>3 DEF Persisted, Busy
  <1>. QED
    BY <1>8, <1>9, <1>10, <1>11, <1>12, <1>13, <1>14, <1>15, <1>16, <1>17, <1>18, <1>20,
       <1>21, <1>22, <1>23, <1>24, <1>25, <1>26 DEF Next, Heartbeat, Scheduler

LEMMA PersistedImplies == TypeOK /\ Persisted => QueuedIsPersisted
  <1>. SUFFICES ASSUME TypeOK, Persisted, UseStore, errors = 0, NEW r \in Runs,
                       Queued(cache, r) \/ (r \in Taken /\ sch.pc \in {"check", "report", "deliver"})
                PROVE  Contains(db.pend, r)
    BY DEF QueuedIsPersisted
  <1>1. cache.queue \in Seq(Runs) /\ db.pend \in Seq(Runs)
    BY TypeParts, CacheFields, DBFields
  <1>2. r \in ToSet(cache.queue) \/ (r \in Taken /\ sch.pc \in Busy)
    BY <1>1, ContainsIsIn DEF Queued, Busy
  <1>3. r \in ToSet(db.pend)
    BY <1>2 DEF Persisted
  <1>. QED
    BY <1>1, <1>3, ContainsIsIn

-----------------------------------------------------------------------------
(* One execution per fault                                                 *)

\* Where an execution of r may still come from: the queue, the batch about to
\* be executed or to be requeued, the event in hand, the rows read for a
\* restore, a restore still to be made, or an event not seen before.
InQueue(r) == r \in ToSet(cache.queue)
InBatch(r) == r \in Taken /\ sch.pc \in {"check", "post"}
InHand(r)  == hb.pc = "apply" /\ hb.cur = r
InRead(r)  == hb.pc = "restore" /\ r \in ToSet(hb.read)
ToRestore  == ~ restored /\ hb.pc # "restore"
Unseen(r)  == r \notin db.done \union ToSet(db.pend)

B(x) == IF x THEN 1 ELSE 0

\* Executions so far and to come.
Bounded(r) ==
  ran[r] + B(InQueue(r)) + B(InBatch(r)) + B(InHand(r)) + B(InRead(r)) + B(ToRestore) + B(Unseen(r))
    <= 1 + crashes + errors

\* The probe rows remember completed runs only.
LastIsDone == \A p \in Probes : db.last[p] \in db.done \union {None}

Counted == LastIsDone /\ (UseStore => \A r \in Runs : Bounded(r))

LEMMA CountedInit == Init => Counted
  <1>. SUFFICES ASSUME Init PROVE Counted
    OBVIOUS
  <1>1. /\ IdleSch.pc = "idle" /\ IdleHB.pc = "idle" /\ NewCache.queue = <<>>
        /\ EmptyDB.last = NoLast /\ EmptyDB.done = {} /\ EmptyDB.pend = <<>>
    BY DEF IdleSch, IdleHB, NewCache, EmptyDB
  <1>2. ToSet(<<>>) = {}
    BY DEF ToSet
  <1>3. LastIsDone
    BY <1>1 DEF Init, LastIsDone, NoLast
  <1>4. ASSUME NEW r \in Runs PROVE Bounded(r)
    <2>1. ~ InQueue(r) /\ ~ InBatch(r) /\ ~ InHand(r) /\ ~ InRead(r) /\ ~ ToRestore
      BY <1>1, <1>2 DEF Init, InQueue, InBatch, InHand, InRead, ToRestore
    <2>2. ran[r] = 0 /\ crashes = 0 /\ errors = 0
      BY DEF Init
    <2>. QED
      BY <2>1, <2>2 DEF Bounded, B
  <1>. QED
    BY <1>3, <1>4 DEF Counted

LEMMA LastIsDoneStep == TypeOK /\ LastIsDone /\ [Next]_vars => LastIsDone'
  <1>. SUFFICES ASSUME TypeOK, LastIsDone, [Next]_vars PROVE LastIsDone'
    OBVIOUS
  <1>1. TablesOK
    BY TypeParts
  <1>2. ASSUME db'.last = db.last, db'.done = db.done PROVE LastIsDone'
    BY <1>2 DEF LastIsDone
  <1>3. CASE SaveAssignment
    <2>1. db'.done = db.done /\ \A p \in Probes : db'.last[p] \in {db.last[p], None}
      BY <1>3, TypeSaveAssignment
    <2>. QED
      BY <2>1 DEF LastIsDone
  <1>4. ASSUME NEW r \in Runs, RecordTrigger(r) PROVE LastIsDone'
    <2>1. db'.last = db.last /\ db'.done = db.done
      BY <1>1, <1>4 DEF RecordTrigger, QueueTriggerRow, TablesOK, DBType
    <2>. QED
      BY <1>2, <2>1
  <1>5. CASE CompleteTriggers
    <2>1. /\ db.done \subseteq db'.done
          /\ \A p \in Probes : db'.last[p] = db.last[p] \/ (db'.last[p] \in Taken /\ Taken \subseteq db'.done)
      BY <1>5, TypeCompleteTriggers
    <2>. QED
      BY <2>1 DEF LastIsDone
  <1>6. CASE UNCHANGED db
    BY <1>2, <1>6
  <1>. QED
    BY <1>3, <1>4, <1>5, <1>6 DEF Next, Heartbeat, Scheduler, Click, Reassign, Crash, PendingTriggers,
       RestorePendingTriggers, HeartbeatAnswered, HeartbeatFails, SyncAssignment, ApplyTriggeredEvents,
       ApplyTriggeredEvent, BeatDone, TakeTriggers, ExecuteTriggers, ReportResults, PostResults,
       PostResultsFails, DrainDelivery, DrainDeliveryFails, MarkTriggerComplete, vars

\* An event that is not already seen is new to the tables.
LEMMA SeenIs ==
  ASSUME TypeOK, LastIsDone, NEW r \in Runs
  PROVE  AlreadySeen(r) <=> ~ Unseen(r)
  <1>1. db.pend \in Seq(Runs) /\ ProbeOf[r] \in Probes /\ r # None
    BY TypeParts, DBFields, ConstantsAssumption
  <1>2. Contains(db.pend, r) <=> r \in ToSet(db.pend)
    BY <1>1, ContainsIsIn
  <1>3. db.last[ProbeOf[r]] = r => r \in db.done
    BY <1>1 DEF LastIsDone
  <1>. QED
    BY <1>2, <1>3 DEF AlreadySeen, Unseen

LEMMA Counters ==
  ASSUME TypeOK, NEW r \in Runs
  PROVE  ran[r] \in Nat /\ crashes \in Nat /\ errors \in Nat
  BY ConstantsAssumption DEF TypeOK

\* The heartbeat loop only moves an execution from one place to another, or
\* has a disk error pay for it.
LEMMA HeartbeatBounded ==
  ASSUME TypeOK, LastIsDone, UseStore, NEW r \in Runs, Bounded(r), Heartbeat
  PROVE  Bounded(r)'
  <1>1. ServerOK /\ TablesOK /\ CacheOK /\ SchOK /\ HBOK /\ FaultsOK
    BY TypeParts
  <1>2. ran[r] \in Nat /\ crashes \in Nat /\ errors \in Nat
    BY Counters
  <1>3. UNCHANGED <<ran, crashes, sch>> /\ (InBatch(r)' <=> InBatch(r))
    <2>1. UNCHANGED <<ran, crashes, sch>>
      BY DEF Heartbeat, PendingTriggers, RestorePendingTriggers, HeartbeatAnswered, HeartbeatFails,
         SaveAssignment, SyncAssignment, ApplyTriggeredEvents, RecordTrigger, ApplyTriggeredEvent,
         BeatDone, ranVars, faultVars
    <2>. QED
      BY <2>1 DEF InBatch, Taken
  <1>4. (Fault => errors' = errors + 1) /\ (NoFault => errors' = errors)
    BY DEF Fault, NoFault
  \* No fault, and nothing comes to a place but what leaves another.
  <1>5. ASSUME errors' = errors \/ errors' = errors + 1,
               InQueue(r)' => InQueue(r), ~ InHand(r)', ~ InRead(r)', ToRestore' => ToRestore,
               Unseen(r)' => Unseen(r)
        PROVE  Bounded(r)'
    BY <1>2, <1>3, <1>5 DEF Bounded, B
  <1>6. CASE PendingTriggers
    <2>1. UNCHANGED <<cache, restored, db>> /\ hb.pc = "idle" /\ ~ restored
      BY <1>6 DEF PendingTriggers
    <2>2. (InQueue(r)' <=> InQueue(r)) /\ (Unseen(r)' <=> Unseen(r)) /\ ToRestore
      BY <2>1 DEF InQueue, Unseen, ToRestore
    <2>3. CASE NoFault /\ hb' = [hb EXCEPT !.pc = "restore", !.read = db.pend]
      <3>1. hb'.pc = "restore"
        BY <1>1, <2>3 DEF HBOK, HBType
      <3>2. ~ InHand(r)' /\ ~ ToRestore' /\ ~ InRead(r) /\ ~ InHand(r)
        BY <2>1, <3>1 DEF InHand, ToRestore, InRead
      <3>3. errors' = errors
        BY <1>4, <2>3
      <3>. QED
        BY <1>2, <1>3, <2>2, <3>2, <3>3 DEF Bounded, B
    <2>4. CASE Fault /\ hb' = [hb EXCEPT !.pc = "send"]
      <3>1. hb'.pc = "send"
        BY <1>1, <2>4 DEF HBOK, HBType
      <3>2. ~ InHand(r)' /\ ~ InRead(r)'
        BY <3>1 DEF InHand, InRead
      <3>. QED
        BY <1>4, <1>5, <2>2, <2>4, <3>2
    <2>. QED
      BY <1>6, <2>3, <2>4 DEF PendingTriggers
  <1>7. CASE RestorePendingTriggers
    <2>1. UNCHANGED <<db, errors>> /\ restored' /\ hb.pc = "restore"
      BY <1>7 DEF RestorePendingTriggers, faultVars
    <2>2. hb'.pc = "send"
      BY <1>1, <1>7 DEF RestorePendingTriggers, HBOK, HBType
    <2>3. ToSet(cache'.queue) \subseteq ToSet(cache.queue) \union ToSet(hb.read)
      BY <1>7, TypeRestorePendingTriggers, FromType
    <2>4. /\ InQueue(r)' => InQueue(r) \/ InRead(r)
          /\ ~ InHand(r)' /\ ~ InRead(r)' /\ ~ ToRestore'
      BY <2>1, <2>2, <2>3 DEF InQueue, InRead, InHand, ToRestore
    <2>5. Unseen(r)' <=> Unseen(r)
      BY <2>1 DEF Unseen
    <2>. QED
      BY <1>2, <1>3, <2>1, <2>4, <2>5 DEF Bounded, B
  <1>8. CASE \E st \in {"active", "paused", ""} : HeartbeatAnswered(st)
    <2>1. UNCHANGED <<db, cache, restored, errors>> /\ hb.pc \in {"send", "idle"}
      BY <1>8 DEF HeartbeatAnswered, faultVars
    <2>2. hb'.pc = "sync"
      BY <1>8, TypeHeartbeatAnswered
    <2>3. /\ (InQueue(r)' => InQueue(r)) /\ (Unseen(r)' => Unseen(r)) /\ (ToRestore' => ToRestore)
          /\ ~ InHand(r)' /\ ~ InRead(r)'
      BY <2>1, <2>2 DEF InQueue, Unseen, ToRestore, InHand, InRead
    <2>. QED
      BY <1>5, <2>1, <2>3
  <1>9. CASE HeartbeatFails \/ BeatDone
    <2>1. UNCHANGED <<db, cache, restored, errors>> /\ hb.pc \in {"send", "events"} /\ hb' = IdleHB
      BY <1>9 DEF HeartbeatFails, BeatDone, faultVars
    <2>2. hb'.pc = "idle"
      BY <2>1 DEF IdleHB
    <2>3. /\ (InQueue(r)' => InQueue(r)) /\ (Unseen(r)' => Unseen(r)) /\ (ToRestore' => ToRestore)
          /\ ~ InHand(r)' /\ ~ InRead(r)'
      BY <2>1, <2>2 DEF InQueue, Unseen, ToRestore, InHand, InRead
    <2>. QED
      BY <1>5, <2>1, <2>3
  <1>10. CASE SaveAssignment
    <2>1. UNCHANGED <<cache, restored>> /\ hb.pc = "sync" /\ (Fault \/ NoFault)
      BY <1>10 DEF SaveAssignment
    <2>2. hb'.pc \in {"events", "replace", "replace_keeping_hash"}
      BY <1>1, <1>10 DEF SaveAssignment, HBOK, HBType
    <2>3. db'.pend = db.pend /\ db'.done = db.done
      BY <1>10, TypeSaveAssignment
    <2>4. /\ (InQueue(r)' => InQueue(r)) /\ (Unseen(r)' => Unseen(r)) /\ (ToRestore' => ToRestore)
          /\ ~ InHand(r)' /\ ~ InRead(r)'
      BY <2>1, <2>2, <2>3 DEF InQueue, Unseen, ToRestore, InHand, InRead
    <2>. QED
      BY <1>4, <1>5, <2>1, <2>4
  <1>11. CASE SyncAssignment
    <2>1. UNCHANGED <<db, restored, errors>> /\ hb.pc \in {"replace", "replace_keeping_hash"}
      BY <1>11 DEF SyncAssignment, faultVars
    <2>2. cache'.queue = cache.queue /\ hb'.pc = "events"
      BY <1>11, TypeSyncAssignment
    <2>3. /\ (InQueue(r)' => InQueue(r)) /\ (Unseen(r)' => Unseen(r)) /\ (ToRestore' => ToRestore)
          /\ ~ InHand(r)' /\ ~ InRead(r)'
      BY <2>1, <2>2 DEF InQueue, Unseen, ToRestore, InHand, InRead
    <2>. QED
      BY <1>5, <2>1, <2>3
  <1>12. ASSUME NEW q \in Runs, RecordTrigger(q) PROVE Bounded(r)'
    <2>1. UNCHANGED <<cache, restored>> /\ hb.pc = "events"
      BY <1>12 DEF RecordTrigger
    <2>2. CASE NoFault /\ AlreadySeen(q) /\ hb' = [hb EXCEPT !.events = @ \ {q}] /\ UNCHANGED db
      <3>1. hb'.pc = "events"
        BY <1>1, <2>1, <2>2 DEF HBOK, HBType
      <3>2. /\ (InQueue(r)' => InQueue(r)) /\ (Unseen(r)' => Unseen(r)) /\ (ToRestore' => ToRestore)
            /\ ~ InHand(r)' /\ ~ InRead(r)'
        BY <2>1, <2>2, <3>1 DEF InQueue, Unseen, ToRestore, InHand, InRead
      <3>. QED
        BY <1>4, <1>5, <2>2, <3>2
    <2>3. CASE /\ NoFault /\ ~ AlreadySeen(q) /\ db' = QueueTriggerRow(db, q)
               /\ hb' = [hb EXCEPT !.pc = "apply", !.events = @ \ {q}, !.cur = q]
      <3>1. hb'.pc = "apply" /\ hb'.cur = q
        BY <1>1, <2>3 DEF HBOK, HBType
      <3>2. ~ Contains(db.pend, q) /\ db' = [db EXCEPT !.pend = Append(db.pend, q)]
        BY <2>3 DEF AlreadySeen, QueueTriggerRow
      <3>3. db'.pend = Append(db.pend, q) /\ db'.done = db.done
        BY <1>1, <3>2 DEF TablesOK, DBType
      <3>4. ToSet(db'.pend) = ToSet(db.pend) \union {q}
        BY <1>1, <3>2, <3>3, DBFields, AppendNew
      <3>5. Unseen(q)
        BY <2>3, SeenIs
      <3>6. /\ (InQueue(r)' => InQueue(r)) /\ ~ InRead(r)' /\ (ToRestore' => ToRestore)
            /\ (InHand(r)' => r = q) /\ (Unseen(r)' => Unseen(r) /\ r # q) /\ (r = q => Unseen(r))
        BY <2>1, <3>1, <3>3, <3>4, <3>5 DEF InQueue, Unseen, ToRestore, InHand, InRead
      <3>7. errors' = errors
        BY <1>4, <2>3
      <3>8. CASE r = q
        <4>1. Unseen(r) /\ ~ Unseen(r)'
          BY <3>6, <3>8
        <4>. QED
          BY <1>2, <1>3, <3>6, <3>7, <4>1 DEF Bounded, B
      <3>9. CASE r # q
        <4>1. ~ InHand(r)'
          BY <3>6, <3>9
        <4>. QED
          BY <1>5, <3>6, <3>7, <4>1
      <3>. QED
        BY <3>8, <3>9
    <2>4. CASE /\ Fault /\ hb' = [hb EXCEPT !.pc = "apply", !.events = @ \ {q}, !.cur = q]
               /\ UNCHANGED db
      <3>1. hb'.pc = "apply"
        BY <1>1, <2>4 DEF HBOK, HBType
      <3>2. /\ (InQueue(r)' => InQueue(r)) /\ (Unseen(r)' => Unseen(r)) /\ (ToRestore' => ToRestore)
            /\ ~ InHand(r) /\ ~ InRead(r)'
        BY <2>1, <2>4, <3>1 DEF InQueue, Unseen, ToRestore, InHand, InRead
      <3>3. errors' = errors + 1
        BY <1>4, <2>4
      <3>. QED
        BY <1>2, <1>3, <3>2, <3>3 DEF Bounded, B
    <2>. QED
      BY <1>12, <2>2, <2>3, <2>4 DEF RecordTrigger
  <1>13. CASE ApplyTriggeredEvent
    <2>1. UNCHANGED <<db, restored, errors>> /\ hb.pc = "apply"
      BY <1>13 DEF ApplyTriggeredEvent, faultVars
    <2>2. hb'.pc = "events"
      BY <1>1, <1>13 DEF ApplyTriggeredEvent, HBOK, HBType
    <2>3. ToSet(cache'.queue) \subseteq ToSet(cache.queue) \union {hb.cur}
      BY <1>13, TypeApplyTriggeredEvent, FromType
    <2>4. /\ InQueue(r)' => InQueue(r) \/ InHand(r)
          /\ ~ InHand(r)' /\ ~ InRead(r)' /\ (ToRestore' => ToRestore) /\ (Unseen(r)' => Unseen(r))
      BY <2>1, <2>2, <2>3 DEF InQueue, InRead, InHand, ToRestore, Unseen
    <2>. QED
      BY <1>2, <1>3, <2>1, <2>4 DEF Bounded, B
  <1>14. CASE ApplyTriggeredEvents
    BY <1>14 DEF ApplyTriggeredEvents
  <1>. QED
    BY <1>6, <1>7, <1>8, <1>9, <1>10, <1>11, <1>12, <1>13, <1>14 DEF Heartbeat

\* The scheduler turns a place into an execution, or has a disk error pay for
\* executing a batch again.
LEMMA SchedulerBounded ==
  ASSUME TypeOK, UseStore, NEW r \in Runs, Bounded(r), Scheduler
  PROVE  Bounded(r)'
  <1>1. CacheOK /\ SchOK /\ ResultsOK
    BY TypeParts
  <1>2. ran[r] \in Nat /\ crashes \in Nat /\ errors \in Nat
    BY Counters
  <1>3. UNCHANGED <<crashes, hb, restored>>
    BY DEF Scheduler, TakeTriggers, ExecuteTriggers, ReportResults, PostResults, PostResultsFails,
       DrainDelivery, DrainDeliveryFails, CompleteTriggers, MarkTriggerComplete, faultVars
  <1>4. (InHand(r)' <=> InHand(r)) /\ (InRead(r)' <=> InRead(r)) /\ (ToRestore' <=> ToRestore)
    BY <1>3 DEF InHand, InRead, ToRestore
  <1>5. (Fault => errors' = errors + 1) /\ (NoFault => errors' = errors)
    BY DEF Fault, NoFault
  <1>6. CASE TakeTriggers
    <2>1. UNCHANGED <<db, ran, errors>> /\ sch.pc = "idle"
      BY <1>6 DEF TakeTriggers, ranVars, faultVars
    <2>2. /\ Taken' \subseteq ToSet(cache.queue) /\ ToSet(cache'.queue) \subseteq ToSet(cache.queue)
          /\ Taken' \intersect ToSet(cache'.queue) = {}
      BY <1>6, TypeTakeTriggers
    <2>3. /\ InQueue(r)' \/ InBatch(r)' => InQueue(r)
          /\ ~ (InQueue(r)' /\ InBatch(r)')
          /\ Unseen(r)' => Unseen(r)
      BY <2>1, <2>2 DEF InQueue, InBatch, Unseen
    <2>. QED
      BY <1>2, <1>3, <1>4, <2>1, <2>3 DEF Bounded, B
  <1>7. ASSUME NEW got \in SUBSET Runs, NEW scheduled \in BOOLEAN, ExecuteTriggers(got, scheduled)
        PROVE  Bounded(r)'
    <2>1. UNCHANGED <<db, cache, errors>> /\ sch.pc = "check" /\ got \subseteq Taken
      BY <1>7 DEF ExecuteTriggers, faultVars
    <2>2. sch'.pc \in {"report", "complete"}
      BY <1>7, TypeExecuteTriggers
    <2>3. ran'[r] = IF r \in got /\ ran[r] < MaxRan THEN ran[r] + 1 ELSE ran[r]
      BY <1>7 DEF ExecuteTriggers
    <2>4. /\ ~ InBatch(r)' /\ (r \in got => InBatch(r))
          /\ (InQueue(r)' <=> InQueue(r)) /\ (Unseen(r)' <=> Unseen(r))
      BY <2>1, <2>2 DEF InQueue, InBatch, Unseen
    <2>5. CASE r \in got
      <3>1. ran'[r] = ran[r] + 1 \/ ran'[r] = ran[r]
        BY <2>3
      <3>2. InBatch(r)
        BY <2>4, <2>5
      <3>. QED
        BY <1>2, <1>3, <1>4, <2>1, <2>4, <3>1, <3>2 DEF Bounded, B
    <2>6. CASE r \notin got
      <3>1. ran'[r] = ran[r]
        BY <2>3, <2>6
      <3>. QED
        BY <1>2, <1>3, <1>4, <2>1, <2>4, <3>1 DEF Bounded, B
    <2>. QED
      BY <2>5, <2>6
  <1>8. CASE ReportResults
    <2>1. UNCHANGED <<db, cache, ran>> /\ sch.pc = "report"
      BY <1>8 DEF ReportResults
    <2>2. (InQueue(r)' <=> InQueue(r)) /\ (Unseen(r)' <=> Unseen(r)) /\ ~ InBatch(r)
      BY <2>1 DEF InQueue, Unseen, InBatch
    <2>3. node.mode # "none"
      BY DEF UseStore
    <2>4. (errors' = errors /\ sch'.pc = "deliver") \/ errors' = errors + 1
      BY <1>8, <2>3, TypeReportResults
    <2>5. CASE errors' = errors /\ sch'.pc = "deliver"
      <3>1. ~ InBatch(r)'
        BY <2>5 DEF InBatch
      <3>. QED
        BY <1>2, <1>3, <1>4, <2>1, <2>2, <2>5, <3>1 DEF Bounded, B
    <2>6. CASE errors' = errors + 1
      BY <1>2, <1>3, <1>4, <2>1, <2>2, <2>6 DEF Bounded, B
    <2>. QED
      BY <2>4, <2>5, <2>6
  \* The batch has been executed and goes no further than the tables.
  <1>9. ASSUME ran' = ran, errors' = errors \/ errors' = errors + 1, cache'.queue = cache.queue,
               sch'.pc \notin {"check", "post"}, Unseen(r)' => Unseen(r)
        PROVE  Bounded(r)'
    <2>1. (InQueue(r)' <=> InQueue(r)) /\ ~ InBatch(r)'
      BY <1>9 DEF InQueue, InBatch
    <2>. QED
      BY <1>2, <1>3, <1>4, <1>9, <2>1 DEF Bounded, B
  <1>10. CASE PostResults
    <2>1. UNCHANGED <<db, cache, ran, errors>> /\ (Unseen(r)' => Unseen(r))
      BY <1>10 DEF PostResults, ranVars, faultVars, Unseen
    <2>2. sch'.pc = "complete"
      BY <1>10, TypePostResults
    <2>. QED
      BY <1>9, <2>1, <2>2
  <1>11. CASE PostResultsFails
    <2>1. UNCHANGED <<db, ran, errors>> /\ sch.pc = "post"
      BY <1>11 DEF PostResultsFails, ranVars, faultVars
    <2>2. cache' \in From(cache, Taken) /\ sch' = IdleSch
      BY <1>11, TypePostResultsFails
    <2>3. ToSet(cache'.queue) \subseteq ToSet(cache.queue) \union Taken
      BY <2>2, FromType
    <2>4. sch'.pc = "idle"
      BY <2>2 DEF IdleSch
    <2>5. /\ InQueue(r)' => InQueue(r) \/ InBatch(r)
          /\ ~ InBatch(r)' /\ (Unseen(r)' => Unseen(r))
      BY <2>1, <2>3, <2>4 DEF InQueue, InBatch, Unseen
    <2>. QED
      BY <1>2, <1>3, <1>4, <2>1, <2>5 DEF Bounded, B
  <1>12. CASE DrainDelivery \/ DrainDeliveryFails
    <2>1. UNCHANGED <<db, cache, ran, errors>> /\ (Unseen(r)' => Unseen(r))
      BY <1>12 DEF DrainDelivery, DrainDeliveryFails, ranVars, faultVars, Unseen
    <2>2. sch'.pc \in {"complete", "idle"}
      BY <1>12, TypeDrain
    <2>. QED
      BY <1>9, <2>1, <2>2
  <1>13. CASE CompleteTriggers
    <2>1. UNCHANGED <<cache, ran>> /\ (Fault \/ NoFault)
      BY <1>13 DEF CompleteTriggers
    <2>2. /\ sch'.pc = "mark" /\ db.done \subseteq db'.done
          /\ ToSet(db.pend) \subseteq ToSet(db'.pend) \union db'.done
      BY <1>13, TypeCompleteTriggers
    <2>3. Unseen(r)' => Unseen(r)
      BY <2>2 DEF Unseen
    <2>. QED
      BY <1>5, <1>9, <2>1, <2>2, <2>3
  <1>14. CASE MarkTriggerComplete
    <2>1. UNCHANGED <<db, ran, errors>> /\ (Unseen(r)' => Unseen(r))
      BY <1>14 DEF MarkTriggerComplete, ranVars, faultVars, Unseen
    <2>2. sch'.pc \in {"idle", "mark"} /\ cache'.queue = cache.queue
      BY <1>14, TypeMarkTriggerComplete
    <2>. QED
      BY <1>9, <2>1, <2>2
  <1>. QED
    BY <1>6, <1>7, <1>8, <1>10, <1>11, <1>12, <1>13, <1>14 DEF Scheduler

\* A restart loses all places at once, and pays for the one it queues from
\* the rows, or will when the rows can be read.
LEMMA CrashBounded ==
  ASSUME TypeOK, NEW r \in Runs, Bounded(r), NEW load \in BOOLEAN, NEW restore \in BOOLEAN,
         Crash(load, restore)
  PROVE  Bounded(r)'
  <1>1. ran[r] \in Nat /\ crashes \in Nat /\ errors \in Nat
    BY Counters
  <1>2. UNCHANGED <<db, ran>> /\ crashes' = crashes + 1 /\ restored' = restore /\ (Fault \/ NoFault)
    BY DEF Crash, ranVars
  <1>3. errors' = errors \/ errors' = errors + 1
    BY <1>2 DEF Fault, NoFault
  <1>4. /\ sch' = IdleSch /\ hb' = IdleHB
        /\ ToSet(cache'.queue) \subseteq ToSet(db.pend) /\ (~ restore => ToSet(cache'.queue) = {})
    BY TypeCrash
  <1>5. sch'.pc = "idle" /\ hb'.pc = "idle"
    BY <1>4 DEF IdleSch, IdleHB
  <1>6. ~ InBatch(r)' /\ ~ InHand(r)' /\ ~ InRead(r)'
    BY <1>5 DEF InBatch, InHand, InRead
  <1>7. Unseen(r)' <=> Unseen(r)
    BY <1>2 DEF Unseen
  <1>8. ~ (InQueue(r)' /\ ToRestore')
    BY <1>2, <1>4 DEF InQueue, ToRestore
  <1>. QED
    BY <1>1, <1>2, <1>3, <1>6, <1>7, <1>8 DEF Bounded, B

LEMMA CountedStep == TypeOK /\ Counted /\ [Next]_vars => Counted'
  <1>. SUFFICES ASSUME TypeOK, Counted, [Next]_vars PROVE Counted'
    OBVIOUS
  <1>1. LastIsDone'
    BY LastIsDoneStep DEF Counted
  <1>2. node' = node
    BY DEF Next, Heartbeat, Scheduler, Click, Reassign, Crash, PendingTriggers, RestorePendingTriggers,
       HeartbeatAnswered, HeartbeatFails, SaveAssignment, SyncAssignment, ApplyTriggeredEvents,
       RecordTrigger, ApplyTriggeredEvent, BeatDone, TakeTriggers, ExecuteTriggers, ReportResults,
       PostResults, PostResultsFails, DrainDelivery, DrainDeliveryFails, CompleteTriggers,
       MarkTriggerComplete, vars
  <1>3. ASSUME UseStore, NEW r \in Runs PROVE Bounded(r)'
    <2>1. LastIsDone /\ Bounded(r)
      BY <1>3 DEF Counted
    <2>2. CASE UNCHANGED <<db, cache, restored, hb, sch, ran, crashes, errors>>
      BY <2>1, <2>2 DEF Bounded, InQueue, InBatch, InHand, InRead, ToRestore, Unseen, Taken
    <2>3. CASE (\E q \in Runs : Click(q)) \/ (\E P \in SUBSET Probes : Reassign(P)) \/ UNCHANGED vars
      BY <2>2, <2>3 DEF Click, Reassign, vars, ranVars, faultVars
    <2>4. CASE Heartbeat
      BY <1>3, <2>1, <2>4, HeartbeatBounded
    <2>5. CASE Scheduler
      BY <1>3, <2>1, <2>5, SchedulerBounded
    <2>6. CASE \E load, restore \in BOOLEAN : Crash(load, restore)
      BY <2>1, <2>6, CrashBounded
    <2>. QED
      BY <2>3, <2>4, <2>5, <2>6 DEF Next
  <1>. QED
    BY <1>1, <1>2, <1>3 DEF Counted, UseStore

LEMMA CountedImplies == TypeOK /\ Counted => RunOncePerFault
  <1>. SUFFICES ASSUME TypeOK, Counted, UseStore, NEW r \in Runs PROVE ran[r] <= 1 + crashes + errors
    BY DEF RunOncePerFault
  <1>1. ran[r] \in Nat /\ crashes \in Nat /\ errors \in Nat
    BY Counters
  <1>2. Bounded(r)
    BY DEF Counted
  <1>. QED
    BY <1>1, <1>2 DEF Bounded, B

-----------------------------------------------------------------------------
(* The theorems                                                            *)

\* The tables, the cache and both loops keep their shape: the pending queue
\* (cache.go, pendingTriggers) never outgrows maxPendingTriggers, and neither
\* it nor the table holds a run twice, through every loop over triggers.
THEOREM TypeCorrect == Spec => []TypeOK
  <1>1. Init => TypeOK
    BY TypeInit
  <1>2. TypeOK /\ [Next]_vars => TypeOK'
    BY TypeStep
  <1>. QED
    BY <1>1, <1>2, PTL DEF Spec

\* The hash the node advertises is one whose assignment the database holds,
\* even when a save fails or the process dies between save and use
\* (agent.go, syncAssignment; cache.go, replaceAssignmentKeepingHash).
THEOREM AssignmentIsSaved == Spec => []AdvertisedIsPersisted
  <1>1. Init => Advertised
    BY AdvertisedInit
  <1>2. TypeOK /\ Advertised /\ [Next]_vars => Advertised'
    BY AdvertisedStep
  <1>3. Advertised => AdvertisedIsPersisted
    BY DEF Advertised
  <1>. QED
    BY <1>1, <1>2, <1>3, TypeCorrect, PTL DEF Spec

\* finishTriggers retires a trigger only when its results are on disk or at
\* radar-api, or its checks gave none, in every mode (store, spool, neither).
THEOREM RetiredIsDurable == Spec => []RetiredOnlyWhenDurable
  <1>1. Init => Retiring
    BY RetiringInit
  <1>2. TypeOK /\ Retiring /\ [Next]_vars => Retiring'
    BY RetiringStep
  <1>3. Retiring => RetiredOnlyWhenDurable
    BY DEF Retiring
  <1>. QED
    BY <1>1, <1>2, <1>3, TypeCorrect, PTL DEF Spec

\* As long as the disk works, a trigger that is queued or being executed has
\* its row in pending_triggers: a crash at any point loses none.
THEOREM QueueIsPersisted == Spec => []QueuedIsPersisted
  <1>1. Init => Persisted
    BY PersistedInit
  <1>2. TypeOK /\ Persisted /\ [Next]_vars => Persisted'
    BY PersistedStep
  <1>3. TypeOK /\ Persisted => QueuedIsPersisted
    BY PersistedImplies
  <1>. QED
    BY <1>1, <1>2, <1>3, TypeCorrect, PTL DEF Spec

\* With the store, a run is executed once, plus at most once for every crash
\* and every disk error, whatever is redelivered, reassigned or restored.
THEOREM RunsOncePerFault == Spec => []RunOncePerFault
  <1>1. Init => Counted
    BY CountedInit
  <1>2. TypeOK /\ Counted /\ [Next]_vars => Counted'
    BY CountedStep
  <1>3. TypeOK /\ Counted => RunOncePerFault
    BY CountedImplies
  <1>. QED
    BY <1>1, <1>2, <1>3, TypeCorrect, PTL DEF Spec

=============================================================================
