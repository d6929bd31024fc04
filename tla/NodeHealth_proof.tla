-------------------------- MODULE NodeHealth_proof --------------------------
(***************************************************************************)
(* NodeHealth for any intervals, tick lengths, calibrations and windows.   *)
(***************************************************************************)
EXTENDS NodeHealth, FiniteSetTheorems, TLAPS

MonType  == [tested : BOOLEAN, age : 0 .. Ancient, clock : Offsets, err : BOOLEAN]
PathType == [age : 0 .. Window, total : 0 .. MaxTotal, errors : 0 .. MaxTotal, targets : SUBSET Targets]
SmpType  == [age : 0 .. Interval, hot : [Resources -> BOOLEAN], streak : [Resources -> -1 .. 2]]
RefType  == [seen : {"none", "high", "low"}, hot : BOOLEAN]

WindowOK(w) == w.errors <= w.total /\ Cardinality(w.targets) <= MaxTracked

\* What the sampler remembers of each resource agrees with the reference.
Counted(hot, streak, r) ==
  /\ hot = r.hot
  /\ r.seen = "none" => streak = 0 /\ hot = FALSE
  /\ r.seen = "high" => streak \in {1, 2}
  /\ r.seen = "low"  => streak \in {-1, 0} /\ (streak = 0 => hot = FALSE)

SamplerOK == /\ ref \in [Resources -> RefType]
             /\ \A r \in Resources : Counted(smp.hot[r], smp.streak[r], ref[r])

\* Every target of a window was checked since the window began.
WindowIsRecent == path.age < Window => \A t \in path.targets : checked[t] <= path.age

\* The monitor's verdict is that of the link as it is.
Right == mon.tested = TRUE /\ mon.err = ~link

\* How old the scheduler takes the last test for.
SeenAge == mon.age + offset - mon.clock

\* A wrong verdict that a tick since the last change went along with was
\* fresh then, and has aged with the time since.
WrongAges ==
  ~Right /\ steady > quiet => /\ mon.tested = TRUE
                              /\ SeenAge >= steady - Gap \/ SeenAge >= Interval

\* The last tick acted on the link as it is if the link had then been steady
\* for an interval and a tick.
LastTickRight == steady - quiet >= Interval + Gap => (sched = "paused" <=> ~link)

IInv == TypeOK /\ SamplerOK /\ WindowIsRecent /\ WrongAges /\ LastTickRight

-----------------------------------------------------------------------------
(* Facts about the operators                                               *)

LEMMA CappedType ==
  ASSUME NEW n \in Nat, NEW cap \in Nat
  PROVE  Capped(n, cap) \in 0 .. cap /\ Capped(n, cap) <= n
  BY DEF Capped

\* The sampler follows the reference, sample by sample.
LEMMA HysteresisFollows ==
  ASSUME NEW hot \in BOOLEAN, NEW streak \in -1 .. 2, NEW r \in RefType, Counted(hot, streak, r),
         NEW sample \in {"high", "mid", "low"}
  PROVE  /\ Hysteresis(hot, streak, sample).hot \in BOOLEAN
         /\ Hysteresis(hot, streak, sample).streak \in -1 .. 2
         /\ Reference(r, sample) \in RefType
         /\ Counted(Hysteresis(hot, streak, sample).hot, Hysteresis(hot, streak, sample).streak,
                    Reference(r, sample))
  <1>1. Reference(r, sample) \in RefType
    BY DEF Reference, RefType
  <1>2. r.seen \in {"none", "high", "low"} /\ r.hot = hot
    BY DEF RefType, Counted
  <1>2a. ASSUME NEW h, NEW k, NEW q \in RefType, h = q.hot,
               \/ q.seen = "high" /\ k \in {1, 2}
               \/ q.seen = "low" /\ (k = -1 \/ (k = 0 /\ h = FALSE))
        PROVE  h \in BOOLEAN /\ k \in -1 .. 2 /\ Counted(h, k, q)
    BY <1>2a DEF Counted, RefType
  <1>3. CASE sample = "mid"
    BY <1>1, <1>3 DEF Hysteresis, Reference
  <1>4. CASE sample = "high"
    <2>. DEFINE n == IF streak < 0 THEN 1 ELSE streak + 1
    <2>1. Hysteresis(hot, streak, sample) = [hot |-> hot \/ n >= 2, streak |-> Capped(n, 2)]
      BY <1>4 DEF Hysteresis
    <2>2. n \in {1, 2, 3}
      OBVIOUS
    <2>3. Capped(n, 2) \in {1, 2}
      BY <2>2 DEF Capped
    <2>4. Reference(r, sample).seen = "high"
          /\ Reference(r, sample).hot = IF r.seen = "high" THEN TRUE ELSE hot
      BY <1>2, <1>4 DEF Reference
    <2>5. r.seen = "high" => n >= 2
      BY DEF Counted
    <2>6. r.seen # "high" => ~ (n >= 2)
      BY <1>2 DEF Counted
    <2>. HIDE DEF n
    <2>7. (hot \/ n >= 2) = Reference(r, sample).hot
      BY <2>4, <2>5, <2>6
    <2>8. /\ Hysteresis(hot, streak, sample).hot = Reference(r, sample).hot
          /\ Hysteresis(hot, streak, sample).streak = Capped(n, 2)
      BY <2>1, <2>7
    <2>. QED
      BY <1>1, <1>2a, <2>3, <2>4, <2>8
  <1>5. CASE sample = "low"
    <2>. DEFINE n == IF streak > 0 THEN -1 ELSE streak - 1
    <2>1. Hysteresis(hot, streak, sample) =
            IF n <= -2 THEN [hot |-> FALSE, streak |-> 0] ELSE [hot |-> hot, streak |-> n]
      BY <1>5 DEF Hysteresis
    <2>2. n \in {-1, -2}
      OBVIOUS
    <2>3. Reference(r, sample).seen = "low"
          /\ Reference(r, sample).hot = IF r.seen = "low" THEN FALSE ELSE hot
      BY <1>2, <1>5 DEF Reference
    <2>4. n = -2 => r.seen = "low"
      BY <1>2 DEF Counted
    <2>5. n = -1 /\ r.seen = "low" => hot = FALSE
      BY DEF Counted
    <2>. HIDE DEF n
    <2>6. CASE n = -2
      <3>1. Hysteresis(hot, streak, sample) = [hot |-> FALSE, streak |-> 0]
        BY <2>1, <2>6
      <3>2. /\ Hysteresis(hot, streak, sample).hot = FALSE /\ Hysteresis(hot, streak, sample).streak = 0
            /\ Reference(r, sample).hot = FALSE
        BY <2>3, <2>4, <2>6, <3>1
      <3>. QED
        BY <1>1, <1>2a, <2>3, <3>2
    <2>7. CASE n = -1
      <3>1. Hysteresis(hot, streak, sample) = [hot |-> hot, streak |-> -1]
        BY <2>1, <2>7
      <3>2. Hysteresis(hot, streak, sample).hot = hot /\ Hysteresis(hot, streak, sample).streak = -1
        BY <3>1
      <3>3. hot = Reference(r, sample).hot
        BY <2>3, <2>5, <2>7, Zenon
      <3>4. -1 \in {-1, 0} /\ -1 # 0 /\ -1 \in -1 .. 2
        OBVIOUS
      <3>5. Counted(hot, -1, Reference(r, sample))
        BY <2>3, <3>3, <3>4, Zenon DEF Counted
      <3>. QED
        BY <1>1, <3>2, <3>4, <3>5, Zenon
    <2>. QED
      BY <2>2, <2>6, <2>7
  <1>. QED
    BY <1>3, <1>4, <1>5

\* An empty window, and the one in force.
LEMMA WindowType ==
  ASSUME TypeOK
  PROVE  /\ NoWindow \in PathType /\ WindowOK(NoWindow)
         /\ Reset \in PathType /\ WindowOK(Reset)
  <1>1. /\ 0 \in 0 .. Window /\ Window \in 0 .. Window /\ 0 \in 0 .. MaxTotal /\ MaxTracked \in Nat
    BY HealthAssumption
  <1>2. Cardinality({}) = 0
    BY FS_EmptySet
  <1>3. NoWindow \in PathType /\ WindowOK(NoWindow)
    BY <1>1, <1>2 DEF NoWindow, PathType, WindowOK
  <1>4. [NoWindow EXCEPT !.age = 0] \in PathType /\ WindowOK([NoWindow EXCEPT !.age = 0])
    BY <1>1, <1>2 DEF NoWindow, PathType, WindowOK
  <1>5. path \in PathType /\ WindowOK(path)
    BY DEF TypeOK, PathType, WindowOK
  <1>. QED
    BY <1>3, <1>4, <1>5 DEF Reset

\* A self-test, or the cached verdict.
LEMMA CheckType ==
  ASSUME TypeOK, NEW c \in Offsets
  PROVE  /\ Check(c) \in MonType
         /\ \/ Check(c) = mon /\ mon.tested = TRUE
               /\ mon.age + c - mon.clock >= 0 /\ mon.age + c - mon.clock < Interval
            \/ Check(c).tested = TRUE /\ Check(c).err = ~link
  <1>1. mon \in MonType /\ link \in BOOLEAN
    BY DEF TypeOK, MonType
  <1>2. 0 \in 0 .. Ancient
    BY HealthAssumption DEF Ancient
  <1>3. [tested |-> TRUE, age |-> 0, clock |-> c, err |-> ~link] \in MonType
    BY <1>1, <1>2 DEF MonType
  <1>4. mon.tested \in BOOLEAN
    BY <1>1 DEF MonType
  <1>5. CASE mon.tested /\ mon.age + c - mon.clock >= 0 /\ mon.age + c - mon.clock < Interval
    BY <1>1, <1>4, <1>5 DEF Check
  <1>6. CASE ~ (mon.tested /\ mon.age + c - mon.clock >= 0 /\ mon.age + c - mon.clock < Interval)
    BY <1>3, <1>6 DEF Check
  <1>. QED
    BY <1>5, <1>6

-----------------------------------------------------------------------------
(* The monitor                                                             *)

\* Asking it keeps a right verdict right, and leaves a wrong one only when the
\* asker takes it for fresh.
LEMMA CheckKeeps ==
  ASSUME TypeOK, NEW c \in Offsets, mon' = Check(c), link' = link
  PROVE  /\ mon' \in MonType
         /\ \/ Right'
            \/ /\ mon' = mon /\ ~Right /\ mon.tested = TRUE
               /\ mon.age + c - mon.clock >= 0 /\ mon.age + c - mon.clock < Interval
  <1>1. CASE Check(c).tested = TRUE /\ Check(c).err = ~link
    BY <1>1, CheckType DEF Right
  <1>2. CASE /\ Check(c) = mon /\ mon.tested = TRUE
             /\ mon.age + c - mon.clock >= 0 /\ mon.age + c - mon.clock < Interval
    BY <1>2, CheckType DEF Right
  <1>. QED
    BY <1>1, <1>2, CheckType

\* Integers and caps of the monitor's variables.
LEMMA MonitorTypes ==
  ASSUME TypeOK
  PROVE  /\ steady \in Int /\ quiet \in Int /\ 0 <= quiet /\ quiet <= Gap /\ Gap \in Int
         /\ Interval \in Int /\ 0 < Interval /\ 0 < Gap
         /\ steady <= Interval + 2 * Gap /\ 0 <= steady
         /\ mon.age \in Int /\ mon.clock \in Int /\ offset \in Int /\ SeenAge \in Int
         /\ mon.age >= 0 /\ mon.age <= Ancient /\ Ancient \in Int
  <1>1. /\ Interval \in Int /\ 0 < Interval /\ Gap \in Int /\ 0 < Gap /\ MaxSkew \in Int
        /\ Offsets \subseteq Int
    BY HealthAssumption
  <1>2. /\ mon.age \in 0 .. Ancient /\ mon.clock \in Offsets /\ offset \in Offsets
        /\ steady \in 0 .. Settled /\ quiet \in 0 .. Gap
    BY DEF TypeOK
  <1>3. Ancient \in Int /\ Settled \in Int /\ Settled = Interval + 2 * Gap
    BY <1>1 DEF Ancient, Settled
  <1>4. mon.clock \in Int /\ offset \in Int
    BY <1>1, <1>2
  <1>5. mon.age \in Int /\ mon.age >= 0 /\ mon.age <= Ancient
    BY <1>2, <1>3
  <1>6. SeenAge \in Int
    BY <1>4, <1>5 DEF SeenAge
  <1>7. steady \in Int /\ quiet \in Int /\ 0 <= quiet /\ quiet <= Gap
        /\ steady <= Interval + 2 * Gap /\ 0 <= steady
    BY <1>1, <1>2, <1>3
  <1>. QED
    BY <1>1, <1>3, <1>4, <1>5, <1>6, <1>7

\* What the monitor's part of the invariant says when its variables stand still.
LEMMA MonitorUntouched ==
  ASSUME IInv, UNCHANGED <<link, steady, quiet, offset, mon, sched>>
  PROVE  WrongAges' /\ LastTickRight'
  BY DEF IInv, WrongAges, LastTickRight, Right, SeenAge

LEMMA SchedulerTickStep ==
  ASSUME IInv, SchedulerTick
  PROVE  IInv'
  <1>1. TypeOK /\ SamplerOK /\ WindowIsRecent /\ WrongAges /\ LastTickRight
    BY DEF IInv
  <1>2. /\ mon' = Check(offset) /\ quiet' = 0 /\ sched' = IF mon'.err THEN "paused" ELSE "running"
        /\ UNCHANGED <<link, steady, offset, path, checked, smp, ref>>
    BY DEF SchedulerTick, pathVars, samplerVars
  <1>3. offset \in Offsets
    BY <1>1 DEF TypeOK
  <1>4. /\ mon' \in MonType
        /\ \/ Right'
           \/ mon' = mon /\ ~Right /\ mon.tested = TRUE /\ SeenAge >= 0 /\ SeenAge < Interval
    BY <1>1, <1>2, <1>3, CheckKeeps DEF SeenAge
  <1>5. /\ steady \in Int /\ quiet \in Int /\ 0 <= quiet /\ quiet <= Gap /\ Gap \in Int
        /\ Interval \in Int /\ 0 < Interval /\ 0 < Gap /\ SeenAge \in Int
    BY <1>1, MonitorTypes
  <1>6. TypeOK'
    <2>1. sched' \in {"none", "running", "ran", "paused"} /\ quiet' \in 0 .. Gap
      BY <1>2, <1>5
    <2>. QED
      BY <1>1, <1>2, <1>4, <2>1 DEF TypeOK, MonType
  <1>7. SamplerOK' /\ WindowIsRecent'
    BY <1>1, <1>2 DEF SamplerOK, WindowIsRecent
  <1>8. WrongAges'
    <2>1. CASE Right'
      BY <2>1 DEF WrongAges
    <2>2. CASE mon' = mon /\ ~Right /\ mon.tested = TRUE /\ SeenAge >= 0 /\ SeenAge < Interval
      <3>1. SeenAge' = SeenAge
        BY <1>2, <2>2 DEF SeenAge
      <3>2. SeenAge >= steady - Gap \/ SeenAge >= Interval
        BY <1>1, <1>5, <2>2 DEF WrongAges
      <3>. QED
        BY <1>2, <2>2, <3>1, <3>2 DEF WrongAges
    <2>. QED
      BY <1>4, <2>1, <2>2
  <1>9. LastTickRight'
    <2>1. SUFFICES ASSUME steady >= Interval + Gap
                   PROVE  sched' = "paused" <=> ~link
      BY <1>2, <1>5 DEF LastTickRight
    <2>2. Right'
      <3>1. SUFFICES ASSUME ~Right, SeenAge < Interval PROVE FALSE
        BY <1>4
      <3>2. SeenAge >= steady - Gap \/ SeenAge >= Interval
        BY <1>1, <1>5, <2>1, <3>1 DEF WrongAges
      <3>. QED
        BY <1>5, <2>1, <3>1, <3>2
    <2>3. mon'.err = ~link
      BY <1>2, <2>2 DEF Right
    <2>. QED
      BY <1>2, <2>3
  <1>. QED
    BY <1>6, <1>7, <1>8, <1>9 DEF IInv

\* The sampler takes a sample, or waits.
LEMMA SnapshotKeeps ==
  ASSUME TypeOK, SamplerOK, Snapshot
  PROVE  SamplerOK' /\ smp' \in SmpType
  <1>1. smp \in SmpType
    BY DEF TypeOK, SmpType
  <1>2. CASE UNCHANGED samplerVars
    BY <1>1, <1>2 DEF samplerVars, SamplerOK
  <1>3. CASE ~ (smp.age < Interval)
    <2>1. PICK sample \in [Resources -> {"high", "mid", "low"}] :
            LET next == [r \in Resources |-> Hysteresis(smp.hot[r], smp.streak[r], sample[r])] IN
            /\ smp' = [age |-> 0, hot |-> [r \in Resources |-> next[r].hot],
                       streak |-> [r \in Resources |-> next[r].streak]]
            /\ ref' = [r \in Resources |-> Reference(ref[r], sample[r])]
      BY <1>3 DEF Snapshot
    <2>. DEFINE H(r) == Hysteresis(smp.hot[r], smp.streak[r], sample[r])
    <2>2. ASSUME NEW r \in Resources
          PROVE  /\ H(r).hot \in BOOLEAN /\ H(r).streak \in -1 .. 2
                 /\ Reference(ref[r], sample[r]) \in RefType
                 /\ Counted(H(r).hot, H(r).streak, Reference(ref[r], sample[r]))
      <3>1. /\ smp.hot[r] \in BOOLEAN /\ smp.streak[r] \in -1 .. 2 /\ ref[r] \in RefType
            /\ Counted(smp.hot[r], smp.streak[r], ref[r]) /\ sample[r] \in {"high", "mid", "low"}
        BY <1>1 DEF SamplerOK, SmpType
      <3>. QED
        BY <3>1, HysteresisFollows, Zenon
    <2>3. /\ smp' = [age |-> 0, hot |-> [r \in Resources |-> H(r).hot],
                     streak |-> [r \in Resources |-> H(r).streak]]
          /\ ref' = [r \in Resources |-> Reference(ref[r], sample[r])]
      BY <2>1
    <2>. HIDE DEF H
    <2>4. 0 \in 0 .. Interval
      BY HealthAssumption
    <2>5. smp' \in SmpType
      <3>1. /\ [r \in Resources |-> H(r).hot] \in [Resources -> BOOLEAN]
            /\ [r \in Resources |-> H(r).streak] \in [Resources -> -1 .. 2]
        BY <2>2
      <3>. QED
        BY <2>3, <2>4, <3>1 DEF SmpType
    <2>6. \A r \in Resources : /\ smp'.hot[r] = H(r).hot /\ smp'.streak[r] = H(r).streak
                               /\ ref'[r] = Reference(ref[r], sample[r])
      BY <2>3
    <2>7. ref' \in [Resources -> RefType]
      BY <2>2, <2>3
    <2>. QED
      BY <2>2, <2>5, <2>6, <2>7 DEF SamplerOK
  <1>. QED
    BY <1>2, <1>3 DEF Snapshot

LEMMA HeartbeatStep ==
  ASSUME IInv, Heartbeat
  PROVE  IInv'
  <1>1. TypeOK /\ SamplerOK /\ WindowIsRecent /\ WrongAges /\ LastTickRight
    BY DEF IInv
  <1>2. /\ path' = Reset /\ Snapshot /\ mon' = Check(0)
        /\ UNCHANGED <<link, steady, quiet, offset, sched, checked>>
    BY DEF Heartbeat
  <1>3. mon' \in MonType /\ (Right' \/ (mon' = mon /\ ~Right))
    BY <1>1, <1>2, CheckKeeps, HealthAssumption
  <1>4. SamplerOK' /\ smp' \in SmpType
    BY <1>1, <1>2, SnapshotKeeps
  <1>5. path' \in PathType /\ WindowOK(path')
    BY <1>1, <1>2, WindowType
  <1>6. TypeOK'
    BY <1>1, <1>2, <1>3, <1>4, <1>5 DEF TypeOK, MonType, SmpType, PathType, WindowOK
  <1>7. WindowIsRecent'
    BY <1>1, <1>2 DEF WindowIsRecent, Reset, NoWindow
  <1>8. WrongAges' /\ LastTickRight'
    BY <1>1, <1>2, <1>3 DEF WrongAges, LastTickRight, Right, SeenAge
  <1>. QED
    BY <1>4, <1>6, <1>7, <1>8 DEF IInv

\* A new calibration, a link that comes or goes: the count starts again.
LEMMA ChangeStep ==
  ASSUME IInv, HeartbeatAnswered \/ LinkChanges
  PROVE  IInv'
  <1>1. TypeOK /\ SamplerOK /\ WindowIsRecent /\ WrongAges /\ LastTickRight
    BY DEF IInv
  <1>2. UNCHANGED <<quiet, mon, sched, path, checked, smp, ref>>
    BY DEF HeartbeatAnswered, LinkChanges, pathVars, samplerVars, monitorVars
  <1>3. SamplerOK' /\ WindowIsRecent'
    BY <1>1, <1>2 DEF SamplerOK, WindowIsRecent
  <1>4. offset' \in Offsets /\ link' \in BOOLEAN
    BY <1>1 DEF TypeOK, HeartbeatAnswered, LinkChanges, monitorVars
  <1>5. steady' = 0 \/ UNCHANGED <<link, steady, offset>>
    BY DEF HeartbeatAnswered, LinkChanges
  <1>6. /\ quiet \in Int /\ 0 <= quiet /\ Gap \in Int /\ Interval \in Int /\ 0 < Interval /\ 0 < Gap
        /\ 0 \in 0 .. Settled
    BY <1>1, MonitorTypes, HealthAssumption DEF Settled
  <1>7. TypeOK'
    <2>1. steady' \in 0 .. Settled
      BY <1>1, <1>5, <1>6 DEF TypeOK
    <2>. QED
      BY <1>1, <1>2, <1>4, <2>1 DEF TypeOK
  <1>8. CASE steady' = 0
    <2>1. ~ (steady' > quiet') /\ ~ (steady' - quiet' >= Interval + Gap)
      BY <1>2, <1>6, <1>8
    <2>. QED
      BY <1>3, <1>7, <2>1 DEF IInv, WrongAges, LastTickRight
  <1>9. CASE UNCHANGED <<link, steady, offset>>
    BY <1>2, <1>3, <1>7, <1>9, MonitorUntouched DEF IInv
  <1>. QED
    BY <1>5, <1>8, <1>9

\* Time passes: an untouched verdict ages, up to where nobody takes it for fresh.
LEMMA ElapseStep ==
  ASSUME IInv, Elapse
  PROVE  IInv'
  <1>1. TypeOK /\ SamplerOK /\ WindowIsRecent /\ WrongAges /\ LastTickRight
    BY DEF IInv
  <1>2. /\ quiet < Gap /\ quiet' = quiet + 1 /\ steady' = Capped(steady + 1, Settled)
        /\ checked' = [t \in Targets |-> Capped(checked[t] + 1, Window)]
        /\ UNCHANGED <<link, offset, sched, ref>>
    BY DEF Elapse
  <1>3. mon \in MonType /\ path \in PathType /\ smp \in SmpType /\ WindowOK(path)
        /\ checked \in [Targets -> 0 .. Window]
    BY <1>1 DEF TypeOK, MonType, PathType, SmpType, WindowOK
  <1>4. /\ steady \in Int /\ quiet \in Int /\ 0 <= quiet /\ quiet <= Gap /\ Gap \in Int
        /\ Interval \in Int /\ 0 < Interval /\ 0 < Gap
        /\ steady <= Interval + 2 * Gap /\ 0 <= steady
        /\ mon.age \in Int /\ mon.clock \in Int /\ offset \in Int /\ SeenAge \in Int
        /\ mon.age >= 0 /\ mon.age <= Ancient /\ Ancient \in Int
    BY <1>1, MonitorTypes
  <1>5. Settled \in Nat /\ Settled = Interval + 2 * Gap /\ Ancient \in Nat /\ Window \in Nat /\ Interval \in Nat
    BY HealthAssumption DEF Settled, Ancient
  <1>6. /\ mon'.tested = mon.tested /\ mon'.clock = mon.clock /\ mon'.err = mon.err
        /\ mon'.age = IF mon.tested THEN Capped(mon.age + 1, Ancient) ELSE mon.age
        /\ mon' \in MonType
    <2>. DEFINE a == IF mon.tested THEN Capped(mon.age + 1, Ancient) ELSE mon.age
    <2>1. a \in 0 .. Ancient
      <3>1. mon.age + 1 \in Nat /\ mon.age \in 0 .. Ancient
        BY <1>4
      <3>2. Capped(mon.age + 1, Ancient) \in 0 .. Ancient
        BY <1>5, <3>1, CappedType
      <3>. QED
        BY <3>1, <3>2
    <2>2. mon' = [mon EXCEPT !.age = a]
      BY DEF Elapse
    <2>. HIDE DEF a
    <2>3. mon' \in MonType /\ mon'.age = a /\ mon'.tested = mon.tested /\ mon'.clock = mon.clock
          /\ mon'.err = mon.err
      BY <1>3, <2>1, <2>2 DEF MonType
    <2>. QED
      BY <2>3 DEF a
  <1>7. /\ path'.total = path.total /\ path'.errors = path.errors /\ path'.targets = path.targets
        /\ path'.age = Capped(path.age + 1, Window) /\ path' \in PathType
    <2>1. path.age + 1 \in Nat
      BY <1>3 DEF PathType
    <2>2. Capped(path.age + 1, Window) \in 0 .. Window
      BY <1>5, <2>1, CappedType
    <2>3. path' = [path EXCEPT !.age = Capped(path.age + 1, Window)]
      BY DEF Elapse
    <2>. QED
      BY <1>3, <2>2, <2>3 DEF PathType
  <1>8. smp'.hot = smp.hot /\ smp'.streak = smp.streak /\ smp' \in SmpType
    <2>1. smp.age + 1 \in Nat
      BY <1>3 DEF SmpType
    <2>2. Capped(smp.age + 1, Interval) \in 0 .. Interval
      BY <1>5, <2>1, CappedType
    <2>3. smp' = [smp EXCEPT !.age = Capped(smp.age + 1, Interval)]
      BY DEF Elapse
    <2>. QED
      BY <1>3, <2>2, <2>3 DEF SmpType
  <1>9. checked' \in [Targets -> 0 .. Window]
    <2>1. \A t \in Targets : Capped(checked[t] + 1, Window) \in 0 .. Window
      <3>1. SUFFICES ASSUME NEW t \in Targets PROVE Capped(checked[t] + 1, Window) \in 0 .. Window
        OBVIOUS
      <3>2. checked[t] + 1 \in Nat
        BY <1>3
      <3>. QED
        BY <1>5, <3>2, CappedType
    <2>. QED
      BY <1>2, <2>1
  <1>10. TypeOK'
    <2>1. steady' \in 0 .. Settled
      <3>1. steady + 1 \in Nat
        BY <1>4
      <3>. QED
        BY <1>2, <1>5, <3>1, CappedType
    <2>2. quiet' \in 0 .. Gap
      BY <1>2, <1>4
    <2>3. WindowOK(path')
      BY <1>3, <1>7 DEF WindowOK
    <2>. QED
      BY <1>1, <1>2, <1>6, <1>7, <1>8, <1>9, <2>1, <2>2, <2>3
      DEF TypeOK, MonType, PathType, SmpType, WindowOK
  <1>11. SamplerOK'
    BY <1>1, <1>2, <1>8 DEF SamplerOK
  <1>12. WindowIsRecent'
    <2>1. SUFFICES ASSUME path'.age < Window, NEW t \in path.targets PROVE checked'[t] <= path'.age
      BY <1>7 DEF WindowIsRecent
    <2>2. t \in Targets /\ path.age \in 0 .. Window /\ checked[t] \in 0 .. Window
      BY <1>3 DEF PathType
    <2>3. path'.age = path.age + 1 /\ path.age < Window
      BY <1>5, <1>7, <2>1, <2>2 DEF Capped
    <2>4. checked[t] <= path.age
      BY <1>1, <2>3 DEF WindowIsRecent
    <2>5. checked'[t] = Capped(checked[t] + 1, Window)
      BY <1>2, <2>2
    <2>6. checked'[t] <= checked[t] + 1 /\ checked'[t] \in Int
      BY <1>5, <2>2, <2>5 DEF Capped
    <2>. QED
      BY <2>2, <2>3, <2>4, <2>6
  <1>13. WrongAges'
    <2>1. SUFFICES ASSUME ~Right', steady' > quiet'
                   PROVE  mon'.tested = TRUE /\ (SeenAge' >= steady' - Gap \/ SeenAge' >= Interval)
      BY DEF WrongAges
    <2>2. ~Right
      BY <1>2, <1>6, <2>1 DEF Right
    <2>3. steady' <= steady + 1 /\ steady' \in Int
      BY <1>2, <1>4, <1>5 DEF Capped
    <2>4. steady > quiet
      BY <1>2, <1>4, <2>1, <2>3
    <2>5. mon.tested = TRUE /\ (SeenAge >= steady - Gap \/ SeenAge >= Interval)
      BY <1>1, <2>2, <2>4 DEF WrongAges
    <2>6. CASE mon.age + 1 < Ancient
      <3>1. mon'.age = mon.age + 1
        BY <1>6, <2>5, <2>6 DEF Capped
      <3>2. SeenAge' = SeenAge + 1
        BY <1>2, <1>4, <1>6, <3>1 DEF SeenAge
      <3>3. SeenAge' >= steady' - Gap \/ SeenAge' >= Interval
        <4>1. CASE SeenAge >= steady - Gap
          <5>1. PICK x \in Int, d \in Int : x = SeenAge /\ d = steady'
            BY <1>4, <2>3
          <5>2. d <= steady + 1 /\ x >= steady - Gap
            BY <2>3, <4>1, <5>1
          <5>3. x + 1 >= d - Gap
            BY <1>4, <5>2
          <5>. QED
            BY <3>2, <5>1, <5>3
        <4>2. CASE SeenAge >= Interval
          BY <1>4, <3>2, <4>2
        <4>. QED
          BY <2>5, <4>1, <4>2
      <3>. QED
        BY <1>6, <2>5, <3>3
    <2>7. CASE ~ (mon.age + 1 < Ancient)
      <3>1. mon'.age = Ancient
        BY <1>6, <2>5, <2>7 DEF Capped
      <3>2. mon.clock - offset <= MaxSkew /\ MaxSkew \in Int /\ Ancient = Interval + MaxSkew
        <4>1. mon.clock \in Offsets /\ offset \in Offsets
          BY <1>1 DEF TypeOK
        <4>2. \A a, b \in Offsets : a - b <= MaxSkew
          BY HealthAssumption
        <4>3. MaxSkew \in Int
          BY HealthAssumption
        <4>. QED
          BY <4>1, <4>2, <4>3 DEF Ancient
      <3>3. SeenAge' = Ancient + offset - mon.clock
        BY <1>2, <1>6, <3>1 DEF SeenAge
      <3>. QED
        <4>1. SeenAge' >= Interval
          BY <1>4, <3>2, <3>3
        <4>. QED
          BY <1>6, <2>5, <4>1
    <2>. QED
      BY <2>6, <2>7
  <1>14. LastTickRight'
    <2>1. steady' - quiet' <= steady - quiet
      BY <1>2, <1>4, <1>5 DEF Capped
    <2>2. steady' \in Int
      BY <1>2, <1>4, <1>5 DEF Capped
    <2>3. steady' - quiet' >= Interval + Gap => steady - quiet >= Interval + Gap
      BY <1>2, <1>4, <2>1, <2>2
    <2>. QED
      BY <1>1, <1>2, <2>3 DEF LastTickRight
  <1>. QED
    BY <1>10, <1>11, <1>12, <1>13, <1>14 DEF IInv

-----------------------------------------------------------------------------
(* The window                                                              *)

\* A tick's results: the counts stay below each other and the targets below
\* the cap, and what joins the window has just been checked.
LEMMA RecordKeeps ==
  ASSUME TypeOK, WindowIsRecent, NEW results, DOMAIN results \subseteq Targets, Record(results)
  PROVE  path' \in PathType /\ WindowOK(path') /\ checked' \in [Targets -> 0 .. Window] /\ WindowIsRecent'
  <1>. DEFINE counted == {t \in DOMAIN results : results[t] # "invalid"}
              failed  == {t \in counted : results[t] = "network"}
              w       == Reset
  <1>1. PICK tracked \in SUBSET (counted \ w.targets) :
          /\ Cardinality(tracked) = Capped(Cardinality(counted \ w.targets),
                                           MaxTracked - Cardinality(w.targets))
          /\ w.total + Cardinality(counted) <= MaxTotal
          /\ path' = IF counted = {} THEN path
                     ELSE [age     |-> w.age,
                           total   |-> w.total + Cardinality(counted),
                           errors  |-> w.errors + Cardinality(failed),
                           targets |-> w.targets \union tracked]
          /\ checked' = [t \in Targets |-> IF t \in counted THEN 0 ELSE checked[t]]
    BY DEF Record
  <1>2. counted \subseteq Targets /\ failed \subseteq counted /\ IsFiniteSet(Targets)
    BY HealthAssumption
  <1>. HIDE DEF counted, failed
  <1>3. /\ w \in PathType /\ WindowOK(w) /\ path \in PathType /\ WindowOK(path)
        /\ checked \in [Targets -> 0 .. Window]
    BY WindowType DEF TypeOK, PathType, WindowOK
  <1>4. w.age < Window => \A t \in w.targets : checked[t] <= w.age
    <2>1. CASE path.age >= Window
      BY <2>1 DEF Reset, NoWindow
    <2>2. CASE ~ (path.age >= Window)
      BY <2>2 DEF Reset, WindowIsRecent
    <2>. QED
      BY <2>1, <2>2
  <1>. HIDE DEF w
  <1>5. w.targets \subseteq Targets /\ w.total \in Nat /\ w.errors \in Nat /\ w.age \in 0 .. Window
        /\ w.errors <= w.total /\ Cardinality(w.targets) <= MaxTracked
    BY <1>3 DEF PathType, WindowOK
  <1>6. IsFiniteSet(counted) /\ IsFiniteSet(failed) /\ IsFiniteSet(w.targets) /\ IsFiniteSet(tracked)
    BY <1>2, <1>5, FS_Subset
  <1>7. /\ Cardinality(counted) \in Nat /\ Cardinality(failed) \in Nat
        /\ Cardinality(w.targets) \in Nat /\ Cardinality(tracked) \in Nat
        /\ Cardinality(failed) <= Cardinality(counted)
    BY <1>2, <1>6, FS_CardinalityType, FS_Subset
  <1>8. MaxTotal \in Nat /\ MaxTracked \in Nat /\ Window \in Nat
    BY HealthAssumption
  <1>9. Cardinality(tracked) <= MaxTracked - Cardinality(w.targets)
    <2>1. Cardinality(counted \ w.targets) \in Nat
      <3>1. IsFiniteSet(counted \ w.targets)
        BY <1>6, FS_Subset
      <3>. QED
        BY <3>1, FS_CardinalityType
    <2>. QED
      BY <1>1, <1>7, <1>8, <2>1 DEF Capped
  <1>10. Cardinality(w.targets \union tracked) <= MaxTracked
    <2>1. Cardinality(w.targets \union tracked)
            = Cardinality(w.targets) + Cardinality(tracked) - Cardinality(w.targets \intersect tracked)
      BY <1>6, FS_Union
    <2>2. Cardinality(w.targets \intersect tracked) \in Nat
      <3>1. IsFiniteSet(w.targets \intersect tracked)
        BY <1>6, FS_Subset
      <3>. QED
        BY <3>1, FS_CardinalityType
    <2>. QED
      BY <1>7, <1>8, <1>9, <2>1, <2>2
  <1>11. checked' \in [Targets -> 0 .. Window]
    BY <1>1, <1>3, <1>8
  <1>12. CASE counted = {}
    <2>1. path' = path /\ checked' = checked
      BY <1>1, <1>3, <1>12
    <2>. QED
      BY <1>3, <2>1 DEF WindowIsRecent
  <1>13. CASE counted # {}
    <2>1. path' = [age |-> w.age, total |-> w.total + Cardinality(counted),
                   errors |-> w.errors + Cardinality(failed), targets |-> w.targets \union tracked]
      BY <1>1, <1>13
    <2>2. /\ w.total + Cardinality(counted) \in 0 .. MaxTotal
          /\ w.errors + Cardinality(failed) \in 0 .. MaxTotal
          /\ w.errors + Cardinality(failed) <= w.total + Cardinality(counted)
      BY <1>1, <1>5, <1>7, <1>8
    <2>3. w.targets \union tracked \in SUBSET Targets
      BY <1>2, <1>5
    <2>4. path' \in PathType /\ WindowOK(path')
      BY <1>5, <1>10, <2>1, <2>2, <2>3 DEF PathType, WindowOK
    <2>5. ASSUME w.age < Window, NEW t \in w.targets \union tracked PROVE checked'[t] <= w.age
      <3>1. CASE t \in counted
        BY <1>1, <1>2, <1>5, <3>1
      <3>2. CASE t \notin counted
        <4>1. t \in w.targets /\ t \in Targets
          BY <1>5, <2>5, <3>2
        <4>. QED
          BY <1>1, <1>4, <2>5, <3>2, <4>1
      <3>. QED
        BY <3>1, <3>2
    <2>6. WindowIsRecent'
      BY <2>1, <2>5 DEF WindowIsRecent
    <2>. QED
      BY <1>11, <2>4, <2>6
  <1>. QED
    BY <1>11, <1>12, <1>13

LEMMA TickDoneStep ==
  ASSUME IInv, TickDone
  PROVE  IInv'
  <1>1. TypeOK /\ SamplerOK /\ WindowIsRecent /\ WrongAges /\ LastTickRight
    BY DEF IInv
  <1>2. /\ sched = "running" /\ sched' = "ran"
        /\ UNCHANGED <<link, steady, quiet, offset, mon, smp, ref>>
    BY DEF TickDone, samplerVars
  <1>3a. PICK some \in SUBSET Targets :
           \E results \in [some -> {"ok", "network", "invalid"}] : Record(results)
    BY DEF TickDone
  <1>3. PICK results \in [some -> {"ok", "network", "invalid"}] : Record(results)
    BY <1>3a
  <1>4. DOMAIN results \subseteq Targets
    BY <1>3
  <1>5. path' \in PathType /\ WindowOK(path') /\ checked' \in [Targets -> 0 .. Window] /\ WindowIsRecent'
    BY <1>1, <1>3, <1>4, RecordKeeps
  <1>6. TypeOK'
    BY <1>1, <1>2, <1>5 DEF TypeOK, PathType, WindowOK
  <1>7. SamplerOK' /\ WrongAges' /\ LastTickRight'
    BY <1>1, <1>2 DEF SamplerOK, WrongAges, LastTickRight, Right, SeenAge
  <1>. QED
    BY <1>5, <1>6, <1>7 DEF IInv

-----------------------------------------------------------------------------
(* The theorems                                                            *)

LEMMA InitIInv == Init => IInv
  <1>. SUFFICES ASSUME Init PROVE IInv
    OBVIOUS
  <1>1. /\ link \in BOOLEAN /\ steady = 0 /\ quiet = 0 /\ offset = 0 /\ sched = "none"
        /\ mon = [tested |-> FALSE, age |-> 0, clock |-> 0, err |-> FALSE]
        /\ path = NoWindow /\ checked = [t \in Targets |-> Window]
        /\ smp = [age |-> Interval, hot |-> [r \in Resources |-> FALSE],
                  streak |-> [r \in Resources |-> 0]]
        /\ ref = [r \in Resources |-> [seen |-> "none", hot |-> FALSE]]
    BY DEF Init
  <1>2. /\ 0 \in 0 .. Settled /\ 0 \in 0 .. Gap /\ 0 \in Offsets /\ 0 \in 0 .. Ancient
        /\ Window \in 0 .. Window /\ 0 \in 0 .. MaxTotal /\ MaxTracked \in Nat /\ Interval \in 0 .. Interval
        /\ 0 \in -1 .. 2 /\ Interval \in Nat \ {0} /\ Gap \in Nat /\ Window \in Nat
    BY HealthAssumption DEF Settled, Ancient
  <1>3. path.age = Window /\ path.targets = {} /\ path.errors = 0 /\ path.total = 0 /\ path \in PathType
    BY <1>1, <1>2 DEF NoWindow, PathType
  <1>4. mon \in MonType
    BY <1>1, <1>2 DEF MonType
  <1>5. smp \in SmpType /\ smp.hot = [r \in Resources |-> FALSE] /\ smp.streak = [r \in Resources |-> 0]
    BY <1>1, <1>2 DEF SmpType
  <1>6. TypeOK
    <2>1. path.errors <= path.total /\ Cardinality(path.targets) <= MaxTracked
      BY <1>2, <1>3, FS_EmptySet
    <2>2. checked \in [Targets -> 0 .. Window]
      BY <1>1, <1>2
    <2>. QED
      BY <1>1, <1>2, <1>3, <1>4, <1>5, <2>1, <2>2 DEF TypeOK, PathType, MonType, SmpType
  <1>7. SamplerOK
    <2>1. [seen |-> "none", hot |-> FALSE] \in RefType
      BY DEF RefType
    <2>2. \A r \in Resources : ref[r].seen = "none" /\ ref[r].hot = FALSE
      BY <1>1
    <2>3. \A r \in Resources : smp.hot[r] = FALSE /\ smp.streak[r] = 0
      BY <1>5
    <2>4. ref \in [Resources -> RefType]
      BY <1>1, <2>1
    <2>. QED
      BY <2>2, <2>3, <2>4 DEF SamplerOK, Counted
  <1>8. WindowIsRecent
    BY <1>2, <1>3 DEF WindowIsRecent
  <1>9. WrongAges /\ LastTickRight
    BY <1>1, <1>2 DEF WrongAges, LastTickRight
  <1>. QED
    BY <1>6, <1>7, <1>8, <1>9 DEF IInv

LEMMA NextIInv == IInv /\ [Next]_vars => IInv'
  <1>. SUFFICES ASSUME IInv, [Next]_vars PROVE IInv'
    OBVIOUS
  <1>1. CASE UNCHANGED vars
    BY <1>1 DEF vars, monitorVars, pathVars, samplerVars, IInv, TypeOK, SamplerOK, WindowIsRecent,
                WrongAges, LastTickRight, Right, SeenAge
  <1>. QED
    BY <1>1, SchedulerTickStep, TickDoneStep, HeartbeatStep, ChangeStep, ElapseStep DEF Next

\* TypeOK: the streak stays between one low and the highs that count, the
\* window's counts and its targets within their caps.
THEOREM TypeCorrect == Spec => []TypeOK
  <1>1. IInv => TypeOK
    BY DEF IInv
  <1>. QED
    BY <1>1, InitIInv, NextIInv, PTL DEF Spec

\* check: for any clocks, any test interval and any length of the scheduler's
\* ticks, a binding steady for an interval and two ticks is what it acts on.
THEOREM SchedulerFollowsBinding == Spec => []BindingFollowed
  <1>1. IInv => BindingFollowed
    <2>1. SUFFICES ASSUME IInv, steady >= Settled PROVE sched = "paused" <=> ~link
      BY DEF BindingFollowed
    <2>2. /\ steady \in Int /\ quiet \in Int /\ quiet <= Gap /\ Gap \in Int /\ Interval \in Int
          /\ Settled = Interval + 2 * Gap
      <3>1. TypeOK
        BY <2>1 DEF IInv
      <3>. QED
        BY <3>1, MonitorTypes DEF Settled
    <2>3. steady - quiet >= Interval + Gap
      BY <2>1, <2>2
    <2>. QED
      BY <2>1, <2>3 DEF IInv, LastTickRight
  <1>. QED
    BY <1>1, InitIInv, NextIInv, PTL DEF Spec

\* pathHealth: for any window, cap and number of targets, a path is reported
\* degraded only on targets checked within the window.
THEOREM DegradedPathsAreRecent == Spec => []DegradedIsRecent
  <1>1. IInv => DegradedIsRecent
    <2>1. SUFFICES ASSUME IInv, Degraded
                   PROVE  Cardinality({t \in Targets : checked[t] < Window}) >= MinTargets
      BY DEF DegradedIsRecent
    <2>. DEFINE recent == {t \in Targets : checked[t] < Window}
    <2>2. TypeOK /\ WindowIsRecent /\ Cardinality(Reset.targets) >= MinTargets /\ Reset.total > 0
      BY <2>1 DEF IInv, Degraded
    <2>3. path.age < Window /\ Reset = path
      <3>1. path.age \in Int /\ Window \in Int
        BY <2>2, HealthAssumption DEF TypeOK
      <3>2. CASE path.age >= Window
        <4>1. Reset.total = 0
          BY <3>2 DEF Reset, NoWindow
        <4>. QED
          BY <2>2, <4>1
      <3>3. CASE ~ (path.age >= Window)
        BY <3>1, <3>3 DEF Reset
      <3>. QED
        BY <3>2, <3>3
    <2>4. path.targets \subseteq recent
      <3>1. SUFFICES ASSUME NEW t \in path.targets PROVE t \in Targets /\ checked[t] < Window
        OBVIOUS
      <3>2. t \in Targets /\ checked[t] \in 0 .. Window /\ path.age \in 0 .. Window /\ Window \in Nat
        BY <2>2, HealthAssumption DEF TypeOK
      <3>3. checked[t] <= path.age
        BY <2>2, <2>3 DEF WindowIsRecent
      <3>. QED
        BY <2>3, <3>2, <3>3
    <2>5. IsFiniteSet(recent)
      BY HealthAssumption, FS_Subset
    <2>. HIDE DEF recent
    <2>6. Cardinality(path.targets) <= Cardinality(recent) /\ Cardinality(recent) \in Nat
          /\ Cardinality(path.targets) \in Nat
      BY <2>4, <2>5, FS_Subset, FS_CardinalityType
    <2>7. Cardinality(recent) >= MinTargets
      BY <2>2, <2>3, <2>6, HealthAssumption
    <2>. QED
      BY <2>7 DEF recent
  <1>. QED
    BY <1>1, InitIInv, NextIInv, PTL DEF Spec

\* hysteresis: after any sequence of samples, each resource is in the state that
\* two highs with no low between them, or two lows with no high between them,
\* last put it in; samples between the thresholds are not counted.
THEOREM PressureNeedsTwoSamples == Spec => []PressureHysteresis
  <1>1. IInv => PressureHysteresis
    BY DEF IInv, SamplerOK, Counted, PressureHysteresis
  <1>. QED
    BY <1>1, InitIInv, NextIInv, PTL DEF Spec
=============================================================================
