------------------------------ MODULE Scheduler ------------------------------
(***************************************************************************)
(* Which probes run in which tick (internal/agent): the due-ness clock     *)
(* (clock.go), the assignment, its restoring and its staggering (cache.go, *)
(* agent.go), the per-tick job budget shared with triggered runs           *)
(* (runDueProbes, takeDueProbes) and the persisted run times (MarkProbesRun*)
(* and SaveAssignment of internal/store/probes.go).                        *)
(*                                                                         *)
(* The heartbeat and the scheduler goroutine share the cache; each of its  *)
(* critical sections and each transaction is a step.  Times are server     *)
(* time in scheduler ticks.                                                *)
(***************************************************************************)
EXTENDS Integers, FiniteSets

CONSTANTS
  Probes,        \* probe ids, as numbers: the order of their ids
  Interval,      \* IntervalSeconds of each
  Count,         \* probe_count of each
  Never,         \* the zero time: before every other
  Jitter,        \* --startup-jitter
  JobsPerTick, JobsPerProbe, TriggersPerTick,  \* the three scheduler limits
  MaxQueue,      \* bound: triggers waiting
  Skew,          \* how far the local clock is ahead of the server's
  MaxTime,       \* bound: ticks
  MaxCrashes     \* bound: process crashes

ASSUME SchedulerAssumption ==
  /\ Probes \subseteq Nat /\ IsFiniteSet(Probes)
  /\ Interval \in [Probes -> Nat \ {0}] /\ Count \in [Probes -> Nat]
  /\ Jitter \in Nat /\ MaxQueue \in Nat /\ MaxTime \in Nat /\ MaxCrashes \in Nat
  /\ JobsPerTick \in Nat \ {0} /\ JobsPerProbe \in Nat \ {0} /\ TriggersPerTick \in Nat \ {0}
  /\ Skew \in Int /\ Never \in Int
  /\ \A p \in Probes : Never + Interval[p] < 0 /\ Never + Interval[p] < Skew

VARIABLES
  time,        \* the server's clock
  calibrated,  \* a heartbeat answer has set clockSync.offset
  cache,       \* the cached probes' lastRunAt
  db,          \* the probes table: last_run_at_ms
  ready,       \* a heartbeat has confirmed the node's status
  hb,          \* the heartbeat goroutine
  sch,         \* the scheduler goroutine
  queue,       \* pending triggers
  jobs,        \* jobs started by the current tick
  late,        \* ticks with a budget in which a due probe was left out
  ranAt,       \* server time of each probe's latest remembered run
  crashes

vars == <<time, calibrated, cache, db, ready, hb, sch, queue, jobs, late, ranAt, crashes>>
history == <<jobs, late, ranAt>>

\* A set of probes with a last-run time each.
Row(P, f) == [probes |-> P, last |-> [p \in Probes |-> IF p \in P THEN f[p] ELSE Never]]

NoRuns  == [p \in Probes |-> Never]
NoRow   == Row({}, NoRuns)
IdleHB  == [pc |-> "idle", probes |-> {}]
IdleSch == [pc |-> "idle", due |-> {}, now |-> 0]

Least(a, b) == IF a < b THEN a ELSE b

\* clockSync.now
Now == IF calibrated THEN time ELSE time + Skew

\* Run clamps one probe's jobs to the whole tick's.
PerProbe == Least(JobsPerProbe, JobsPerTick)

Init ==
  /\ time = 0
  /\ calibrated = FALSE
  /\ cache = NoRow
  /\ db = NoRow
  /\ ready = FALSE
  /\ hb = IdleHB
  /\ sch = IdleSch
  /\ queue = 0
  /\ jobs = 0
  /\ late = [p \in Probes |-> 0]
  /\ ranAt = NoRuns
  /\ crashes = 0

-----------------------------------------------------------------------------
(* The assignment                                                          *)

\* Offsets a hash of the id may give the probe.
Offsets(p) == 0 .. Least(Jitter, Interval[p]) - 1

\* Mutant: the interval is not subtracted.
StaggeredAhead(c, now) ==
  IF Jitter = 0 THEN {c}
  ELSE {[c EXCEPT !.last = [p \in Probes |->
           IF p \in c.probes /\ c.last[p] = Never THEN now + off[p] ELSE c.last[p]]] :
          off \in {f \in [Probes -> UNION {Offsets(p) : p \in Probes}] :
                     \A p \in Probes : f[p] \in Offsets(p)}}

\* staggerUnstarted: a probe that never ran gets a made-up last run, so that
\* it falls due within the jitter window.
Staggered(c, now) ==
  IF Jitter = 0 THEN {c}
  ELSE {[c EXCEPT !.last = [p \in Probes |->
           IF p \in c.probes /\ c.last[p] = Never THEN now - Interval[p] + off[p] ELSE c.last[p]]] :
          off \in {f \in [Probes -> UNION {Offsets(p) : p \in Probes}] :
                     \A p \in Probes : f[p] \in Offsets(p)}}

\* A heartbeat answer.  radar-api is taken to send a server_time that parses,
\* so the clock is calibrated.  An assignment that is not both cached and saved
\* comes along; it is saved first, which may fail, and the probes that stay
\* keep their run times.
HeartbeatAnswered(P) ==
  /\ hb.pc = "idle"
  /\ calibrated' = TRUE
  /\ IF P = cache.probes /\ P = db.probes
       THEN hb' = [IdleHB EXCEPT !.pc = "confirm"] /\ UNCHANGED db
       ELSE /\ hb' = [pc |-> "replace", probes |-> P]
            /\ db' = Row(P, db.last) \/ UNCHANGED db
  /\ UNCHANGED <<time, cache, ready, sch, queue, history, crashes>>

\* Mutant: the dropped probes' entries stay in the map.
ReplaceAssignmentMerging ==
  /\ hb.pc = "replace"
  /\ cache' = [cache EXCEPT !.probes = hb.probes]
  /\ hb' = [hb EXCEPT !.pc = "stagger"]
  /\ late' = [p \in Probes |-> 0]
  /\ ranAt' = [p \in Probes |-> IF p \in hb.probes THEN ranAt[p] ELSE Never]
  /\ UNCHANGED <<time, calibrated, db, ready, sch, queue, jobs, crashes>>

\* A probe that leaves takes its memory with it.
ReplaceAssignment ==
  /\ hb.pc = "replace"
  /\ cache' = Row(hb.probes, cache.last)
  /\ hb' = [hb EXCEPT !.pc = "stagger"]
  /\ late' = [p \in Probes |-> 0]
  /\ ranAt' = [p \in Probes |-> IF p \in hb.probes THEN ranAt[p] ELSE Never]
  /\ UNCHANGED <<time, calibrated, db, ready, sch, queue, jobs, crashes>>

StaggerUnstarted ==
  /\ hb.pc = "stagger"
  /\ cache' \in Staggered(cache, Now)
  /\ hb' = [hb EXCEPT !.pc = "confirm"]
  /\ late' = [p \in Probes |-> 0]
  /\ UNCHANGED <<time, calibrated, db, ready, sch, queue, jobs, ranAt, crashes>>

Confirm ==
  /\ hb.pc = "confirm"
  /\ ready' = TRUE
  /\ hb' = IdleHB
  /\ UNCHANGED <<time, calibrated, cache, db, sch, queue, history, crashes>>

-----------------------------------------------------------------------------
(* runDueProbes                                                            *)

\* Triggers of one tick, each charged with PerProbe jobs.
TriggerSlots ==
  IF TriggersPerTick * PerProbe > JobsPerTick
    THEN IF JobsPerTick \div PerProbe < 1 THEN 1 ELSE JobsPerTick \div PerProbe
    ELSE TriggersPerTick

\* Mutant: a trigger is charged as a single job.
BudgetLeftPerTrigger(n) == JobsPerTick - Least(n, JobsPerTick)

\* What n triggers leave for scheduled probes.
BudgetLeft(n) == JobsPerTick - Least(n * PerProbe, JobsPerTick)

\* Mutant: a probe is due one tick early.
DueEarly(now) == {p \in cache.probes : cache.last[p] = Never \/ now + 1 >= cache.last[p] + Interval[p]}

\* probeDueLocked of an active, automatic probe.
Due(now) == {p \in cache.probes : cache.last[p] = Never \/ now >= cache.last[p] + Interval[p]}

\* A probe's jobs: at least one, within both limits.
JobsOf(p, budget) ==
  Least(Least(IF Count[p] < 1 THEN 1 ELSE Count[p], PerProbe), budget)

\* Mutant: the most recent run comes first.
BeforeNewest(p, q) ==
  cache.last[p] > cache.last[q] \/ (cache.last[p] = cache.last[q] /\ p < q)

\* Longest without a run first, then by id.
Before(p, q) == cache.last[p] < cache.last[q] \/ (cache.last[p] = cache.last[q] /\ p < q)

\* The jobs a set of probes starts.
Used(T, budget) == Cardinality({j \in T \X (1 .. budget) : j[2] <= JobsOf(j[1], budget)})

\* takeDueProbes, first fit in that order: what does not fit next to the ones
\* taken before it is left out, a later one may fit.
TakeDue(T, due, budget) ==
  \A p \in due : p \in T <=>
    budget > 0 /\ Used({q \in T : Before(q, p)}, budget) + JobsOf(p, budget) <= budget

\* One tick up to the end of its checks: triggers are drained, the rest of
\* the budget goes to due probes, which are marked before they run.
RunDueProbes ==
  /\ sch.pc = "idle" /\ ready
  /\ LET n      == Least(queue, TriggerSlots)
         budget == BudgetLeft(n)
         due    == Due(Now)
     IN
     \E T \in SUBSET due :
       /\ TakeDue(T, due, budget)
       /\ queue' = queue - n
       /\ \E each \in IF n = 0 THEN {0} ELSE 1 .. PerProbe : jobs' = Used(T, budget) + n * each
       /\ cache' = [cache EXCEPT !.last = [p \in Probes |-> IF p \in T THEN Now ELSE @[p]]]
       /\ sch' = IF T = {} THEN sch ELSE [pc |-> "mark", due |-> T, now |-> Now]
       /\ late' = [p \in Probes |->
            IF p \in due \ T THEN IF budget > 0 THEN late[p] + 1 ELSE late[p] ELSE 0]
       /\ ranAt' = [p \in Probes |-> IF p \in T THEN time ELSE ranAt[p]]
  /\ UNCHANGED <<time, calibrated, db, ready, hb, crashes>>

\* UPDATE probes ... WHERE id IN: only rows that are still there.  An error
\* is logged.
MarkProbesRun ==
  /\ sch.pc = "mark"
  /\ \/ db' = [db EXCEPT !.last = [p \in Probes |->
                 IF p \in sch.due \intersect db.probes THEN sch.now ELSE @[p]]]
     \/ UNCHANGED db
  /\ sch' = IdleSch
  /\ UNCHANGED <<time, calibrated, cache, ready, hb, queue, history, crashes>>

-----------------------------------------------------------------------------
Tick ==
  /\ time < MaxTime
  /\ time' = time + 1
  /\ UNCHANGED <<calibrated, cache, db, ready, hb, sch, queue, history, crashes>>

\* A heartbeat brings triggers.
TriggersArrive ==
  /\ queue < MaxQueue
  /\ queue' = queue + 1
  /\ UNCHANGED <<time, calibrated, cache, db, ready, hb, sch, history, crashes>>

\* Restart: LoadProbeStates (which may fail), then staggering, before any
\* heartbeat.  A run the table does not hold is forgotten.
Crash(load) ==
  /\ crashes < MaxCrashes
  /\ crashes' = crashes + 1
  /\ calibrated' = FALSE
  /\ cache' \in Staggered(IF load THEN db ELSE NoRow, time + Skew)
  /\ ready' = FALSE
  /\ hb' = IdleHB
  /\ sch' = IdleSch
  /\ queue' = 0
  /\ late' = [p \in Probes |-> 0]
  /\ ranAt' = [p \in Probes |-> IF load /\ db.last[p] = cache.last[p] THEN ranAt[p] ELSE Never]
  /\ UNCHANGED <<time, db, jobs>>

Next ==
  \/ \E P \in SUBSET Probes : HeartbeatAnswered(P)
  \/ ReplaceAssignment \/ StaggerUnstarted \/ Confirm
  \/ RunDueProbes \/ MarkProbesRun
  \/ Tick \/ TriggersArrive
  \/ \E load \in BOOLEAN : Crash(load)

Spec == Init /\ [][Next]_vars

-----------------------------------------------------------------------------
(* Properties                                                              *)

RowType == [probes : SUBSET Probes, last : [Probes -> Int]]

\* The shape of the cache, the table and the two goroutines.
TypeOK ==
  /\ time \in 0 .. MaxTime /\ queue \in 0 .. MaxQueue /\ jobs \in Nat
  /\ calibrated \in BOOLEAN /\ ready \in BOOLEAN
  /\ cache \in RowType /\ db \in RowType
  /\ \A p \in Probes \ cache.probes : cache.last[p] = Never
  /\ hb \in [pc : {"idle", "replace", "stagger", "confirm"}, probes : SUBSET Probes]
  /\ sch \in [pc : {"idle", "mark"}, due : SUBSET Probes, now : Int]
  /\ late \in [Probes -> Nat] /\ ranAt \in [Probes -> Int]
  /\ crashes \in 0 .. MaxCrashes

\* Triggered and scheduled runs together start no more jobs than one tick may
\* (README: "cap probe jobs started per scheduler tick").
TickWithinBudget == jobs <= JobsPerTick

\* "probes repeatedly deferred because they were newest cannot starve forever"
\* (takeDueProbes): under an unchanged assignment a due probe waits for each
\* other probe once at most, not counting ticks that triggers use up.
BoundedWait == \A p \in Probes : late[p] < Cardinality(Probes)

\* Two remembered scheduled runs of a probe are at least its interval apart in
\* server time, across resyncs and restarts: only a run whose mark never
\* reached the table can be repeated early.
RunsSpaced ==
  [][\A p \in Probes : ranAt'[p] # ranAt[p] /\ ranAt'[p] # Never /\ ranAt[p] # Never
       => ranAt'[p] - ranAt[p] >= Interval[p]]_vars

\* Once the node runs probes, no probe counts as run in the future, except
\* that the staggering at startup, which comes before any calibration, may put
\* a made-up run ahead by less than the local clock is ahead (clock.go: "all
\* due-ness decisions use corrected time"; Run staggers before the first
\* heartbeat).
FutureWithinSkew ==
  ready => \A p \in cache.probes : cache.last[p] <= time + (IF Skew > 0 THEN Skew - 1 ELSE 0)
=============================================================================
