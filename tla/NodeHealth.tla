----------------------------- MODULE NodeHealth -----------------------------
(***************************************************************************)
(* What a node says about itself: the binding monitor shared by scheduler  *)
(* and heartbeat (internal/agent/bindmonitor.go), the window over recent   *)
(* checks (internal/agent/pathhealth.go) and the pressure states of the    *)
(* health sampler (internal/agent/health.go).                              *)
(*                                                                         *)
(* The two readers of the monitor use two clocks: runDueProbes asks with   *)
(* the calibrated time, the heartbeat with the local one.  Times are kept  *)
(* as ages: a reader whose clock is ahead of the tester's by d takes a     *)
(* test for d older than it is.                                            *)
(***************************************************************************)
EXTENDS Integers, FiniteSets

CONSTANTS
  Interval,   \* bindCheckInterval and healthSampleInterval
  Gap,        \* the longest time between the starts of two scheduler ticks
  Offsets,    \* calibrations of the clock against radar-api's
  MaxSkew,    \* how far apart two of them may be
  Resources,  \* memory, load, steal
  Targets,    \* hosts the checks aim at
  Window,     \* pathHealthWindow
  MinTargets, \* pathMinTargets
  MaxTracked, \* pathMaxTrackedHosts
  MaxTotal    \* bound: checks counted in one window

ASSUME HealthAssumption ==
  /\ Interval \in Nat \ {0} /\ Gap \in Nat \ {0}
  /\ Offsets \subseteq Int /\ 0 \in Offsets
  /\ MaxSkew \in Nat /\ \A a, b \in Offsets : a - b <= MaxSkew
  /\ IsFiniteSet(Targets)
  /\ Resources \subseteq {"memory", "load", "steal"}
  /\ Window \in Nat \ {0} /\ MinTargets \in Nat /\ MaxTracked \in Nat /\ MaxTotal \in Nat

VARIABLES
  link,     \* the configured interface or address can be bound
  steady,   \* time since that, or the calibration, changed
  offset,   \* clockSync.offset
  mon,      \* bindMonitor: tested at all, age of the test and its clock, error
  sched,    \* the latest tick: none yet, running checks, ran them, paused
  quiet,    \* time since it started
  path,     \* pathHealth: age of the window, checks, network errors, targets
  checked,  \* each target's time since it was last checked
  smp,      \* healthSampler: age of the last sample, hot, streak
  ref       \* each resource's last decisive sample and the state it should be in

monitorVars == <<offset, mon, sched>>
pathVars    == <<path, checked>>
samplerVars == <<smp, ref>>
vars == <<link, steady, quiet, monitorVars, pathVars, samplerVars>>

\* Ages beyond which nothing changes any more.
Settled == Interval + 2 * Gap
Ancient == Interval + MaxSkew
Capped(n, cap) == IF n < cap THEN n ELSE cap

NoWindow == [age |-> Window, total |-> 0, errors |-> 0, targets |-> {}]

Init ==
  /\ link \in BOOLEAN /\ steady = 0 /\ quiet = 0
  /\ offset = 0
  /\ mon = [tested |-> FALSE, age |-> 0, clock |-> 0, err |-> FALSE]
  /\ sched = "none"
  /\ path = NoWindow /\ checked = [t \in Targets |-> Window]
  /\ smp = [age |-> Interval, hot |-> [r \in Resources |-> FALSE],
            streak |-> [r \in Resources |-> 0]]
  /\ ref = [r \in Resources |-> [seen |-> "none", hot |-> FALSE]]

-----------------------------------------------------------------------------
(* The binding monitor                                                     *)

\* Mutant: a test from the future counts as fresh.
CheckTrusting(clock) ==
  IF mon.tested /\ mon.age + clock - mon.clock < Interval
    THEN mon
    ELSE [tested |-> TRUE, age |-> 0, clock |-> clock, err |-> ~link]

\* check: the cached verdict within the interval, otherwise a self-test.
Check(clock) ==
  LET age == mon.age + clock - mon.clock IN
  IF mon.tested /\ age >= 0 /\ age < Interval
    THEN mon
    ELSE [tested |-> TRUE, age |-> 0, clock |-> clock, err |-> ~link]

\* runDueProbes: a bind error pauses the probes, due ones stay due.
SchedulerTick ==
  /\ sched # "running"
  /\ mon' = Check(offset)
  /\ sched' = IF mon'.err THEN "paused" ELSE "running"
  /\ quiet' = 0
  /\ UNCHANGED <<link, steady, offset, pathVars, samplerVars>>

-----------------------------------------------------------------------------
(* The window over recent checks                                           *)

\* Mutant: the window never starts over.
ResetNever == path

\* resetLocked: what the window holds when it is next looked at.
Reset == IF path.age >= Window THEN [NoWindow EXCEPT !.age = 0] ELSE path

\* record, for all results of a tick.  Results of misconfigured probes do not
\* count; targets beyond the cap are counted but not told apart.
Record(results) ==
  LET counted == {t \in DOMAIN results : results[t] # "invalid"}
      now     == Reset
  IN \E tracked \in SUBSET (counted \ now.targets) :
       /\ Cardinality(tracked) = Capped(Cardinality(counted \ now.targets),
                                        MaxTracked - Cardinality(now.targets))
       /\ now.total + Cardinality(counted) <= MaxTotal
       /\ path' = IF counted = {} THEN path
                  ELSE [age     |-> now.age,
                        total   |-> now.total + Cardinality(counted),
                        errors  |-> now.errors + Cardinality({t \in counted : results[t] = "network"}),
                        targets |-> now.targets \union tracked]
       /\ checked' = [t \in Targets |-> IF t \in counted THEN 0 ELSE checked[t]]

\* runDueProbes, once the tick's checks have returned.
TickDone ==
  /\ sched = "running"
  /\ sched' = "ran"
  /\ \E some \in SUBSET Targets :
       \E results \in [some -> {"ok", "network", "invalid"}] : Record(results)
  /\ UNCHANGED <<link, steady, quiet, offset, mon, samplerVars>>

\* state: more than pathNetworkRatio of a window's checks, and enough targets.
Degraded ==
  /\ Cardinality(Reset.targets) >= MinTargets
  /\ Reset.total > 0 /\ Reset.errors * 10 >= Reset.total * 7

-----------------------------------------------------------------------------
(* The health sampler                                                      *)

\* Mutant: a change of direction does not restart the count.
HysteresisNoRestart(active, streak, sample) ==
  CASE sample = "high" -> [hot |-> active \/ streak + 1 >= 2, streak |-> Capped(streak + 1, 2)]
    [] sample = "low"  -> LET n == IF streak > 0 THEN -1 ELSE streak - 1 IN
                          IF n <= -2 THEN [hot |-> FALSE, streak |-> 0]
                          ELSE [hot |-> active, streak |-> n]
    [] OTHER           -> [hot |-> active, streak |-> streak]

\* hysteresis: the next state and streak.  A streak above two acts like two.
Hysteresis(active, streak, sample) ==
  CASE sample = "high" -> LET n == IF streak < 0 THEN 1 ELSE streak + 1 IN
                          [hot |-> active \/ n >= 2, streak |-> Capped(n, 2)]
    [] sample = "low"  -> LET n == IF streak > 0 THEN -1 ELSE streak - 1 IN
                          IF n <= -2 THEN [hot |-> FALSE, streak |-> 0]
                          ELSE [hot |-> active, streak |-> n]
    [] OTHER           -> [hot |-> active, streak |-> streak]

\* The reference: two successive high or low samples that agree decide.  One
\* between the thresholds is not counted: high, mid, high are two highs.
Reference(old, sample) ==
  IF sample = "mid" THEN old
  ELSE [seen |-> sample, hot |-> IF sample = old.seen THEN sample = "high" ELSE old.hot]

\* snapshot and sampleLocked: at most once an interval.  A reading that fails
\* repeats the last value, which is one of the values it may have.
Snapshot ==
  IF smp.age < Interval THEN UNCHANGED samplerVars
  ELSE \E sample \in [Resources -> {"high", "mid", "low"}] :
         LET next == [r \in Resources |-> Hysteresis(smp.hot[r], smp.streak[r], sample[r])] IN
         /\ smp' = [age |-> 0, hot |-> [r \in Resources |-> next[r].hot],
                    streak |-> [r \in Resources |-> next[r].streak]]
         /\ ref' = [r \in Resources |-> Reference(ref[r], sample[r])]

-----------------------------------------------------------------------------
\* heartbeatLoop's send: the health of the report, asked with the local clock.
Heartbeat ==
  /\ path' = Reset
  /\ Snapshot
  /\ mon' = Check(0)
  /\ UNCHANGED <<link, steady, quiet, offset, sched, checked>>

\* clockSync.update, when the answer came.
HeartbeatAnswered ==
  /\ offset' \in Offsets
  /\ steady' = IF offset' = offset THEN steady ELSE 0
  /\ UNCHANGED <<link, quiet, mon, sched, pathVars, samplerVars>>

LinkChanges ==
  /\ link' = ~link /\ steady' = 0
  /\ UNCHANGED <<quiet, monitorVars, pathVars, samplerVars>>

Elapse ==
  /\ quiet < Gap
  /\ quiet' = quiet + 1
  /\ steady' = Capped(steady + 1, Settled)
  /\ mon' = [mon EXCEPT !.age = IF mon.tested THEN Capped(@ + 1, Ancient) ELSE @]
  /\ path' = [path EXCEPT !.age = Capped(@ + 1, Window)]
  /\ checked' = [t \in Targets |-> Capped(checked[t] + 1, Window)]
  /\ smp' = [smp EXCEPT !.age = Capped(@ + 1, Interval)]
  /\ UNCHANGED <<link, offset, sched, ref>>

Next == SchedulerTick \/ TickDone \/ Heartbeat \/ HeartbeatAnswered \/ LinkChanges \/ Elapse

Spec == Init /\ [][Next]_vars

-----------------------------------------------------------------------------
(* Properties                                                              *)

\* The monitor's, the scheduler's and the sampler's variables keep their
\* shape; hysteresis keeps the streak between one low and the highs that count.
TypeOK ==
  /\ link \in BOOLEAN /\ steady \in 0 .. Settled /\ quiet \in 0 .. Gap /\ offset \in Offsets
  /\ mon \in [tested : BOOLEAN, age : 0 .. Ancient, clock : Offsets, err : BOOLEAN]
  /\ sched \in {"none", "running", "ran", "paused"}
  /\ path \in [age : 0 .. Window, total : 0 .. MaxTotal, errors : 0 .. MaxTotal, targets : SUBSET Targets]
  /\ path.errors <= path.total /\ Cardinality(path.targets) <= MaxTracked
  /\ checked \in [Targets -> 0 .. Window]
  /\ smp \in [age : 0 .. Interval, hot : [Resources -> BOOLEAN], streak : [Resources -> -1 .. 2]]

\* README: the agent "self-tests the binding every 30s" and pauses the probes
\* while it fails.  However far apart the two readers' clocks are and whichever
\* of them made the last test, a binding that has been up (or down) for an
\* interval and two ticks since the clock was last corrected is what the
\* scheduler acts on.
BindingFollowed == steady >= Settled => (sched = "paused" <=> ~link)

\* pathHealth: "only a wide set of distinct targets" checked recently marks the
\* path unhealthy: a degraded path was seen on MinTargets targets within the
\* last window, also while the probes are paused and nothing is recorded.
DegradedIsRecent ==
  Degraded => Cardinality({t \in Targets : checked[t] < Window}) >= MinTargets

\* hysteresis: pressure is entered by two high samples without a low one
\* between them and left by two low ones without a high one between them,
\* whatever the sequence; a single spike changes nothing.  The comments say "two
\* consecutive high samples" (health.go:21) and "two in a row" (health.go:143),
\* which is stronger: samples between the thresholds may lie between the two.
PressureHysteresis == \A r \in Resources : smp.hot[r] = ref[r].hot
=============================================================================
