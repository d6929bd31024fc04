----------------------------- MODULE SelfUpdate -----------------------------
(***************************************************************************)
(* Pending actions and the self-update handoff: the heartbeat's answer,    *)
(* the ack and reinstall of internal/agent/agent.go, the generated wrapper *)
(* script (buildInstallCommand, selfUpdateCommandFor), the parts of        *)
(* install.sh that stop, replace and start the service, and the service    *)
(* manager (systemd, procd or launchd).                                    *)
(*                                                                         *)
(* The agent hands off to a detached installer and exits; from then on     *)
(* only the installer, its recovery traps, the service manager and, under  *)
(* procd, a watchdog can bring the node back.  Each command of the scripts *)
(* that touches the service or the binary is a step.                       *)
(***************************************************************************)
EXTENDS Naturals, FiniteSets

CONSTANTS
  Managers,    \* service managers looked at
  Actions,     \* ids of pending actions
  Faulty,      \* commands that may fail
  MaxFaults,   \* bound: failing commands
  MaxCrashes,  \* bound: crashes of the agent
  NoAction

ASSUME UpdateAssumption ==
  /\ Managers \subseteq {"systemd", "procd", "launchd"}
  /\ Faulty \subseteq {"launch", "mktemp", "fetch", "script", "stop", "copy", "modules", "start",
                  "restart"}
  /\ IsFiniteSet(Actions) /\ NoAction \notin Actions
  /\ MaxFaults \in Nat /\ MaxCrashes \in Nat

VARIABLES
  mgr,      \* the service manager
  svc,      \* the service: running, waiting (for a restart) or stopped
  unit,     \* its definition is in place
  bin,      \* the binary on disk: old, new or broken
  ver,      \* the binary the agent process was started from
  agent,    \* the heartbeat goroutine: control point and action in hand
  srv,      \* radar-api: each action is none, pending, acked or expired
  known,    \* radar-api knows this node's module hashes
  deleted,  \* radar-api has deleted this node
  inst,     \* each action's installer: its next command
  dog,      \* each action's procd watchdog is armed
  acted,    \* how often an action was carried out
  faults, crashes

serviceVars == <<svc, unit, bin, ver, agent>>
apiVars     == <<srv, known, deleted>>
vars == <<mgr, serviceVars, apiVars, inst, dog, acted, faults, crashes>>

Idle == [pc |-> "beat", cur |-> NoAction]
\* An installer that is through.  Two ends are told apart for the properties:
\* "gaveup", the manager refused the last recovery attempt, and "early", the
\* recovery found the agent that was still about to exit.
Over == {"none", "done", "failed", "gaveup", "early"}

Init ==
  /\ mgr \in Managers
  /\ svc = "running" /\ unit = TRUE /\ bin = "old" /\ ver = "old"
  /\ agent = Idle
  /\ srv = [a \in Actions |-> "none"] /\ known \in BOOLEAN /\ deleted = FALSE
  /\ inst = [a \in Actions |-> "none"]
  /\ dog = [a \in Actions |-> FALSE]
  /\ acted = [a \in Actions |-> 0]
  /\ faults = 0 /\ crashes = 0

Works       == UNCHANGED faults
Fails(what) == what \in Faulty /\ faults < MaxFaults /\ faults' = faults + 1

-----------------------------------------------------------------------------
(* The service manager                                                     *)

\* Started unless it runs already; a binary that cannot be executed leaves the
\* manager retrying.
Start ==
  IF svc = "running" THEN UNCHANGED <<svc, ver, agent>>
  ELSE /\ svc' = IF bin = "broken" THEN "waiting" ELSE "running"
       /\ ver' = bin
       /\ agent' = Idle

Stop == svc' = "stopped" /\ agent' = Idle /\ UNCHANGED ver

\* The agent process ends: RestartPreventExitStatus keeps systemd from
\* restarting it after exit code 42, everything else is restarted.
Exit(code) ==
  /\ svc' = IF mgr = "systemd" /\ code = 42 THEN "stopped" ELSE "waiting"
  /\ agent' = Idle
  /\ UNCHANGED <<unit, bin, ver>>

\* RestartSec, respawn, KeepAlive.
Respawn ==
  /\ svc = "waiting" /\ bin # "broken"
  /\ Start
  /\ UNCHANGED <<mgr, unit, bin, apiVars, inst, dog, acted, faults, crashes>>

AgentCrashes ==
  /\ svc = "running" /\ crashes < MaxCrashes
  /\ crashes' = crashes + 1
  /\ Exit(1)
  /\ UNCHANGED <<mgr, apiVars, inst, dog, acted, faults>>

-----------------------------------------------------------------------------
(* radar-api                                                               *)

Request(a) ==
  /\ srv[a] = "none"
  /\ srv' = [srv EXCEPT ![a] = "pending"]
  /\ UNCHANGED <<mgr, serviceVars, known, deleted, inst, dog, acted, faults, crashes>>

\* It gives up on an action too many heartbeats did not ack.
Expire(a) ==
  /\ srv[a] = "pending"
  /\ srv' = [srv EXCEPT ![a] = "expired"]
  /\ UNCHANGED <<mgr, serviceVars, known, deleted, inst, dog, acted, faults, crashes>>

Delete ==
  /\ ~deleted /\ deleted' = TRUE
  /\ UNCHANGED <<mgr, serviceVars, srv, known, inst, dog, acted, faults, crashes>>

-----------------------------------------------------------------------------
(* The heartbeat goroutine                                                 *)

At(pc) == svc = "running" /\ agent.pc = pc

\* An unknown module hash: the heartbeat is refused ...
HeartbeatRejected ==
  /\ At("beat") /\ ~known
  /\ agent' = [agent EXCEPT !.pc = "upload"]
  /\ UNCHANGED <<mgr, svc, unit, bin, ver, apiVars, inst, dog, acted, faults, crashes>>

\* Mutant: the refusal is taken for any other failed heartbeat.
UploadMissingModulesNever ==
  /\ At("upload")
  /\ agent' = Idle
  /\ UNCHANGED <<mgr, svc, unit, bin, ver, apiVars, inst, dog, acted, faults, crashes>>

\* ... the named modules are uploaded and the heartbeat is sent once more; a
\* failed upload leaves it to the next beat.
UploadMissingModules ==
  /\ At("upload")
  /\ \/ known' = TRUE /\ agent' = [agent EXCEPT !.pc = "resend"]
     \/ known' \in {known, TRUE} /\ agent' = Idle
  /\ UNCHANGED <<mgr, svc, unit, bin, ver, srv, deleted, inst, dog, acted, faults, crashes>>

ResendFails ==
  /\ At("resend")
  /\ agent' = Idle
  /\ UNCHANGED <<mgr, svc, unit, bin, ver, apiVars, inst, dog, acted, faults, crashes>>

\* The answer of a deleted node's heartbeat: it exits, before it looks at
\* actions, and the manager restarts it only to be told again.
HandleDeleteCommand ==
  /\ At("beat") \/ At("resend")
  /\ known /\ deleted
  /\ Exit(0)
  /\ UNCHANGED <<mgr, apiVars, inst, dog, acted, faults, crashes>>

\* An answer that names a pending action.
HeartbeatAnswered ==
  /\ At("beat") \/ At("resend")
  /\ known /\ ~deleted
  /\ \E a \in {x \in Actions : srv[x] = "pending"} : agent' = [pc |-> "ack", cur |-> a]
  /\ UNCHANGED <<mgr, svc, unit, bin, ver, apiVars, inst, dog, acted, faults, crashes>>

\* Mutant: an ack that failed does not keep the agent from acting.
AckActionAnyway ==
  /\ At("ack")
  /\ srv' \in {srv, [srv EXCEPT ![agent.cur] = IF @ = "pending" THEN "acked" ELSE @]}
  /\ agent' = [agent EXCEPT !.pc = "act"]
  /\ UNCHANGED <<mgr, svc, unit, bin, ver, known, deleted, inst, dog, acted, faults, crashes>>

\* Acked before it is acted on.  A refused ack (the action expired), a lost
\* request and a lost answer all mean not acting.
AckAction ==
  /\ At("ack")
  /\ \/ /\ srv[agent.cur] = "pending"
        /\ srv' = [srv EXCEPT ![agent.cur] = "acked"]
        /\ agent' \in {[agent EXCEPT !.pc = "act"], Idle}
     \/ agent' = Idle /\ UNCHANGED srv
  /\ UNCHANGED <<mgr, svc, unit, bin, ver, known, deleted, inst, dog, acted, faults, crashes>>

\* module_actions none of which this build knows.
NothingToApply ==
  /\ At("act")
  /\ agent' = Idle
  /\ UNCHANGED <<mgr, svc, unit, bin, ver, apiVars, inst, dog, acted, faults, crashes>>

\* reinstall: procd gets a detached session with a delay and a watchdog,
\* systemd a transient unit; launchd's plain child is waited for.
Reinstall ==
  /\ At("act")
  /\ \/ Fails("launch") /\ agent' = Idle /\ UNCHANGED <<inst, dog, acted>>
     \/ /\ Works
        /\ inst' = [inst EXCEPT ![agent.cur] = IF mgr = "procd" THEN "delay" ELSE "mktemp"]
        /\ dog' = [dog EXCEPT ![agent.cur] = mgr = "procd"]
        /\ acted' = [acted EXCEPT ![agent.cur] = @ + 1]
        /\ agent' = [agent EXCEPT !.pc = IF mgr = "launchd" THEN "wait" ELSE "exit"]
  /\ UNCHANGED <<mgr, svc, unit, bin, ver, apiVars, crashes>>

HandOff ==
  /\ At("exit")
  /\ Exit(42)
  /\ UNCHANGED <<mgr, apiVars, inst, dog, acted, faults, crashes>>

\* launchd: the installer ended without having stopped this process.
InstallerReturns ==
  /\ At("wait") /\ inst[agent.cur] \in Over
  /\ IF inst[agent.cur] = "done" THEN Exit(42) ELSE agent' = Idle /\ UNCHANGED <<svc, unit, bin, ver>>
  /\ UNCHANGED <<mgr, apiVars, inst, dog, acted, faults, crashes>>

-----------------------------------------------------------------------------
(* The installer                                                           *)

\* Mutant: the detached shell leaves the watchdog running.
GotoUnwatched(a, next) ==
  /\ inst' = [inst EXCEPT ![a] = next]
  /\ UNCHANGED <<mgr, dog, srv, deleted, acted, crashes>>

\* The script moves on; once it has ended the detached shell kills the watchdog.
Goto(a, next) ==
  /\ inst' = [inst EXCEPT ![a] = next]
  /\ dog' = IF next \in Over THEN [dog EXCEPT ![a] = FALSE] ELSE dog
  /\ UNCHANGED <<mgr, srv, deleted, acted, crashes>>

\* procd: sleep past the respawn of the old agent, then stop it for good.
ProcdStop(a) ==
  /\ inst[a] = "delay"
  /\ \/ Works /\ Stop
     \/ Fails("stop") /\ UNCHANGED <<svc, ver, agent>>
  /\ Goto(a, "mktemp")
  /\ UNCHANGED <<unit, bin, known>>

Mktemp(a) ==
  /\ inst[a] = "mktemp"
  /\ \/ Works /\ Goto(a, "fetch")
     \/ Fails("mktemp") /\ Goto(a, "recover")
  /\ UNCHANGED <<serviceVars, known>>

\* Up to installFetchMaxAttempts tries of install.sh.  Any of them takes
\* longer than the agent's step from the launch to its exit.
Fetch(a) ==
  /\ inst[a] = "fetch" /\ ~(agent.pc = "exit" /\ agent.cur = a)
  /\ \/ Works /\ Goto(a, "script")
     \/ Fails("fetch") /\ Goto(a, "recover")
  /\ UNCHANGED <<serviceVars, known>>

\* install.sh up to its own trap: flags, platform, credentials, version.
Prepare(a) ==
  /\ inst[a] = "script"
  /\ \/ Works /\ Goto(a, "download")
     \/ Fails("script") /\ Goto(a, "recover")
  /\ UNCHANGED <<serviceVars, known>>

\* The release: download, checksum, archive.
Download(a) ==
  /\ inst[a] = "download"
  /\ \/ Works /\ Goto(a, "stop")
     \/ Fails("script") /\ Goto(a, "cleanup")
  /\ UNCHANGED <<serviceVars, known>>

\* Best effort, except that set -e applies to launchctl unload.
StopService(a) ==
  /\ inst[a] = "stop"
  /\ \/ Works /\ Stop /\ Goto(a, "copy")
     \/ /\ Fails("stop") /\ UNCHANGED <<svc, ver, agent>>
        /\ Goto(a, IF mgr = "launchd" THEN "cleanup" ELSE "copy")
  /\ UNCHANGED <<unit, bin, known>>

\* Mutant: the binary is unlinked first, so a running one does not matter.
CopyOverRunning(a) ==
  /\ inst[a] = "copy"
  /\ Works /\ bin' = "new" /\ Goto(a, "modules")
  /\ UNCHANGED <<svc, unit, ver, agent, known>>

\* cp writes into the existing file: refused on Linux while it is being
\* executed (ETXTBSY), and cut short when the disk is full.
Copy(a) ==
  /\ inst[a] = "copy"
  /\ IF svc = "running" /\ mgr # "launchd"
       THEN Works /\ UNCHANGED bin /\ Goto(a, "cleanup")
       ELSE \/ Works /\ bin' = "new" /\ Goto(a, "modules")
            \/ Fails("copy") /\ bin' = "broken" /\ Goto(a, "cleanup")
  /\ UNCHANGED <<svc, unit, ver, agent, known>>

\* The new binary fetches, updates or removes engine modules, which may change
\* their hashes; the service's arguments and the database directory are
\* checked.  The service is down.
PlaceModules(a) ==
  /\ inst[a] = "modules"
  /\ \/ Works /\ Goto(a, "start")
     \/ Fails("modules") /\ Goto(a, "cleanup")
  /\ known' \in {known, FALSE}
  /\ UNCHANGED serviceVars

\* start_procd restarts and fails loudly; start_systemd enables a service that
\* is not running; start_launchd reloads; the last two remove the definition
\* and succeed when the manager refuses.
StartService(a) ==
  /\ inst[a] = "start"
  /\ \/ /\ Works /\ unit' = TRUE /\ Goto(a, "done")
        /\ IF mgr = "systemd" THEN Start
           ELSE /\ svc' = IF bin = "broken" THEN "waiting" ELSE "running"
                /\ ver' = bin /\ agent' = Idle
     \/ /\ mgr = "procd" /\ Fails("restart")
        /\ Stop /\ unit' = TRUE /\ Goto(a, "cleanup")
     \/ /\ mgr # "procd" /\ Fails("start")
        /\ unit' = FALSE /\ Goto(a, "done")
        /\ IF mgr = "launchd" THEN Stop ELSE UNCHANGED <<svc, ver, agent>>
  /\ UNCHANGED <<bin, known>>

\* Mutant: the trap only removes its files.
RecoverNothing == Works /\ UNCHANGED <<svc, ver, agent>>

\* _recover_service and cleanup_and_recover: start the service unless an agent
\* is running.
Recover == Works /\ (IF unit THEN Start ELSE UNCHANGED <<svc, ver, agent>>)

\* The EXIT traps: first install.sh's, then the wrapper's, which is the last
\* to try when the manager refuses.
ExitTrap(a) ==
  /\ inst[a] \in {"cleanup", "recover"}
  /\ \/ /\ Recover
        /\ Goto(a, IF inst[a] = "cleanup" THEN "recover"
                   ELSE IF agent.pc = "exit" /\ agent.cur = a THEN "early" ELSE "failed")
     \/ /\ svc # "running" /\ Fails("restart") /\ UNCHANGED <<svc, ver, agent>>
        /\ Goto(a, IF inst[a] = "cleanup" THEN "recover" ELSE "gaveup")
  /\ UNCHANGED <<unit, bin, known>>

\* procd: after ten minutes, if no agent runs and the installer still does.
Watchdog(a) ==
  /\ dog[a] /\ inst[a] # "delay"
  /\ dog' = [dog EXCEPT ![a] = FALSE]
  /\ Works /\ Start
  /\ UNCHANGED <<mgr, unit, bin, apiVars, inst, acted, crashes>>

-----------------------------------------------------------------------------
Beat ==
  \/ HeartbeatRejected \/ UploadMissingModules \/ ResendFails \/ HandleDeleteCommand
  \/ HeartbeatAnswered \/ AckAction \/ NothingToApply \/ Reinstall \/ HandOff \/ InstallerReturns

Install(a) ==
  \/ ProcdStop(a) \/ Mktemp(a) \/ Fetch(a) \/ Prepare(a) \/ Download(a) \/ StopService(a)
  \/ Copy(a) \/ PlaceModules(a) \/ StartService(a) \/ ExitTrap(a)

Next ==
  \/ Beat \/ Respawn \/ AgentCrashes \/ Delete
  \/ \E a \in Actions : Request(a) \/ Expire(a) \/ Install(a) \/ Watchdog(a)

Spec == Init /\ [][Next]_vars

\* The manager restarts what it has to, scripts run on, the heartbeat loop
\* ticks, and uploads, heartbeats and acks get through now and then.
FairSpec ==
  /\ Spec
  /\ WF_vars(Respawn)
  /\ \A a \in Actions : WF_vars(Install(a))
  /\ WF_vars(HeartbeatRejected) /\ SF_vars(At("upload") /\ UploadMissingModules /\ known')
  /\ SF_vars(HeartbeatAnswered)
  /\ WF_vars(AckAction) /\ \A a \in Actions : SF_vars(AckAction /\ srv'[a] # srv[a])
  /\ WF_vars(NothingToApply \/ Reinstall) /\ WF_vars(HandOff) /\ WF_vars(InstallerReturns)

-----------------------------------------------------------------------------
(* Properties                                                              *)

\* The shape of the service, the agent and the installers; only a running
\* agent has work in hand, and only procd has watchdogs.
TypeOK ==
  /\ mgr \in Managers /\ svc \in {"running", "waiting", "stopped"} /\ unit \in BOOLEAN
  /\ bin \in {"old", "new", "broken"} /\ ver \in {"old", "new", "broken"}
  /\ agent \in [pc : {"beat", "upload", "resend", "ack", "act", "exit", "wait"},
               cur : Actions \union {NoAction}]
  /\ svc # "running" => agent = Idle
  /\ srv \in [Actions -> {"none", "pending", "acked", "expired"}]
  /\ known \in BOOLEAN /\ deleted \in BOOLEAN
  /\ inst \in [Actions -> Over \union
       {"delay", "mktemp", "fetch", "script", "download", "stop", "copy", "modules", "start",
        "cleanup", "recover"}]
  /\ dog \in [Actions -> BOOLEAN] /\ \A a \in Actions : dog[a] => mgr = "procd" /\ inst[a] \notin Over
  /\ acted \in [Actions -> Nat] /\ faults \in 0 .. MaxFaults /\ crashes \in 0 .. MaxCrashes

\* Whatever requests, acks and answers are lost and whatever crashes, an
\* action is carried out once at most, and only if radar-api counts it as
\* acked: handlePendingAction "acks the given action *before* acting on it".
ActedOnAck == \A a \in Actions : acted[a] <= 1 /\ (acted[a] = 1 => srv[a] = "acked")

\* launchd: the agent crashed while its installer ran, or install.sh's trap
\* brought it back before the wrapper's was through, and it launched another;
\* nothing keeps the two apart.
Overlapping == mgr = "launchd" /\ Cardinality({a \in Actions : inst[a] # "none"}) > 1

\* A running agent is the installed binary: no failure, respawn, trap or
\* watchdog leaves an old process running over a new file.
RunsInstalled == svc = "running" /\ ~Overlapping => ver = bin

\* What install.sh does not claim to survive: a manager that refuses the last
\* recovery attempt or the new definition, and a trap that finds the old agent.
Beyond == ~unit \/ \E a \in Actions : inst[a] \in {"gaveup", "early"}

\* install.sh: "On any failure from here on ..., make a best-effort attempt to
\* bring the *previous* installation's service back up" (src/install.sh:563).
\* A node that is down comes back, whichever command of which script failed,
\* unless the manager keeps refusing it or the copy was cut short: the traps,
\* the manager and the watchdog cover each other on all three managers.
ServiceReturns == svc # "running" ~> svc = "running" \/ Beyond \/ bin = "broken"

\* A pending action is acked in the end, through refused heartbeats, lost acks
\* and updates in between, unless radar-api gives up on it or the node is gone.
ActionTaken ==
  \A a \in Actions : srv[a] = "pending" ~>
    srv[a] \in {"acked", "expired"} \/ deleted \/ Beyond \/ bin = "broken"
=============================================================================
