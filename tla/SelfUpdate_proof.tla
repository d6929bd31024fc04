-------------------------- MODULE SelfUpdate_proof --------------------------
(***************************************************************************)
(* SelfUpdate for any actions, failing commands and crashes: an action is  *)
(* carried out once at most and only when acked, and a running agent is    *)
(* the installed binary.                                                   *)
(***************************************************************************)
EXTENDS SelfUpdate, FiniteSetTheorems, TLAPS

SvcPcs   == {"running", "waiting", "stopped"}
Binaries == {"old", "new", "broken"}
AgentType == [pc : {"beat", "upload", "resend", "ack", "act", "exit", "wait"},
              cur : Actions \union {NoAction}]
InstPcs == Over \union {"delay", "mktemp", "fetch", "script", "download", "stop", "copy", "modules",
                        "start", "cleanup", "recover"}

\* TypeOK in two halves: the service with its agent ...
ServiceOK ==
  /\ svc \in SvcPcs /\ unit \in BOOLEAN /\ bin \in Binaries /\ ver \in Binaries
  /\ agent \in AgentType /\ (svc # "running" => agent = Idle)

\* ... and the installers with their watchdogs.
InstallersOK ==
  /\ mgr \in Managers /\ inst \in [Actions -> InstPcs]
  /\ dog \in [Actions -> BOOLEAN] /\ \A a \in Actions : dog[a] => mgr = "procd" /\ inst[a] \notin Over

\* The rest: radar-api and the counters.
RestOK ==
  /\ srv \in [Actions -> {"none", "pending", "acked", "expired"}]
  /\ known \in BOOLEAN /\ deleted \in BOOLEAN
  /\ acted \in [Actions -> Nat] /\ faults \in 0 .. MaxFaults /\ crashes \in 0 .. MaxCrashes

\* The action in hand; one about to be acted on is acked, and was not before.
InHand ==
  /\ agent.pc \in {"ack", "act", "exit", "wait"} => agent.cur \in Actions
  /\ agent.pc = "act" => srv[agent.cur] = "acked" /\ acted[agent.cur] = 0

\* launchd: from its unload to its load the service stays down, since only
\* the one installer could start it.
Down ==
  mgr = "launchd" /\ ~Overlapping =>
    \A a \in Actions : inst[a] \in {"copy", "modules", "start"} => svc = "stopped"

-----------------------------------------------------------------------------
(* The type invariant                                                      *)

LEMMA TypeParts == TypeOK <=> ServiceOK /\ InstallersOK /\ RestOK
  BY DEF TypeOK, ServiceOK, InstallersOK, RestOK, SvcPcs, Binaries, AgentType, InstPcs

LEMMA IdleType == Idle \in AgentType /\ Idle.pc = "beat"
  BY DEF Idle, AgentType

\* The manager's operations on the service.
LEMMA StartType ==
  ASSUME ServiceOK, Start
  PROVE  svc' \in SvcPcs /\ ver' \in Binaries /\ agent' \in AgentType /\ (svc' # "running" => agent' = Idle)
  BY IdleType DEF ServiceOK, Start, SvcPcs

LEMMA StopType ==
  ASSUME ServiceOK, Stop
  PROVE  svc' \in SvcPcs /\ ver' \in Binaries /\ agent' \in AgentType /\ (svc' # "running" => agent' = Idle)
  BY IdleType DEF ServiceOK, Stop, SvcPcs

LEMMA ExitType == ASSUME ServiceOK, NEW code, Exit(code) PROVE ServiceOK'
  BY IdleType DEF ServiceOK, Exit, SvcPcs

\* A command that worked or failed.
LEMMA FaultType ==
  ASSUME RestOK, NEW what, Works \/ Fails(what)
  PROVE  faults' \in 0 .. MaxFaults
  BY UpdateAssumption DEF RestOK, Works, Fails

LEMMA GotoType ==
  ASSUME InstallersOK, NEW a \in Actions, NEW next \in InstPcs, Goto(a, next)
  PROVE  InstallersOK'
  <1>1. mgr' = mgr /\ inst' = [inst EXCEPT ![a] = next]
    BY DEF Goto
  <1>2. inst' \in [Actions -> InstPcs]
    BY <1>1 DEF InstallersOK
  <1>3. dog' \in [Actions -> BOOLEAN]
    BY DEF InstallersOK, Goto
  <1>4. ASSUME NEW b \in Actions, dog'[b] PROVE mgr' = "procd" /\ inst'[b] \notin Over
    <2>1. dog[b] /\ (b = a => next \notin Over)
      BY <1>4 DEF InstallersOK, Goto
    <2>. QED
      BY <1>1, <2>1 DEF InstallersOK
  <1>. QED
    BY <1>1, <1>2, <1>3, <1>4 DEF InstallersOK

\* The points a script goes to.
LEMMA InstPcsAre ==
  {"delay", "mktemp", "fetch", "script", "download", "stop", "copy", "modules", "start", "cleanup",
   "recover", "none", "done", "failed", "gaveup", "early"} \subseteq InstPcs
  BY DEF InstPcs, Over

\* Every command of an installer keeps the type.
LEMMA InstallType ==
  ASSUME ServiceOK, InstallersOK, RestOK, NEW a \in Actions, Install(a)
  PROVE  ServiceOK' /\ InstallersOK' /\ RestOK'
  <1>1. \E next \in InstPcs : Goto(a, next)
    BY InstPcsAre DEF Install, ProcdStop, Mktemp, Fetch, Prepare, Download, StopService, Copy, PlaceModules,
           StartService, ExitTrap
  <1>2. InstallersOK'
    BY <1>1, GotoType
  <1>3. \E what : Works \/ Fails(what)
    BY DEF Install, ProcdStop, Mktemp, Fetch, Prepare, Download, StopService, Copy, PlaceModules,
           StartService, ExitTrap, Recover
  <1>k. known' \in {known, FALSE}
    BY DEF Install, ProcdStop, Mktemp, Fetch, Prepare, Download, StopService, Copy, PlaceModules,
           StartService, ExitTrap
  <1>4. RestOK'
    <2>1. srv' = srv /\ deleted' = deleted /\ acted' = acted /\ crashes' = crashes
      BY <1>1 DEF Goto
    <2>2. known' \in BOOLEAN
      BY <1>k, Zenon DEF RestOK
    <2>. QED
      BY <1>3, <2>1, <2>2, FaultType DEF RestOK
  <1>5. ServiceOK'
    <2>1. CASE Mktemp(a) \/ Fetch(a) \/ Prepare(a) \/ Download(a) \/ PlaceModules(a)
      BY <2>1 DEF Mktemp, Fetch, Prepare, Download, PlaceModules, serviceVars, ServiceOK
    <2>2. CASE ProcdStop(a) \/ StopService(a)
      BY <2>2, StopType DEF ProcdStop, StopService, ServiceOK
    <2>3. CASE Copy(a)
      BY <2>3 DEF Copy, ServiceOK, Binaries
    <2>4. CASE StartService(a)
      <3>1. unit' \in BOOLEAN /\ bin' = bin
        BY <2>4 DEF StartService
      <3>2. CASE Start \/ Stop \/ UNCHANGED <<svc, ver, agent>>
        BY <3>1, <3>2, StartType, StopType DEF ServiceOK
      <3>3. CASE svc' = (IF bin = "broken" THEN "waiting" ELSE "running") /\ ver' = bin /\ agent' = Idle
        BY <3>1, <3>3, IdleType DEF ServiceOK, SvcPcs
      <3>4. CASE mgr = "systemd"
        BY <2>4, <3>2, <3>4 DEF StartService
      <3>5. CASE mgr # "systemd"
        BY <2>4, <3>2, <3>3, <3>5 DEF StartService
      <3>. QED
        BY <3>4, <3>5
    <2>5. CASE ExitTrap(a)
      <3>1. UNCHANGED <<unit, bin>> /\ (Start \/ UNCHANGED <<svc, ver, agent>>)
        BY <2>5 DEF ExitTrap, Recover
      <3>. QED
        BY <3>1, StartType DEF ServiceOK
    <2>. QED
      BY <2>1, <2>2, <2>3, <2>4, <2>5 DEF Install
  <1>. QED
    BY <1>2, <1>4, <1>5

\* So does every step of the heartbeat goroutine.
LEMMA BeatType ==
  ASSUME ServiceOK, InstallersOK, RestOK, InHand, Beat
  PROVE  ServiceOK' /\ InstallersOK' /\ RestOK'
  <1>1. CASE HeartbeatRejected
    BY <1>1 DEF HeartbeatRejected, At, ServiceOK, InstallersOK, RestOK, AgentType, apiVars
  <1>2. CASE UploadMissingModules
    BY <1>2, IdleType DEF UploadMissingModules, At, ServiceOK, InstallersOK, RestOK, AgentType
  <1>3. CASE ResendFails \/ NothingToApply
    BY <1>3, IdleType DEF ResendFails, NothingToApply, At, ServiceOK, InstallersOK, RestOK, apiVars
  <1>4. CASE HandleDeleteCommand \/ HandOff
    BY <1>4, ExitType DEF HandleDeleteCommand, HandOff, InstallersOK, RestOK, apiVars
  <1>5. CASE HeartbeatAnswered
    BY <1>5 DEF HeartbeatAnswered, At, ServiceOK, InstallersOK, RestOK, AgentType, apiVars
  <1>6. CASE AckAction
    <2>1. agent' \in AgentType /\ svc = "running"
      BY <1>6, IdleType DEF AckAction, At, ServiceOK, AgentType
    <2>2. srv' \in [Actions -> {"none", "pending", "acked", "expired"}]
      BY <1>6 DEF AckAction, RestOK
    <2>. QED
      BY <1>6, <2>1, <2>2 DEF AckAction, ServiceOK, InstallersOK, RestOK
  <1>7. CASE Reinstall
    <2>1. agent' \in AgentType /\ svc = "running"
      BY <1>7, IdleType DEF Reinstall, At, ServiceOK, AgentType
    <2>2. faults' \in 0 .. MaxFaults
      BY <1>7, FaultType DEF Reinstall
    <2>3. agent.cur \in Actions
      BY <1>7 DEF Reinstall, At, InHand
    <2>4. acted' \in [Actions -> Nat]
      BY <1>7, <2>3 DEF Reinstall, RestOK
    <2>5. InstallersOK'
      <3>1. CASE UNCHANGED <<mgr, inst, dog>>
        BY <3>1 DEF InstallersOK
      <3>2. CASE /\ mgr' = mgr
                 /\ inst' = [inst EXCEPT ![agent.cur] = IF mgr = "procd" THEN "delay" ELSE "mktemp"]
                 /\ dog' = [dog EXCEPT ![agent.cur] = mgr = "procd"]
        <4>1. inst' \in [Actions -> InstPcs]
          BY <3>2, InstPcsAre DEF InstallersOK
        <4>2. dog' \in [Actions -> BOOLEAN]
          BY <3>2 DEF InstallersOK
        <4>3. ASSUME NEW b \in Actions, dog'[b] PROVE mgr' = "procd" /\ inst'[b] \notin Over
          <5>1. CASE b = agent.cur
            BY <3>2, <4>3, <5>1 DEF InstallersOK, Over
          <5>2. CASE b # agent.cur
            BY <3>2, <4>3, <5>2 DEF InstallersOK
          <5>. QED
            BY <5>1, <5>2
        <4>. QED
          BY <3>2, <4>1, <4>2, <4>3 DEF InstallersOK
      <3>. QED
        BY <1>7, <3>1, <3>2 DEF Reinstall
    <2>. QED
      BY <1>7, <2>1, <2>2, <2>4, <2>5 DEF Reinstall, ServiceOK, RestOK, apiVars
  <1>8. CASE InstallerReturns
    <2>1. CASE inst[agent.cur] = "done"
      BY <1>8, <2>1, ExitType DEF InstallerReturns, InstallersOK, RestOK, apiVars
    <2>2. CASE inst[agent.cur] # "done"
      BY <1>8, <2>2, IdleType DEF InstallerReturns, At, ServiceOK, InstallersOK, RestOK, apiVars
    <2>. QED
      BY <2>1, <2>2
  <1>. QED
    BY <1>1, <1>2, <1>3, <1>4, <1>5, <1>6, <1>7, <1>8 DEF Beat

LEMMA TypeInit == Init => ServiceOK /\ InstallersOK /\ RestOK /\ InHand
  <1>. SUFFICES ASSUME Init PROVE ServiceOK /\ InstallersOK /\ RestOK /\ InHand
    OBVIOUS
  <1>1. ServiceOK /\ InHand
    BY IdleType DEF Init, ServiceOK, InHand, SvcPcs, Binaries
  <1>2. InstallersOK
    BY InstPcsAre DEF Init, InstallersOK
  <1>3. RestOK
    <2>1. /\ srv \in [Actions -> {"none", "pending", "acked", "expired"}] /\ acted \in [Actions -> Nat]
          /\ faults \in 0 .. MaxFaults /\ crashes \in 0 .. MaxCrashes
      BY UpdateAssumption DEF Init
    <2>. QED
      BY <2>1 DEF Init, RestOK
  <1>. QED
    BY <1>1, <1>2, <1>3

LEMMA TypeStep ==
  ServiceOK /\ InstallersOK /\ RestOK /\ InHand /\ [Next]_vars => ServiceOK' /\ InstallersOK' /\ RestOK'
  <1>. SUFFICES ASSUME ServiceOK, InstallersOK, RestOK, InHand, [Next]_vars
                PROVE  ServiceOK' /\ InstallersOK' /\ RestOK'
    OBVIOUS
  <1>1. CASE Beat
    BY <1>1, BeatType
  <1>2. CASE Respawn
    BY <1>2, StartType DEF Respawn, ServiceOK, InstallersOK, RestOK, apiVars
  <1>3. CASE AgentCrashes
    BY <1>3, ExitType, UpdateAssumption DEF AgentCrashes, InstallersOK, RestOK, apiVars
  <1>4. CASE Delete
    BY <1>4 DEF Delete, ServiceOK, InstallersOK, RestOK, serviceVars
  <1>5. ASSUME NEW a \in Actions, Request(a) \/ Expire(a)
        PROVE  ServiceOK' /\ InstallersOK' /\ RestOK'
    <2>1. srv' \in [Actions -> {"none", "pending", "acked", "expired"}]
      BY <1>5 DEF Request, Expire, RestOK
    <2>. QED
      BY <1>5, <2>1 DEF Request, Expire, ServiceOK, InstallersOK, RestOK, serviceVars
  <1>6. ASSUME NEW a \in Actions, Install(a) PROVE ServiceOK' /\ InstallersOK' /\ RestOK'
    BY <1>6, InstallType
  <1>7. ASSUME NEW a \in Actions, Watchdog(a) PROVE ServiceOK' /\ InstallersOK' /\ RestOK'
    <2>1. ServiceOK' /\ RestOK'
      BY <1>7, StartType DEF Watchdog, Works, ServiceOK, RestOK, apiVars
    <2>2. mgr' = mgr /\ inst' = inst /\ dog' = [dog EXCEPT ![a] = FALSE]
      BY <1>7 DEF Watchdog
    <2>3. InstallersOK'
      BY <2>2 DEF InstallersOK
    <2>. QED
      BY <2>1, <2>3
  <1>8. CASE UNCHANGED vars
    BY <1>8 DEF vars, serviceVars, apiVars, ServiceOK, InstallersOK, RestOK
  <1>. QED
    BY <1>1, <1>2, <1>3, <1>4, <1>5, <1>6, <1>7, <1>8 DEF Next

-----------------------------------------------------------------------------
(* Acked before acted on                                                   *)

\* Outside the heartbeat goroutine an agent stays as it is or starts anew, and
\* nothing is carried out.
LEMMA OthersKeepAgent ==
  ASSUME RestOK, [Next]_vars, ~Beat
  PROVE  /\ agent' \in {agent, Idle} /\ acted' = acted
         /\ \A a \in Actions : srv[a] = "acked" => srv'[a] = "acked"
  <1>1. CASE Respawn \/ AgentCrashes
    BY <1>1 DEF Respawn, AgentCrashes, Start, Exit, apiVars
  <1>2. CASE Delete
    BY <1>2 DEF Delete, serviceVars
  <1>3. ASSUME NEW a \in Actions, Install(a)
        PROVE  agent' \in {agent, Idle} /\ acted' = acted /\ srv' = srv
    <2>1. CASE Mktemp(a) \/ Fetch(a) \/ Prepare(a) \/ Download(a) \/ PlaceModules(a) \/ Copy(a)
      BY <2>1 DEF Mktemp, Fetch, Prepare, Download, PlaceModules, Copy, Goto, serviceVars, apiVars
    <2>2. CASE ProcdStop(a) \/ StopService(a)
      BY <2>2 DEF ProcdStop, StopService, Stop, Goto, apiVars
    <2>3. CASE StartService(a)
      BY <2>3 DEF StartService, Start, Stop, Goto, apiVars
    <2>4. CASE ExitTrap(a)
      BY <2>4 DEF ExitTrap, Recover, Start, Goto, apiVars
    <2>. QED
      BY <1>3, <2>1, <2>2, <2>3, <2>4 DEF Install
  <1>4. ASSUME NEW a \in Actions, Watchdog(a)
        PROVE  agent' \in {agent, Idle} /\ acted' = acted /\ srv' = srv
    BY <1>4 DEF Watchdog, Start, apiVars
  <1>5. ASSUME NEW a \in Actions, Request(a) \/ Expire(a)
        PROVE  /\ agent' = agent /\ acted' = acted
               /\ \A b \in Actions : srv[b] = "acked" => srv'[b] = "acked"
    <2>1. agent' = agent /\ acted' = acted
      BY <1>5 DEF Request, Expire, serviceVars
    <2>2. srv[a] # "acked" /\ \A b \in Actions : b # a => srv'[b] = srv[b]
      BY <1>5 DEF Request, Expire, RestOK
    <2>. QED
      BY <2>1, <2>2
  <1>6. CASE UNCHANGED vars
    BY <1>6 DEF vars, serviceVars, apiVars
  <1>. QED
    BY <1>1, <1>2, <1>3, <1>4, <1>5, <1>6 DEF Next

\* The goroutine acts only after its ack was answered.
LEMMA AckedStep ==
  ServiceOK /\ RestOK /\ InHand /\ ActedOnAck /\ [Next]_vars => InHand' /\ ActedOnAck'
  <1>. SUFFICES ASSUME ServiceOK, RestOK, InHand, ActedOnAck, [Next]_vars PROVE InHand' /\ ActedOnAck'
    OBVIOUS
  <1>1. CASE ~Beat
    <2>1. InHand'
      BY <1>1, OthersKeepAgent, IdleType DEF InHand
    <2>2. ActedOnAck'
      BY <1>1, OthersKeepAgent DEF ActedOnAck, RestOK
    <2>. QED
      BY <2>1, <2>2
  <1>2. CASE HeartbeatRejected \/ UploadMissingModules \/ ResendFails \/ NothingToApply
             \/ HandleDeleteCommand \/ HandOff \/ InstallerReturns
    <2>1. agent'.pc \in {"beat", "upload", "resend"} /\ acted' = acted /\ srv' = srv
      BY <1>2, IdleType DEF HeartbeatRejected, UploadMissingModules, ResendFails, NothingToApply,
           HandleDeleteCommand, HandOff, InstallerReturns, Exit, apiVars, ServiceOK, AgentType
    <2>. QED
      BY <2>1 DEF InHand, ActedOnAck
  <1>3. CASE HeartbeatAnswered
    BY <1>3 DEF HeartbeatAnswered, InHand, ActedOnAck, apiVars
  <1>4. CASE AckAction
    <2>1. agent.cur \in Actions /\ acted' = acted
      BY <1>4 DEF AckAction, At, InHand
    <2>2. CASE agent' = Idle /\ srv' = srv
      BY <2>1, <2>2, IdleType DEF InHand, ActedOnAck
    <2>3. CASE /\ srv[agent.cur] = "pending" /\ srv' = [srv EXCEPT ![agent.cur] = "acked"]
               /\ agent' \in {[agent EXCEPT !.pc = "act"], Idle}
      <3>1. acted[agent.cur] = 0
        BY <2>1, <2>3 DEF ActedOnAck, RestOK
      <3>2. [agent EXCEPT !.pc = "act"].pc = "act" /\ [agent EXCEPT !.pc = "act"].cur = agent.cur
        BY DEF ServiceOK, AgentType
      <3>3. InHand'
        <4>1. CASE agent' = Idle
          BY <4>1, IdleType DEF InHand
        <4>2. CASE agent' = [agent EXCEPT !.pc = "act"]
          BY <2>1, <2>3, <3>1, <3>2, <4>2 DEF InHand, RestOK
        <4>. QED
          BY <2>3, <4>1, <4>2
      <3>4. ActedOnAck'
        BY <2>1, <2>3 DEF ActedOnAck, RestOK
      <3>. QED
        BY <3>3, <3>4
    <2>. QED
      BY <1>4, <2>2, <2>3 DEF AckAction
  <1>5. CASE Reinstall
    <2>1. agent.cur \in Actions /\ srv[agent.cur] = "acked" /\ acted[agent.cur] = 0 /\ srv' = srv
      BY <1>5 DEF Reinstall, At, InHand, apiVars
    <2>2. CASE agent' = Idle /\ acted' = acted
      BY <2>1, <2>2, IdleType DEF InHand, ActedOnAck
    <2>3. CASE /\ acted' = [acted EXCEPT ![agent.cur] = @ + 1]
               /\ agent' = [agent EXCEPT !.pc = IF mgr = "launchd" THEN "wait" ELSE "exit"]
      <3>1. agent'.pc \in {"wait", "exit"} /\ agent'.cur = agent.cur
        BY <2>3 DEF ServiceOK, AgentType
      <3>2. ActedOnAck'
        BY <2>1, <2>3 DEF ActedOnAck, RestOK
      <3>. QED
        BY <2>1, <3>1, <3>2 DEF InHand
    <2>. QED
      BY <1>5, <2>2, <2>3 DEF Reinstall
  <1>. QED
    BY <1>1, <1>2, <1>3, <1>4, <1>5 DEF Beat

LEMMA AckedInit == Init => ActedOnAck
  BY DEF Init, ActedOnAck

\* The service, the agent, the installers and their watchdogs keep their shape:
\* only a running agent has work in hand, and an armed watchdog is procd's and
\* has an installer that is not through.
THEOREM TypeCorrect == Spec => []TypeOK
  BY TypeInit, AckedInit, TypeStep, AckedStep, TypeParts, PTL DEF Spec

\* For any number of actions, however often acks, answers and launches fail and
\* the agent crashes: no action is carried out twice, and none that radar-api
\* does not count as acked.
THEOREM ActionsActedOnAck == Spec => []ActedOnAck
  BY TypeInit, AckedInit, TypeStep, AckedStep, PTL DEF Spec

-----------------------------------------------------------------------------
(* The installed binary                                                    *)

\* Without an overlap there is one installer.
LEMMA OneInstaller ==
  ASSUME ~Overlapping, mgr = "launchd",
         NEW a \in Actions, inst[a] # "none", NEW b \in Actions, inst[b] # "none"
  PROVE  a = b
  <1>. DEFINE S == {x \in Actions : inst[x] # "none"}
  <1>1. SUFFICES ASSUME a # b PROVE Cardinality(S) > 1
    BY DEF Overlapping
  <1>2. IsFiniteSet(S) /\ Cardinality(S) \in Nat
    BY UpdateAssumption, FS_Subset, FS_CardinalityType
  <1>3. IsFiniteSet(S \ {a}) /\ Cardinality(S \ {a}) = Cardinality(S) - 1
    BY <1>2, FS_RemoveElement
  <1>4. Cardinality(S \ {a}) # 0
    BY <1>1, <1>3, FS_EmptySet
  <1>. QED
    BY <1>2, <1>3, <1>4, FS_CardinalityType

\* A script's command finds the installer at work and sends it on.
LEMMA InstallMoves ==
  ASSUME NEW a \in Actions, Install(a)
  PROVE  inst[a] # "none" /\ mgr' = mgr /\ \E next : next # "none" /\ inst' = [inst EXCEPT ![a] = next]
  BY DEF Install, ProcdStop, Mktemp, Fetch, Prepare, Download, StopService, Copy, PlaceModules, StartService,
         ExitTrap, Goto

\* The other steps leave the installers alone, except for a launch.
LEMMA OthersKeepInstallers ==
  ASSUME [Next]_vars, ~(\E a \in Actions : Install(a))
  PROVE  mgr' = mgr /\ (Reinstall \/ inst' = inst)
  BY DEF Next, vars, Beat, HeartbeatRejected, UploadMissingModules, ResendFails, HandleDeleteCommand,
         HeartbeatAnswered, AckAction, NothingToApply, Reinstall, HandOff, InstallerReturns, Respawn,
         AgentCrashes, Delete, Request, Expire, Watchdog

\* Once there was an overlap there is one: installers are never forgotten.
LEMMA OverlapStays ==
  ASSUME InstallersOK, InHand, [Next]_vars, ~Overlapping'
  PROVE  ~Overlapping /\ mgr' = mgr
  <1>. DEFINE S == {x \in Actions : inst[x] # "none"}
  <1>1. mgr' = mgr /\ S \subseteq S'
    <2>1. CASE \E a \in Actions : Install(a)
      BY <2>1, InstallMoves DEF InstallersOK
    <2>2. CASE Reinstall
      <3>1. mgr' = mgr
        BY <2>2 DEF Reinstall
      <3>2. inst' = inst \/ inst' = [inst EXCEPT ![agent.cur] = IF mgr = "procd" THEN "delay" ELSE "mktemp"]
        BY <2>2 DEF Reinstall
      <3>. QED
        BY <3>1, <3>2 DEF InstallersOK
    <2>3. CASE ~(\E a \in Actions : Install(a)) /\ ~Reinstall
      BY <2>3, OthersKeepInstallers
    <2>. QED
      BY <2>1, <2>2, <2>3
  <1>2. IsFiniteSet(S') /\ Cardinality(S') \in Nat
    BY UpdateAssumption, FS_Subset, FS_CardinalityType
  <1>3. Cardinality(S) \in Nat /\ Cardinality(S) <= Cardinality(S')
    <2>. HIDE DEF S
    <2>. QED
      BY <1>1, <1>2, FS_Subset, FS_CardinalityType
  <1>4. mgr = "launchd" => ~(Cardinality(S') > 1)
    BY <1>1 DEF Overlapping
  <1>5. mgr = "launchd" => ~(Cardinality(S) > 1)
    <2>. HIDE DEF S
    <2>. QED
      BY <1>2, <1>3, <1>4
  <1>. QED
    BY <1>1, <1>5 DEF Overlapping

\* While the one installer works on the binary nothing starts the service.
LEMMA DownStep == ServiceOK /\ InstallersOK /\ InHand /\ Down /\ [Next]_vars => Down'
  <1>. SUFFICES ASSUME ServiceOK, InstallersOK, InHand, Down, [Next]_vars, mgr' = "launchd", ~Overlapping',
                       NEW a \in Actions, inst'[a] \in {"copy", "modules", "start"}
                PROVE  svc' = "stopped"
    BY DEF Down
  <1>1. mgr = "launchd" /\ ~Overlapping /\ (inst[a] \in {"copy", "modules", "start"} => svc = "stopped")
    BY OverlapStays DEF Down
  <1>2. CASE \E b \in Actions : Install(b)
    <2>1. PICK b \in Actions : Install(b)
      BY <1>2
    <2>2. a = b
      <3>1. PICK next : inst[b] # "none" /\ inst' = [inst EXCEPT ![b] = next]
        BY <2>1, InstallMoves
      <3>2. a # b => inst[a] # "none"
        BY <3>1 DEF InstallersOK
      <3>. QED
        BY <1>1, <3>1, <3>2, OneInstaller
    <2>3. CASE StopService(a)
      <3>1. CASE Stop
        BY <3>1 DEF Stop
      <3>2. CASE Goto(a, "cleanup")
        BY <3>2 DEF Goto, InstallersOK
      <3>. QED
        BY <1>1, <2>3, <3>1, <3>2 DEF StopService
    <2>4. CASE Copy(a) \/ PlaceModules(a)
      BY <1>1, <2>4 DEF Copy, PlaceModules, serviceVars
    <2>5. CASE ProcdStop(a) \/ Mktemp(a) \/ Fetch(a) \/ Prepare(a) \/ Download(a) \/ StartService(a) \/ ExitTrap(a)
      <3>1. inst'[a] \in {"mktemp", "fetch", "recover", "script", "download", "cleanup", "stop", "done",
                          "failed", "early", "gaveup"}
        BY <2>5 DEF ProcdStop, Mktemp, Fetch, Prepare, Download, StartService, ExitTrap, Goto, InstallersOK
      <3>. QED
        BY <3>1
    <2>. QED
      BY <2>1, <2>2, <2>3, <2>4, <2>5 DEF Install
  <1>3. CASE Beat
    <2>1. svc = "running"
      BY <1>3 DEF Beat, HeartbeatRejected, UploadMissingModules, ResendFails, HandleDeleteCommand,
             HeartbeatAnswered, AckAction, NothingToApply, Reinstall, HandOff, InstallerReturns, At
    <2>2. CASE Reinstall
      <3>1. inst'[a] \in {inst[a], "mktemp", "delay"}
        BY <2>2 DEF Reinstall, InstallersOK
      <3>. QED
        BY <1>1, <2>1, <3>1
    <2>3. CASE ~Reinstall
      <3>1. inst' = inst
        BY <1>3, <2>3 DEF Beat, HeartbeatRejected, UploadMissingModules, ResendFails, HandleDeleteCommand,
             HeartbeatAnswered, AckAction, NothingToApply, HandOff, InstallerReturns
      <3>. QED
        BY <1>1, <2>1, <3>1
    <2>. QED
      BY <2>2, <2>3
  <1>4. CASE Respawn \/ AgentCrashes
    BY <1>1, <1>4 DEF Respawn, AgentCrashes
  <1>5. ASSUME NEW b \in Actions, Watchdog(b) PROVE FALSE
    <2>1. dog[b]
      BY <1>5 DEF Watchdog
    <2>. QED
      BY <1>1, <2>1 DEF InstallersOK
  <1>6. CASE Delete \/ (\E b \in Actions : Request(b) \/ Expire(b)) \/ UNCHANGED vars
    BY <1>1, <1>6 DEF Delete, Request, Expire, vars, serviceVars
  <1>. QED
    BY <1>2, <1>3, <1>4, <1>5, <1>6 DEF Next

\* The service starts from the binary on disk, and that one is replaced only
\* while the service is down.
LEMMA InstalledStep ==
  ServiceOK /\ InstallersOK /\ InHand /\ Down /\ RunsInstalled /\ [Next]_vars => RunsInstalled'
  <1>. SUFFICES ASSUME ServiceOK, InstallersOK, InHand, Down, RunsInstalled, [Next]_vars,
                       svc' = "running", ~Overlapping'
                PROVE  ver' = bin'
    BY DEF RunsInstalled
  <1>1. ~Overlapping /\ (svc = "running" => ver = bin)
    BY OverlapStays DEF RunsInstalled
  <1>2. CASE UNCHANGED <<svc, ver, bin>>
    BY <1>1, <1>2
  <1>3. CASE Start /\ bin' = bin
    BY <1>1, <1>3 DEF Start
  <1>4. ASSUME NEW a \in Actions, Install(a) PROVE ver' = bin'
    <2>1. CASE Mktemp(a) \/ Fetch(a) \/ Prepare(a) \/ Download(a) \/ PlaceModules(a)
      BY <1>2, <2>1 DEF Mktemp, Fetch, Prepare, Download, PlaceModules, serviceVars
    <2>2. CASE ProcdStop(a) \/ StopService(a)
      BY <1>2, <2>2 DEF ProcdStop, StopService, Stop
    <2>3. CASE Copy(a)
      <3>1. mgr # "launchd"
        BY <2>3, <1>1 DEF Copy, Down
      <3>2. svc = "running" /\ ver' = ver /\ bin' = bin
        BY <2>3, <3>1 DEF Copy
      <3>. QED
        BY <1>1, <3>2
    <2>4. CASE StartService(a)
      <3>1. bin' = bin
        BY <2>4 DEF StartService
      <3>2. CASE mgr = "systemd"
        BY <1>2, <1>3, <2>4, <3>1, <3>2 DEF StartService
      <3>3. CASE mgr # "systemd"
        BY <1>2, <2>4, <3>1, <3>3 DEF StartService, Stop
      <3>. QED
        BY <3>2, <3>3
    <2>5. CASE ExitTrap(a)
      <3>1. bin' = bin /\ (Start \/ UNCHANGED <<svc, ver>>)
        BY <2>5 DEF ExitTrap, Recover
      <3>. QED
        BY <1>2, <1>3, <3>1
    <2>. QED
      BY <1>4, <2>1, <2>2, <2>3, <2>4, <2>5 DEF Install
  <1>5. CASE Respawn \/ \E a \in Actions : Watchdog(a)
    BY <1>3, <1>5 DEF Respawn, Watchdog
  <1>6. CASE AgentCrashes \/ HandleDeleteCommand \/ HandOff
    BY <1>6 DEF AgentCrashes, HandleDeleteCommand, HandOff, Exit
  <1>7. CASE InstallerReturns
    BY <1>2, <1>7 DEF InstallerReturns, Exit
  <1>8. CASE HeartbeatRejected \/ UploadMissingModules \/ ResendFails \/ HeartbeatAnswered \/ AckAction
             \/ NothingToApply \/ Reinstall
    BY <1>2, <1>8 DEF HeartbeatRejected, UploadMissingModules, ResendFails, HeartbeatAnswered, AckAction,
         NothingToApply, Reinstall
  <1>9. CASE Delete \/ (\E a \in Actions : Request(a) \/ Expire(a)) \/ UNCHANGED vars
    BY <1>2, <1>9 DEF Delete, Request, Expire, vars, serviceVars
  <1>. QED
    BY <1>4, <1>5, <1>6, <1>7, <1>8, <1>9 DEF Next, Beat

\* Whatever commands fail, on every service manager, through respawns, traps
\* and watchdogs: a running agent was started from the binary that is installed.
THEOREM AgentRunsInstalled == Spec => []RunsInstalled
  <1>1. Init => Down /\ RunsInstalled
    BY DEF Init, Down, RunsInstalled
  <1>. QED
    BY <1>1, TypeInit, AckedInit, TypeStep, AckedStep, DownStep, InstalledStep, PTL DEF Spec
=============================================================================
