\* Two actions, every service manager, two failing commands and a crash.
SPECIFICATION FairSpec
CONSTANTS
  Managers = {"systemd", "procd", "launchd"}
  Actions = {a1, a2}
  Faulty = {"launch", "mktemp", "fetch", "script", "stop", "copy", "modules", "start", "restart"}
  MaxFaults = 2
  MaxCrashes = 1
  NoAction = NoAction
CHECK_DEADLOCK FALSE
INVARIANTS
  TypeOK
  ActedOnAck
  RunsInstalled
PROPERTIES
  ServiceReturns
  ActionTaken
