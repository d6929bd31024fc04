\* The agent and one command race to create, migrate, prune and rebuild a file;
\* a duplicate result, a clock set back, a process that dies.
SPECIFICATION Spec
CONSTANTS
  p1 = p1
  t1 = t1
  agent = agent
  cli = cli
  o1 = o1
  o2 = o2
  NoTrigger = NoTrigger
  NoHash = NoHash
  NoOrigin = NoOrigin
  NoProcess = NoProcess
  Triggers = {t1}
  Probes = {p1}
  ProbeOf <- OneProbe
  Processes = {agent, cli}
  Agent = agent
  Maintainers = {agent}
  Origins = {o1, o2}
  Requested <- MCRequested
  MaxSeq = 3
  MaxGap = 1
  Tick = 2
  MaxTime = 3
  MaxSteps = 1
  MaxCrashes = 1
  Retention = 1
  PruneChunk = 1
CHECK_DEADLOCK FALSE
INVARIANTS
  PendingEventKept
  QueueReproducible
  AssignmentReproducible
  CompletedRemembered
  OneAuthor
