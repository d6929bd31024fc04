\* Two probes compete for what triggers leave of a tick's budget; one restart,
\* failing saves, and a local clock that is ahead of the server's.
SPECIFICATION Spec
CONSTANTS
  Probes = {1, 2}
  Interval <- MCInterval
  Count <- MCCount
  Never <- MCNever
  Jitter = 2
  JobsPerTick = 3
  JobsPerProbe = 2
  TriggersPerTick = 2
  MaxQueue = 2
  Skew = 2
  MaxTime = 3
  MaxCrashes = 1
INVARIANTS
  TypeOK
  BoundedWait
  TickWithinBudget
  FutureWithinSkew
PROPERTIES
  RunsSpaced
