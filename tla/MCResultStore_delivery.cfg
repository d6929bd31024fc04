\* Lost answers, missing acks, failed settlements and a crash; rows are
\* recorded again after they were pruned.
SPECIFICATION FairSpec
CONSTANTS
  r1 = r1
  r2 = r2
  agent = agent
  Results = {r1, r2}
  Maintainers = {agent}
  Agent = agent
  MaxSeq = 3
  MaxTime = 0
  Retention = 0
  BatchLimit = 2
  RollupChunk = 2
  PruneChunk = 1
  MaxMoves = 0
  MaxCrashes = 1
INVARIANTS
  RecordedNotLost
PROPERTIES
  ImplementsOutbox
  EventuallySettled
