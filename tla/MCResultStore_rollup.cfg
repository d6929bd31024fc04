SPECIFICATION Spec
CONSTANTS
  r1 = r1
  r2 = r2
  agent = agent
  cli = cli
  Results = {r1, r2}
  Maintainers = {agent, cli}
  Agent = agent
  MaxSeq = 2
  MaxTime = 1
  Retention = 0
  BatchLimit = 2
  RollupChunk = 1
  PruneChunk = 1
  MaxMoves = 1
  MaxCrashes = 0
SYMMETRY Symmetry
INVARIANTS
  FoldedOnce
  NoneSkipped
  FoldedBeforePruning
