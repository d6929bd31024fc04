\* A single slot for a batch and three single checks, s3 of an unknown prober.
SPECIFICATION FairSpec
CONSTANTS
  s1 = s1
  s2 = s2
  s3 = s3
  b1 = b1
  m1 = m1
  m2 = m2
  da = da
  NoDest = NoDest
  Singles = {s1, s2, s3}
  Unregistered = {s3}
  Batches = {b1}
  Members <- MCMembers
  Dests = {da}
  Dest <- MCDest
  Floor = 2
  MaxWait = 3
  MaxDestinations = 1
  Concurrency = 1
  PoolConcurrency = 1
PROPERTIES
  Spacing
  RunChecksReturns
