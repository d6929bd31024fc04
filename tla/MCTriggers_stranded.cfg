SPECIFICATION FairSpec
CONSTANTS
  p1 = p1
  r1 = r1
  r2 = r2
  None = None
  Probes = {p1}
  Runs = {r1, r2}
  ProbeOf <- SameProbe
  Nodes <- CalmNodes
  MaxPending = 1
  Slots = 1
  MaxRan = 1
PROPERTIES
  EventuallyReplayed
