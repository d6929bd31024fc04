\* One trigger through a crash and a disk error in every mode, and two that a
\* queue of one cannot hold.
SPECIFICATION FairSpec
CONSTANTS
  p1 = p1
  r1 = r1
  r2 = r2
  None = None
  Probes = {p1}
  Runs = {r1, r2}
  ProbeOf <- SameProbe
  Nodes <- FaultyNodes
  MaxPending = 1
  Slots = 1
  MaxRan = 4
INVARIANTS
  TypeOK
  RunOncePerFault
  QueuedIsPersisted
  AdvertisedIsPersisted
  

  
