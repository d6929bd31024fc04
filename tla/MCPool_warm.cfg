SPECIFICATION PoolSpec
CONSTANTS
  Callers = {c1}
  Keys = {1, 2, 3, 4}
  Bad = {3}
  MaxJobs = 2
  Ports = {q1, q2, q3, q4, q5}
  Engines = {e1, e2, e3, e4}
  Faults = TRUE
  NoPort = NoPort
  NoEngine = NoEngine
SYMMETRY Symmetry
INVARIANTS
  PoolTypeOK
  NoOrphan
  BisectionIsolates
