\* A test interval of two ticks and clocks further apart than that.
SPECIFICATION Spec
CONSTANTS
  Interval = 2
  Gap = 1
  Offsets <- Skews
  MaxSkew = 4
  Resources = {"memory"}
  Targets = {t1, t2}
  Window = 2
  MinTargets = 2
  MaxTracked = 2
  MaxTotal = 3
SYMMETRY Symmetry
INVARIANTS
  BindingFollowed
  DegradedIsRecent
  PressureHysteresis
