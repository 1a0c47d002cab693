SPECIFICATION Spec
CONSTANTS
  Runs = {p, q, l}
  Nobody = Nobody
  Profiling = {p, q}
  MayAge = TRUE
  MaxFaults = 3
INVARIANTS   SerialUntilWorn
CHECK_DEADLOCK FALSE
