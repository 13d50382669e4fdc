SPECIFICATION Spec
CONSTANTS
  None = None
  a1 = a1 a2 = a2 ops = ops support = support r1 = r1 r2 = r2
  Admin <- MC_Both
  Role <- MC_Role
  Request <- MC_Slot
  Faults = FALSE
  TTL = 2
  MaxDelay = 1
PROPERTIES
  RejectsAtOnce
SYMMETRY MC_AdminSymmetry
