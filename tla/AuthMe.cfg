SPECIFICATION Spec
CONSTANTS
  None = None
  a1 = a1 a2 = a2 ops = ops support = support r1 = r1 r2 = r2
  Admin <- MC_One
  Role <- MC_OneRole
  Request <- MC_Slot
  Faults = FALSE
  TTL = 2
  MaxDelay = 1
PROPERTIES
  MeIsServed
