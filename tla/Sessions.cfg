SPECIFICATION Spec
CONSTANTS
  None = None
  t1 = t1 t2 = t2 t3 = t3 r1 = r1 r2 = r2
  Token <- MC_Token
  Request <- MC_Request
  Faults = TRUE
SYMMETRY MC_Symmetry
INVARIANTS
  TypeOK
  SpentTokensDie
  DeadTokenRefused
  BarredGetsNothing
