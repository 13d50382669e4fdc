SPECIFICATION Spec
CONSTANTS
  None = None
  a1 = a1 a2 = a2 super = super ops = ops spare = spare r1 = r1 r2 = r2
  Admin <- MC_Admin
  Role <- MC_Role
  InitRole <- Pair_InitRole
  SystemRole = super
  NewStatus = {}
  Request <- MC_Request
INVARIANTS
  AlwaysASuperAdmin
CHECK_DEADLOCK FALSE
