SPECIFICATION Spec
CONSTANTS
  None = None
  a1 = a1 a2 = a2 super = super ops = ops spare = spare r1 = r1 r2 = r2
  Admin <- MC_Admin
  Role <- MC_Role
  InitRole <- MC_InitRole
  SystemRole = super
  NewStatus = {}
  Request <- MC_Request
SYMMETRY MC_Symmetry
INVARIANTS
  TypeOK
  SuperAdminUnlessRaced
  RoleReferenced
  RepliesHold
CHECK_DEADLOCK FALSE
