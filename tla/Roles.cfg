SPECIFICATION FairSpec
CONSTANTS
  None = None
  x1 = x1 x2 = x2 Ops = Ops ops = ops Support = Support p1 = p1 p2 = p2 r1 = r1 r2 = r2
  Role <- MC_Role
  InitRole <- MC_InitRole
  InitName <- MC_InitName
  Name <- MC_Name
  NewName = {Support}
  Fold <- MC_Fold
  Permission <- MC_Permission
  NewGrants <- MC_NewGrants
  Request <- MC_Request
  Faults = TRUE
INVARIANTS
  TypeOK
PROPERTIES
  PermissionsReplaced
  EventuallyAnswered
