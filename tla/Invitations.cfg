SPECIFICATION Spec
CONSTANTS
  None = None
  i1 = i1 i2 = i2 e1 = e1 ops = ops r1 = r1 r2 = r2
  Invitation <- MC_Invitation
  Email <- MC_Email
  Role <- MC_Role
  Request <- MC_Request
  MaxToken = 2
SYMMETRY MC_Symmetry
INVARIANTS
  TypeOK
  BothOrNeither
  OnePendingPerEmail
  SingleUse
  DeadTokenRefused
  RepliesHold
