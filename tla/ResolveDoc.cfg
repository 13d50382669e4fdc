SPECIFICATION Spec
CONSTANTS
  None = None
  r1 = r1 r2 = r2 d1 = d1 d2 = d2 d3 = d3 e1 = e1 e2 = e2 u1 = u1 u2 = u2 u3 = u3
  Request <- MC_Request
  Dispute <- One_Dispute
  Escrow <- One_Escrow
  User <- MC_User
  Owner <- MC_Owner
  EscrowOf <- One_EscrowOf
  Buyer <- One_Buyer
  Seller <- One_Seller
  Amount <- One_Amount
  PoolMax = 2
  Movement = {1}
  MaxMovements = 0
PROPERTIES
  ResolvesOnlyPermittedEscrow
