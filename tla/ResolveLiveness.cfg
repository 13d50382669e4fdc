SPECIFICATION ServerSpec
CONSTANTS
  None = None
  r1 = r1 r2 = r2 r3 = r3 d1 = d1 e1 = e1 u1 = u1 u2 = u2 s1 = s1 s2 = s2
  Request <- MC_Request
  Dispute <- MC_Dispute
  Escrow <- MC_Escrow
  User <- MC_User
  Owner <- MC_Owner
  EscrowOf <- MC_EscrowOf
  Buyer <- MC_Buyer
  Seller <- MC_Seller
  Amount <- MC_Amount
  Signal <- MC_Signal
  Asked = {"refund"}
  MaxGone = 1
  PoolMax = 2
  Movement = {1}
  MaxMovements = 0
PROPERTIES
  EventuallyAnswered
  ShutsDown
