------------------------------- MODULE MCServer -------------------------------
(* Server for TLC, with MCDisputeResolution's three requests on two connections;
   two calls of shutdown. *)
EXTENDS Server

CONSTANTS r1, r2, r3, d1, e1, u1, u2, s1, s2

MC_Request  == {r1, r2, r3}
MC_Dispute  == {d1}
MC_Escrow   == {e1}
MC_User     == {u1, u2}
MC_Owner    == {u1}
MC_EscrowOf == [d \in MC_Dispute |-> e1]
MC_Buyer    == [e \in MC_Escrow |-> u1]
MC_Seller   == [e \in MC_Escrow |-> None]
MC_Amount   == [e \in MC_Escrow |-> 2]
MC_Signal   == {s1, s2}
=============================================================================
