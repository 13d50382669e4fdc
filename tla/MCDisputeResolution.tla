------------------------- MODULE MCDisputeResolution -------------------------
(* Instances of DisputeResolution for TLC.  Users u1 and u2 trade with each
   other; u3 has no wallet. *)
EXTENDS DisputeResolution, TLC

CONSTANTS r1, r2, d1, d2, d3, e1, e2, u1, u2, u3

MC_User == {u1, u2, u3}

\* Two disputes about e1, and one about e2.  u1 is the buyer of one escrow and
\* the seller of the other, so that two requests may credit one wallet; the
\* other parties have no wallets.
MC_Request  == {r1, r2}
MC_Dispute  == {d1, d2, d3}
MC_Escrow   == {e1, e2}
MC_Owner    == {u1}
MC_EscrowOf == d1 :> e1 @@ d2 :> e1 @@ d3 :> e2
MC_Buyer    == e1 :> u1 @@ e2 :> u3
MC_Seller   == e1 :> u2 @@ e2 :> u1
MC_Amount   == e1 :> 2 @@ e2 :> 3

MC_Symmetry == Permutations(MC_Request) \cup Permutations({d1, d2})

\* One escrow, whose receiver is NULL so that only refunds succeed.
One_Dispute  == {d1, d2}
One_Escrow   == {e1}
One_Owner    == {u1, u2}
One_EscrowOf == d1 :> e1 @@ d2 :> e1
One_Buyer    == e1 :> u1
One_Seller   == e1 :> None
One_Amount   == e1 :> 2
=============================================================================
