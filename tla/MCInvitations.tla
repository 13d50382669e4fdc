--------------------------- MODULE MCInvitations ---------------------------
(* Instances of Invitations for TLC: one address, one role, two
   invitations with up to two tokens each, two requests at a time. *)
EXTENDS Invitations, TLC

CONSTANTS i1, i2, e1, ops, r1, r2

MC_Invitation == {i1, i2}
MC_Email      == {e1}
MC_Role       == {ops}
MC_Request    == {r1, r2}

\* Invitations are told apart only by the email and the role in their rows.
MC_Symmetry == Permutations(MC_Invitation) \cup Permutations(MC_Request)
=============================================================================
