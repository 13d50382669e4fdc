-------------------------- MODULE MCAdminDirectory --------------------------
(* Instances of AdminDirectory for TLC: an admin of the system role and one of
   a custom role, another custom role without admins, two requests. *)
EXTENDS AdminDirectory, TLC

CONSTANTS a1, a2, super, ops, spare, r1, r2

MC_Admin    == {a1, a2}
MC_Role     == {super, ops, spare}
MC_InitRole == a1 :> super @@ a2 :> ops
MC_Request  == {r1, r2}

\* Two Super Admins.
Pair_InitRole == a1 :> super @@ a2 :> super

MC_Symmetry == Permutations(MC_Request)
=============================================================================
