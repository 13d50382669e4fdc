----------------------------- MODULE MCSessions -----------------------------
(* Instances of Sessions for TLC: up to three tokens, two requests. *)
EXTENDS Sessions, TLC

CONSTANTS t1, t2, t3, r1, r2

MC_Token   == {t1, t2, t3}
MC_Request == {r1, r2}

MC_Symmetry == Permutations(MC_Token) \cup Permutations(MC_Request)
=============================================================================
