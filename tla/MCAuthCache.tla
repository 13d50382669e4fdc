---------------------------- MODULE MCAuthCache ----------------------------
(* Instances of AuthCache for TLC: one admin, or two who may move between two roles;
   a copy lives for two ticks and a request for one at most. *)
EXTENDS AuthCache, TLC

CONSTANTS a1, a2, ops, support, r1, r2

MC_One      == {a1}
MC_Both     == {a1, a2}
MC_Role     == {ops, support}
MC_OneRole  == {ops}
MC_Slot     == {r1}
MC_Slots    == {r1, r2}

MC_Symmetry == Permutations(MC_Slots)
MC_AdminSymmetry == Permutations(MC_Both) \cup Permutations(MC_Role)
=============================================================================
