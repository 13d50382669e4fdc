------------------------------ MODULE MCRoles ------------------------------
(* Instances of Roles for TLC: one role at the start and one still to be
   created, a name that both may ask for, two permissions, two requests. *)
EXTENDS Roles, TLC

CONSTANTS x1, x2, Ops, ops, Support, p1, p2, r1, r2

MC_Role       == {x1, x2}
MC_InitRole   == {x1}
MC_InitName   == x1 :> Ops
MC_Name       == {Ops, ops, Support}
MC_Fold       == Ops :> ops @@ ops :> ops @@ Support :> Support
MC_Permission == {p1, p2}
MC_NewGrants  == {{}, {p1}, {p2}}
MC_Request    == {r1, r2}
=============================================================================
