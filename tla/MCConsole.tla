------------------------------ MODULE MCConsole ------------------------------
(* Console for TLC: pages of two rows over up to three rows, created at one
   time or at two; two users with up to two flags, and two admins; two
   senders; one viewer of an escrow with up to two disputes; an escrow and a
   transfer; half a year of revenues; a process that migrates beside one that
   rolls back; two seeds. *)
EXTENDS Console, TLC

CONSTANTS a1, a2, u1, u2, s1, s2, v1, e1, t1, p1, p2, w1, w2

MC_Admin    == {a1, a2}
MC_User     == {u1, u2}
MC_Sender   == {s1, s2}
MC_Viewer   == {v1}
MC_Escrowed == {e1}
MC_Transfer == {t1}
MC_Script   == {p1, p2}
MC_Command  == p1 :> {"migrate:down"} @@ p2 :> {"migrate"}
MC_Seeder   == {w1, w2}

\* A walk from which a row has left and to which one has come claims nothing any
\* more, whatever it goes on to read; TLC leaves it there.
MC_Undecided == ~ (walk.left /\ walk.came)

\* One user is switched beside the figures of money: no property speaks of how many
\* users they count.
MC_OneSwitched == page = "figures" => active[u2]
=============================================================================
