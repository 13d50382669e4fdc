-------------------------- MODULE DisputeSettlement --------------------------
(***************************************************************************)
(* What resolving disputes promises: every dispute is settled at most      *)
(* once, and in one step the dispute gets its outcome, the escrow gets the *)
(* matching status and the right party's account gets the amount held.     *)
(* There are no requests, locks, statements or ledger rows here; module    *)
(* DisputeResolution is the code, and implements this specification.       *)
(*                                                                         *)
(* The three last actions are the client backend's, which shares the       *)
(* tables.                                                                 *)
(***************************************************************************)
EXTENDS EscrowData

CONSTANT Movement  \* sizes of the client backend's deposits

VARIABLES
    outcome,  \* outcome[d]: "absent", "pending", a resolution, or "closed"
    escrow,   \* escrow[e]: the status of an escrow
    account   \* account[u]: the money in a user's wallet

vars == <<outcome, escrow, account>>

Init ==
    /\ outcome = [d \in Dispute |-> "absent"]
    /\ escrow = [e \in Escrow |-> "funded"]
    /\ account = [u \in Owner |-> 0]

\* One pending dispute, one credit, one status each: all or nothing.
Settle(d, resolution) ==
    LET e == EscrowOf[d]
        u == Payee(e, resolution)
    IN  /\ outcome[d] = "pending"
        /\ e \in Escrow
        /\ u \in Owner
        /\ outcome' = [outcome EXCEPT ![d] = resolution]
        /\ escrow' = [escrow EXCEPT ![e] = EscrowOutcome(resolution)]
        /\ account' = [account EXCEPT ![u] = @ + Amount[e]]

\* A user raises a dispute; an escrow still in progress becomes disputed.
Raise(d) ==
    /\ outcome[d] = "absent"
    /\ outcome' = [outcome EXCEPT ![d] = "pending"]
    /\ escrow' = [e \in Escrow |->
                    IF e = EscrowOf[d] /\ escrow[e] \in {"funded", "delivery_confirmed"}
                    THEN "disputed" ELSE escrow[e]]
    /\ UNCHANGED account

Withdraw(d) ==
    /\ outcome[d] = "pending"
    /\ outcome' = [outcome EXCEPT ![d] = "closed"]
    /\ UNCHANGED <<escrow, account>>

\* The buyer confirms a delivery.
ConfirmDelivery(e) ==
    /\ escrow[e] = "funded"
    /\ escrow' = [escrow EXCEPT ![e] = "delivery_confirmed"]
    /\ UNCHANGED <<outcome, account>>

\* The client backend pays the seller of a delivered escrow.
ClientPayout(e) ==
    /\ escrow[e] = "delivery_confirmed"
    /\ Seller[e] \in Owner
    /\ escrow' = [escrow EXCEPT ![e] = "completed"]
    /\ account' = [account EXCEPT ![Seller[e]] = @ + Amount[e]]
    /\ UNCHANGED outcome

Deposit(u, amount) ==
    /\ account' = [account EXCEPT ![u] = @ + amount]
    /\ UNCHANGED <<outcome, escrow>>

Next ==
    \/ \E d \in Dispute : \/ \E resolution \in Resolution : Settle(d, resolution)
                          \/ Raise(d)
                          \/ Withdraw(d)
    \/ \E e \in Escrow : ConfirmDelivery(e) \/ ClientPayout(e)
    \/ \E u \in Owner, amount \in Movement : Deposit(u, amount)

Spec == Init /\ [][Next]_vars
=============================================================================
