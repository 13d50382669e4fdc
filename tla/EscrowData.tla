----------------------------- MODULE EscrowData -----------------------------
(***************************************************************************)
(* What a dispute row, an escrow row and the wallets table say that no     *)
(* handler of the admin API ever changes: which escrow a dispute is about, *)
(* who bought and who sold, how much is held, who owns a wallet.           *)
(*                                                                         *)
(* Amounts are whole units of the last decimal place the code keeps        *)
(* (toFixed(4) in resolveDispute), so they are naturals.                   *)
(***************************************************************************)
EXTENDS Naturals, Sequences

CONSTANTS
    Dispute,   \* ids a dispute can have
    Escrow,    \* ids of rows of transactions with type = 'escrow'
    User,      \* platform users
    None,      \* SQL NULL, and "no row"
    EscrowOf,  \* disputes.escrow_transaction_id
    Buyer,     \* transactions.user_id
    Seller,    \* transactions.receiver_id, a nullable column
    Amount,    \* transactions.amount
    Owner      \* the users that have a wallet

ASSUME EscrowDataAssumption ==
    /\ EscrowOf \in [Dispute -> Escrow \cup {None}]
    /\ Buyer \in [Escrow -> User]
    /\ Seller \in [Escrow -> User \cup {None}]
    /\ Amount \in [Escrow -> Nat]
    /\ Owner \subseteq User
    /\ None \notin Dispute \cup Escrow \cup User
    \* A row belongs to one table.
    /\ Dispute \cap Escrow = {}
    /\ Dispute \cap User = {}
    /\ Escrow \cap User = {}

EscrowStatus == {"initiated", "funded", "delivery_confirmed", "completed",
                 "disputed", "refunded", "cancelled"}

DisputeStatus == {"open", "under_review", "resolved_refund",
                  "resolved_release", "closed"}

\* "absent": no row yet has this id.
Unresolved == {"open", "under_review"}
Resolved   == {"resolved_refund", "resolved_release"}

Resolution == {"refund", "release"}

\* Wallet credit target: the buyer for a refund, the seller for a release.
Payee(e, resolution) ==
    IF resolution = "refund" THEN Buyer[e] ELSE Seller[e]

\* Mutant: the escrow gets a status named like the ledger row's type, which
\* transactions.status does not have.
EscrowOutcome_ledgerName(resolution) ==
    IF resolution = "refund" THEN "refunded" ELSE "released"

\* The status the resolution gives the escrow and the dispute, and the type
\* of the wallet_transactions row it writes.
EscrowOutcome(resolution) ==
    IF resolution = "refund" THEN "refunded" ELSE "completed"
DisputeOutcome(resolution) ==
    IF resolution = "refund" THEN "resolved_refund" ELSE "resolved_release"
LedgerType(resolution) ==
    IF resolution = "refund" THEN "escrow_refund" ELSE "escrow_release"
=============================================================================
