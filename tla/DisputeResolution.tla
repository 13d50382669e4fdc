-------------------------- MODULE DisputeResolution --------------------------
(***************************************************************************)
(* escrowService.resolveDispute under withTransaction: the requests of     *)
(* POST /escrow/disputes/:id/{resolve,payout,refund}, statement by         *)
(* statement, over a Postgres at READ COMMITTED.                           *)
(*                                                                         *)
(* SELECT ... FOR UPDATE waits for the row and returns its last committed  *)
(* version.  The writes of a transaction stay in its draft until COMMIT;   *)
(* ROLLBACK drops them; both release the rows and the pooled client.       *)
(* The client backend, which shares the tables, keeps to the row locks.    *)
(***************************************************************************)
EXTENDS EscrowData, FiniteSets

CONSTANTS
    Request,      \* slots for requests in flight; a slot is used again
    PoolMax,      \* env.db.poolMax, the connections of the pool
    Movement,     \* sizes of the client backend's deposits
    MaxMovements  \* bound: ledger rows up to which deposits are made

ASSUME DisputeResolutionAssumption ==
    /\ None \notin Request
    /\ PoolMax \in Nat \ {0}
    /\ Movement \subseteq Nat
    /\ MaxMovements \in Nat

VARIABLES
    disputes,  \* disputes[d]: disputes.status, or "absent"
    escrows,   \* escrows[e]: transactions.status
    balance,   \* balance[u]: wallets.balance of u's wallet
    ledger,    \* ledger[u]: wallet_transactions of u's wallet, oldest first
    lock,      \* lock[row]: the request that holds the row, or None
    req        \* req[r]: a request and its transaction's draft

tables == <<disputes, escrows, balance, ledger>>
vars == <<disputes, escrows, balance, ledger, lock, req>>

Row == Dispute \cup Escrow \cup Owner

LedgerRow == [dispute : Dispute \cup {None}, escrow : Escrow \cup {None},
              type : {"escrow_refund", "escrow_release", "deposit"},
              amount : Nat, before : Nat, after : Nat]

\* The steps of a transaction, each named for the row it locks or writes.
InTransaction == {"dispute", "escrow", "wallet", "credit", "entry",
                  "settleEscrow", "settleDispute", "commit"}
Step == {"idle", "connect", "answered"} \cup InTransaction

Reply == {"ok", "bad_request", "not_found", "error"}

DraftTable == {"wallets", "wallet_transactions", "transactions", "disputes"}

RequestState == [step : Step, dispute : Dispute \cup {None}, resolution : Resolution,
                 reply : Reply \cup {None},
                 read : Nat,   \* wallet.balance as the FOR UPDATE returned it
                 after : Nat,  \* newBalance
                 wrote : SUBSET DraftTable]

TypeOK ==
    /\ disputes \in [Dispute -> DisputeStatus \cup {"absent"}]
    /\ escrows \in [Escrow -> EscrowStatus]
    /\ balance \in [Owner -> Nat]
    /\ ledger \in [Owner -> Seq(LedgerRow)]
    /\ lock \in [Row -> Request \cup {None}]
    /\ req \in [Request -> RequestState]

Init ==
    /\ disputes = [d \in Dispute |-> "absent"]
    /\ escrows = [e \in Escrow |-> "funded"]
    /\ balance = [u \in Owner |-> 0]
    /\ ledger = [u \in Owner |-> << >>]
    /\ lock = [row \in Row |-> None]
    /\ req = [r \in Request |-> [step |-> "idle", dispute |-> None, resolution |-> "refund",
                                 reply |-> None, read |-> 0, after |-> 0, wrote |-> {}]]

-----------------------------------------------------------------------------
DisputeOf(r) == req[r].dispute
EscrowFor(r) == EscrowOf[DisputeOf(r)]
PayeeFor(r)  == Payee(EscrowFor(r), req[r].resolution)

Clients == {r \in Request : req[r].step \in InTransaction}

\* The request ends with a reply; its client goes back to the pool and its
\* row locks and draft are gone.
Unlocked(r) == [row \in Row |-> IF lock[row] = r THEN None ELSE lock[row]]
Ended(r, reply) ==
    [req EXCEPT ![r] = [@ EXCEPT !.step = "answered", !.reply = reply,
                                 !.read = 0, !.after = 0, !.wrote = {}]]

\* Mutant: the transaction is left open, so its row locks are never released.
Rollback_leavesOpen(r, reply) ==
    /\ req' = Ended(r, reply)
    /\ UNCHANGED <<tables, lock>>

\* catch { ROLLBACK; throw } finally { release }
Rollback(r, reply) ==
    /\ lock' = Unlocked(r)
    /\ req' = Ended(r, reply)
    /\ UNCHANGED tables

\* SELECT ... FOR UPDATE of an existing row: wait for it, then hold it.
Take(r, row, next) ==
    /\ lock[row] \in {None, r}
    /\ lock' = [lock EXCEPT ![row] = r]
    /\ req' = [req EXCEPT ![r].step = next]
    /\ UNCHANGED tables

Write(r, table, next) ==
    /\ req' = [req EXCEPT ![r].step = next, ![r].wrote = @ \cup {table}]
    /\ UNCHANGED <<tables, lock>>

-----------------------------------------------------------------------------
\* An admin sends a request, or sends again what was answered.
Submit(r, d, resolution) ==
    /\ req[r].step \in {"idle", "answered"}
    /\ req' = [req EXCEPT ![r] = [@ EXCEPT !.step = "connect", !.reply = None,
                                  !.dispute = d, !.resolution = resolution]]
    /\ UNCHANGED <<tables, lock>>

\* pool.connect() and BEGIN.
Connect(r) ==
    /\ req[r].step = "connect"
    /\ Cardinality(Clients) < PoolMax
    /\ req' = [req EXCEPT ![r].step = "dispute"]
    /\ UNCHANGED <<tables, lock>>

\* connectionTimeoutMillis passes, in the queue for a client or while a new one
\* connects.
ConnectTimeout(r) ==
    /\ req[r].step = "connect"
    /\ Rollback(r, "error")

\* Mutant: no check that the dispute is still unresolved.
LockDispute_unchecked(r) ==
    /\ req[r].step = "dispute"
    /\ IF disputes[DisputeOf(r)] = "absent"
       THEN Rollback(r, "not_found")
       ELSE Take(r, DisputeOf(r), "escrow")

\* Mutant: the check asks for 'open' instead of ruling out the final statuses.
LockDispute_onlyOpen(r) ==
    /\ req[r].step = "dispute"
    /\ \/ /\ disputes[DisputeOf(r)] = "absent"
          /\ Rollback(r, "not_found")
       \/ /\ disputes[DisputeOf(r)] \notin {"absent", "open"}
          /\ Rollback(r, "bad_request")
       \/ /\ disputes[DisputeOf(r)] = "open"
          /\ Take(r, DisputeOf(r), "escrow")

LockDispute(r) ==
    /\ req[r].step = "dispute"
    /\ \/ /\ disputes[DisputeOf(r)] = "absent"
          /\ Rollback(r, "not_found")
       \/ /\ disputes[DisputeOf(r)] \in Resolved \cup {"closed"}
          /\ lock[DisputeOf(r)] = None
          /\ Rollback(r, "bad_request")
       \/ /\ disputes[DisputeOf(r)] \in Unresolved
          /\ Take(r, DisputeOf(r), "escrow")

LockEscrow(r) ==
    /\ req[r].step = "escrow"
    /\ IF EscrowFor(r) \in Escrow
       THEN Take(r, EscrowFor(r), "wallet")
       ELSE Rollback(r, "not_found")

\* Mutant: the wallet is read without FOR UPDATE.
LockWallet_plainSelect(r) ==
    /\ req[r].step = "wallet"
    /\ IF PayeeFor(r) \in Owner
       THEN /\ req' = [req EXCEPT ![r].step = "credit", ![r].read = balance[PayeeFor(r)]]
            /\ UNCHANGED <<tables, lock>>
       ELSE Rollback(r, "not_found")

\* Mutant: a party without a wallet is skipped, and the dispute settled.
LockWallet_optional(r) ==
    /\ req[r].step = "wallet"
    /\ IF PayeeFor(r) \in Owner
       THEN /\ lock[PayeeFor(r)] = None
            /\ lock' = [lock EXCEPT ![PayeeFor(r)] = r]
            /\ req' = [req EXCEPT ![r].step = "credit", ![r].read = balance[PayeeFor(r)]]
            /\ UNCHANGED tables
       ELSE /\ req' = [req EXCEPT ![r].step = "settleEscrow"]
            /\ UNCHANGED <<tables, lock>>

LockWallet(r) ==
    /\ req[r].step = "wallet"
    /\ \/ /\ PayeeFor(r) \in Owner
          /\ lock[PayeeFor(r)] = None
          /\ lock' = [lock EXCEPT ![PayeeFor(r)] = r]
          /\ req' = [req EXCEPT ![r].step = "credit", ![r].read = balance[PayeeFor(r)]]
          /\ UNCHANGED tables
       \/ /\ PayeeFor(r) \notin Owner
          /\ Rollback(r, "not_found")

CreditWallet(r) ==
    /\ req[r].step = "credit"
    /\ req' = [req EXCEPT ![r].step = "entry",
                          ![r].after = req[r].read + Amount[EscrowFor(r)],
                          ![r].wrote = @ \cup {"wallets"}]
    /\ UNCHANGED <<tables, lock>>

InsertEntry(r) ==
    req[r].step = "entry" /\ Write(r, "wallet_transactions", "settleEscrow")

\* Mutant: UPDATE transactions is forgotten.
UpdateEscrow_forgotten(r) ==
    /\ req[r].step = "settleEscrow"
    /\ req' = [req EXCEPT ![r].step = "settleDispute"]
    /\ UNCHANGED <<tables, lock>>

UpdateEscrow(r) ==
    req[r].step = "settleEscrow" /\ Write(r, "transactions", "settleDispute")

UpdateDispute(r) ==
    req[r].step = "settleDispute" /\ Write(r, "disputes", "commit")

\* The wallet_transactions row of the draft.
Entry(r) ==
    [dispute |-> DisputeOf(r), escrow |-> EscrowFor(r),
     type |-> LedgerType(req[r].resolution), amount |-> Amount[EscrowFor(r)],
     before |-> req[r].read, after |-> req[r].after]

\* COMMIT makes the draft the tables' contents.
Publish(r) ==
    LET u == PayeeFor(r)
        drafted(table, new, old) == IF table \in req[r].wrote THEN new ELSE old
    IN  /\ balance' = drafted("wallets", [balance EXCEPT ![u] = req[r].after], balance)
        /\ ledger' = drafted("wallet_transactions",
                             [ledger EXCEPT ![u] = Append(@, Entry(r))], ledger)
        /\ escrows' = drafted("transactions",
                [escrows EXCEPT ![EscrowFor(r)] = EscrowOutcome(req[r].resolution)], escrows)
        /\ disputes' = drafted("disputes",
                [disputes EXCEPT ![DisputeOf(r)] = DisputeOutcome(req[r].resolution)], disputes)

\* The acknowledgement of the COMMIT may be lost with the connection: then
\* the client is told "error" of what was done.
Commit(r) ==
    /\ req[r].step = "commit"
    /\ Publish(r)
    /\ lock' = Unlocked(r)
    /\ \E reply \in {"ok", "error"} : req' = Ended(r, reply)

\* A statement fails, the connection drops or the process dies.
Fail(r) ==
    /\ req[r].step \in InTransaction
    /\ Rollback(r, "error")

Handle(r) ==
    \/ Connect(r) \/ ConnectTimeout(r)
    \/ LockDispute(r) \/ LockEscrow(r) \/ LockWallet(r)
    \/ CreditWallet(r) \/ InsertEntry(r) \/ UpdateEscrow(r) \/ UpdateDispute(r)
    \/ Commit(r)

-----------------------------------------------------------------------------
(* The client backend.  Nothing here says when it lets a user raise a
   dispute: an escrow may have several (getEscrowById takes the newest), and
   may be over already. *)

RaiseDispute(d) ==
    /\ disputes[d] = "absent"
    /\ EscrowOf[d] \in Escrow => lock[EscrowOf[d]] = None
    /\ disputes' = [disputes EXCEPT ![d] = "open"]
    /\ escrows' = [e \in Escrow |->
                    IF e = EscrowOf[d] /\ escrows[e] \in {"funded", "delivery_confirmed"}
                    THEN "disputed" ELSE escrows[e]]
    /\ UNCHANGED <<balance, ledger, lock, req>>

ReviewDispute(d) ==
    /\ disputes[d] = "open"
    /\ lock[d] = None
    /\ disputes' = [disputes EXCEPT ![d] = "under_review"]
    /\ UNCHANGED <<escrows, balance, ledger, lock, req>>

WithdrawDispute(d) ==
    /\ disputes[d] \in Unresolved
    /\ lock[d] = None
    /\ disputes' = [disputes EXCEPT ![d] = "closed"]
    /\ UNCHANGED <<escrows, balance, ledger, lock, req>>

ConfirmDelivery(e) ==
    /\ escrows[e] = "funded"
    /\ lock[e] = None
    /\ escrows' = [escrows EXCEPT ![e] = "delivery_confirmed"]
    /\ UNCHANGED <<disputes, balance, ledger, lock, req>>

\* A credit with its ledger row, by the client backend.
ClientCredit(u, e, type, amount) ==
    /\ lock[u] = None
    /\ balance' = [balance EXCEPT ![u] = @ + amount]
    /\ ledger' = [ledger EXCEPT ![u] =
                    Append(@, [dispute |-> None, escrow |-> e, type |-> type, amount |-> amount,
                               before |-> balance[u], after |-> balance[u] + amount])]

ClientPayout(e) ==
    /\ escrows[e] = "delivery_confirmed"
    /\ lock[e] = None
    /\ Seller[e] \in Owner
    /\ ClientCredit(Seller[e], e, "escrow_release", Amount[e])
    /\ escrows' = [escrows EXCEPT ![e] = "completed"]
    /\ UNCHANGED <<disputes, lock, req>>

Deposit(u, amount) ==
    /\ Len(ledger[u]) < MaxMovements
    /\ ClientCredit(u, None, "deposit", amount)
    /\ UNCHANGED <<disputes, escrows, lock, req>>

Client ==
    \/ \E d \in Dispute : RaiseDispute(d) \/ ReviewDispute(d) \/ WithdrawDispute(d)
    \/ \E e \in Escrow : ConfirmDelivery(e) \/ ClientPayout(e)
    \/ \E u \in Owner, amount \in Movement : Deposit(u, amount)

Next ==
    \/ \E r \in Request : \/ \E d \in Dispute, resolution \in Resolution : Submit(r, d, resolution)
                          \/ Handle(r)
                          \/ Fail(r)
    \/ Client

Spec == Init /\ [][Next]_vars

(* A statement that can run does run.  Postgres queues the waiters of a row
   and pg the waiters of a client first come first served, so a request that
   finds its row free again and again does get it: strong fairness. *)
Fairness == \A r \in Request : SF_vars(Handle(r))

FairSpec == Spec /\ Fairness

-----------------------------------------------------------------------------
(* Properties *)

Final == Resolved \cup {"closed"}

\* A wallet's ledger is a statement of account: it opens at zero, each row
\* starts from the balance the row before it left and adds its own amount,
\* and the last one leaves the balance the wallet has.  An update lost
\* between two requests that credit one wallet breaks the chain.
LedgerChain ==
    \A u \in Owner :
        LET rows == ledger[u]
        IN  /\ balance[u] = IF rows = << >> THEN 0 ELSE rows[Len(rows)].after
            /\ \A i \in 1..Len(rows) :
                /\ rows[i].after = rows[i].before + rows[i].amount
                /\ rows[i].before = IF i = 1 THEN 0 ELSE rows[i - 1].after

\* A dispute that is resolved has been paid exactly once, to the wallet of
\* the party its outcome names and with the amount its escrow holds; one
\* that is not has not been paid at all, whatever requests are in flight,
\* failed or were sent again.
PaidOnceIfResolved ==
    \A d \in Dispute :
        /\ disputes[d] \notin Resolved =>
              \A u \in Owner : \A i \in 1..Len(ledger[u]) : ledger[u][i].dispute # d
        /\ disputes[d] \in Resolved =>
              \E u \in Owner : \E i \in 1..Len(ledger[u]) :
                /\ ledger[u][i].dispute = d
                /\ u = IF disputes[d] = "resolved_refund"
                       THEN Buyer[EscrowOf[d]] ELSE Seller[EscrowOf[d]]
                /\ ledger[u][i].amount = Amount[EscrowOf[d]]
                /\ \A v \in Owner : \A j \in 1..Len(ledger[v]) :
                     ledger[v][j].dispute = d => v = u /\ j = i

\* The escrow of a resolved dispute is over, and stays over: it has the
\* status the outcome of one of its resolved disputes gives it.
EscrowOver ==
    \A d \in Dispute :
        disputes[d] \in Resolved =>
            /\ EscrowOf[d] \in Escrow
            /\ \E c \in Dispute :
                /\ EscrowOf[c] = EscrowOf[d]
                /\ \/ disputes[c] = "resolved_refund" /\ escrows[EscrowOf[d]] = "refunded"
                   \/ disputes[c] = "resolved_release" /\ escrows[EscrowOf[d]] = "completed"

\* What an admin was told stays true: after "ok" the dispute has the outcome
\* that request asked for, after "already resolved" it has some final status.
HonestReply ==
    \A r \in Request : req[r].step = "answered" =>
        /\ req[r].reply = "ok" => disputes[DisputeOf(r)] = DisputeOutcome(req[r].resolution)
        /\ req[r].reply = "bad_request" => disputes[DisputeOf(r)] \in Final

\* Every request is answered: nobody waits for ever for a row or a client.
EventuallyAnswered ==
    \A r \in Request : req[r].step = "connect" ~> req[r].step = "answered"

\* The tables change as DisputeSettlement says, in one step per dispute.
OutcomeOf(status) ==
    IF status \in Unresolved THEN "pending"
    ELSE IF status = "resolved_refund" THEN "refund"
    ELSE IF status = "resolved_release" THEN "release"
    ELSE status

Settlement ==
    INSTANCE DisputeSettlement WITH
        outcome <- [d \in Dispute |-> OutcomeOf(disputes[d])],
        escrow <- escrows,
        account <- balance

SettlesAtomically == Settlement!Spec

\* resolveDispute's comment: "If the underlying escrow isn't in a state that
\* permits resolution (must be 'disputed' or 'funded'/'delivery_confirmed'),
\* throws."  So no dispute becomes resolved over an escrow in another state.
ResolvesOnlyPermittedEscrow ==
    [][\A d \in Dispute :
        disputes[d] \notin Resolved /\ disputes'[d] \in Resolved =>
            escrows[EscrowOf[d]] \in {"disputed", "funded", "delivery_confirmed"}]_vars

-----------------------------------------------------------------------------
(* The inductive invariant: what a request holds and has read at each step. *)

HoldsDispute == {"escrow", "wallet", "credit", "entry", "settleEscrow", "settleDispute", "commit"}
HoldsEscrow  == HoldsDispute \ {"escrow"}
HoldsWallet  == HoldsEscrow \ {"wallet"}
HasCredited  == HoldsWallet \ {"credit"}

DraftAt(step) ==
    CASE step = "entry"         -> {"wallets"}
      [] step = "settleEscrow"  -> {"wallets", "wallet_transactions"}
      [] step = "settleDispute" -> {"wallets", "wallet_transactions", "transactions"}
      [] step = "commit"        -> DraftTable
      [] OTHER                  -> {}

HeldRows(r) ==
    /\ req[r].step \in HoldsDispute =>
          lock[DisputeOf(r)] = r /\ disputes[DisputeOf(r)] \in Unresolved
    /\ req[r].step \in HoldsEscrow =>
          EscrowFor(r) \in Escrow /\ lock[EscrowFor(r)] = r
    /\ req[r].step \in HoldsWallet =>
          PayeeFor(r) \in Owner /\ lock[PayeeFor(r)] = r /\ req[r].read = balance[PayeeFor(r)]

Draft(r) ==
    /\ req[r].step # "idle" => DisputeOf(r) \in Dispute
    /\ req[r].step \in HasCredited => req[r].after = req[r].read + Amount[EscrowFor(r)]
    /\ req[r].wrote = DraftAt(req[r].step)

\* A request holds the rows it has read, so what it read is still so, and
\* its draft is what the statements up to its step wrote: the balance it is
\* about to overwrite is the one it has seen.
TransactionInv == \A r \in Request : HeldRows(r) /\ Draft(r)
=============================================================================
