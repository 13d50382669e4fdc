---------------------- MODULE DisputeResolution_proofs ----------------------
(***************************************************************************)
(* Proofs, for any number of requests, disputes, escrows and wallets, that *)
(* DisputeResolution keeps its types and its transaction invariant, that   *)
(* ledgers stay chained, that a resolved dispute has been paid exactly     *)
(* once, and that the tables change as DisputeSettlement says; and that    *)
(* all of it outlives the process, which ends as Server says.              *)
(***************************************************************************)
EXTENDS Server, TLAPS

CoreInv == TypeOK /\ TransactionInv

\* The rows of the three tables, which share no name with None.
LEMMA Rows ==
    /\ Dispute \subseteq Row
    /\ Escrow \subseteq Row
    /\ Owner \subseteq Row
    /\ None \notin Row
  BY EscrowDataAssumption DEF Row

\* What Rollback, Take and Write do to the types.
LEMMA EndedType ==
  ASSUME TypeOK, NEW r \in Request, NEW reply \in Reply
  PROVE  /\ Ended(r, reply) \in [Request -> RequestState]
         /\ Unlocked(r) \in [Row -> Request \cup {None}]
  <1>1. [req[r] EXCEPT !.step = "answered", !.reply = reply, !.read = 0, !.after = 0, !.wrote = {}]
           \in RequestState
    BY DEF TypeOK, RequestState, Step
  <1>2. Ended(r, reply) \in [Request -> RequestState]
    BY <1>1 DEF TypeOK, Ended
  <1>3. Unlocked(r) \in [Row -> Request \cup {None}]
    BY DEF TypeOK, Unlocked
  <1>4. QED
    BY <1>2, <1>3

LEMMA RollbackType ==
  ASSUME TypeOK, NEW r \in Request, NEW reply \in Reply, Rollback(r, reply)
  PROVE  TypeOK'
  BY EndedType DEF TypeOK, Rollback, tables

LEMMA TakeType ==
  ASSUME TypeOK, NEW r \in Request, NEW row \in Row, NEW next \in Step, Take(r, row, next)
  PROVE  TypeOK'
  BY DEF TypeOK, Take, tables, RequestState

LEMMA WriteType ==
  ASSUME TypeOK, NEW r \in Request, NEW table \in DraftTable, NEW next \in Step, Write(r, table, next)
  PROVE  TypeOK'
  BY DEF TypeOK, Write, tables, RequestState

-----------------------------------------------------------------------------
\* The step sets spelled out; HoldsDispute and the rest are subtractions.
LEMMA Steps ==
    /\ HoldsEscrow = {"wallet", "credit", "entry", "settleEscrow", "settleDispute", "commit"}
    /\ HoldsWallet = {"credit", "entry", "settleEscrow", "settleDispute", "commit"}
    /\ HasCredited = {"entry", "settleEscrow", "settleDispute", "commit"}
  BY DEF HoldsDispute, HoldsEscrow, HoldsWallet, HasCredited

\* A step that leaves a request's record, its locks and the rows it has
\* locked alone keeps what the invariant says of it.
LEMMA Frame ==
  ASSUME TypeOK, NEW q \in Request, HeldRows(q), Draft(q),
         req'[q] = req[q],
         \A row \in Row : lock[row] = q => lock'[row] = q,
         \A d \in Dispute : lock[d] = q /\ disputes[d] \in Unresolved => disputes'[d] \in Unresolved,
         \A u \in Owner : lock[u] = q => balance'[u] = balance[u]
  PROVE  HeldRows(q)' /\ Draft(q)'
  <1>1. Draft(q)'
    BY DEF Draft, DisputeOf, EscrowFor
  <1>2. ASSUME req[q].step \in HoldsDispute
        PROVE  (lock[DisputeOf(q)] = q /\ disputes[DisputeOf(q)] \in Unresolved)'
    BY <1>2, Rows DEF HeldRows, Draft, HoldsDispute, DisputeOf
  <1>3. ASSUME req[q].step \in HoldsEscrow
        PROVE  (EscrowFor(q) \in Escrow /\ lock[EscrowFor(q)] = q)'
    BY <1>3, Rows DEF HeldRows, EscrowFor, DisputeOf
  <1>4. ASSUME req[q].step \in HoldsWallet
        PROVE  (PayeeFor(q) \in Owner /\ lock[PayeeFor(q)] = q /\ req[q].read = balance[PayeeFor(q)])'
    BY <1>4, Rows DEF HeldRows, PayeeFor, EscrowFor, DisputeOf, Payee
  <1>5. QED
    BY <1>1, <1>2, <1>3, <1>4 DEF HeldRows

\* A request that has ended holds nothing and has an empty draft.
LEMMA EndedInv ==
  ASSUME TypeOK, NEW r \in Request, NEW reply, Draft(r), req[r].step # "idle",
         req' = Ended(r, reply)
  PROVE  HeldRows(r)' /\ Draft(r)'
  <1>1. /\ req'[r].step = "answered"
        /\ req'[r].dispute = req[r].dispute
        /\ req'[r].wrote = {}
    BY DEF Ended, TypeOK, RequestState
  <1>2. QED
    BY <1>1, Steps DEF HeldRows, Draft, DisputeOf, HoldsDispute, DraftAt

\* A step that changes no row and only r's record and r's locks.
LEMMA Own ==
  ASSUME CoreInv, NEW r \in Request, UNCHANGED tables,
         \A q \in Request \ {r} : req'[q] = req[q],
         \A row \in Row : lock[row] \notin {None, r} => lock'[row] = lock[row],
         HeldRows(r)' /\ Draft(r)'
  PROVE  TransactionInv'
  <1>1. ASSUME NEW q \in Request, q # r
        PROVE  HeldRows(q)' /\ Draft(q)'
    <2>1. \A row \in Row : lock[row] = q => lock'[row] = q
      BY <1>1, DisputeResolutionAssumption
    <2>2. HeldRows(q) /\ Draft(q)
      BY DEF CoreInv, TransactionInv
    <2>3. QED
      BY <1>1, <2>1, <2>2, Frame DEF CoreInv, tables
  <1>2. QED
    BY <1>1 DEF TransactionInv

LEMMA RollbackInv ==
  ASSUME CoreInv, NEW r \in Request, NEW reply \in Reply, req[r].step # "idle", Rollback(r, reply)
  PROVE  CoreInv'
  <1>1. TypeOK'
    BY RollbackType DEF CoreInv
  <1>2. HeldRows(r)' /\ Draft(r)'
    BY EndedInv DEF CoreInv, TransactionInv, Rollback
  <1>3. \A q \in Request \ {r} : req'[q] = req[q]
    BY DEF Rollback, Ended, CoreInv, TypeOK
  <1>4. \A row \in Row : lock[row] \notin {None, r} => lock'[row] = lock[row]
    BY DEF Rollback, Unlocked
  <1>5. QED
    BY <1>1, <1>2, <1>3, <1>4, Own DEF CoreInv, Rollback

\* Field by field, a record of which only the step changes.
LEMMA StepTo ==
  ASSUME TypeOK, NEW r \in Request, NEW next \in Step, req' = [req EXCEPT ![r].step = next]
  PROVE  /\ req' \in [Request -> RequestState]
         /\ req'[r].step = next
         /\ req'[r].dispute = req[r].dispute
         /\ req'[r].resolution = req[r].resolution
         /\ req'[r].read = req[r].read
         /\ req'[r].after = req[r].after
         /\ req'[r].wrote = req[r].wrote
         /\ \A q \in Request \ {r} : req'[q] = req[q]
  BY DEF TypeOK, RequestState

\* The steps up to the credit are steps, and none of them has credited.
LEMMA EarlySteps ==
    /\ {"idle", "connect", "answered", "dispute", "escrow", "wallet", "credit"}
          \subseteq Step \ HasCredited
    /\ HasCredited \subseteq Step
  BY Steps DEF Step, InTransaction

-----------------------------------------------------------------------------
\* The core invariant, one lemma for the acts of a request before COMMIT.
LEMMA SubmitInv ==
  ASSUME CoreInv, NEW r \in Request, NEW d \in Dispute, NEW resolution \in Resolution,
         Submit(r, d, resolution)
  PROVE  CoreInv'
  <1>1. [req[r] EXCEPT !.step = "connect", !.reply = None, !.dispute = d, !.resolution = resolution]
           \in RequestState
    BY DEF CoreInv, TypeOK, RequestState, Step
  <1>2. TypeOK'
    BY <1>1 DEF CoreInv, TypeOK, Submit, tables
  <1>3. /\ req'[r].step = "connect"
        /\ req'[r].dispute = d
        /\ req'[r].wrote = req[r].wrote
    BY DEF CoreInv, TypeOK, RequestState, Submit
  <1>4. req[r].wrote = {}
    BY DEF Submit, CoreInv, TransactionInv, Draft, DraftAt
  <1>5. HeldRows(r)' /\ Draft(r)'
    BY <1>3, <1>4, Steps DEF HeldRows, Draft, DisputeOf, HoldsDispute, DraftAt
  <1>6. QED
    BY <1>2, <1>5, Own DEF Submit, CoreInv, TypeOK

LEMMA ConnectInv ==
  ASSUME CoreInv, NEW r \in Request, Connect(r)
  PROVE  CoreInv'
  <1>1. TypeOK'
    BY StepTo, EarlySteps DEF CoreInv, TypeOK, Connect, tables
  <1>2. /\ req'[r].step = "dispute"
        /\ req'[r].dispute = req[r].dispute
        /\ req'[r].wrote = req[r].wrote
        /\ \A q \in Request \ {r} : req'[q] = req[q]
    BY StepTo DEF CoreInv, Connect, Step, InTransaction
  <1>3. req[r].step = "connect" /\ req[r].wrote = {} /\ req[r].dispute \in Dispute
    BY DEF Connect, CoreInv, TransactionInv, Draft, DraftAt, DisputeOf
  <1>4. HeldRows(r)' /\ Draft(r)'
    BY <1>2, <1>3, Steps DEF HeldRows, Draft, DisputeOf, HoldsDispute, DraftAt
  <1>5. QED
    BY <1>1, <1>2, <1>4, Own DEF Connect, CoreInv

LEMMA LockDisputeInv ==
  ASSUME CoreInv, NEW r \in Request, LockDispute(r)
  PROVE  CoreInv'
  <1>1. CASE disputes[DisputeOf(r)] \in Unresolved /\ Take(r, DisputeOf(r), "escrow")
    <2>1. DisputeOf(r) \in Dispute
      BY DEF LockDispute, CoreInv, TransactionInv, Draft
    <2>2. TypeOK'
      BY <1>1, <2>1, Rows, TakeType DEF CoreInv, Step, InTransaction
    <2>3. /\ req'[r].step = "escrow"
          /\ req'[r].dispute = req[r].dispute
          /\ req'[r].wrote = req[r].wrote
          /\ \A q \in Request \ {r} : req'[q] = req[q]
      BY <1>1, StepTo DEF Take, CoreInv, Step, InTransaction
    <2>4. lock' = [lock EXCEPT ![DisputeOf(r)] = r] /\ lock'[DisputeOf(r)] = r
      BY <1>1, <2>1, Rows DEF Take, CoreInv, TypeOK
    <2>5. req[r].wrote = {}
      BY DEF LockDispute, CoreInv, TransactionInv, Draft, DraftAt
    <2>6. HeldRows(r)' /\ Draft(r)'
      <3>1. Draft(r)'
        BY <2>1, <2>3, <2>5, Steps DEF Draft, DisputeOf, DraftAt
      <3>2. HeldRows(r)'
        BY <1>1, <2>3, <2>4, Steps DEF Take, tables, HeldRows, DisputeOf, HoldsDispute
      <3>3. QED
        BY <3>1, <3>2
    <2>7. QED
      BY <1>1, <2>1, <2>2, <2>3, <2>4, <2>6, Own, Rows DEF Take, CoreInv, TypeOK
  <1>2. CASE \E reply \in Reply : Rollback(r, reply)
    BY <1>2, RollbackInv DEF LockDispute
  <1>3. QED
    BY <1>1, <1>2 DEF LockDispute, Reply

LEMMA LockEscrowInv ==
  ASSUME CoreInv, NEW r \in Request, LockEscrow(r)
  PROVE  CoreInv'
  <1>1. CASE EscrowFor(r) \in Escrow /\ Take(r, EscrowFor(r), "wallet")
    <2>1. DisputeOf(r) \in Dispute /\ DisputeOf(r) # EscrowFor(r)
      BY <1>1, EscrowDataAssumption DEF LockEscrow, CoreInv, TransactionInv, Draft
    <2>2. TypeOK'
      BY <1>1, Rows, TakeType DEF CoreInv, Step, InTransaction
    <2>3. /\ req'[r].step = "wallet"
          /\ req'[r].dispute = req[r].dispute
          /\ req'[r].wrote = req[r].wrote
          /\ \A q \in Request \ {r} : req'[q] = req[q]
      BY <1>1, StepTo DEF Take, CoreInv, Step, InTransaction
    <2>4. /\ lock' = [lock EXCEPT ![EscrowFor(r)] = r]
          /\ lock'[EscrowFor(r)] = r
          /\ lock'[DisputeOf(r)] = lock[DisputeOf(r)]
      BY <1>1, <2>1, Rows DEF Take, CoreInv, TypeOK
    <2>5. /\ req[r].wrote = {}
          /\ lock[DisputeOf(r)] = r
          /\ disputes[DisputeOf(r)] \in Unresolved
      BY DEF LockEscrow, CoreInv, TransactionInv, HeldRows, Draft, DraftAt, HoldsDispute
    <2>6. HeldRows(r)' /\ Draft(r)'
      <3>1. Draft(r)'
        BY <2>1, <2>3, <2>5, Steps DEF Draft, DisputeOf, DraftAt
      <3>2. HeldRows(r)'
        BY <1>1, <2>3, <2>4, <2>5, Steps DEF Take, tables, HeldRows, DisputeOf, EscrowFor, HoldsDispute
      <3>3. QED
        BY <3>1, <3>2
    <2>7. QED
      BY <1>1, <2>2, <2>3, <2>4, <2>6, Own, Rows DEF Take, CoreInv, TypeOK
  <1>2. CASE Rollback(r, "not_found")
    BY <1>2, RollbackInv DEF LockEscrow, Reply
  <1>3. QED
    BY <1>1, <1>2 DEF LockEscrow
LEMMA LockWalletInv ==
  ASSUME CoreInv, NEW r \in Request, LockWallet(r)
  PROVE  CoreInv'
  <1> DEFINE u == PayeeFor(r)
  <1>1. CASE u \in Owner /\ ~ Rollback(r, "not_found")
    <2>1. /\ lock[u] = None
          /\ lock' = [lock EXCEPT ![u] = r]
          /\ req' = [req EXCEPT ![r].step = "credit", ![r].read = balance[u]]
          /\ UNCHANGED tables
      BY <1>1 DEF LockWallet
    <2>2. /\ DisputeOf(r) \in Dispute /\ EscrowFor(r) \in Escrow
          /\ DisputeOf(r) # u /\ EscrowFor(r) # u
          /\ lock[DisputeOf(r)] = r /\ lock[EscrowFor(r)] = r
          /\ disputes[DisputeOf(r)] \in Unresolved
          /\ req[r].wrote = {}
      BY <1>1, Steps, EscrowDataAssumption
         DEF LockWallet, CoreInv, TransactionInv, HeldRows, Draft, DraftAt, HoldsDispute
    <2>3. /\ req' \in [Request -> RequestState]
          /\ req'[r].step = "credit"
          /\ req'[r].read = balance[u]
          /\ req'[r].dispute = req[r].dispute
          /\ req'[r].resolution = req[r].resolution
          /\ req'[r].wrote = req[r].wrote
          /\ \A q \in Request \ {r} : req'[q] = req[q]
      <3>1. balance[u] \in Nat
        BY <1>1 DEF CoreInv, TypeOK
      <3>2. [req[r] EXCEPT !.step = "credit", !.read = balance[u]] \in RequestState
        BY <3>1, EarlySteps DEF CoreInv, TypeOK, RequestState
      <3>3. QED
        BY <2>1, <3>2 DEF CoreInv, TypeOK, RequestState
    <2>4. /\ lock'[u] = r
          /\ \A row \in Row \ {u} : lock'[row] = lock[row]
          /\ lock' \in [Row -> Request \cup {None}]
      BY <1>1, <2>1, Rows DEF CoreInv, TypeOK
    <2>5. TypeOK'
      BY <2>1, <2>3, <2>4 DEF CoreInv, TypeOK, tables
    <2>6. HeldRows(r)'
      <3>1. PayeeFor(r)' = u
        BY <2>3 DEF PayeeFor, EscrowFor, DisputeOf
      <3>2. EscrowFor(r)' = EscrowFor(r) /\ DisputeOf(r)' = DisputeOf(r)
        BY <2>3 DEF EscrowFor, DisputeOf
      <3>3. lock'[DisputeOf(r)] = r /\ lock'[EscrowFor(r)] = r
        BY <2>2, <2>4, Rows
      <3>4. QED
        BY <1>1, <2>1, <2>2, <2>3, <2>4, <3>1, <3>2, <3>3, Steps DEF HeldRows, tables
    <2>7. Draft(r)'
      BY <2>2, <2>3, Steps DEF Draft, DisputeOf, DraftAt
    <2>8. QED
      BY <2>1, <2>3, <2>4, <2>5, <2>6, <2>7, Own DEF CoreInv
  <1>2. CASE Rollback(r, "not_found")
    BY <1>2, RollbackInv DEF LockWallet, Reply
  <1>3. QED
    BY <1>1, <1>2 DEF LockWallet

\* The three statements that only add a table to the draft.
LEMMA WriteInv ==
  ASSUME CoreInv, NEW r \in Request, NEW table \in DraftTable, NEW next \in HasCredited,
         req[r].step \in HasCredited, Write(r, table, next),
         DraftAt(next) = DraftAt(req[r].step) \cup {table}
  PROVE  CoreInv'
  <1>1. TypeOK'
    BY EarlySteps, WriteType DEF CoreInv
  <1>2. /\ req'[r].step = next
        /\ req'[r].read = req[r].read
        /\ req'[r].after = req[r].after
        /\ req'[r].dispute = req[r].dispute
        /\ req'[r].resolution = req[r].resolution
        /\ req'[r].wrote = req[r].wrote \cup {table}
        /\ \A q \in Request \ {r} : req'[q] = req[q]
    BY DEF Write, CoreInv, TypeOK, RequestState
  <1>3. HeldRows(r) /\ Draft(r)
    BY DEF CoreInv, TransactionInv
  <1>4. UNCHANGED <<tables, lock>>
    BY DEF Write
  <1>5. HeldRows(r)'
    BY <1>2, <1>3, <1>4, Steps
       DEF HeldRows, PayeeFor, EscrowFor, DisputeOf, HoldsDispute, tables
  <1>6. Draft(r)'
    BY <1>2, <1>3, Steps DEF Draft, EscrowFor, DisputeOf
  <1>7. QED
    BY <1>1, <1>2, <1>4, <1>5, <1>6, Own DEF CoreInv
LEMMA CreditWalletInv ==
  ASSUME CoreInv, NEW r \in Request, CreditWallet(r)
  PROVE  CoreInv'
  <1> DEFINE sum == req[r].read + Amount[EscrowFor(r)]
  <1>1. HeldRows(r) /\ Draft(r) /\ req[r].step = "credit"
    BY DEF CreditWallet, CoreInv, TransactionInv
  <1>2. EscrowFor(r) \in Escrow /\ req[r].wrote = {}
    BY <1>1, Steps DEF HeldRows, Draft, DraftAt
  <1>3. sum \in Nat
    BY <1>2, EscrowDataAssumption DEF CoreInv, TypeOK, RequestState
  <1>4. req' = [req EXCEPT ![r] = [req[r] EXCEPT !.step = "entry", !.after = sum,
                                                 !.wrote = {"wallets"}]]
    BY <1>2 DEF CreditWallet, CoreInv, TypeOK, RequestState
  <1>5. [req[r] EXCEPT !.step = "entry", !.after = sum, !.wrote = {"wallets"}] \in RequestState
    BY <1>3 DEF CoreInv, TypeOK, RequestState, Step, InTransaction, DraftTable
  <1>6. /\ req' \in [Request -> RequestState]
        /\ req'[r].step = "entry"
        /\ req'[r].after = sum
        /\ req'[r].read = req[r].read
        /\ req'[r].dispute = req[r].dispute
        /\ req'[r].resolution = req[r].resolution
        /\ req'[r].wrote = {"wallets"}
        /\ \A q \in Request \ {r} : req'[q] = req[q]
    BY <1>4, <1>5 DEF CoreInv, TypeOK, RequestState
  <1>7. UNCHANGED <<tables, lock>>
    BY DEF CreditWallet
  <1>8. TypeOK'
    BY <1>6, <1>7 DEF CoreInv, TypeOK, tables
  <1>9. HeldRows(r)'
    BY <1>1, <1>6, <1>7, Steps
       DEF HeldRows, PayeeFor, EscrowFor, DisputeOf, HoldsDispute, tables
  <1>10. Draft(r)'
    BY <1>1, <1>6, Steps DEF Draft, EscrowFor, DisputeOf, DraftAt
  <1>11. QED
    BY <1>6, <1>7, <1>8, <1>9, <1>10, Own DEF CoreInv

\* At COMMIT the draft is complete, so all four tables change.
LEMMA CommitEffect ==
  ASSUME CoreInv, NEW r \in Request, Commit(r)
  PROVE  /\ DisputeOf(r) \in Dispute /\ disputes[DisputeOf(r)] \in Unresolved
         /\ EscrowFor(r) \in Escrow /\ PayeeFor(r) \in Owner
         /\ lock[DisputeOf(r)] = r /\ lock[PayeeFor(r)] = r
         /\ req[r].read = balance[PayeeFor(r)]
         /\ req[r].after = req[r].read + Amount[EscrowFor(r)]
         /\ balance' = [balance EXCEPT ![PayeeFor(r)] = req[r].after]
         /\ ledger' = [ledger EXCEPT ![PayeeFor(r)] = Append(@, Entry(r))]
         /\ escrows' = [escrows EXCEPT ![EscrowFor(r)] = EscrowOutcome(req[r].resolution)]
         /\ disputes' = [disputes EXCEPT ![DisputeOf(r)] = DisputeOutcome(req[r].resolution)]
  <1>1. HeldRows(r) /\ Draft(r) /\ req[r].step = "commit"
    BY DEF Commit, CoreInv, TransactionInv
  <1>2. req[r].wrote = DraftTable
    BY <1>1 DEF Draft, DraftAt
  <1>3. QED
    BY <1>1, <1>2, Steps DEF Commit, Publish, HeldRows, Draft, HoldsDispute, DraftTable

LEMMA EntryType ==
  ASSUME CoreInv, NEW r \in Request, EscrowFor(r) \in Escrow, DisputeOf(r) \in Dispute
  PROVE  Entry(r) \in LedgerRow
  BY EscrowDataAssumption DEF CoreInv, TypeOK, RequestState, Entry, LedgerRow, LedgerType, Resolution

LEMMA CommitInv ==
  ASSUME CoreInv, NEW r \in Request, Commit(r)
  PROVE  CoreInv'
  <1> DEFINE u == PayeeFor(r)
  <1>1. PICK reply \in Reply : req' = Ended(r, reply)
    BY DEF Commit, Reply
  <1>2. lock' = Unlocked(r)
    BY DEF Commit
  <1>3. TypeOK'
    <2>1. req' \in [Request -> RequestState] /\ lock' \in [Row -> Request \cup {None}]
      BY <1>1, <1>2, EndedType DEF CoreInv
    <2>2. balance' \in [Owner -> Nat]
      <3>1. req[r].after \in Nat /\ balance \in [Owner -> Nat]
        BY DEF CoreInv, TypeOK, RequestState
      <3>2. balance' = [balance EXCEPT ![u] = req[r].after]
        BY CommitEffect
      <3>3. QED
        BY <3>1, <3>2
    <2>3. ledger' \in [Owner -> Seq(LedgerRow)]
      <3>1. Append(ledger[u], Entry(r)) \in Seq(LedgerRow)
        BY CommitEffect, EntryType DEF CoreInv, TypeOK
      <3>2. ledger \in [Owner -> Seq(LedgerRow)] /\ u \in Owner
        BY CommitEffect DEF CoreInv, TypeOK
      <3>3. ledger' = [ledger EXCEPT ![u] = Append(ledger[u], Entry(r))]
        BY <3>2, CommitEffect
      <3>4. QED
        BY <3>1, <3>2, <3>3
    <2>4. escrows' \in [Escrow -> EscrowStatus]
      BY CommitEffect DEF CoreInv, TypeOK, EscrowOutcome, EscrowStatus
    <2>5. disputes' \in [Dispute -> DisputeStatus \cup {"absent"}]
      BY CommitEffect DEF CoreInv, TypeOK, DisputeOutcome, DisputeStatus
    <2>6. QED
      BY <2>1, <2>2, <2>3, <2>4, <2>5 DEF TypeOK
  <1>4. HeldRows(r)' /\ Draft(r)'
    BY <1>1, EndedInv DEF Commit, CoreInv, TransactionInv
  <1>5. ASSUME NEW q \in Request \ {r}
        PROVE  HeldRows(q)' /\ Draft(q)'
    <2>1. req'[q] = req[q]
      BY <1>1 DEF Ended, CoreInv, TypeOK
    <2>2. \A row \in Row : lock[row] = q => lock'[row] = q
      BY <1>2 DEF Unlocked
    <2>3. \A d \in Dispute : lock[d] = q => disputes'[d] = disputes[d]
      BY CommitEffect DEF CoreInv, TypeOK
    <2>4. \A v \in Owner : lock[v] = q => balance'[v] = balance[v]
      BY CommitEffect DEF CoreInv, TypeOK
    <2>5. QED
      BY <2>1, <2>2, <2>3, <2>4, Frame DEF CoreInv, TransactionInv
  <1>6. QED
    BY <1>3, <1>4, <1>5 DEF CoreInv, TransactionInv
-----------------------------------------------------------------------------
\* The client backend keeps off the rows that requests hold.
LEMMA ClientFrame ==
  ASSUME CoreInv, TypeOK', UNCHANGED <<lock, req>>,
         \A d \in Dispute : disputes'[d] = disputes[d] \/ lock[d] = None \/ disputes[d] \notin Unresolved,
         \A u \in Owner : balance'[u] = balance[u] \/ lock[u] = None
  PROVE  CoreInv'
  <1>1. ASSUME NEW q \in Request
        PROVE  HeldRows(q)' /\ Draft(q)'
    BY Frame, DisputeResolutionAssumption DEF CoreInv, TransactionInv
  <1>2. QED
    BY <1>1 DEF CoreInv, TransactionInv

LEMMA ClientCreditType ==
  ASSUME TypeOK, NEW u \in Owner, NEW e \in Escrow \cup {None},
         NEW type \in {"escrow_release", "deposit"}, NEW amount \in Nat,
         ClientCredit(u, e, type, amount)
  PROVE  balance' \in [Owner -> Nat] /\ ledger' \in [Owner -> Seq(LedgerRow)]
  <1> DEFINE row == [dispute |-> None, escrow |-> e, type |-> type, amount |-> amount,
                     before |-> balance[u], after |-> balance[u] + amount]
  <1>1. balance[u] \in Nat /\ balance[u] + amount \in Nat
    BY DEF TypeOK
  <1>2. row \in LedgerRow
    BY <1>1 DEF LedgerRow
  <1>3. ledger \in [Owner -> Seq(LedgerRow)] /\ Append(ledger[u], row) \in Seq(LedgerRow)
    BY <1>2 DEF TypeOK
  <1>4. ledger' = [ledger EXCEPT ![u] = Append(ledger[u], row)]
    BY DEF ClientCredit
  <1>5. balance' \in [Owner -> Nat]
    BY <1>1 DEF ClientCredit, TypeOK
  <1>6. QED
    BY <1>3, <1>4, <1>5

LEMMA ClientInv ==
  ASSUME CoreInv, Client
  PROVE  CoreInv'
  <1>1. ASSUME NEW d \in Dispute, RaiseDispute(d)
        PROVE  CoreInv'
    <2>1. escrows' \in [Escrow -> EscrowStatus]
      BY <1>1 DEF RaiseDispute, CoreInv, TypeOK, EscrowStatus
    <2>2. TypeOK'
      BY <1>1, <2>1 DEF RaiseDispute, CoreInv, TypeOK, DisputeStatus
    <2>3. QED
      BY <1>1, <2>2, ClientFrame DEF RaiseDispute, Unresolved, CoreInv, TypeOK
  <1>2. ASSUME NEW d \in Dispute, ReviewDispute(d) \/ WithdrawDispute(d)
        PROVE  CoreInv'
    <2>1. TypeOK'
      BY <1>2 DEF ReviewDispute, WithdrawDispute, CoreInv, TypeOK, DisputeStatus
    <2>2. QED
      BY <1>2, <2>1, ClientFrame DEF ReviewDispute, WithdrawDispute, CoreInv, TypeOK
  <1>3. ASSUME NEW e \in Escrow, ConfirmDelivery(e)
        PROVE  CoreInv'
    <2>1. TypeOK'
      BY <1>3 DEF ConfirmDelivery, CoreInv, TypeOK, EscrowStatus
    <2>2. QED
      BY <1>3, <2>1, ClientFrame DEF ConfirmDelivery
  <1>4. ASSUME NEW e \in Escrow, ClientPayout(e)
        PROVE  CoreInv'
    <2>1. Seller[e] \in Owner /\ ClientCredit(Seller[e], e, "escrow_release", Amount[e])
      BY <1>4 DEF ClientPayout
    <2>2. balance' \in [Owner -> Nat] /\ ledger' \in [Owner -> Seq(LedgerRow)]
      BY <2>1, ClientCreditType, EscrowDataAssumption DEF CoreInv
    <2>3. TypeOK'
      BY <1>4, <2>2 DEF ClientPayout, CoreInv, TypeOK, EscrowStatus
    <2>4. QED
      BY <1>4, <2>1, <2>3, ClientFrame DEF ClientPayout, ClientCredit, CoreInv, TypeOK
  <1>5. ASSUME NEW u \in Owner, NEW amount \in Movement, Deposit(u, amount)
        PROVE  CoreInv'
    <2>1. ClientCredit(u, None, "deposit", amount)
      BY <1>5 DEF Deposit
    <2>2. balance' \in [Owner -> Nat] /\ ledger' \in [Owner -> Seq(LedgerRow)]
      BY <2>1, ClientCreditType, DisputeResolutionAssumption DEF CoreInv
    <2>3. TypeOK'
      BY <1>5, <2>2 DEF Deposit, CoreInv, TypeOK
    <2>4. QED
      BY <1>5, <2>1, <2>3, ClientFrame DEF Deposit, ClientCredit, CoreInv, TypeOK
  <1>6. QED
    BY <1>1, <1>2, <1>3, <1>4, <1>5 DEF Client

LEMMA CoreInit == Init => CoreInv
  <1> SUFFICES ASSUME Init PROVE CoreInv
    OBVIOUS
  <1>1. TypeOK
    BY DEF Init, TypeOK, DisputeStatus, EscrowStatus, RequestState, Step, Resolution, DraftTable
  <1>2. TransactionInv
    BY Steps DEF Init, TransactionInv, HeldRows, Draft, HoldsDispute, DraftAt
  <1>3. QED
    BY <1>1, <1>2 DEF CoreInv

LEMMA CoreNext == CoreInv /\ [Next]_vars => CoreInv'
  <1> SUFFICES ASSUME CoreInv, [Next]_vars PROVE CoreInv'
    OBVIOUS
  <1>1. ASSUME NEW r \in Request, NEW d \in Dispute, NEW resolution \in Resolution,
               Submit(r, d, resolution)
        PROVE  CoreInv'
    BY <1>1, SubmitInv
  <1>2. ASSUME NEW r \in Request, Handle(r)
        PROVE  CoreInv'
    <2>1. CASE ConnectTimeout(r)
      BY <2>1, RollbackInv DEF ConnectTimeout, Reply
    <2>2. CASE InsertEntry(r)
      BY <2>2, WriteInv, Steps DEF InsertEntry, DraftAt, DraftTable
    <2>3. CASE UpdateEscrow(r)
      BY <2>3, WriteInv, Steps DEF UpdateEscrow, DraftAt, DraftTable
    <2>4. CASE UpdateDispute(r)
      BY <2>4, WriteInv, Steps DEF UpdateDispute, DraftAt, DraftTable
    <2>5. QED
      BY <1>2, <2>1, <2>2, <2>3, <2>4, ConnectInv, LockDisputeInv, LockEscrowInv,
         LockWalletInv, CreditWalletInv, CommitInv DEF Handle
  <1>3. ASSUME NEW r \in Request, Fail(r)
        PROVE  CoreInv'
    BY <1>3, RollbackInv DEF Fail, Reply, InTransaction
  <1>4. CASE Client
    BY <1>4, ClientInv
  <1>5. CASE UNCHANGED vars
    BY <1>5 DEF vars, CoreInv, TypeOK, TransactionInv, HeldRows, Draft,
                DisputeOf, EscrowFor, PayeeFor
  <1>6. QED
    BY <1>1, <1>2, <1>3, <1>4, <1>5 DEF Next

\* Whatever the requests, failures and the client backend do, every variable
\* keeps its type.
THEOREM TypeCorrect == Spec => []TypeOK
  <1>1. CoreInv => TypeOK
    BY DEF CoreInv
  <1>2. QED
    BY <1>1, CoreInit, CoreNext, PTL DEF Spec

\* At every step a request holds the rows it has read, and its draft is what
\* its statements have written so far, computed from the balance the wallet
\* still has: no other request and no client came between.
THEOREM TransactionsIsolated == Spec => []TransactionInv
  <1>1. CoreInv => TransactionInv
    BY DEF CoreInv
  <1>2. QED
    BY <1>1, CoreInit, CoreNext, PTL DEF Spec
-----------------------------------------------------------------------------
(* Ledgers, payments and replies.  Only COMMIT and the client backend change
   the tables; every other step leaves them alone. *)

LEMMA TablesUnchanged ==
  ASSUME [Next]_vars, ~ \E r \in Request : Commit(r), ~ Client
  PROVE  UNCHANGED tables
  BY DEF Next, Handle, Submit, Connect, ConnectTimeout, LockDispute, LockEscrow, LockWallet,
         CreditWallet, InsertEntry, UpdateEscrow, UpdateDispute, Fail, Rollback, Take, Write,
         vars, tables

\* Appending a row that starts from the wallet's balance, and moving the
\* balance to where that row ends, keeps the chain.
LEMMA AppendChain ==
  ASSUME TypeOK, LedgerChain, NEW u \in Owner, NEW row \in LedgerRow,
         row.before = balance[u], row.after = row.before + row.amount,
         ledger' = [ledger EXCEPT ![u] = Append(ledger[u], row)],
         balance' = [balance EXCEPT ![u] = row.after]
  PROVE  LedgerChain'
  <1> SUFFICES ASSUME NEW v \in Owner
               PROVE  /\ balance'[v] = IF ledger'[v] = << >> THEN 0
                                       ELSE ledger'[v][Len(ledger'[v])].after
                      /\ \A i \in 1..Len(ledger'[v]) :
                           /\ ledger'[v][i].after = ledger'[v][i].before + ledger'[v][i].amount
                           /\ ledger'[v][i].before = IF i = 1 THEN 0 ELSE ledger'[v][i - 1].after
    BY DEF LedgerChain
  <1>1. CASE v # u
    BY <1>1 DEF TypeOK, LedgerChain
  <1>2. CASE v = u
    <2> DEFINE rows == ledger[u]
    <2>1. /\ rows \in Seq(LedgerRow)
          /\ ledger'[v] = Append(rows, row)
          /\ balance'[v] = row.after
      BY <1>2 DEF TypeOK
    <2>2. /\ Len(Append(rows, row)) = Len(rows) + 1
          /\ Append(rows, row)[Len(rows) + 1] = row
          /\ \A i \in 1..Len(rows) : Append(rows, row)[i] = rows[i]
          /\ Append(rows, row) # << >>
          /\ Len(rows) \in Nat
      BY <2>1
    <2>3. /\ balance[u] = IF rows = << >> THEN 0 ELSE rows[Len(rows)].after
          /\ \A i \in 1..Len(rows) :
                /\ rows[i].after = rows[i].before + rows[i].amount
                /\ rows[i].before = IF i = 1 THEN 0 ELSE rows[i - 1].after
      BY DEF LedgerChain
    <2>4. rows = << >> <=> Len(rows) = 0
      BY <2>1
    <2>5. ASSUME NEW i \in 1..(Len(rows) + 1)
          PROVE  /\ Append(rows, row)[i].after = Append(rows, row)[i].before + Append(rows, row)[i].amount
                 /\ Append(rows, row)[i].before = IF i = 1 THEN 0 ELSE Append(rows, row)[i - 1].after
      <3>1. CASE i = Len(rows) + 1
        BY <3>1, <2>2, <2>3, <2>4
      <3>2. CASE i \in 1..Len(rows)
        <4>1. i = 1 \/ i - 1 \in 1..Len(rows)
          BY <3>2, <2>2
        <4>2. QED
          BY <3>2, <4>1, <2>2, <2>3
      <3>3. QED
        BY <3>1, <3>2, <2>2
    <2>6. QED
      BY <2>1, <2>2, <2>5
  <1>3. QED
    BY <1>1, <1>2

LEMMA ClientAppends ==
  ASSUME CoreInv, Client, ~ UNCHANGED <<balance, ledger>>
  PROVE  \E u \in Owner : \E row \in LedgerRow :
            /\ row.dispute = None
            /\ row.before = balance[u]
            /\ row.after = row.before + row.amount
            /\ ledger' = [ledger EXCEPT ![u] = Append(ledger[u], row)]
            /\ balance' = [balance EXCEPT ![u] = row.after]
            /\ UNCHANGED disputes
  <1>1. PICK u \in Owner, e \in Escrow \cup {None}, type \in {"escrow_release", "deposit"},
             amount \in Nat : ClientCredit(u, e, type, amount) /\ UNCHANGED disputes
    <2>1. ASSUME NEW e \in Escrow, ClientPayout(e)
          PROVE  /\ Seller[e] \in Owner /\ Amount[e] \in Nat /\ UNCHANGED disputes
                 /\ ClientCredit(Seller[e], e, "escrow_release", Amount[e])
      BY <2>1, EscrowDataAssumption DEF ClientPayout
    <2>2. ASSUME NEW u \in Owner, NEW amount \in Movement, Deposit(u, amount)
          PROVE  amount \in Nat /\ UNCHANGED disputes /\ ClientCredit(u, None, "deposit", amount)
      BY <2>2, DisputeResolutionAssumption DEF Deposit
    <2>3. \/ \E e \in Escrow : ClientPayout(e)
          \/ \E u \in Owner, amount \in Movement : Deposit(u, amount)
      BY DEF Client, RaiseDispute, ReviewDispute, WithdrawDispute, ConfirmDelivery
    <2>4. QED
      BY <2>1, <2>2, <2>3
  <1> DEFINE row == [dispute |-> None, escrow |-> e, type |-> type, amount |-> amount,
                     before |-> balance[u], after |-> balance[u] + amount]
  <1>2. row \in LedgerRow
    BY DEF LedgerRow, CoreInv, TypeOK
  <1>3. /\ ledger' = [ledger EXCEPT ![u] = Append(ledger[u], row)]
        /\ balance' = [balance EXCEPT ![u] = row.after]
    BY <1>1 DEF ClientCredit
  <1>4. QED
    BY <1>1, <1>2, <1>3

LEMMA ChainNext == CoreInv /\ LedgerChain /\ [Next]_vars => LedgerChain'
  <1> SUFFICES ASSUME CoreInv, LedgerChain, [Next]_vars PROVE LedgerChain'
    OBVIOUS
  <1>1. ASSUME NEW r \in Request, Commit(r)
        PROVE  LedgerChain'
    <2>1. Entry(r) \in LedgerRow /\ PayeeFor(r) \in Owner
      BY <1>1, CommitEffect, EntryType
    <2>2. /\ Entry(r).before = balance[PayeeFor(r)]
          /\ Entry(r).after = Entry(r).before + Entry(r).amount
          /\ balance' = [balance EXCEPT ![PayeeFor(r)] = Entry(r).after]
          /\ ledger' = [ledger EXCEPT ![PayeeFor(r)] = Append(ledger[PayeeFor(r)], Entry(r))]
      BY <1>1, CommitEffect DEF Entry
    <2>3. QED
      BY <2>1, <2>2, AppendChain DEF CoreInv
  <1>2. CASE Client /\ ~ UNCHANGED <<balance, ledger>>
    BY <1>2, ClientAppends, AppendChain DEF CoreInv
  <1>3. CASE UNCHANGED <<balance, ledger>>
    BY <1>3 DEF LedgerChain
  <1>4. QED
    BY <1>1, <1>2, <1>3, TablesUnchanged DEF tables

\* Every wallet's ledger is a statement of account that ends at the wallet's
\* balance: no credit is lost or applied to a balance that had moved on.
THEOREM LedgersChained == Spec => []LedgerChain
  <1>1. Init => LedgerChain
    BY DEF Init, LedgerChain
  <1>2. QED
    BY <1>1, CoreInit, CoreNext, ChainNext, PTL DEF Spec
-----------------------------------------------------------------------------
\* The rows of the ledgers after one is appended: the old ones and that one.
LEMMA AppendRows ==
  ASSUME TypeOK, NEW u \in Owner, NEW row \in LedgerRow,
         ledger' = [ledger EXCEPT ![u] = Append(ledger[u], row)]
  PROVE  /\ Len(ledger[u]) + 1 \in 1..Len(ledger'[u])
         /\ ledger'[u][Len(ledger[u]) + 1] = row
         /\ \A v \in Owner : \A j \in 1..Len(ledger[v]) :
               j \in 1..Len(ledger'[v]) /\ ledger'[v][j] = ledger[v][j]
         /\ \A v \in Owner : \A j \in 1..Len(ledger'[v]) :
               \/ j \in 1..Len(ledger[v])
               \/ v = u /\ j = Len(ledger[u]) + 1
  <1>1. /\ ledger[u] \in Seq(LedgerRow)
        /\ ledger'[u] = Append(ledger[u], row)
        /\ \A v \in Owner \ {u} : ledger'[v] = ledger[v]
    BY DEF TypeOK
  <1>2. /\ Len(ledger[u]) \in Nat
        /\ Len(ledger'[u]) = Len(ledger[u]) + 1
        /\ ledger'[u][Len(ledger[u]) + 1] = row
        /\ \A j \in 1..Len(ledger[u]) : ledger'[u][j] = ledger[u][j]
    BY <1>1
  <1>3. QED
    BY <1>1, <1>2

\* What PaidOnceIfResolved says of one dispute.
NotPaid(d) == \A u \in Owner : \A i \in 1..Len(ledger[u]) : ledger[u][i].dispute # d

PaidAt(d, u, i) ==
    /\ ledger[u][i].dispute = d
    /\ u = IF disputes[d] = "resolved_refund" THEN Buyer[EscrowOf[d]] ELSE Seller[EscrowOf[d]]
    /\ ledger[u][i].amount = Amount[EscrowOf[d]]
    /\ \A v \in Owner : \A j \in 1..Len(ledger[v]) :
          ledger[v][j].dispute = d => v = u /\ j = i

LEMMA PaidOnceParts ==
  PaidOnceIfResolved <=>
    \A d \in Dispute :
        /\ disputes[d] \notin Resolved => NotPaid(d)
        /\ disputes[d] \in Resolved =>
              \E u \in Owner : \E i \in 1..Len(ledger[u]) : PaidAt(d, u, i)
  BY DEF PaidOnceIfResolved, NotPaid, PaidAt

\* A row about another dispute, or about none, leaves a dispute's payment.
LEMMA OtherPayment ==
  ASSUME TypeOK, NEW u \in Owner, NEW row \in LedgerRow,
         ledger' = [ledger EXCEPT ![u] = Append(ledger[u], row)],
         NEW d \in Dispute, row.dispute # d, disputes'[d] = disputes[d]
  PROVE  /\ NotPaid(d) => NotPaid(d)'
         /\ \A v \in Owner : \A i \in 1..Len(ledger[v]) :
               PaidAt(d, v, i) => i \in 1..Len(ledger'[v]) /\ PaidAt(d, v, i)'
  <1>1. NotPaid(d) => NotPaid(d)'
    BY AppendRows DEF NotPaid
  <1>2. ASSUME NEW v \in Owner, NEW i \in 1..Len(ledger[v]), PaidAt(d, v, i)
        PROVE  i \in 1..Len(ledger'[v]) /\ PaidAt(d, v, i)'
    BY <1>2, AppendRows DEF PaidAt
  <1>3. QED
    BY <1>1, <1>2

LEMMA PaidNext == CoreInv /\ PaidOnceIfResolved /\ [Next]_vars => PaidOnceIfResolved'
  <1> SUFFICES ASSUME CoreInv, PaidOnceIfResolved, [Next]_vars,
                      NEW d \in Dispute
               PROVE  /\ disputes'[d] \notin Resolved => NotPaid(d)'
                      /\ disputes'[d] \in Resolved =>
                            \E u \in Owner : \E i \in 1..Len(ledger'[u]) : PaidAt(d, u, i)'
    BY DEF PaidOnceIfResolved, NotPaid, PaidAt
  <1>0. /\ disputes[d] \notin Resolved => NotPaid(d)
        /\ disputes[d] \in Resolved =>
              \E u \in Owner : \E i \in 1..Len(ledger[u]) : PaidAt(d, u, i)
    BY PaidOnceParts
  <1>1. ASSUME NEW r \in Request, Commit(r), DisputeOf(r) = d
        PROVE  disputes'[d] \in Resolved /\
               \E u \in Owner : \E i \in 1..Len(ledger'[u]) : PaidAt(d, u, i)'
    <2>a. PICK u \in Owner : u = PayeeFor(r)
      BY <1>1, CommitEffect
    <2>b. PICK n \in Nat : n = Len(ledger[u]) + 1
      BY DEF CoreInv, TypeOK
    <2>1. /\ EscrowFor(r) = EscrowOf[d] /\ Entry(r) \in LedgerRow
          /\ ledger' = [ledger EXCEPT ![u] = Append(ledger[u], Entry(r))]
          /\ disputes[d] \in Unresolved
          /\ disputes'[d] = DisputeOutcome(req[r].resolution)
      BY <1>1, <2>a, CommitEffect, EntryType DEF EscrowFor, CoreInv, TypeOK
    <2>2. /\ disputes'[d] \in Resolved
          /\ u = IF disputes'[d] = "resolved_refund" THEN Buyer[EscrowOf[d]] ELSE Seller[EscrowOf[d]]
      BY <2>1, <2>a DEF DisputeOutcome, Resolved, PayeeFor, Payee
    <2>3. Entry(r).dispute = d /\ Entry(r).amount = Amount[EscrowOf[d]]
      BY <1>1, <2>1 DEF Entry
    <2>4. NotPaid(d)
      BY <1>0, <2>1 DEF Unresolved, Resolved
    <2>5. /\ n \in 1..Len(ledger'[u])
          /\ ledger'[u][n] = Entry(r)
          /\ \A v \in Owner : \A j \in 1..Len(ledger'[v]) :
                ledger'[v][j].dispute = d => v = u /\ j = n
      <3>1. /\ n \in 1..Len(ledger'[u])
            /\ ledger'[u][n] = Entry(r)
            /\ \A v \in Owner : \A j \in 1..Len(ledger[v]) : ledger'[v][j] = ledger[v][j]
            /\ \A v \in Owner : \A j \in 1..Len(ledger'[v]) :
                  j \in 1..Len(ledger[v]) \/ (v = u /\ j = n)
        <4>1. TypeOK
          BY DEF CoreInv
        <4>2. QED
          BY <4>1, <2>1, <2>b, AppendRows
      <3>2. QED
        BY <3>1, <2>4 DEF NotPaid
    <2>6. PaidAt(d, u, n)'
      BY <2>2, <2>3, <2>5 DEF PaidAt
    <2>7. QED
      BY <2>1, <2>2, <2>5, <2>6
  <1>2. ASSUME NEW u \in Owner, NEW row \in LedgerRow, row.dispute # d, disputes'[d] = disputes[d],
               ledger' = [ledger EXCEPT ![u] = Append(ledger[u], row)]
        PROVE  /\ disputes'[d] \notin Resolved => NotPaid(d)'
               /\ disputes'[d] \in Resolved =>
                     \E v \in Owner : \E i \in 1..Len(ledger'[v]) : PaidAt(d, v, i)'
    BY <1>0, <1>2, OtherPayment DEF CoreInv
  <1>3. ASSUME NEW r \in Request, Commit(r), DisputeOf(r) # d
        PROVE  /\ disputes'[d] \notin Resolved => NotPaid(d)'
               /\ disputes'[d] \in Resolved =>
                     \E v \in Owner : \E i \in 1..Len(ledger'[v]) : PaidAt(d, v, i)'
    <2>1. /\ PayeeFor(r) \in Owner /\ Entry(r) \in LedgerRow
          /\ ledger' = [ledger EXCEPT ![PayeeFor(r)] = Append(ledger[PayeeFor(r)], Entry(r))]
          /\ disputes'[d] = disputes[d]
          /\ Entry(r).dispute # d
      BY <1>3, CommitEffect, EntryType DEF CoreInv, TypeOK, Entry
    <2>2. QED
      BY <1>2, <2>1
  <1>4. CASE Client /\ ~ UNCHANGED <<balance, ledger>>
    BY <1>2, <1>4, ClientAppends, EscrowDataAssumption
  <1>5. CASE UNCHANGED ledger /\ (disputes'[d] = disputes[d] \/ {disputes[d], disputes'[d]} \cap Resolved = {})
    BY <1>0, <1>5 DEF NotPaid, PaidAt
  <1>6. Client /\ UNCHANGED ledger =>
           disputes'[d] = disputes[d] \/ {disputes[d], disputes'[d]} \cap Resolved = {}
    BY DEF Client, RaiseDispute, ReviewDispute, WithdrawDispute, ConfirmDelivery, ClientPayout,
           Deposit, Unresolved, Resolved, CoreInv, TypeOK
  <1>7. QED
    BY <1>1, <1>3, <1>4, <1>5, <1>6, TablesUnchanged DEF tables

\* A resolved dispute has been paid exactly once, in full and to the right
\* party; any other dispute has not been paid.
THEOREM PaidExactlyOnce == Spec => []PaidOnceIfResolved
  <1>1. Init => PaidOnceIfResolved
    <2> SUFFICES ASSUME Init PROVE PaidOnceIfResolved
      OBVIOUS
    <2>1. \A d \in Dispute : disputes[d] \notin Resolved
      BY DEF Init, Resolved
    <2>2. \A u \in Owner : ledger[u] = << >> /\ 1..Len(ledger[u]) = {}
      BY DEF Init
    <2>3. QED
      BY <2>1, <2>2 DEF PaidOnceIfResolved
  <1>2. QED
    BY <1>1, CoreInit, CoreNext, PaidNext, PTL DEF Spec
-----------------------------------------------------------------------------
(* Refinement: COMMIT is DisputeSettlement's Settle, the client backend's
   actions are its own, and everything else is a stuttering step. *)

outcomes == [d \in Dispute |-> OutcomeOf(disputes[d])]

LEMMA OutcomeUpdate ==
  ASSUME TypeOK, NEW d \in Dispute, NEW status, disputes' = [disputes EXCEPT ![d] = status]
  PROVE  outcomes' = [outcomes EXCEPT ![d] = OutcomeOf(status)]
  BY DEF outcomes, TypeOK

LEMMA OutcomeValues ==
    /\ OutcomeOf("absent") = "absent"
    /\ OutcomeOf("closed") = "closed"
    /\ \A status \in Unresolved : OutcomeOf(status) = "pending"
    /\ \A resolution \in Resolution : OutcomeOf(DisputeOutcome(resolution)) = resolution
  BY DEF OutcomeOf, Unresolved, Resolution, DisputeOutcome

LEMMA CommitSettles ==
  ASSUME CoreInv, NEW r \in Request, Commit(r)
  PROVE  Settlement!Settle(DisputeOf(r), req[r].resolution)
  <1> DEFINE d == DisputeOf(r)
  <1>1. /\ d \in Dispute /\ req[r].resolution \in Resolution
        /\ disputes[d] \in Unresolved
        /\ EscrowOf[d] \in Escrow
        /\ PayeeFor(r) = Payee(EscrowOf[d], req[r].resolution)
        /\ PayeeFor(r) \in Owner
    BY CommitEffect DEF EscrowFor, PayeeFor, CoreInv, TypeOK, RequestState
  <1>2. outcomes[d] = "pending"
    BY <1>1, OutcomeValues DEF outcomes
  <1>3. outcomes' = [outcomes EXCEPT ![d] = req[r].resolution]
    BY <1>1, CommitEffect, OutcomeUpdate, OutcomeValues DEF CoreInv
  <1>4. escrows' = [escrows EXCEPT ![EscrowOf[d]] = EscrowOutcome(req[r].resolution)]
    BY CommitEffect DEF EscrowFor
  <1>5. balance' = [balance EXCEPT ![PayeeFor(r)] = balance[PayeeFor(r)] + Amount[EscrowOf[d]]]
    BY CommitEffect DEF EscrowFor
  <1>6. QED
    BY <1>1, <1>2, <1>3, <1>4, <1>5
       DEF Settlement!Settle, Settlement!Payee, Payee, Settlement!EscrowOutcome, EscrowOutcome, outcomes

LEMMA ClientSettles ==
  ASSUME CoreInv, Client
  PROVE  [Settlement!Next]_(Settlement!vars)
  <1>1. ASSUME NEW d \in Dispute, RaiseDispute(d)
        PROVE  Settlement!Raise(d)
    <2>1. outcomes[d] = "absent" /\ outcomes' = [outcomes EXCEPT ![d] = "pending"]
      <3>1. disputes' = [disputes EXCEPT ![d] = "open"] /\ disputes[d] = "absent"
        BY <1>1 DEF RaiseDispute
      <3>2. outcomes' = [outcomes EXCEPT ![d] = OutcomeOf("open")]
        BY <3>1, OutcomeUpdate DEF CoreInv
      <3>3. QED
        BY <3>1, <3>2, OutcomeValues DEF outcomes, Unresolved
    <2>2. QED
      BY <1>1, <2>1 DEF RaiseDispute, Settlement!Raise, outcomes
  <1>2. ASSUME NEW d \in Dispute, ReviewDispute(d)
        PROVE  UNCHANGED Settlement!vars
    <2>1. outcomes[d] = "pending" /\ outcomes' = [outcomes EXCEPT ![d] = "pending"]
      <3>1. disputes' = [disputes EXCEPT ![d] = "under_review"] /\ disputes[d] = "open"
        BY <1>2 DEF ReviewDispute
      <3>2. outcomes' = [outcomes EXCEPT ![d] = OutcomeOf("under_review")]
        BY <3>1, OutcomeUpdate DEF CoreInv
      <3>3. QED
        BY <3>1, <3>2, OutcomeValues DEF outcomes, Unresolved
    <2>2. outcomes' = outcomes
      BY <2>1 DEF outcomes
    <2>3. QED
      BY <1>2, <2>2 DEF ReviewDispute, Settlement!vars, outcomes
  <1>3. ASSUME NEW d \in Dispute, WithdrawDispute(d)
        PROVE  Settlement!Withdraw(d)
    <2>1. outcomes[d] = "pending" /\ outcomes' = [outcomes EXCEPT ![d] = "closed"]
      <3>1. disputes' = [disputes EXCEPT ![d] = "closed"] /\ disputes[d] \in Unresolved
        BY <1>3 DEF WithdrawDispute
      <3>2. outcomes' = [outcomes EXCEPT ![d] = OutcomeOf("closed")]
        BY <3>1, OutcomeUpdate DEF CoreInv
      <3>3. QED
        BY <3>1, <3>2, OutcomeValues DEF outcomes
    <2>2. QED
      BY <1>3, <2>1 DEF WithdrawDispute, Settlement!Withdraw, outcomes
  <1>4. ASSUME NEW e \in Escrow, ConfirmDelivery(e)
        PROVE  Settlement!ConfirmDelivery(e)
    BY <1>4 DEF ConfirmDelivery, Settlement!ConfirmDelivery
  <1>5. ASSUME NEW e \in Escrow, ClientPayout(e)
        PROVE  Settlement!ClientPayout(e)
    BY <1>5 DEF ClientPayout, ClientCredit, Settlement!ClientPayout
  <1>6. ASSUME NEW u \in Owner, NEW amount \in Movement, Deposit(u, amount)
        PROVE  Settlement!Deposit(u, amount)
    BY <1>6 DEF Deposit, ClientCredit, Settlement!Deposit
  <1>7. QED
    BY <1>1, <1>2, <1>3, <1>4, <1>5, <1>6 DEF Client, Settlement!Next

LEMMA SettlementInit == Init => Settlement!Init
  BY OutcomeValues DEF Init, Settlement!Init

LEMMA SettlementNext == CoreInv /\ [Next]_vars => [Settlement!Next]_(Settlement!vars)
  <1> SUFFICES ASSUME CoreInv, [Next]_vars
               PROVE  [Settlement!Next]_(Settlement!vars)
    OBVIOUS
  <1>1. ASSUME NEW r \in Request, Commit(r)
        PROVE  Settlement!Next
    <2>1. DisputeOf(r) \in Dispute /\ req[r].resolution \in Resolution
      BY <1>1, CommitEffect DEF CoreInv, TypeOK, RequestState
    <2>2. QED
      BY <1>1, <2>1, CommitSettles DEF Settlement!Next, Settlement!Resolution, Resolution
  <1>2. CASE UNCHANGED tables
    BY <1>2 DEF tables, Settlement!vars
  <1>3. QED
    BY <1>1, <1>2, ClientSettles, TablesUnchanged

\* Resolving a dispute looks, in the tables, like one atomic settlement.
THEOREM ResolvesAtomically == Spec => SettlesAtomically
  <1>1. Init => Settlement!Init
    BY SettlementInit
  <1>2. QED
    BY <1>1, CoreInit, CoreNext, SettlementNext, PTL DEF Spec, SettlesAtomically, Settlement!Spec

-----------------------------------------------------------------------------
\* A final status stays: only COMMIT and the client backend write statuses,
\* and each has checked that the one it overwrites is not final.
LEMMA FinalStays ==
  ASSUME CoreInv, [Next]_vars, NEW d \in Dispute, disputes[d] \in Final
  PROVE  disputes'[d] = disputes[d]
  <1>1. disputes[d] \notin Unresolved \cup {"absent"}
    BY DEF Final, Resolved, Unresolved
  <1>2. ASSUME NEW r \in Request, Commit(r)
        PROVE  disputes'[d] = disputes[d]
    BY <1>1, <1>2, CommitEffect DEF CoreInv, TypeOK
  <1>3. CASE Client
    BY <1>1, <1>3 DEF Client, RaiseDispute, ReviewDispute, WithdrawDispute, ConfirmDelivery,
                      ClientPayout, Deposit, Unresolved, CoreInv, TypeOK
  <1>4. QED
    BY <1>2, <1>3, TablesUnchanged DEF tables

LEMMA EscrowNext == CoreInv /\ EscrowOver /\ [Next]_vars => EscrowOver'
  <1> DEFINE Over(c, e) ==
        \/ disputes[c] = "resolved_refund" /\ escrows[e] = "refunded"
        \/ disputes[c] = "resolved_release" /\ escrows[e] = "completed"
  <1> SUFFICES ASSUME CoreInv, EscrowOver, [Next]_vars,
                      NEW d \in Dispute, disputes'[d] \in Resolved
               PROVE  /\ EscrowOf[d] \in Escrow
                      /\ \E c \in Dispute : EscrowOf[c] = EscrowOf[d] /\ Over(c, EscrowOf[d])'
    BY DEF EscrowOver
  <1>1. ASSUME NEW r \in Request, Commit(r), EscrowFor(r) = EscrowOf[d]
        PROVE  /\ EscrowOf[d] \in Escrow
               /\ \E c \in Dispute : EscrowOf[c] = EscrowOf[d] /\ Over(c, EscrowOf[d])'
    <2>1. PICK c \in Dispute : c = DisputeOf(r)
      BY <1>1, CommitEffect
    <2>2. /\ EscrowOf[c] = EscrowOf[d] /\ EscrowOf[d] \in Escrow
          /\ disputes'[c] = DisputeOutcome(req[r].resolution)
          /\ escrows'[EscrowOf[d]] = EscrowOutcome(req[r].resolution)
      BY <1>1, <2>1, CommitEffect DEF EscrowFor, CoreInv, TypeOK
    <2>3. Over(c, EscrowOf[d])'
      BY <2>2 DEF DisputeOutcome, EscrowOutcome
    <2>4. QED
      BY <2>2, <2>3
  <1>2. ASSUME disputes[d] \in Resolved, UNCHANGED <<escrows[EscrowOf[d]]>>
        PROVE  /\ EscrowOf[d] \in Escrow
               /\ \E c \in Dispute : EscrowOf[c] = EscrowOf[d] /\ Over(c, EscrowOf[d])'
    <2>1. PICK c \in Dispute : EscrowOf[c] = EscrowOf[d] /\ Over(c, EscrowOf[d])
      BY <1>2 DEF EscrowOver
    <2>2. disputes'[c] = disputes[c]
      BY <2>1, FinalStays DEF Final, Resolved
    <2>3. QED
      BY <1>2, <2>1, <2>2 DEF EscrowOver
  <1>3. ASSUME NEW r \in Request, Commit(r), EscrowFor(r) # EscrowOf[d]
        PROVE  disputes[d] \in Resolved /\ UNCHANGED <<escrows[EscrowOf[d]]>>
    <2>1. DisputeOf(r) # d
      BY <1>3 DEF EscrowFor
    <2>2. disputes'[d] = disputes[d]
      BY <1>3, <2>1, CommitEffect DEF CoreInv, TypeOK
    <2>3. escrows' = [escrows EXCEPT ![EscrowFor(r)] = EscrowOutcome(req[r].resolution)]
      BY <1>3, CommitEffect
    <2>4. QED
      BY <1>3, <2>2, <2>3 DEF CoreInv, TypeOK
  <1>4. CASE Client
    <2>1. disputes[d] \in Resolved
      BY <1>4 DEF Client, RaiseDispute, ReviewDispute, WithdrawDispute, ConfirmDelivery,
                  ClientPayout, Deposit, Resolved, CoreInv, TypeOK
    <2>2. EscrowOf[d] \in Escrow /\ escrows[EscrowOf[d]] \in {"refunded", "completed"}
      BY <2>1 DEF EscrowOver
    <2>3. UNCHANGED <<escrows[EscrowOf[d]]>>
      BY <1>4, <2>2 DEF Client, RaiseDispute, ReviewDispute, WithdrawDispute, ConfirmDelivery,
                  ClientPayout, Deposit, CoreInv, TypeOK
    <2>4. QED
      BY <1>2, <2>1, <2>3
  <1>5. CASE UNCHANGED tables
    BY <1>2, <1>5 DEF tables
  <1>6. QED
    BY <1>1, <1>2, <1>3, <1>4, <1>5, TablesUnchanged

\* An escrow with a resolved dispute is over, with the status of one of its
\* resolved disputes' outcomes.
THEOREM EscrowsOver == Spec => []EscrowOver
  <1>1. Init => EscrowOver
    BY DEF Init, EscrowOver, Resolved
  <1>2. QED
    BY <1>1, CoreInit, CoreNext, EscrowNext, PTL DEF Spec
-----------------------------------------------------------------------------
\* What one step does to a request that is answered after it.
LEMMA Answers ==
  ASSUME CoreInv, [Next]_vars, NEW q \in Request, req'[q].step = "answered"
  PROVE  \/ req'[q] = req[q]
         \/ /\ req'[q].dispute = req[q].dispute /\ req'[q].resolution = req[q].resolution
            /\ \/ Commit(q)
               \/ req'[q].reply \notin {"ok", "bad_request"}
               \/ req'[q].reply = "bad_request" /\ disputes[DisputeOf(q)] \in Final /\ DisputeOf(q) \in Dispute
  <1>1. ASSUME NEW r \in Request, r # q, Handle(r) \/ Fail(r)
        PROVE  req'[q] = req[q]
    BY <1>1 DEF Handle, Connect, ConnectTimeout, LockDispute, LockEscrow, LockWallet, CreditWallet,
                InsertEntry, UpdateEscrow, UpdateDispute, Commit, Fail, Rollback, Ended, Take, Write,
                CoreInv, TypeOK
  <1>2. ASSUME NEW reply \in Reply, req' = Ended(q, reply)
        PROVE  /\ req'[q].dispute = req[q].dispute /\ req'[q].resolution = req[q].resolution
               /\ req'[q].reply = reply
    BY <1>2 DEF Ended, CoreInv, TypeOK, RequestState
  <1>3. ASSUME NEW next \in Step, req' = [req EXCEPT ![q].step = next]
        PROVE  req'[q].step = next
    BY <1>3 DEF CoreInv, TypeOK, RequestState
  <1>4. CASE LockDispute(q)
    <2>1. DisputeOf(q) \in Dispute
      BY <1>4 DEF LockDispute, CoreInv, TransactionInv, Draft
    <2>2. CASE Take(q, DisputeOf(q), "escrow")
      BY <2>2, <1>3, EarlySteps DEF Take
    <2>3. QED
      BY <1>2, <1>4, <2>1, <2>2 DEF LockDispute, Rollback, Reply, Final
  <1>5. CASE LockEscrow(q) \/ ConnectTimeout(q) \/ Fail(q)
    BY <1>2, <1>3, <1>5, EarlySteps DEF LockEscrow, ConnectTimeout, Fail, Rollback, Take, Reply
  <1>6. CASE LockWallet(q)
    <2>1. CASE Rollback(q, "not_found")
      BY <2>1, <1>2 DEF Rollback, Reply
    <2>2. CASE req' = [req EXCEPT ![q].step = "credit", ![q].read = balance[PayeeFor(q)]]
      BY <2>2 DEF CoreInv, TypeOK, RequestState
    <2>3. QED
      BY <1>6, <2>1, <2>2 DEF LockWallet
  <1>7. CASE Commit(q)
    BY <1>2, <1>7 DEF Commit, Reply
  <1>8. CASE \/ Connect(q) \/ CreditWallet(q) \/ InsertEntry(q) \/ UpdateEscrow(q) \/ UpdateDispute(q)
    BY <1>8 DEF Connect, CreditWallet, InsertEntry, UpdateEscrow, UpdateDispute, Write,
                CoreInv, TypeOK, RequestState
  <1>9. CASE Client \/ UNCHANGED vars
    BY <1>9 DEF Client, RaiseDispute, ReviewDispute, WithdrawDispute, ConfirmDelivery,
                ClientPayout, Deposit, vars
  <1>10. ASSUME NEW r \in Request, NEW d \in Dispute, NEW resolution \in Resolution,
                Submit(r, d, resolution)
         PROVE  req'[q] = req[q]
    BY <1>10 DEF Submit, CoreInv, TypeOK, RequestState
  <1>11. QED
    BY <1>1, <1>4, <1>5, <1>6, <1>7, <1>8, <1>9, <1>10 DEF Next, Handle

LEMMA HonestNext == CoreInv /\ HonestReply /\ [Next]_vars => HonestReply'
  <1> SUFFICES ASSUME CoreInv, HonestReply, [Next]_vars,
                      NEW q \in Request, req'[q].step = "answered"
               PROVE  /\ req'[q].reply = "ok" =>
                            disputes'[req'[q].dispute] = DisputeOutcome(req'[q].resolution)
                      /\ req'[q].reply = "bad_request" => disputes'[req'[q].dispute] \in Final
    BY DEF HonestReply, DisputeOf
  <1>1. CASE req'[q] = req[q]
    <2>1. req[q].dispute \in Dispute
      BY <1>1 DEF CoreInv, TransactionInv, Draft, DisputeOf
    <2>2. req[q].resolution \in Resolution
      BY DEF CoreInv, TypeOK, RequestState
    <2>3. req[q].reply \in {"ok", "bad_request"} => disputes[req[q].dispute] \in Final
      BY <1>1, <2>2 DEF HonestReply, DisputeOf, DisputeOutcome, Final, Resolved
    <2>4. req[q].reply \in {"ok", "bad_request"} =>
             disputes'[req[q].dispute] = disputes[req[q].dispute]
      BY <2>1, <2>3, FinalStays
    <2>5. QED
      BY <1>1, <2>3, <2>4 DEF HonestReply, DisputeOf
  <1>2. CASE /\ req'[q].dispute = req[q].dispute /\ req'[q].resolution = req[q].resolution
             /\ Commit(q)
    <2>1. disputes'[req[q].dispute] = DisputeOutcome(req[q].resolution)
      BY <1>2, CommitEffect DEF CoreInv, TypeOK, DisputeOf
    <2>2. DisputeOutcome(req[q].resolution) \in Final
      BY DEF DisputeOutcome, Final, Resolved
    <2>3. QED
      BY <1>2, <2>1, <2>2
  <1>3. ASSUME req'[q].dispute = req[q].dispute, ~ Commit(q), req'[q] # req[q]
        PROVE  /\ req'[q].reply # "ok"
               /\ req'[q].reply = "bad_request" => disputes'[req[q].dispute] \in Final
    BY <1>3, Answers, FinalStays DEF DisputeOf
  <1>4. QED
    BY <1>1, <1>2, <1>3, Answers

\* What an admin was told of a dispute stays true.
THEOREM RepliesHonest == Spec => []HonestReply
  <1>1. Init => HonestReply
    BY DEF Init, HonestReply
  <1>2. QED
    BY <1>1, CoreInit, CoreNext, HonestNext, PTL DEF Spec

-----------------------------------------------------------------------------
(* The process around the requests: a step of Server is one of
   DisputeResolution, or cuts off all that is in flight. *)

CutOff ==
    /\ req' = [r \in Request |-> IF r \in InFlight THEN Ended(r, "error")[r] ELSE req[r]]
    /\ lock' = [row \in Row |-> None]
    /\ UNCHANGED tables

LEMMA ServerSteps == [ServerNext]_allVars => [Next]_vars \/ CutOff
  <1> SUFFICES ASSUME [ServerNext]_allVars PROVE [Next]_vars \/ CutOff
    OBVIOUS
  <1>1. ASSUME NEW r \in Request, NEW d \in Dispute, NEW resolution \in Asked,
               Accept(r, d, resolution)
        PROVE  Next
    BY <1>1, ServerAssumption DEF Accept, Next
  <1>2. ASSUME NEW r \in Request, Serve(r) PROVE Next
    <2>1. CASE Refused(r)
      <3>1. Handle(r)
        BY <2>1 DEF Refused, Handle, ConnectTimeout
      <3>2. QED
        BY <3>1 DEF Next
    <2>2. CASE Handle(r)
      BY <2>2 DEF Next
    <2>3. QED
      BY <1>2, <2>1, <2>2 DEF Serve
  <1>3. ASSUME NEW r \in Request, ServeFails(r) PROVE Next
    BY <1>3 DEF ServeFails, Next
  <1>4. CASE Client /\ UNCHANGED serverVars
    BY <1>4 DEF Next
  <1>5. ASSUME NEW code, Exit(code) PROVE CutOff
    BY <1>5 DEF Exit, CutOff
  <1>6. CASE \E s \in Signal : Finish(s) \/ GiveUp(s) \/ TimeOut(s)
    BY <1>5, <1>6 DEF Finish, GiveUp, TimeOut
  <1>7. CASE Killed
    BY <1>5, <1>7 DEF Killed
  <1>8. CASE \/ \E r \in Request : HangUp(r)
             \/ \E s \in Signal : Shutdown(s)
             \/ Closed \/ Restart \/ UNCHANGED allVars
    <2>1. UNCHANGED vars
      BY <1>8 DEF HangUp, Shutdown, Closed, CallbacksRun, Restart, allVars
    <2>2. QED
      BY <2>1
  <1>9. QED
    BY <1>1, <1>2, <1>3, <1>4, <1>6, <1>7, <1>8 DEF ServerNext

\* Who is cut off has an error for an answer, and nothing else; what the others
\* were answered is as it was.
LEMMA CutOffRequests ==
  ASSUME CoreInv, CutOff, NEW r \in Request
  PROVE  \/ req'[r] = req[r] /\ req[r].step \in {"idle", "answered"}
         \/ /\ req'[r].step = "answered" /\ req'[r].reply = "error"
            /\ req'[r].dispute = req[r].dispute /\ req'[r].wrote = {}
            /\ req'[r] \in RequestState /\ req[r].step \notin {"idle", "answered"}
  <1>1. CASE r \in InFlight
    <2>1. req'[r] = Ended(r, "error")[r]
      BY <1>1 DEF CutOff
    <2>2. Ended(r, "error") \in [Request -> RequestState]
      BY EndedType DEF CoreInv, Reply
    <2>3. /\ Ended(r, "error")[r].step = "answered" /\ Ended(r, "error")[r].reply = "error"
          /\ Ended(r, "error")[r].dispute = req[r].dispute /\ Ended(r, "error")[r].wrote = {}
      BY DEF Ended, CoreInv, TypeOK, RequestState
    <2>4. QED
      BY <1>1, <2>1, <2>2, <2>3 DEF InFlight
  <1>2. CASE r \notin InFlight
    BY <1>2 DEF CutOff, InFlight
  <1>3. QED
    BY <1>1, <1>2

LEMMA CutOffInv == CoreInv /\ CutOff => CoreInv'
  <1> SUFFICES ASSUME CoreInv, CutOff PROVE CoreInv'
    OBVIOUS
  <1>1. TypeOK'
    <2>1. req' \in [Request -> RequestState]
      <3>1. \A r \in Request : req'[r] \in RequestState
        BY CutOffRequests DEF CoreInv, TypeOK
      <3>2. QED
        BY <3>1 DEF CutOff
    <2>2. lock' \in [Row -> Request \cup {None}]
      BY DEF CutOff
    <2>3. QED
      BY <2>1, <2>2 DEF CutOff, CoreInv, TypeOK, tables
  <1>2. ASSUME NEW r \in Request PROVE HeldRows(r)' /\ Draft(r)'
    <2>1. HeldRows(r) /\ Draft(r)
      BY DEF CoreInv, TransactionInv
    <2>2. CASE req'[r] = req[r] /\ req[r].step \in {"idle", "answered"}
      BY <2>1, <2>2, Steps DEF HeldRows, Draft, DisputeOf, EscrowFor, HoldsDispute
    <2>3. CASE /\ req'[r].step = "answered" /\ req'[r].dispute = req[r].dispute
               /\ req'[r].wrote = {} /\ req[r].step # "idle"
      BY <2>1, <2>3, Steps DEF HeldRows, Draft, DisputeOf, HoldsDispute, DraftAt
    <2>4. QED
      BY <2>2, <2>3, CutOffRequests
  <1>3. QED
    BY <1>1, <1>2 DEF CoreInv, TransactionInv

\* What the requests are for.
Payments == LedgerChain /\ PaidOnceIfResolved /\ EscrowOver /\ HonestReply

LEMMA CutOffPayments == CoreInv /\ Payments /\ CutOff => Payments'
  <1> SUFFICES ASSUME CoreInv, Payments, CutOff PROVE Payments'
    OBVIOUS
  <1>1. UNCHANGED <<disputes, escrows, balance, ledger>>
    BY DEF CutOff, tables
  <1>2. LedgerChain'
    BY <1>1 DEF Payments, LedgerChain
  <1>3. PaidOnceIfResolved'
    BY <1>1 DEF Payments, PaidOnceIfResolved
  <1>4. EscrowOver'
    BY <1>1 DEF Payments, EscrowOver
  <1>5. HonestReply'
    BY <1>1, CutOffRequests DEF Payments, HonestReply, DisputeOf
  <1>6. QED
    BY <1>2, <1>3, <1>4, <1>5 DEF Payments

LEMMA ServerKeeps == CoreInv /\ Payments /\ [ServerNext]_allVars => (CoreInv /\ Payments)'
  <1>1. CoreInv /\ Payments /\ [Next]_vars => (CoreInv /\ Payments)'
    BY CoreNext, ChainNext, PaidNext, EscrowNext, HonestNext DEF Payments
  <1>2. QED
    BY <1>1, ServerSteps, CutOffInv, CutOffPayments

LEMMA PaymentsInit == Init => Payments
  <1> SUFFICES ASSUME Init PROVE Payments
    OBVIOUS
  <1>1. /\ \A d \in Dispute : disputes[d] \notin Resolved
        /\ \A u \in Owner : ledger[u] = << >> /\ 1..Len(ledger[u]) = {}
        /\ \A r \in Request : req[r].step # "answered"
        /\ \A u \in Owner : balance[u] = 0
    BY DEF Init, Resolved
  <1>2. QED
    BY <1>1 DEF Payments, LedgerChain, PaidOnceIfResolved, EscrowOver, HonestReply

\* Kills, shutdowns and restarts at any moment lose no payment and make none
\* twice, break no ledger, and leave every answer that was given true: a
\* resolution that was cut off can be asked for again.
THEOREM PaidOnceAcrossRestarts ==
    ServerSpec => [](TypeOK /\ LedgerChain /\ PaidOnceIfResolved /\ EscrowOver /\ HonestReply)
  <1>1. ServerInit => CoreInv /\ Payments
    BY CoreInit, PaymentsInit DEF ServerInit
  <1>2. CoreInv /\ Payments =>
           TypeOK /\ LedgerChain /\ PaidOnceIfResolved /\ EscrowOver /\ HonestReply
    BY DEF CoreInv, Payments
  <1>3. QED
    BY <1>1, <1>2, ServerKeeps, PTL DEF ServerSpec

\* The process, too, settles a dispute in one step or not at all.
THEOREM SettlesAcrossRestarts == ServerSpec => SettlesAtomically
  <1>1. ServerInit => CoreInv /\ Payments /\ Settlement!Init
    BY CoreInit, PaymentsInit, SettlementInit DEF ServerInit
  <1>2. CoreInv /\ [ServerNext]_allVars => [Settlement!Next]_(Settlement!vars)
    <2>1. CutOff => UNCHANGED Settlement!vars
      BY DEF CutOff, tables, Settlement!vars
    <2>2. QED
      BY <2>1, ServerSteps, SettlementNext
  <1>3. QED
    BY <1>1, <1>2, ServerKeeps, PTL DEF ServerSpec, SettlesAtomically, Settlement!Spec

-----------------------------------------------------------------------------
(* The types of the process. *)

ProcessTypes ==
    /\ listening \in BOOLEAN
    /\ pool \in {"open", "ended"}
    /\ closing \in [Signal -> {"none", "draining", "ending", "rejected"}]
    /\ gone \subseteq Request
    /\ process \in {"running", "exit 0", "exit 1"}

LEMMA ProcessNext == ProcessTypes /\ [ServerNext]_allVars => ProcessTypes'
  <1> SUFFICES ASSUME ProcessTypes, [ServerNext]_allVars PROVE ProcessTypes'
    OBVIOUS
  <1>1. ASSUME NEW r \in Request,
               \/ \E d \in Dispute, resolution \in Asked : Accept(r, d, resolution)
               \/ Serve(r) \/ ServeFails(r) \/ HangUp(r)
        PROVE  ProcessTypes'
    BY <1>1 DEF ProcessTypes, Accept, Serve, ServeFails, HangUp, serverVars
  <1>2. ASSUME NEW s \in Signal, Shutdown(s) PROVE ProcessTypes'
    BY <1>2 DEF ProcessTypes, Shutdown
  <1>3. CASE Closed
    <2>1. PICK first \in Draining : closing' = [s \in Signal |->
              CASE s = first /\ pool = "open" -> "ending"
                [] s \in Draining /\ ~ (s = first /\ pool = "open") -> "rejected"
                [] OTHER -> closing[s]]
      BY <1>3 DEF Closed, CallbacksRun
    <2>2. \A s \in Signal : closing'[s] \in {"none", "draining", "ending", "rejected"}
      BY <2>1 DEF ProcessTypes
    <2>3. closing' \in [Signal -> {"none", "draining", "ending", "rejected"}]
      BY <2>1, <2>2
    <2>4. QED
      BY <1>3, <2>3 DEF ProcessTypes, Closed, CallbacksRun
  <1>4. ASSUME NEW code \in {"exit 0", "exit 1"}, Exit(code) PROVE ProcessTypes'
    BY <1>4 DEF ProcessTypes, Exit
  <1>5. CASE \/ \E s \in Signal : Finish(s) \/ GiveUp(s) \/ TimeOut(s)
             \/ Killed
    BY <1>4, <1>5 DEF Finish, GiveUp, TimeOut, Killed
  <1>6. CASE Restart \/ (Client /\ UNCHANGED serverVars) \/ UNCHANGED allVars
    BY <1>6 DEF ProcessTypes, Restart, serverVars, allVars
  <1>7. QED
    BY <1>1, <1>2, <1>3, <1>5, <1>6 DEF ServerNext

\* The process keeps its types, and those of the requests it runs.
THEOREM ServerTypeCorrect == ServerSpec => []ServerTypeOK
  <1>1. ServerInit => CoreInv /\ Payments /\ ProcessTypes
    BY CoreInit, PaymentsInit DEF ServerInit, ProcessTypes
  <1>2. CoreInv /\ ProcessTypes => ServerTypeOK
    BY DEF CoreInv, ProcessTypes, ServerTypeOK
  <1>3. QED
    BY <1>1, <1>2, ServerKeeps, ProcessNext, PTL DEF ServerSpec

-----------------------------------------------------------------------------
(* The end of the process.  From the call of shutdown on nobody is accepted,
   so nobody can be there once the last connection was gone. *)

DrainInv ==
    /\ listening \in BOOLEAN
    /\ \A s \in Signal : closing[s] # "none" => Running /\ ~ listening
    /\ \A s \in Signal : closing[s] = "ending" => pool = "ended"
    /\ Running /\ pool = "ended" => ~ listening /\ Waiting = {}

\* A request that goes on was in flight, and no other moves.
LEMMA OneMoves ==
  ASSUME CoreInv, NEW r \in Request, Handle(r) \/ Refused(r) \/ Fail(r)
  PROVE  /\ req[r].step \notin {"idle", "answered"}
         /\ \A q \in Request \ {r} : req'[q] = req[q]
  BY DEF Handle, Connect, ConnectTimeout, LockDispute, LockEscrow, LockWallet, CreditWallet,
         InsertEntry, UpdateEscrow, UpdateDispute, Commit, Fail, Refused, Rollback, Ended, Take, Write,
         InTransaction, CoreInv, TypeOK

\* So nobody joins those who wait.
LEMMA WaitingShrinks ==
  ASSUME CoreInv, NEW r \in Request, Serve(r) \/ ServeFails(r)
  PROVE  Waiting' \subseteq Waiting
  <1>1. ASSUME NEW q \in Request, req'[q].step \notin {"idle", "answered"}
        PROVE  req[q].step \notin {"idle", "answered"}
    BY <1>1, OneMoves DEF Serve, ServeFails
  <1>2. ASSUME NEW q \in gone, req'[q].step # "answered", q \in Request PROVE q \in gone'
    <2>1. CASE Serve(r)
      BY <1>2, <2>1 DEF Serve
    <2>2. CASE ServeFails(r)
      <3>1. req'[r].step = "answered"
        BY <2>2 DEF ServeFails, Fail, Rollback, Ended, CoreInv, TypeOK, RequestState
      <3>2. QED
        BY <1>2, <2>2, <3>1 DEF ServeFails
    <2>3. QED
      BY <2>1, <2>2
  <1>3. QED
    BY <1>1, <1>2 DEF Waiting, InFlight

LEMMA DrainNext == CoreInv /\ DrainInv /\ [ServerNext]_allVars => DrainInv'
  <1> SUFFICES ASSUME CoreInv, DrainInv, [ServerNext]_allVars PROVE DrainInv'
    OBVIOUS
  <1>1. ASSUME NEW r \in Request, Serve(r) \/ ServeFails(r) PROVE DrainInv'
    <2>1. UNCHANGED <<listening, pool, closing, process>>
      BY <1>1 DEF Serve, ServeFails
    <2>2. QED
      BY <1>1, <2>1, WaitingShrinks DEF DrainInv, Running
  <1>2. ASSUME NEW r \in Request, NEW d, NEW resolution, Accept(r, d, resolution) PROVE DrainInv'
    BY <1>2 DEF Accept, serverVars, DrainInv, Running
  <1>3. ASSUME NEW r \in Request, HangUp(r) PROVE DrainInv'
    BY <1>3 DEF HangUp, vars, DrainInv, Running, Waiting, InFlight
  <1>4. ASSUME NEW s \in Signal, Shutdown(s) PROVE DrainInv'
    <2>1. \A t \in Signal : closing'[t] = "ending" => closing[t] = "ending"
      BY <1>4 DEF Shutdown
    <2>2. /\ Running /\ Running' /\ listening' = FALSE /\ UNCHANGED <<pool, Waiting>>
      BY <1>4 DEF Shutdown, Running, vars, Waiting, InFlight
    <2>3. QED
      BY <2>1, <2>2 DEF DrainInv
  <1>5. CASE Closed
    <2>1. /\ Running /\ Running' /\ Waiting' = {} /\ pool' = "ended" /\ UNCHANGED listening
      BY <1>5 DEF Closed, CallbacksRun, Running, vars, Waiting, InFlight
    <2>2. ~ listening
      BY <1>5 DEF Closed, Draining, DrainInv
    <2>3. QED
      BY <2>1, <2>2 DEF DrainInv
  <1>6. ASSUME NEW code \in {"exit 0", "exit 1"}, Exit(code) PROVE DrainInv'
    BY <1>6 DEF Exit, DrainInv, Running
  <1>7. CASE \/ \E s \in Signal : Finish(s) \/ GiveUp(s) \/ TimeOut(s)
             \/ Killed
    BY <1>6, <1>7 DEF Finish, GiveUp, TimeOut, Killed
  <1>8. CASE Restart
    BY <1>8 DEF Restart, DrainInv, Running
  <1>9. CASE Client /\ UNCHANGED serverVars
    <2>1. UNCHANGED req
      BY <1>9 DEF Client, RaiseDispute, ReviewDispute, WithdrawDispute, ConfirmDelivery, ClientPayout,
                  Deposit
    <2>2. QED
      BY <1>9, <2>1 DEF serverVars, DrainInv, Running, Waiting, InFlight
  <1>10. CASE UNCHANGED allVars
    BY <1>10 DEF allVars, vars, serverVars, DrainInv, Running, Waiting, InFlight
  <1>11. QED
    BY <1>1, <1>2, <1>3, <1>4, <1>5, <1>7, <1>8, <1>9, <1>10 DEF ServerNext

\* A clean exit cuts nobody off, whoever hangs up, fails or is killed before:
\* no transaction is open then and all who are there have their answers; and
\* the pool ends under nobody who waits.
THEOREM ExitsClean == ServerSpec => [][CleanExit]_allVars
  <1>1. ServerInit => CoreInv /\ Payments /\ DrainInv
    BY CoreInit, PaymentsInit DEF ServerInit, DrainInv, Running
  <1>2. CoreInv /\ DrainInv /\ [ServerNext]_allVars => [CleanExit]_allVars
    <2> SUFFICES ASSUME CoreInv, DrainInv, ServerNext PROVE CleanExit
      OBVIOUS
    <2>1. ASSUME Running, process' = "exit 0"
          PROVE  \E s \in Signal : Finish(s)
      BY <2>1 DEF ServerNext, Accept, Serve, ServeFails, HangUp, Shutdown, Closed, CallbacksRun,
                  GiveUp, TimeOut, Killed, Exit, Restart, serverVars, Running
    <2>2. QED
      BY <2>1 DEF CleanExit, DrainInv, Finish
  <1>3. QED
    BY <1>1, <1>2, ServerKeeps, DrainNext, PTL DEF ServerSpec
=============================================================================
