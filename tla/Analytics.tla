------------------------------ MODULE Analytics -------------------------------
(* The figures of the dashboard's cards.  A report asks for several figures at
   once, each with a query of its own that sees the rows of its own moment; GET
   /escrow/stats reads all of its sums with one query.  A figure is modelled by the
   rows that it counts or adds up.  The tables are the client backend's. *)
EXTENDS Users, Naturals, FiniteSets

CONSTANTS
    Escrowed,     \* rows of transactions with type = 'escrow'
    Transfer,     \* and of other types
    MaxQuarrels   \* bound: disputes about one escrow that are pending at one time

ASSUME AnalyticsAssumption ==
    /\ Escrowed \cap Transfer = {} /\ (Escrowed \cup Transfer) \cap User = {}
    /\ MaxQuarrels \in Nat

VARIABLES
    deals,      \* deals[d]: transactions.status
    quarrels,   \* quarrels[d]: the disputes about an escrow that are pending
    withdrawn,  \* history: the escrows a dispute about which was withdrawn
    report      \* a report that is being made, or was made last

dealVars == <<deals, quarrels, withdrawn, report>>

Deal == Escrowed \cup Transfer
Item == Deal \cup User

DealStatus == {"initiated", "funded", "delivery_confirmed", "completed",
               "disputed", "refunded", "cancelled"}

\* Mutant: disputed escrows are not held.
InBalance_settled == {"funded", "delivery_confirmed"}

\* The statuses of in_escrow_balance.
InBalance == {"funded", "delivery_confirmed", "disputed"}

\* The rows that a figure counts, as the WHERE of its query says.
RowsOf(figure) ==
    CASE figure = "disputes" -> {d \in Escrowed : quarrels[d] > 0}
      [] figure = "completedTransactions" -> {d \in Deal : deals[d] = "completed"}
      [] figure = "ongoingTransactions" ->
            {d \in Escrowed : deals[d] \in {"initiated", "funded", "delivery_confirmed"}}
      [] figure = "activeUsers" -> {u \in User : active[u]}
      [] figure = "total_revenue" -> {d \in Escrowed : deals[d] = "completed"}
      [] figure = "in_escrow_balance" -> {d \in Escrowed : deals[d] \in InBalance}
      [] figure = "transaction_fees" -> {d \in Deal : deals[d] = "completed"}
      [] figure = "total_in_escrow" ->
            {d \in Escrowed : deals[d] \in {"funded", "delivery_confirmed", "disputed"}}
      [] figure = "total_released" -> {d \in Escrowed : deals[d] = "completed"}
      [] figure = "total_refunded" -> {d \in Escrowed : deals[d] = "refunded"}
      [] figure = "total_cancelled" -> {d \in Escrowed : deals[d] = "cancelled"}

getPlatformActivity == {"disputes", "completedTransactions", "ongoingTransactions", "activeUsers"}
getFinancialSummary == {"total_revenue", "in_escrow_balance", "transaction_fees"}
getEscrowStats == {"total_in_escrow", "total_released", "total_refunded", "total_cancelled"}

Report == {getPlatformActivity, getFinancialSummary, getEscrowStats}
Figure == UNION Report

\* What the queries have returned so far, and the figures whose query failed;
\* moved is history: the deals that have changed since the report was asked for.
NoReport == [asked |-> {}, got |-> {}, counts |-> [f \in Figure |-> {}],
             failed |-> {}, moved |-> {}, open |-> FALSE]

AnalyticsTypeOK ==
    /\ UsersTypeOK
    /\ deals \in [Deal -> DealStatus]
    /\ quarrels \in [Escrowed -> 0 .. MaxQuarrels] /\ withdrawn \subseteq Escrowed
    /\ report \in [asked : Report \cup {{}}, got : SUBSET Figure, counts : [Figure -> SUBSET Item],
                   failed : SUBSET Figure, moved : SUBSET Deal, open : BOOLEAN]
    /\ report.failed \subseteq report.got /\ report.got \subseteq report.asked

AnalyticsInit ==
    /\ UsersInit
    /\ deals = [d \in Deal |-> "initiated"]
    /\ quarrels = [d \in Escrowed |-> 0] /\ withdrawn = {}
    /\ report = NoReport

-----------------------------------------------------------------------------
AskReport(figuresAsked) ==
    /\ ~ report.open
    /\ report' = [NoReport EXCEPT !.asked = figuresAsked, !.open = TRUE]
    /\ UNCHANGED <<active, deals, quarrels, withdrawn>>

\* The figures that one query returns.
OneQuery(f) == IF f \in getEscrowStats THEN getEscrowStats ELSE {f}

QueryFigure(f) ==
    /\ report.open /\ f \in report.asked \ report.got
    /\ report' = [report EXCEPT
            !.got = @ \cup OneQuery(f),
            !.counts = [g \in Figure |-> IF g \in OneQuery(f) THEN RowsOf(g) ELSE @[g]]]
    /\ UNCHANGED <<active, deals, quarrels, withdrawn>>

\* safeQuery and countOrZero: any error, of a missing table or not, is a zero.
FailFigure(f) ==
    /\ report.open /\ f \in report.asked \ report.got
    /\ f \notin getEscrowStats
    /\ report' = [report EXCEPT !.got = @ \cup {f}, !.failed = @ \cup {f}]
    /\ UNCHANGED <<active, deals, quarrels, withdrawn>>

AnswerReport ==
    /\ report.open /\ report.got = report.asked
    /\ report' = [report EXCEPT !.open = FALSE]
    /\ UNCHANGED <<active, deals, quarrels, withdrawn>>

Moved(d) ==
    report' = IF report.asked # {} THEN [report EXCEPT !.moved = @ \cup {d}] ELSE report

\* What becomes of a deal without a dispute.
Successors(d) ==
    CASE deals[d] = "initiated" /\ d \in Escrowed -> {"funded", "cancelled"}
      [] deals[d] = "initiated" /\ d \in Transfer -> {"completed", "cancelled"}
      [] deals[d] = "funded" -> {"delivery_confirmed", "refunded"}
      [] deals[d] = "delivery_confirmed" -> {"completed"}
      [] OTHER -> {}

MoveDeal(d) ==
    /\ \E status \in Successors(d) : deals' = [deals EXCEPT ![d] = status]
    /\ Moved(d)
    /\ UNCHANGED <<active, quarrels, withdrawn>>

\* A dispute is raised: whatever the escrow's status is, and whether or not others are
\* pending or over.
Quarrel(d) ==
    /\ quarrels[d] < MaxQuarrels
    /\ quarrels' = [quarrels EXCEPT ![d] = @ + 1]
    /\ deals' = [deals EXCEPT ![d] = IF @ \in {"funded", "delivery_confirmed"}
                                     THEN "disputed" ELSE @]
    /\ Moved(d)
    /\ UNCHANGED <<active, withdrawn>>

\* One is withdrawn; the escrow is left 'disputed'.
CloseQuarrel(d) ==
    /\ quarrels[d] > 0
    /\ quarrels' = [quarrels EXCEPT ![d] = @ - 1]
    /\ withdrawn' = withdrawn \cup {d}
    /\ Moved(d)
    /\ UNCHANGED <<active, deals>>

\* resolveDispute, at its COMMIT.
Settle(d) ==
    /\ quarrels[d] > 0
    /\ quarrels' = [quarrels EXCEPT ![d] = @ - 1]
    /\ \E status \in {"refunded", "completed"} : deals' = [deals EXCEPT ![d] = status]
    /\ Moved(d)
    /\ UNCHANGED <<active, withdrawn>>

ToggleUser(u) ==
    /\ setUserActive(u, ~ active[u])
    /\ UNCHANGED dealVars

AnalyticsNext ==
    \/ \E figuresAsked \in Report : AskReport(figuresAsked)
    \/ \E f \in Figure : QueryFigure(f) \/ FailFigure(f)
    \/ AnswerReport
    \/ \E d \in Deal : MoveDeal(d)
    \/ \E d \in Escrowed : Quarrel(d) \/ CloseQuarrel(d) \/ Settle(d)
    \/ \E u \in User : ToggleUser(u)

-----------------------------------------------------------------------------
\* Whether the report was answered with a row in one of the figures.
In(i, figures) == \E f \in figures \cap (report.asked \ report.failed) : i \in report.counts[f]

\* Whether the buyer's money has come and has not gone back.
Paid(d) == deals[d] \notin {"initiated", "refunded", "cancelled"}

(* Every escrow is counted once.  In an answered summary, the money that was
   paid for an escrow is either revenue or held, and there are fees for what is
   revenue.  In the activity, an escrow is ongoing, completed or in dispute, unless a
   dispute about it was withdrawn: such an escrow stays 'disputed' with no dispute that
   is pending, and is counted nowhere although its money is held.  Only an escrow
   that has moved since the report was asked for may be in two places or in none
   otherwise, and only what a failed query would have counted is left out.  The
   sums of GET /escrow/stats come from one query, and agree even then. *)
MoneyCountedOnce ==
    ~ report.open =>
        /\ \A d \in Escrowed \ report.moved :
            /\ report.asked = getFinancialSummary =>
                /\ ~ (In(d, {"total_revenue"}) /\ In(d, {"in_escrow_balance"}))
                /\ In(d, {"total_revenue", "in_escrow_balance"}) => Paid(d)
                /\ Paid(d) => \/ In(d, {"total_revenue", "in_escrow_balance"})
                              \/ report.failed \cap {"total_revenue", "in_escrow_balance"} # {}
                /\ In(d, {"transaction_fees"}) /\ ~ In(d, {"total_revenue"}) =>
                       "total_revenue" \in report.failed
            /\ report.asked = getPlatformActivity =>
                /\ ~ (In(d, {"completedTransactions"}) /\ In(d, {"ongoingTransactions"}))
                /\ Paid(d) => \/ In(d, {"completedTransactions", "ongoingTransactions", "disputes"})
                              \/ deals[d] = "disputed" /\ quarrels[d] = 0 /\ d \in withdrawn
                              \/ report.failed # {}
        /\ \A d \in Escrowed :
            Cardinality({f \in getEscrowStats : In(d, {f})}) <= 1

=============================================================================
