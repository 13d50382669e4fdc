---------------------------- MODULE Figures_proofs ----------------------------
(* What the figures count and how well the forecast fits, as lemmas about the
   steps of Analytics and of Forecast; Console_proofs states the theorems.  Sums are recursive
   functions: what one adds up to is proved by induction over its length, taken
   from the well-foundedness of the naturals. *)
EXTENDS Analytics, Forecast, FiniteSetTheorems, SequenceTheorems, WellFoundedInduction, TLAPS

-----------------------------------------------------------------------------
(* Figures.  What a query has counted of a deal that has not moved since is what
   it would count now; the sums of one query count no escrow twice. *)
ReportState == [asked : Report \cup {{}}, got : SUBSET Figure, counts : [Figure -> SUBSET Item],
                failed : SUBSET Figure, moved : SUBSET Deal, open : BOOLEAN]

CountsHold ==
    \A f \in report.got \ report.failed : \A d \in Escrowed \ report.moved :
        d \in report.counts[f] <=> d \in RowsOf(f)

StatsApart ==
    \A f, g \in getEscrowStats : f # g => report.counts[f] \cap report.counts[g] = {}

\* A disputed escrow has a dispute, unless one was withdrawn.
DisputedPends ==
    \A d \in Escrowed : deals[d] = "disputed" => quarrels[d] > 0 \/ d \in withdrawn

AnalyticsInv ==
    /\ AnalyticsTypeOK /\ CountsHold /\ StatsApart /\ DisputedPends
    /\ ~ report.open => report.got = report.asked

LEMMA FigureNames ==
    /\ Figure = getPlatformActivity \cup getFinancialSummary \cup getEscrowStats
    /\ getPlatformActivity \cap getEscrowStats = {} /\ getFinancialSummary \cap getEscrowStats = {}
    /\ getPlatformActivity \in Report /\ getFinancialSummary \in Report /\ getEscrowStats \in Report
    /\ getPlatformActivity # getFinancialSummary /\ getPlatformActivity # getEscrowStats
    /\ getFinancialSummary # getEscrowStats
<1>1. Figure = getPlatformActivity \cup getFinancialSummary \cup getEscrowStats
  BY DEF Figure, Report
<1>2. /\ getPlatformActivity \cap getEscrowStats = {} /\ getFinancialSummary \cap getEscrowStats = {}
  BY DEF getPlatformActivity, getFinancialSummary, getEscrowStats
<1>3. "disputes" \in getPlatformActivity /\ "total_revenue" \in getFinancialSummary
      /\ "disputes" \notin getFinancialSummary
  BY DEF getPlatformActivity, getFinancialSummary
<1> QED
  BY <1>1, <1>2, <1>3 DEF Report

\* What each figure counts of an escrow.
LEMMA RowsOfEscrow ==
    ASSUME NEW d \in Escrowed
    PROVE  /\ d \in RowsOf("disputes") <=> quarrels[d] > 0
           /\ d \in RowsOf("completedTransactions") <=> deals[d] = "completed"
           /\ d \in RowsOf("ongoingTransactions") <=>
                 deals[d] \in {"initiated", "funded", "delivery_confirmed"}
           /\ d \notin RowsOf("activeUsers")
           /\ d \in RowsOf("total_revenue") <=> deals[d] = "completed"
           /\ d \in RowsOf("in_escrow_balance") <=>
                 deals[d] \in {"funded", "delivery_confirmed", "disputed"}
           /\ d \in RowsOf("transaction_fees") <=> deals[d] = "completed"
           /\ d \in RowsOf("total_in_escrow") <=>
                 deals[d] \in {"funded", "delivery_confirmed", "disputed"}
           /\ d \in RowsOf("total_released") <=> deals[d] = "completed"
           /\ d \in RowsOf("total_refunded") <=> deals[d] = "refunded"
           /\ d \in RowsOf("total_cancelled") <=> deals[d] = "cancelled"
<1>1. d \in Deal /\ d \notin User
  BY AnalyticsAssumption DEF Deal
<1> QED
  BY <1>1 DEF RowsOf, InBalance

LEMMA RowsOfType == ASSUME NEW f \in Figure PROVE RowsOf(f) \in SUBSET Item
<1>1. Escrowed \subseteq Item /\ Deal \subseteq Item /\ User \subseteq Item
  BY DEF Item, Deal
<1>2. CASE f \in getPlatformActivity
  BY <1>1, <1>2 DEF RowsOf, getPlatformActivity
<1>3. CASE f \in getFinancialSummary
  BY <1>1, <1>3 DEF RowsOf, getFinancialSummary
<1>4. CASE f \in getEscrowStats
  BY <1>1, <1>4 DEF RowsOf, getEscrowStats
<1> QED
  BY <1>2, <1>3, <1>4, FigureNames

\* An escrow that does not move stays in the figures where it was.
LEMMA RowsOfStay ==
    ASSUME NEW f \in Figure, NEW d \in Escrowed, deals'[d] = deals[d], quarrels'[d] = quarrels[d]
    PROVE  (d \in RowsOf(f))' <=> d \in RowsOf(f)
<1>1. d \in Deal /\ d \notin User
  BY AnalyticsAssumption DEF Deal
<1>2. CASE f \in getPlatformActivity
  BY <1>1, <1>2 DEF RowsOf, getPlatformActivity
<1>3. CASE f \in getFinancialSummary
  BY <1>1, <1>3 DEF RowsOf, getFinancialSummary, InBalance
<1>4. CASE f \in getEscrowStats
  BY <1>1, <1>4 DEF RowsOf, getEscrowStats
<1> QED
  BY <1>2, <1>3, <1>4, FigureNames

LEMMA ReportType ==
    /\ NoReport \in ReportState
    /\ NoReport.asked = {} /\ NoReport.got = {} /\ NoReport.failed = {} /\ NoReport.moved = {}
    /\ ~ NoReport.open /\ \A f \in Figure : NoReport.counts[f] = {}
BY DEF NoReport, ReportState

LEMMA AnalyticsInitInv == AnalyticsInit => AnalyticsInv
<1> SUFFICES ASSUME AnalyticsInit PROVE AnalyticsInv
  OBVIOUS
<1>1. AnalyticsTypeOK
  <2>1. deals \in [Deal -> DealStatus] /\ active \in [User -> BOOLEAN]
    BY DEF AnalyticsInit, UsersInit, DealStatus
  <2>2. quarrels \in [Escrowed -> 0 .. MaxQuarrels] /\ withdrawn \subseteq Escrowed
    BY AnalyticsAssumption DEF AnalyticsInit
  <2> QED
    BY <2>1, <2>2, ReportType DEF AnalyticsInit, UsersTypeOK, AnalyticsTypeOK, ReportState
<1>2. DisputedPends
  BY DEF AnalyticsInit, DisputedPends, Deal
<1> QED
  BY <1>1, <1>2, ReportType, FigureNames
     DEF AnalyticsInit, AnalyticsInv, CountsHold, StatsApart

LEMMA ReportAsked ==
    ASSUME AnalyticsInv, NEW figuresAsked \in Report, AskReport(figuresAsked)
    PROVE  AnalyticsInv'
<1>1. /\ report' = [asked |-> figuresAsked, got |-> {}, counts |-> [f \in Figure |-> {}],
                    failed |-> {}, moved |-> {}, open |-> TRUE]
      /\ UNCHANGED <<active, deals, quarrels, withdrawn>>
  BY DEF AskReport, NoReport
<1> QED
  BY <1>1, FigureNames
     DEF AnalyticsInv, AnalyticsTypeOK, UsersTypeOK, CountsHold, StatsApart, DisputedPends, RowsOf

LEMMA FigureQueried ==
    ASSUME AnalyticsInv, NEW f \in Figure, QueryFigure(f)
    PROVE  AnalyticsInv'
<1> DEFINE counts == [g \in Figure |-> IF g \in OneQuery(f) THEN RowsOf(g) ELSE report.counts[g]]
<1>1. /\ report \in ReportState /\ report.open /\ f \in report.asked
      /\ report' = [report EXCEPT !.got = report.got \cup OneQuery(f), !.counts = counts]
      /\ UNCHANGED <<active, deals, quarrels, withdrawn>>
      /\ report.failed \subseteq report.got /\ report.got \subseteq report.asked
  BY DEF QueryFigure, AnalyticsInv, AnalyticsTypeOK, ReportState
<1>2. OneQuery(f) \subseteq report.asked /\ OneQuery(f) \subseteq Figure
  <2>1. report.asked \in Report
    BY <1>1 DEF ReportState
  <2>2. f \in getEscrowStats => report.asked = getEscrowStats
    BY <1>1, <2>1, FigureNames DEF Report
  <2> QED
    BY <1>1, <2>2, FigureNames DEF OneQuery
<1>3. counts \in [Figure -> SUBSET Item]
  BY <1>1, RowsOfType DEF ReportState
<1>4. /\ report'.got = report.got \cup OneQuery(f) /\ report'.counts = counts
      /\ report'.failed = report.failed /\ report'.moved = report.moved /\ report'.open
      /\ report'.asked = report.asked /\ report' \in ReportState
  BY <1>1, <1>2, <1>3 DEF ReportState
<1>5. AnalyticsTypeOK'
  BY <1>1, <1>2, <1>4 DEF AnalyticsInv, AnalyticsTypeOK, UsersTypeOK, ReportState
<1>6. ASSUME NEW g PROVE RowsOf(g)' = RowsOf(g)
  BY <1>1 DEF RowsOf
<1>7. CountsHold'
  <2> SUFFICES ASSUME NEW g \in report'.got \ report'.failed, NEW d \in Escrowed \ report'.moved
               PROVE  d \in counts[g] <=> d \in RowsOf(g)
    BY <1>4, <1>6 DEF CountsHold
  <2>1. g \in Figure
    BY <1>1, <1>2, <1>4 DEF ReportState
  <2>2. CASE g \in OneQuery(f)
    BY <2>1, <2>2
  <2>3. CASE g \notin OneQuery(f)
    BY <1>4, <2>1, <2>3 DEF AnalyticsInv, CountsHold
  <2> QED
    BY <2>2, <2>3
<1>8. StatsApart'
  <2> SUFFICES ASSUME NEW g \in getEscrowStats, NEW h \in getEscrowStats, g # h
               PROVE  counts[g] \cap counts[h] = {}
    BY <1>4 DEF StatsApart
  <2>1. g \in Figure /\ h \in Figure
    BY FigureNames
  <2>2. CASE f \in getEscrowStats
    <3>1. counts[g] = RowsOf(g) /\ counts[h] = RowsOf(h)
      BY <2>1, <2>2 DEF OneQuery
    <3>2. RowsOf(g) \cap RowsOf(h) = {}
      BY DEF RowsOf, getEscrowStats
    <3> QED
      BY <3>1, <3>2
  <2>3. CASE f \notin getEscrowStats
    <3>1. counts[g] = report.counts[g] /\ counts[h] = report.counts[h]
      BY <2>1, <2>3 DEF OneQuery
    <3> QED
      BY <3>1 DEF AnalyticsInv, StatsApart
  <2> QED
    BY <2>2, <2>3
<1> QED
  BY <1>1, <1>4, <1>5, <1>7, <1>8 DEF AnalyticsInv, DisputedPends

LEMMA FigureFailed ==
    ASSUME AnalyticsInv, NEW f \in Figure, FailFigure(f)
    PROVE  AnalyticsInv'
<1>1. /\ report \in ReportState /\ report.open /\ f \in report.asked
      /\ report' = [report EXCEPT !.got = report.got \cup {f}, !.failed = report.failed \cup {f}]
      /\ UNCHANGED <<active, deals, quarrels, withdrawn>>
      /\ report.failed \subseteq report.got /\ report.got \subseteq report.asked
  BY DEF FailFigure, AnalyticsInv, AnalyticsTypeOK, ReportState
<1>2. /\ report'.got = report.got \cup {f} /\ report'.failed = report.failed \cup {f}
      /\ report'.counts = report.counts /\ report'.moved = report.moved /\ report'.open
      /\ report'.asked = report.asked /\ report' \in ReportState
  BY <1>1 DEF ReportState
<1>3. AnalyticsTypeOK'
  BY <1>1, <1>2 DEF AnalyticsInv, AnalyticsTypeOK, UsersTypeOK, ReportState
<1>4. ASSUME NEW g PROVE RowsOf(g)' = RowsOf(g)
  BY <1>1 DEF RowsOf
<1>5. CountsHold'
  BY <1>2, <1>4 DEF AnalyticsInv, CountsHold
<1> QED
  BY <1>1, <1>2, <1>3, <1>5 DEF AnalyticsInv, StatsApart, DisputedPends

\* A deal moves: the report takes note.
LEMMA DealMoved ==
    ASSUME AnalyticsInv, NEW d \in Deal, Moved(d), active' = active,
           deals' \in [Deal -> DealStatus], quarrels' \in [Escrowed -> 0 .. MaxQuarrels],
           withdrawn' \in SUBSET Escrowed,
           \A e \in Escrowed \ {d} : deals'[e] = deals[e] /\ quarrels'[e] = quarrels[e],
           DisputedPends'
    PROVE  AnalyticsInv'
<1>1. /\ report \in ReportState /\ report.failed \subseteq report.got
      /\ report.got \subseteq report.asked
  BY DEF AnalyticsInv, AnalyticsTypeOK, ReportState
<1>2. /\ report' \in ReportState /\ report'.got = report.got /\ report'.failed = report.failed
      /\ report'.counts = report.counts /\ report'.open = report.open
      /\ report'.asked = report.asked
      /\ report'.moved = IF report.asked # {} THEN report.moved \cup {d} ELSE report.moved
  <2>1. CASE report.asked # {}
    <3>1. report' = [report EXCEPT !.moved = report.moved \cup {d}]
      BY <2>1 DEF Moved
    <3> QED
      BY <1>1, <2>1, <3>1 DEF ReportState
  <2>2. CASE report.asked = {}
    BY <1>1, <2>2 DEF Moved
  <2> QED
    BY <2>1, <2>2
<1>3. AnalyticsTypeOK'
  BY <1>1, <1>2 DEF AnalyticsInv, AnalyticsTypeOK, UsersTypeOK, ReportState
<1>4. CountsHold'
  <2> SUFFICES ASSUME NEW f \in report.got \ report.failed, NEW e \in Escrowed \ report'.moved
               PROVE  e \in report.counts[f] <=> (e \in RowsOf(f))'
    BY <1>2 DEF CountsHold
  <2>1. report.asked # {} /\ f \in Figure
    BY <1>1 DEF ReportState
  <2>2. e \in Escrowed \ report.moved /\ e # d
    BY <1>2, <2>1
  <2>3. (e \in RowsOf(f))' <=> e \in RowsOf(f)
    BY <2>1, <2>2, RowsOfStay
  <2> QED
    BY <2>2, <2>3 DEF AnalyticsInv, CountsHold
<1> QED
  BY <1>2, <1>3, <1>4 DEF AnalyticsInv, StatsApart

\* Other pages switch users, which no figure of an escrow counts.
LEMMA UsersSwitched ==
    ASSUME AnalyticsInv, active' \in [User -> BOOLEAN], UNCHANGED dealVars
    PROVE  AnalyticsInv'
<1>1. ASSUME NEW f \in Figure, NEW d \in Escrowed PROVE (d \in RowsOf(f))' <=> d \in RowsOf(f)
  BY RowsOfStay DEF dealVars
<1>2. report.got \subseteq Figure
  BY DEF AnalyticsInv, AnalyticsTypeOK
<1>3. CountsHold'
  BY <1>1, <1>2 DEF dealVars, AnalyticsInv, CountsHold
<1> QED
  BY <1>3 DEF dealVars, AnalyticsInv, AnalyticsTypeOK, UsersTypeOK, StatsApart, DisputedPends

LEMMA AnalyticsNextInv ==
    ASSUME AnalyticsInv, AnalyticsNext \/ UNCHANGED <<active, dealVars>>
    PROVE  AnalyticsInv'
<1>0. /\ deals \in [Deal -> DealStatus] /\ quarrels \in [Escrowed -> 0 .. MaxQuarrels]
      /\ withdrawn \in SUBSET Escrowed
      /\ Escrowed \subseteq Deal /\ DisputedPends /\ MaxQuarrels \in Nat
  BY AnalyticsAssumption DEF AnalyticsInv, AnalyticsTypeOK, Deal
<1>1. ASSUME NEW figuresAsked \in Report, AskReport(figuresAsked) PROVE AnalyticsInv'
  BY <1>1, ReportAsked
<1>2. ASSUME NEW f \in Figure, QueryFigure(f) \/ FailFigure(f) PROVE AnalyticsInv'
  BY <1>2, FigureQueried, FigureFailed
<1>3. CASE AnswerReport
  <2>1. /\ report' = [report EXCEPT !.open = FALSE] /\ report \in ReportState
        /\ report.got = report.asked /\ UNCHANGED <<active, deals, quarrels, withdrawn>>
    BY <1>3 DEF AnswerReport, AnalyticsInv, AnalyticsTypeOK, ReportState
  <2>2. /\ report' \in ReportState /\ report'.got = report.got /\ report'.failed = report.failed
        /\ report'.counts = report.counts /\ report'.asked = report.asked
        /\ report'.moved = report.moved
    BY <2>1 DEF ReportState
  <2>3. AnalyticsTypeOK'
    BY <2>1, <2>2 DEF AnalyticsInv, AnalyticsTypeOK, UsersTypeOK, ReportState
  <2>4. ASSUME NEW g PROVE RowsOf(g)' = RowsOf(g)
    BY <2>1 DEF RowsOf
  <2>5. CountsHold'
    BY <2>2, <2>4 DEF AnalyticsInv, CountsHold
  <2> QED
    BY <2>1, <2>2, <2>3, <2>5 DEF AnalyticsInv, StatsApart, DisputedPends
<1>4. ASSUME NEW d \in Deal, MoveDeal(d) PROVE AnalyticsInv'
  <2>1. PICK status \in Successors(d) : deals' = [deals EXCEPT ![d] = status]
    BY <1>4 DEF MoveDeal
  <2>2. status \in DealStatus \ {"disputed"}
    BY <2>1 DEF Successors, DealStatus
  <2>3. DisputedPends'
    BY <1>0, <1>4, <2>1, <2>2 DEF MoveDeal, DisputedPends
  <2> QED
    BY <1>0, <1>4, <2>1, <2>2, <2>3, DealMoved DEF MoveDeal
<1>5. ASSUME NEW d \in Escrowed, Quarrel(d) PROVE AnalyticsInv'
  <2>1. /\ quarrels[d] < MaxQuarrels /\ quarrels' = [quarrels EXCEPT ![d] = quarrels[d] + 1]
        /\ withdrawn' = withdrawn /\ Moved(d) /\ active' = active /\ d \in Deal
        /\ deals' = [deals EXCEPT ![d] = IF deals[d] \in {"funded", "delivery_confirmed"}
                                         THEN "disputed" ELSE deals[d]]
    BY <1>0, <1>5 DEF Quarrel
  <2>2. deals' \in [Deal -> DealStatus]
    BY <1>0, <2>1 DEF DealStatus
  <2>3. quarrels[d] + 1 \in 0 .. MaxQuarrels /\ quarrels[d] + 1 > 0
    BY <1>0, <2>1
  <2>4. /\ quarrels' \in [Escrowed -> 0 .. MaxQuarrels] /\ quarrels'[d] > 0
        /\ \A e \in Escrowed \ {d} : deals'[e] = deals[e] /\ quarrels'[e] = quarrels[e]
    BY <1>0, <2>1, <2>3
  <2>5. DisputedPends'
    BY <1>0, <2>1, <2>4 DEF DisputedPends
  <2> QED
    BY <1>0, <2>1, <2>2, <2>4, <2>5, DealMoved
<1>6. ASSUME NEW d \in Escrowed, CloseQuarrel(d) \/ Settle(d) PROVE AnalyticsInv'
  <2>1. /\ quarrels[d] > 0 /\ quarrels' = [quarrels EXCEPT ![d] = quarrels[d] - 1]
        /\ Moved(d) /\ active' = active /\ d \in Deal
    BY <1>0, <1>6 DEF CloseQuarrel, Settle
  <2>2. quarrels[d] - 1 \in 0 .. MaxQuarrels
    BY <1>0, <2>1
  <2>3. /\ quarrels' \in [Escrowed -> 0 .. MaxQuarrels]
        /\ \A e \in Escrowed \ {d} : quarrels'[e] = quarrels[e]
    BY <1>0, <2>1, <2>2
  <2>4. CASE CloseQuarrel(d)
    <3>1. deals' = deals /\ withdrawn' = withdrawn \cup {d}
      BY <2>4 DEF CloseQuarrel
    <3>2. DisputedPends'
      BY <1>0, <2>3, <3>1 DEF DisputedPends
    <3> QED
      BY <1>0, <2>1, <2>3, <3>1, <3>2, DealMoved
  <2>5. CASE Settle(d)
    <3>1. PICK status \in {"refunded", "completed"} : deals' = [deals EXCEPT ![d] = status]
      BY <2>5 DEF Settle
    <3>2. withdrawn' = withdrawn /\ deals' \in [Deal -> DealStatus]
      BY <1>0, <2>5, <3>1 DEF Settle, DealStatus
    <3>3. DisputedPends' /\ \A e \in Escrowed \ {d} : deals'[e] = deals[e]
      BY <1>0, <2>1, <2>3, <3>1, <3>2 DEF DisputedPends
    <3> QED
      BY <1>0, <2>1, <2>3, <3>2, <3>3, DealMoved
  <2> QED
    BY <1>6, <2>4, <2>5
<1>8. ASSUME NEW u \in User, ToggleUser(u) PROVE AnalyticsInv'
  BY <1>8, UsersSwitched DEF ToggleUser, setUserActive, AnalyticsInv, AnalyticsTypeOK, UsersTypeOK
<1>9. CASE UNCHANGED <<active, dealVars>>
  BY <1>9, UsersSwitched DEF AnalyticsInv, AnalyticsTypeOK, UsersTypeOK
<1> QED
  BY <1>1, <1>2, <1>3, <1>4, <1>5, <1>6, <1>8, <1>9 DEF AnalyticsNext

LEMMA AnalyticsInvImplies == ASSUME AnalyticsInv PROVE MoneyCountedOnce
<1> SUFFICES ASSUME ~ report.open PROVE MoneyCountedOnce
  BY DEF MoneyCountedOnce
<1>1. report.got = report.asked /\ deals \in [Deal -> DealStatus] /\ Escrowed \subseteq Deal
  BY DEF AnalyticsInv, AnalyticsTypeOK, Deal
<1>2. ASSUME NEW d \in Escrowed \ report.moved, NEW f \in report.asked \ report.failed
      PROVE  d \in report.counts[f] <=> d \in RowsOf(f)
  BY <1>1 DEF AnalyticsInv, CountsHold
<1>3. ASSUME NEW d \in Escrowed \ report.moved, NEW counted
      PROVE  In(d, counted) <=>
                \E f \in counted \cap (report.asked \ report.failed) : d \in RowsOf(f)
  BY <1>2 DEF In
<1>4. ASSUME NEW d \in Escrowed \ report.moved, report.asked = getFinancialSummary
      PROVE  /\ ~ (In(d, {"total_revenue"}) /\ In(d, {"in_escrow_balance"}))
             /\ In(d, {"total_revenue", "in_escrow_balance"}) => Paid(d)
             /\ Paid(d) => \/ In(d, {"total_revenue", "in_escrow_balance"})
                           \/ report.failed \cap {"total_revenue", "in_escrow_balance"} # {}
             /\ In(d, {"transaction_fees"}) /\ ~ In(d, {"total_revenue"}) =>
                    "total_revenue" \in report.failed
  <2>1. deals[d] \in DealStatus
    BY <1>1
  <2>2. /\ "total_revenue" \in report.asked /\ "in_escrow_balance" \in report.asked
        /\ "transaction_fees" \in report.asked
    BY <1>4 DEF getFinancialSummary
  <2>3. /\ d \in RowsOf("total_revenue") <=> deals[d] = "completed"
        /\ d \in RowsOf("in_escrow_balance") <=> deals[d] \in {"funded", "delivery_confirmed", "disputed"}
        /\ d \in RowsOf("transaction_fees") <=> deals[d] = "completed"
    BY RowsOfEscrow
  <2> QED
    BY <1>3, <2>1, <2>2, <2>3 DEF Paid, DealStatus
<1>5. ASSUME NEW d \in Escrowed \ report.moved, report.asked = getPlatformActivity
      PROVE  /\ ~ (In(d, {"completedTransactions"}) /\ In(d, {"ongoingTransactions"}))
             /\ Paid(d) => \/ In(d, {"completedTransactions", "ongoingTransactions", "disputes"})
                           \/ deals[d] = "disputed" /\ quarrels[d] = 0 /\ d \in withdrawn
                           \/ report.failed # {}
  <2>1. /\ deals[d] \in DealStatus /\ quarrels[d] \in Nat
        /\ deals[d] = "disputed" => quarrels[d] > 0 \/ d \in withdrawn
    BY <1>1, AnalyticsAssumption DEF AnalyticsInv, AnalyticsTypeOK, DisputedPends
  <2>2. /\ "completedTransactions" \in report.asked /\ "ongoingTransactions" \in report.asked
        /\ "disputes" \in report.asked
    BY <1>5 DEF getPlatformActivity
  <2>3. /\ d \in RowsOf("disputes") <=> quarrels[d] > 0
        /\ d \in RowsOf("completedTransactions") <=> deals[d] = "completed"
        /\ d \in RowsOf("ongoingTransactions") <=>
              deals[d] \in {"initiated", "funded", "delivery_confirmed"}
    BY RowsOfEscrow
  <2> QED
    BY <1>3, <2>1, <2>2, <2>3 DEF Paid, DealStatus
<1>6. ASSUME NEW d \in Escrowed
      PROVE  Cardinality({f \in getEscrowStats : In(d, {f})}) <= 1
  <2> DEFINE counting == {f \in getEscrowStats : In(d, {f})}
  <2>1. ASSUME NEW f \in counting, NEW g \in counting PROVE f = g
    BY DEF In, AnalyticsInv, StatsApart
  <2>2. counting = {} \/ \E f \in counting : counting = {f}
    BY <2>1
  <2> HIDE DEF counting
  <2>3. Cardinality(counting) = 0 \/ Cardinality(counting) = 1
    BY <2>2, FS_EmptySet, FS_Singleton
  <2> QED
    BY <2>3 DEF counting
<1> QED
  BY <1>4, <1>5, <1>6 DEF MoneyCountedOnce

-----------------------------------------------------------------------------
(* Forecast.  Sums in closed form, roundings and how they add up, and the line of least
   squares through revenues of any length. *)
LEMMA AllNaturals ==
    ASSUME NEW S, 0 \in S, \A k \in Nat : k \in S => k + 1 \in S
    PROVE  Nat \subseteq S
<1> DEFINE T == {k \in Nat : k \notin S}
           R == OpToRel(<, Nat)
<1>1. IsWellFoundedOn(R, Nat)
  BY NatLessThanWellFounded
<1>2. \A x, y \in Nat : x < y => <<x, y>> \in R
  BY DEF OpToRel
<1> HIDE DEF R
<1>3. ASSUME T # {} PROVE FALSE
  <2>1. T \subseteq Nat
    OBVIOUS
  <2> HIDE DEF T
  <2>2. PICK x \in T : \A y \in T : <<y, x>> \notin R
    BY <1>1, <1>3, <2>1, WFMin
  <2>3. x \in Nat /\ x \notin S
    BY DEF T
  <2>4. x # 0 /\ x - 1 \in Nat /\ x - 1 < x /\ (x - 1) + 1 = x
    BY <2>3
  <2>5. x - 1 \notin S
    BY <2>3, <2>4
  <2> QED
    BY <1>2, <2>2, <2>3, <2>4, <2>5 DEF T
<1> QED
  BY <1>3

\* The partial sums of f, up to the n-th.
Adds(g, f, n) == g = [i \in 0 .. n |-> IF i = 0 THEN 0 ELSE g[i - 1] + f[i]]

LEMMA SumsExist ==
    ASSUME NEW f, NEW n \in Nat
    PROVE  \E g : Adds(g, f, n)
<1> DEFINE S == {k \in Nat : \E g : Adds(g, f, k)}
<1>1. 0 \in S
  <2>1. Adds([i \in 0 .. 0 |-> 0], f, 0)
    BY DEF Adds
  <2> QED
    BY <2>1
<1>2. ASSUME NEW k \in Nat, k \in S PROVE k + 1 \in S
  <2>1. PICK g : Adds(g, f, k)
    BY <1>2
  <2> DEFINE h == [i \in 0 .. k + 1 |-> IF i = k + 1 THEN g[k] + f[k + 1] ELSE g[i]]
  <2>2. \A i \in 0 .. k : g[i] = IF i = 0 THEN 0 ELSE g[i - 1] + f[i]
    BY <2>1 DEF Adds
  <2>3. \A i \in 0 .. k + 1 : h[i] = IF i = 0 THEN 0 ELSE h[i - 1] + f[i]
    BY <2>2
  <2>4. Adds(h, f, k + 1)
    BY <2>3 DEF Adds
  <2> QED
    BY <2>4
<1> HIDE DEF S
<1>3. n \in S
  BY <1>1, <1>2, AllNaturals
<1> QED
  BY <1>3 DEF S

LEMMA SumsAgree ==
    ASSUME NEW f, NEW k \in Nat, NEW n \in Nat, k <= n, NEW g, NEW h, Adds(g, f, k), Adds(h, f, n)
    PROVE  g[k] = h[k]
<1> DEFINE S == {i \in Nat : i <= k => g[i] = h[i]}
<1>1. /\ \A i \in 0 .. k : g[i] = IF i = 0 THEN 0 ELSE g[i - 1] + f[i]
      /\ \A i \in 0 .. n : h[i] = IF i = 0 THEN 0 ELSE h[i - 1] + f[i]
  BY DEF Adds
<1>2. 0 \in S
  BY <1>1
<1>3. ASSUME NEW i \in Nat, i \in S PROVE i + 1 \in S
  BY <1>1, <1>3
<1> HIDE DEF S
<1>4. k \in S
  BY <1>2, <1>3, AllNaturals
<1> QED
  BY <1>4 DEF S

LEMMA SumIs ==
    ASSUME NEW f, NEW n \in Nat, NEW g, Adds(g, f, n)
    PROVE  Sum(f, n) = g[n]
<1> DEFINE upTo == CHOOSE h : Adds(h, f, n)
<1>1. Adds(upTo, f, n)
  BY SumsExist
<1>2. Sum(f, n) = upTo[n]
  BY DEF Sum, Adds
<1> HIDE DEF upTo
<1> QED
  BY <1>1, <1>2, SumsAgree

\* A sum is the sum of one fewer and the last.
LEMMA SumNext ==
    ASSUME NEW f, NEW n \in Nat
    PROVE  Sum(f, 0) = 0 /\ Sum(f, n + 1) = Sum(f, n) + f[n + 1]
<1>1. PICK g : Adds(g, f, n + 1)
  BY SumsExist
<1>2. PICK h : Adds(h, f, n)
  BY SumsExist
<1>3. PICK z : Adds(z, f, 0)
  BY SumsExist
<1>4. Sum(f, n + 1) = g[n + 1] /\ Sum(f, n) = h[n] /\ Sum(f, 0) = z[0]
  BY <1>1, <1>2, <1>3, SumIs
<1>5. h[n] = g[n]
  BY <1>1, <1>2, SumsAgree
<1>6. g[n + 1] = g[n] + f[n + 1] /\ z[0] = 0
  BY <1>1, <1>3 DEF Adds
<1> QED
  BY <1>4, <1>5, <1>6

LEMMA SumType ==
    ASSUME NEW f, NEW n \in Nat, \A i \in 1 .. n : f[i] \in Int
    PROVE  Sum(f, n) \in Int
<1> DEFINE S == {k \in Nat : k <= n => Sum(f, k) \in Int}
<1>1. 0 \in S
  BY SumNext
<1>2. ASSUME NEW k \in Nat, k \in S PROVE k + 1 \in S
  BY <1>2, SumNext
<1> HIDE DEF S
<1>3. n \in S
  BY <1>1, <1>2, AllNaturals
<1> QED
  BY <1>3 DEF S

LEMMA SumLinear ==
    ASSUME NEW n \in Nat, NEW f, NEW g, NEW h, NEW a \in Int, NEW b \in Int,
           \A i \in 1 .. n : f[i] \in Int /\ g[i] \in Int /\ h[i] = a * f[i] + b * g[i]
    PROVE  Sum(h, n) = a * Sum(f, n) + b * Sum(g, n)
<1> DEFINE S == {k \in Nat : k <= n => Sum(h, k) = a * Sum(f, k) + b * Sum(g, k)}
<1>1. 0 \in S
  BY SumNext
<1>2. ASSUME NEW k \in Nat, k \in S PROVE k + 1 \in S
  <2> SUFFICES ASSUME k + 1 <= n PROVE Sum(h, k + 1) = a * Sum(f, k + 1) + b * Sum(g, k + 1)
    BY <1>2
  <2>1. /\ Sum(h, k + 1) = Sum(h, k) + h[k + 1] /\ Sum(f, k + 1) = Sum(f, k) + f[k + 1]
        /\ Sum(g, k + 1) = Sum(g, k) + g[k + 1]
    BY SumNext
  <2>2. /\ f[k + 1] \in Int /\ g[k + 1] \in Int /\ h[k + 1] = a * f[k + 1] + b * g[k + 1]
        /\ Sum(f, k) \in Int /\ Sum(g, k) \in Int
    BY SumType
  <2>3. /\ a * (Sum(f, k) + f[k + 1]) = a * Sum(f, k) + a * f[k + 1]
        /\ b * (Sum(g, k) + g[k + 1]) = b * Sum(g, k) + b * g[k + 1]
    BY <2>2
  <2>4. /\ a * Sum(f, k) \in Int /\ b * Sum(g, k) \in Int
        /\ a * f[k + 1] \in Int /\ b * g[k + 1] \in Int
    BY <2>2
  <2>5. Sum(h, k) = a * Sum(f, k) + b * Sum(g, k)
    BY <1>2
  <2> QED
    BY <2>1, <2>2, <2>3, <2>4, <2>5
<1> HIDE DEF S
<1>3. n \in S
  BY <1>1, <1>2, AllNaturals
<1> QED
  BY <1>3 DEF S

LEMMA SumBound ==
    ASSUME NEW n \in Nat, NEW f, NEW g, \A i \in 1 .. n : f[i] \in Int /\ g[i] \in Int /\ f[i] <= g[i]
    PROVE  Sum(f, n) <= Sum(g, n)
<1> DEFINE S == {k \in Nat : k <= n => Sum(f, k) <= Sum(g, k)}
<1>1. 0 \in S
  BY SumNext
<1>2. ASSUME NEW k \in Nat, k \in S PROVE k + 1 \in S
  <2> SUFFICES ASSUME k + 1 <= n PROVE Sum(f, k + 1) <= Sum(g, k + 1)
    BY <1>2
  <2>1. Sum(f, k + 1) = Sum(f, k) + f[k + 1] /\ Sum(g, k + 1) = Sum(g, k) + g[k + 1]
    BY SumNext
  <2>2. /\ f[k + 1] \in Int /\ g[k + 1] \in Int /\ f[k + 1] <= g[k + 1]
        /\ Sum(f, k) \in Int /\ Sum(g, k) \in Int
    BY SumType
  <2> QED
    BY <1>2, <2>1, <2>2
<1> HIDE DEF S
<1>3. n \in S
  BY <1>1, <1>2, AllNaturals
<1> QED
  BY <1>3 DEF S

LEMMA SumSame ==
    ASSUME NEW n \in Nat, NEW f, NEW g, \A i \in 1 .. n : f[i] \in Int /\ f[i] = g[i]
    PROVE  Sum(f, n) = Sum(g, n)
<1>1. Sum(f, n) <= Sum(g, n) /\ Sum(g, n) <= Sum(f, n)
  BY SumBound
<1> QED
  BY <1>1, SumType

\* Sums in closed form.
LEMMA SumConstant ==
    ASSUME NEW n \in Nat, NEW c \in Int, NEW f, \A i \in 1 .. n : f[i] = c
    PROVE  Sum(f, n) = n * c
<1> DEFINE S == {k \in Nat : k <= n => Sum(f, k) = k * c}
<1>1. 0 \in S
  BY SumNext
<1>2. ASSUME NEW k \in Nat, k \in S PROVE k + 1 \in S
  <2> SUFFICES ASSUME k + 1 <= n PROVE Sum(f, k + 1) = (k + 1) * c
    BY <1>2
  <2>1. Sum(f, k + 1) = k * c + c
    BY <1>2, SumNext
  <2>2. (k + 1) * c = k * c + c
    OBVIOUS
  <2> QED
    BY <2>1, <2>2
<1> HIDE DEF S
<1>3. n \in S
  BY <1>1, <1>2, AllNaturals
<1> QED
  BY <1>3 DEF S

LEMMA SumOfMonths ==
    ASSUME NEW n \in Nat, NEW f, \A i \in 1 .. n : f[i] = i - 1
    PROVE  2 * Sum(f, n) = n * (n - 1)
<1> DEFINE S == {k \in Nat : k <= n => 2 * Sum(f, k) = k * (k - 1)}
<1>1. 0 \in S
  BY SumNext
<1>2. ASSUME NEW k \in Nat, k \in S PROVE k + 1 \in S
  <2> SUFFICES ASSUME k + 1 <= n PROVE 2 * Sum(f, k + 1) = (k + 1) * ((k + 1) - 1)
    BY <1>2
  <2>1. Sum(f, k + 1) = Sum(f, k) + k /\ Sum(f, k) \in Int /\ 2 * Sum(f, k) = k * (k - 1)
    BY <1>2, SumNext, SumType
  <2>2. (k + 1) * ((k + 1) - 1) = k * (k - 1) + 2 * k
    OBVIOUS
  <2> QED
    BY <2>1, <2>2
<1> HIDE DEF S
<1>3. n \in S
  BY <1>1, <1>2, AllNaturals
<1> QED
  BY <1>3 DEF S

LEMMA SumOfSquares ==
    ASSUME NEW n \in Nat, NEW f, \A i \in 1 .. n : f[i] = (i - 1) * (i - 1)
    PROVE  6 * Sum(f, n) = n * (n - 1) * (2 * n - 1)
<1> DEFINE S == {k \in Nat : k <= n => 6 * Sum(f, k) = k * (k - 1) * (2 * k - 1)}
<1>1. 0 \in S
  BY SumNext
<1>2. ASSUME NEW k \in Nat, k \in S PROVE k + 1 \in S
  <2> SUFFICES ASSUME k + 1 <= n
               PROVE  6 * Sum(f, k + 1) = (k + 1) * ((k + 1) - 1) * (2 * (k + 1) - 1)
    BY <1>2
  <2>1. /\ Sum(f, k + 1) = Sum(f, k) + k * k /\ Sum(f, k) \in Int
        /\ 6 * Sum(f, k) = k * (k - 1) * (2 * k - 1)
    BY <1>2, SumNext, SumType
  <2>2. (k + 1) * ((k + 1) - 1) * (2 * (k + 1) - 1) = k * (k - 1) * (2 * k - 1) + 6 * (k * k)
    OBVIOUS
  <2> QED
    BY <2>1, <2>2
<1> HIDE DEF S
<1>3. n \in S
  BY <1>1, <1>2, AllNaturals
<1> QED
  BY <1>3 DEF S

\* The differences from month to month leave the last and the first.
LEMMA SumOfDifferences ==
    ASSUME NEW n \in Nat, NEW ys, NEW f,
           \A i \in 1 .. n + 1 : ys[i] \in Int, \A i \in 1 .. n : f[i] = ys[i + 1] - ys[i]
    PROVE  Sum(f, n) = ys[n + 1] - ys[1]
<1> DEFINE S == {k \in Nat : k <= n => Sum(f, k) = ys[k + 1] - ys[1]}
<1>1. 0 \in S
  BY SumNext
<1>2. ASSUME NEW k \in Nat, k \in S PROVE k + 1 \in S
  <2> SUFFICES ASSUME k + 1 <= n PROVE Sum(f, k + 1) = ys[(k + 1) + 1] - ys[1]
    BY <1>2
  <2>1. /\ Sum(f, k + 1) = (ys[k + 1] - ys[1]) + (ys[(k + 1) + 1] - ys[k + 1])
        /\ ys[1] \in Int /\ ys[k + 1] \in Int /\ ys[(k + 1) + 1] \in Int
    BY <1>2, SumNext
  <2> QED
    BY <2>1
<1> HIDE DEF S
<1>3. n \in S
  BY <1>1, <1>2, AllNaturals
<1> QED
  BY <1>3 DEF S

LEMMA Quotient ==
    ASSUME NEW c \in Int, NEW d \in Int, d > 0
    PROVE  c \div d \in Int /\ d * (c \div d) <= c /\ c < d * (c \div d) + d
OBVIOUS

\* A quotient is rounded by one half at most.
LEMMA ToFixedNear ==
    ASSUME NEW a \in Int, NEW b \in Int, b > 0
    PROVE  /\ ToFixed(a, b) \in Int
           /\ 2 * a - b <= 2 * b * ToFixed(a, b) /\ 2 * b * ToFixed(a, b) <= 2 * a + b
<1>1. CASE a >= 0
  <2> DEFINE q == (2 * a + b) \div (2 * b)
  <2>1. q \in Int /\ (2 * b) * q <= 2 * a + b /\ 2 * a + b < (2 * b) * q + 2 * b
    BY <1>1, Quotient
  <2>2. ToFixed(a, b) = q
    BY <1>1 DEF ToFixed
  <2> HIDE DEF q
  <2>3. 2 * b * q = (2 * b) * q
    BY <2>1
  <2> QED
    BY <2>1, <2>2, <2>3
<1>2. CASE a < 0
  <2> DEFINE q == (b - 2 * a) \div (2 * b)
  <2>1. q \in Int /\ (2 * b) * q <= b - 2 * a /\ b - 2 * a < (2 * b) * q + 2 * b
    BY <1>2, Quotient
  <2>2. ToFixed(a, b) = - q
    BY <1>2 DEF ToFixed
  <2> HIDE DEF q
  <2>3. 2 * b * (- q) = - ((2 * b) * q) /\ (2 * b) * q \in Int
    BY <2>1
  <2> QED
    BY <2>1, <2>2, <2>3
<1> QED
  BY <1>1, <1>2

\* h is a combination of f, g and a constant, up to n.
Combines(n, h, a, f, b, g, c) ==
    \A i \in 1 .. n : f[i] \in Int /\ g[i] \in Int /\ h[i] = a * f[i] + b * g[i] + c

LEMMA SumCombined ==
    ASSUME NEW n \in Nat, NEW f, NEW g, NEW h, NEW a \in Int, NEW b \in Int, NEW c \in Int,
           Combines(n, h, a, f, b, g, c)
    PROVE  Sum(h, n) = a * Sum(f, n) + b * Sum(g, n) + n * c
<1> DEFINE cs == [i \in 1 .. n |-> c]
           gs == [i \in 1 .. n |-> b * g[i] + c]
<1>0. \A i \in 1 .. n : f[i] \in Int /\ g[i] \in Int /\ h[i] = a * f[i] + b * g[i] + c
  BY DEF Combines
<1>1. Sum(cs, n) = n * c
  BY SumConstant
<1>2. 1 \in Int /\ \A i \in 1 .. n : g[i] \in Int /\ cs[i] \in Int /\ gs[i] = b * g[i] + 1 * cs[i]
  BY <1>0
<1>3. \A i \in 1 .. n : f[i] \in Int /\ gs[i] \in Int /\ h[i] = a * f[i] + 1 * gs[i]
  <2>1. ASSUME NEW i \in 1 .. n
        PROVE  f[i] \in Int /\ gs[i] \in Int /\ h[i] = a * f[i] + 1 * gs[i]
    <3>1. a * f[i] \in Int /\ b * g[i] \in Int /\ gs[i] = b * g[i] + c
      BY <1>0
    <3> QED
      BY <1>0, <3>1
  <2> QED
    BY <2>1
<1> HIDE DEF cs, gs
<1>4. Sum(gs, n) = b * Sum(g, n) + 1 * Sum(cs, n)
  BY <1>2, SumLinear
<1>5. Sum(h, n) = a * Sum(f, n) + 1 * Sum(gs, n)
  BY <1>2, <1>3, SumLinear
<1>6. Sum(f, n) \in Int /\ Sum(g, n) \in Int /\ n * c \in Int
  BY <1>0, SumType
<1>7. a * Sum(f, n) \in Int /\ b * Sum(g, n) \in Int
  BY <1>6
<1> QED
  BY <1>1, <1>4, <1>5, <1>6, <1>7

-----------------------------------------------------------------------------
\* The sums of the months, of their squares and of the months times the revenues.
SumX(n) == Sum(Months(n), n)
Squares(n) == [i \in 1 .. n |-> (i - 1) * (i - 1)]
SumXX(n) == Sum(Squares(n), n)
Products(ys) == [i \in 1 .. Len(ys) |-> (i - 1) * ys[i]]
SumXY(ys) == Sum(Products(ys), Len(ys))

LEMMA SumsOfMonths ==
    ASSUME NEW n \in Nat
    PROVE  /\ SumX(n) \in Int /\ SumXX(n) \in Int
           /\ 2 * SumX(n) = n * (n - 1) /\ 6 * SumXX(n) = n * (n - 1) * (2 * n - 1)
           /\ \A i \in 1 .. n : /\ Months(n)[i] = i - 1 /\ Squares(n)[i] = (i - 1) * (i - 1)
                                /\ MonthFromMean(n, i) = n * (i - 1) - SumX(n)
<1>1. \A i \in 1 .. n : /\ Months(n)[i] = i - 1 /\ Squares(n)[i] = (i - 1) * (i - 1)
                        /\ Months(n)[i] \in Int /\ Squares(n)[i] \in Int
  BY DEF Months, Squares
<1>2. SumX(n) \in Int /\ SumXX(n) \in Int
  BY <1>1, SumType DEF SumX, SumXX
<1>3. 2 * SumX(n) = n * (n - 1) /\ 6 * SumXX(n) = n * (n - 1) * (2 * n - 1)
  BY <1>1, SumOfMonths, SumOfSquares DEF SumX, SumXX
<1> QED
  BY <1>1, <1>2, <1>3 DEF MonthFromMean, SumX

LEMMA SumsOfRevenues ==
    ASSUME NEW ys \in Seq(Int)
    PROVE  /\ Len(ys) \in Nat /\ \A i \in 1 .. Len(ys) : ys[i] \in Int
           /\ Total(ys) \in Int /\ SumXY(ys) \in Int
           /\ \A i \in 1 .. Len(ys) : Products(ys)[i] \in Int /\ Products(ys)[i] = (i - 1) * ys[i]
<1>1. Len(ys) \in Nat /\ \A i \in 1 .. Len(ys) : ys[i] \in Int
  BY LenProperties, ElementOfSeq
<1>2. \A i \in 1 .. Len(ys) : Products(ys)[i] \in Int /\ Products(ys)[i] = (i - 1) * ys[i]
  BY <1>1 DEF Products
<1> QED
  BY <1>1, <1>2, SumType DEF Total, SumXY

Deviates(n, h, ms, ys, ps, X, Y) ==
    \A i \in 1 .. n : /\ ms[i] \in Int /\ ys[i] \in Int /\ ps[i] = ms[i] * ys[i]
                      /\ h[i] = (n * ms[i] - X) * (n * ys[i] - Y)

LEMMA SumOfDeviations ==
    ASSUME NEW n \in Nat, NEW ms, NEW ys, NEW ps, NEW h, NEW X \in Int, NEW Y \in Int,
           Deviates(n, h, ms, ys, ps, X, Y)
    PROVE  Sum(h, n) = (n * n) * Sum(ps, n) + (- (n * Y)) * Sum(ms, n) + (- (n * X)) * Sum(ys, n) + n * (X * Y)
<1> DEFINE a == - (n * Y)
           b == - (n * X)
           c == X * Y
           d == n * n
           g == [i \in 1 .. n |-> a * ms[i] + b * ys[i] + c]
<1>1. a \in Int /\ b \in Int /\ c \in Int /\ d \in Int
  OBVIOUS
<1>2. ASSUME NEW i \in 1 .. n
      PROVE  /\ g[i] = a * ms[i] + b * ys[i] + c
             /\ g[i] \in Int /\ ps[i] \in Int /\ h[i] = d * ps[i] + 1 * g[i]
  <2> DEFINE x == ms[i]
             y == ys[i]
  <2>1. /\ x \in Int /\ y \in Int /\ ps[i] = x * y /\ h[i] = (n * x - X) * (n * y - Y)
        /\ g[i] = a * x + b * y + c
    BY DEF Deviates
  <2> HIDE DEF x, y, g
  <2>2. (n * x - X) * (n * y - Y) = (n * n) * (x * y) + ((- (n * Y)) * x + (- (n * X)) * y + X * Y)
    BY <2>1
  <2>3. (- (n * Y)) * x + (- (n * X)) * y + X * Y \in Int /\ x * y \in Int
    BY <2>1
  <2> HIDE DEF a, b, c, d
  <2>4. (n * x - X) * (n * y - Y) = d * (x * y) + (a * x + b * y + c) /\ a * x + b * y + c \in Int
    BY <2>2, <2>3 DEF a, b, c, d
  <2> QED
    BY <2>1, <2>3, <2>4 DEF x, y
<1> HIDE DEF a, b, c, d, g
<1>3. Sum(g, n) = a * Sum(ms, n) + b * Sum(ys, n) + n * c
  <2>1. Combines(n, g, a, ms, b, ys, c)
    BY <1>2 DEF Combines, Deviates
  <2> QED
    BY <1>1, <2>1, SumCombined
<1>4. Sum(h, n) = d * Sum(ps, n) + 1 * Sum(g, n)
  BY <1>1, <1>2, SumLinear
<1>5. Sum(g, n) \in Int /\ Sum(ps, n) \in Int /\ Sum(ms, n) \in Int /\ Sum(ys, n) \in Int
  BY <1>2, SumType DEF Deviates
<1>6. d * Sum(ps, n) \in Int /\ a * Sum(ms, n) \in Int /\ b * Sum(ys, n) \in Int /\ n * c \in Int
  BY <1>1, <1>5
<1>7. Sum(h, n) = d * Sum(ps, n) + a * Sum(ms, n) + b * Sum(ys, n) + n * c
  BY <1>3, <1>4, <1>5, <1>6
<1> QED
  BY <1>7 DEF a, b, c, d

LEMMA DenIs ==
    ASSUME NEW n \in Nat
    PROVE  Den(n) = n * n * SumXX(n) - n * SumX(n) * SumX(n)
<1> DEFINE X == SumX(n)
           ms == Months(n)
           ps == Squares(n)
           h == [i \in 1 .. n |-> MonthFromMean(n, i) * MonthFromMean(n, i)]
<1>1. X \in Int /\ SumXX(n) \in Int
  BY SumsOfMonths
<1>2. Sum(ms, n) = X /\ Sum(ps, n) = SumXX(n) /\ Den(n) = Sum(h, n)
  BY DEF SumX, SumXX, Den
<1>3. ASSUME NEW i \in 1 .. n
      PROVE  /\ ms[i] \in Int /\ ps[i] = ms[i] * ms[i]
             /\ h[i] = (n * ms[i] - X) * (n * ms[i] - X)
  <2>1. ms[i] = i - 1 /\ ps[i] = (i - 1) * (i - 1) /\ MonthFromMean(n, i) = n * (i - 1) - X
    BY SumsOfMonths
  <2> QED
    BY <2>1
<1> HIDE DEF X, ms, ps, h
<1>4. Sum(h, n) = (n * n) * Sum(ps, n) + (- (n * X)) * Sum(ms, n) + (- (n * X)) * Sum(ms, n) + n * (X * X)
  <2>1. Deviates(n, h, ms, ms, ps, X, X)
    BY <1>3 DEF Deviates
  <2> QED
    BY <1>1, <2>1, SumOfDeviations
<1>5. (n * n) * SumXX(n) + (- (n * X)) * X + (- (n * X)) * X + n * (X * X) = n * n * SumXX(n) - n * X * X
  BY <1>1
<1> QED
  BY <1>2, <1>4, <1>5 DEF X

LEMMA NumIs ==
    ASSUME NEW ys \in Seq(Int), NEW n \in Nat, n = Len(ys)
    PROVE  Num(ys) = n * n * SumXY(ys) - n * SumX(n) * Total(ys)
<1> DEFINE X == SumX(n)
           Y == Total(ys)
           XY == SumXY(ys)
           ms == Months(n)
           ps == Products(ys)
           h == [i \in 1 .. n |-> MonthFromMean(n, i) * RevenueFromMean(ys, i)]
<1>1. X \in Int /\ Y \in Int /\ XY \in Int
  BY SumsOfMonths, SumsOfRevenues
<1>2. Sum(ms, n) = X /\ Sum(ys, n) = Y /\ Sum(ps, n) = XY /\ Num(ys) = Sum(h, n)
  BY DEF SumX, Total, SumXY, Num
<1>3. ASSUME NEW i \in 1 .. n
      PROVE  /\ ms[i] \in Int /\ ys[i] \in Int /\ ps[i] = ms[i] * ys[i]
             /\ h[i] = (n * ms[i] - X) * (n * ys[i] - Y)
  <2>1. ms[i] = i - 1 /\ MonthFromMean(n, i) = n * (i - 1) - X
    BY SumsOfMonths
  <2>2. ys[i] \in Int /\ ps[i] = (i - 1) * ys[i]
    BY SumsOfRevenues
  <2>3. RevenueFromMean(ys, i) = n * ys[i] - Y
    BY DEF RevenueFromMean
  <2> QED
    BY <2>1, <2>2, <2>3
<1> HIDE DEF X, Y, XY, ms, ps, h
<1>4. Sum(h, n) = (n * n) * Sum(ps, n) + (- (n * Y)) * Sum(ms, n) + (- (n * X)) * Sum(ys, n) + n * (X * Y)
  <2>1. Deviates(n, h, ms, ys, ps, X, Y)
    BY <1>3 DEF Deviates
  <2> QED
    BY <1>1, <2>1, SumOfDeviations
<1>5. (n * n) * XY + (- (n * Y)) * X + (- (n * X)) * Y + n * (X * Y) = n * n * XY - n * X * Y
  BY <1>1
<1> QED
  BY <1>2, <1>4, <1>5 DEF X, Y, XY

LEMMA Cancel ==
    ASSUME NEW d \in Int, d > 0, NEW a \in Int, NEW b \in Int, d * a <= d * b
    PROVE  a <= b
<1> SUFFICES ASSUME a >= b + 1 PROVE FALSE
  OBVIOUS
<1>1. d * a >= d * (b + 1)
  OBVIOUS
<1>2. d * (b + 1) = d * b + d /\ d * b \in Int
  OBVIOUS
<1> QED
  BY <1>1, <1>2

\* Errors e that are v / d to the nearest add up, weighted, to at most half the
\* weights, if the v weighted add up to zero.
Weighted(n, f, w, e) == \A i \in 1 .. n : f[i] = w[i] * e[i]
Rounded(n, d, e, v, w) ==
    \A i \in 1 .. n : /\ e[i] \in Int /\ v[i] \in Int /\ w[i] \in Nat
                      /\ 2 * v[i] - d <= 2 * d * e[i] /\ 2 * d * e[i] <= 2 * v[i] + d

LEMMA WeightedErrors ==
    ASSUME NEW n \in Nat, NEW d \in Int, d > 0, NEW e, NEW v, NEW w, NEW we, NEW wv,
           Rounded(n, d, e, v, w), Weighted(n, we, w, e), Weighted(n, wv, w, v), Sum(wv, n) = 0
    PROVE  /\ Sum(we, n) \in Int /\ Sum(w, n) \in Int
           /\ 2 * Sum(we, n) <= Sum(w, n) /\ - Sum(w, n) <= 2 * Sum(we, n)
<1> DEFINE lower == [i \in 1 .. n |-> 2 * wv[i] + (- d) * w[i]]
           upper == [i \in 1 .. n |-> 2 * wv[i] + d * w[i]]
           mid == [i \in 1 .. n |-> (2 * d) * we[i] + 0 * w[i]]
<1>1. ASSUME NEW i \in 1 .. n
      PROVE  /\ we[i] \in Int /\ wv[i] \in Int /\ w[i] \in Int
             /\ lower[i] \in Int /\ mid[i] \in Int /\ upper[i] \in Int
             /\ lower[i] = 2 * wv[i] + (- d) * w[i] /\ upper[i] = 2 * wv[i] + d * w[i]
             /\ mid[i] = (2 * d) * we[i] + 0 * w[i]
             /\ lower[i] <= mid[i] /\ mid[i] <= upper[i]
  <2> DEFINE b == e[i]
             c == v[i]
             a == w[i]
  <2>1. /\ b \in Int /\ c \in Int /\ a \in Nat /\ we[i] = a * b /\ wv[i] = a * c
        /\ 2 * c - d <= 2 * d * b /\ 2 * d * b <= 2 * c + d
    BY DEF Rounded, Weighted
  <2>2. /\ lower[i] = 2 * wv[i] + (- d) * w[i] /\ upper[i] = 2 * wv[i] + d * w[i]
        /\ mid[i] = (2 * d) * we[i] + 0 * w[i]
    OBVIOUS
  <2> HIDE DEF a, b, c, lower, mid, upper
  <2>3. a * b \in Int /\ a * c \in Int /\ d * a \in Int /\ (2 * d) * (a * b) \in Int /\ 2 * d * b \in Int
    BY <2>1
  <2>4. a * (2 * c - d) <= a * (2 * d * b) /\ a * (2 * d * b) <= a * (2 * c + d)
    BY <2>1, <2>3
  <2>5. /\ a * (2 * c - d) = 2 * (a * c) + (- d) * a /\ a * (2 * c + d) = 2 * (a * c) + d * a
        /\ a * (2 * d * b) = (2 * d) * (a * b) + 0 * a
    BY <2>1
  <2>6. w[i] = a
    BY DEF a
  <2>7. /\ lower[i] = 2 * (a * c) + (- d) * a /\ upper[i] = 2 * (a * c) + d * a
        /\ mid[i] = (2 * d) * (a * b) + 0 * a
    BY <2>1, <2>2, <2>6
  <2>8. lower[i] \in Int /\ mid[i] \in Int /\ upper[i] \in Int
    BY <2>1, <2>3, <2>7
  <2> QED
    BY <2>1, <2>2, <2>3, <2>4, <2>5, <2>6, <2>7, <2>8
<1> HIDE DEF lower, mid, upper
<1>2. Sum(we, n) \in Int /\ Sum(w, n) \in Int /\ Sum(wv, n) \in Int
  BY <1>1, SumType
<1>3. - d \in Int /\ 2 * d \in Int /\ 2 \in Int /\ 0 \in Int
  OBVIOUS
<1>10. ASSUME NEW h, NEW a \in Int, \A i \in 1 .. n : h[i] \in Int /\ h[i] = 2 * wv[i] + a * w[i]
       PROVE  Sum(h, n) = 2 * Sum(wv, n) + a * Sum(w, n)
  <2>1. Combines(n, h, 2, wv, a, w, 0)
    <3> SUFFICES ASSUME NEW i \in 1 .. n
                 PROVE  wv[i] \in Int /\ w[i] \in Int /\ h[i] = 2 * wv[i] + a * w[i] + 0
      BY DEF Combines
    <3>1. h[i] = 2 * wv[i] + a * w[i] /\ h[i] \in Int
      BY <1>10
    <3>2. h[i] + 0 = h[i]
      BY <3>1
    <3> QED
      BY <1>1, <3>1, <3>2
  <2>2. Sum(h, n) = 2 * Sum(wv, n) + a * Sum(w, n) + n * 0
    BY <1>3, <2>1, SumCombined
  <2>3. 2 * Sum(wv, n) \in Int /\ a * Sum(w, n) \in Int /\ n * 0 = 0
    BY <1>2
  <2> QED
    BY <2>2, <2>3
<1>4. Sum(lower, n) = 2 * Sum(wv, n) + (- d) * Sum(w, n)
  BY <1>1, <1>3, <1>10
<1>5. Sum(upper, n) = 2 * Sum(wv, n) + d * Sum(w, n)
  BY <1>1, <1>3, <1>10
<1>6. Sum(mid, n) = (2 * d) * Sum(we, n) + 0 * Sum(w, n)
  BY <1>1, <1>3, SumLinear
<1>7. Sum(lower, n) <= Sum(mid, n) /\ Sum(mid, n) <= Sum(upper, n)
  BY <1>1, SumBound
<1>8. /\ (2 * d) * Sum(we, n) + 0 * Sum(w, n) = d * (2 * Sum(we, n))
      /\ (- d) * Sum(w, n) = d * (- Sum(w, n)) /\ d * Sum(w, n) \in Int /\ d * (2 * Sum(we, n)) \in Int
  BY <1>2
<1>9. d * (2 * Sum(we, n)) <= d * Sum(w, n) /\ d * (- Sum(w, n)) <= d * (2 * Sum(we, n))
  BY <1>2, <1>4, <1>5, <1>6, <1>7, <1>8
<1> QED
  BY <1>2, <1>9, Cancel
-----------------------------------------------------------------------------
\* n times the month's distance from the mean, and the line's denominator.
LEMMA Denominator ==
    ASSUME NEW n \in Nat, n >= 1
    PROVE  /\ Den(n) \in Int /\ 12 * Den(n) = n * n * n * (n * n - 1)
           /\ (n = 1 => Den(n) = 0) /\ (n >= 2 => Den(n) > 0)
<1> DEFINE X == SumX(n)
           Q == SumXX(n)
           m == n * (n - 1)
<1>1. X \in Int /\ Q \in Int /\ 2 * X = m /\ 6 * Q = m * (2 * n - 1) /\ m \in Int
  BY SumsOfMonths
<1>2. Den(n) = n * n * Q - n * X * X
  BY DenIs
<1> HIDE DEF X, Q
<1>3. 12 * (n * n * Q - n * X * X) = 2 * (n * n) * (6 * Q) - 3 * n * ((2 * X) * (2 * X))
  BY <1>1
<1>4. 2 * (n * n) * (m * (2 * n - 1)) - 3 * n * (m * m) = n * n * n * (n * n - 1)
  OBVIOUS
<1>5. n * n * Q - n * X * X \in Int
  BY <1>1
<1>6. Den(n) \in Int /\ 12 * Den(n) = n * n * n * (n * n - 1)
  BY <1>1, <1>2, <1>3, <1>4, <1>5
<1>7. n = 1 => Den(n) = 0
  BY <1>6
<1>8. ASSUME n >= 2 PROVE n * n * n * (n * n - 1) > 0
  <2>1. n * n \in Int /\ n * n >= 2 * n
    BY <1>8
  <2>2. n * n - 1 > 0 /\ n * n * n > 0 /\ n * n * n \in Int /\ n * n - 1 \in Int
    BY <1>8, <2>1
  <2> QED
    BY <2>2
<1> QED
  BY <1>6, <1>7, <1>8

\* The revenues' distances from the line, times its denominator.
Residual(ys, i) == Line(ys, i).den * ys[i] - Line(ys, i).num
Residuals(ys) == [i \in 1 .. Len(ys) |-> Residual(ys, i)]
Moments(ys) == [i \in 1 .. Len(ys) |-> (i - 1) * Residual(ys, i)]

LEMMA LineIs ==
    ASSUME NEW ys \in Seq(Int), NEW n \in Nat, n = Len(ys), n >= 2, NEW i \in 1 .. n
    PROVE  /\ Line(ys, i).den = n * Den(n)
           /\ Line(ys, i).num = Total(ys) * Den(n) + Num(ys) * (n * (i - 1) - SumX(n))
           /\ Line(ys, i).num \in Int /\ n * Den(n) \in Int /\ n * Den(n) > 0 /\ Num(ys) \in Int
           /\ Residual(ys, i) \in Int
           /\ Residual(ys, i) = (n * Den(n)) * ys[i] + (- (n * Num(ys))) * (i - 1)
                                + (Num(ys) * SumX(n) - Total(ys) * Den(n))
<1>1. Den(n) \in Int /\ Den(n) > 0
  BY Denominator
<1>2. Total(ys) \in Int /\ ys[i] \in Int /\ SumXY(ys) \in Int
  BY SumsOfRevenues
<1>3. SumX(n) \in Int /\ MonthFromMean(n, i) = n * (i - 1) - SumX(n)
  BY SumsOfMonths
<1>4. Num(ys) \in Int
  <2>1. n * n * SumXY(ys) - n * SumX(n) * Total(ys) \in Int
    BY <1>2, <1>3
  <2> QED
    BY <2>1, NumIs
<1>5. /\ Line(ys, i).den = n * Den(n)
      /\ Line(ys, i).num = Total(ys) * Den(n) + Num(ys) * (n * (i - 1) - SumX(n))
  <2>1. Line(ys, i) = [num |-> Total(ys) * Den(n) + Num(ys) * MonthFromMean(n, i), den |-> n * Den(n)]
    BY <1>1 DEF Line
  <2> QED
    BY <1>3, <2>1
<1> DEFINE De == Den(n)
           Nu == Num(ys)
           X == SumX(n)
           Y == Total(ys)
           y == ys[i]
           x == i - 1
<1>6. De \in Int /\ De > 0 /\ Nu \in Int /\ X \in Int /\ Y \in Int /\ y \in Int /\ x \in Int
  BY <1>1, <1>2, <1>3, <1>4
<1>7. /\ Line(ys, i).den = n * De /\ Line(ys, i).num = Y * De + Nu * (n * x - X)
      /\ Residual(ys, i) = (n * De) * y - (Y * De + Nu * (n * x - X))
  BY <1>5 DEF Residual
<1> HIDE DEF De, Nu, X, Y, y, x
<1>8. n * De \in Int /\ n * De > 0 /\ Y * De + Nu * (n * x - X) \in Int
  BY <1>6
<1>9. (n * De) * y - (Y * De + Nu * (n * x - X)) = (n * De) * y + (- (n * Nu)) * x + (Nu * X - Y * De)
  BY <1>6
<1>10. (n * De) * y - (Y * De + Nu * (n * x - X)) \in Int
  BY <1>6, <1>8
<1> QED
  BY <1>6, <1>7, <1>8, <1>9, <1>10 DEF De, Nu, X, Y, y, x

LEMMA ResidualsCancel ==
    ASSUME NEW ys \in Seq(Int), NEW n \in Nat, n = Len(ys), n >= 2
    PROVE  Sum(Residuals(ys), n) = 0 /\ Sum(Moments(ys), n) = 0
<1> DEFINE De == Den(n)
           Nu == Num(ys)
           X == SumX(n)
           Q == SumXX(n)
           Y == Total(ys)
           P == SumXY(ys)
           ms == Months(n)
           ss == Squares(n)
           ps == Products(ys)
           D == n * De
           b == - (n * Nu)
           c == Nu * X - Y * De
           rs == Residuals(ys)
           ts == Moments(ys)
           g == [i \in 1 .. n |-> b * ss[i] + c * ms[i]]
<1>1. X \in Int /\ Q \in Int /\ Y \in Int /\ P \in Int
  BY SumsOfMonths, SumsOfRevenues
<1>2. /\ Sum(ms, n) = X /\ Sum(ss, n) = Q /\ Sum(ys, n) = Y /\ Sum(ps, n) = P
  BY DEF SumX, SumXX, Total, SumXY
<1>3. De = n * n * Q - n * X * X /\ Nu = n * n * P - n * X * Y
  BY DenIs, NumIs
<1>4. De \in Int /\ Nu \in Int
  BY <1>1, <1>3
<1>5. ASSUME NEW i \in 1 .. n
      PROVE  /\ ms[i] \in Int /\ ss[i] \in Int /\ ps[i] \in Int /\ ys[i] \in Int
             /\ ss[i] = ms[i] * ms[i] /\ ps[i] = ms[i] * ys[i]
             /\ rs[i] = D * ys[i] + b * ms[i] + c /\ ts[i] = ms[i] * rs[i]
             /\ g[i] = b * ss[i] + c * ms[i]
  <2>1. ms[i] = i - 1 /\ ss[i] = (i - 1) * (i - 1) /\ (i - 1) * (i - 1) \in Int
    BY SumsOfMonths
  <2>2. ys[i] \in Int /\ ps[i] \in Int /\ ps[i] = (i - 1) * ys[i]
    BY SumsOfRevenues
  <2>3. rs[i] = Residual(ys, i) /\ ts[i] = (i - 1) * Residual(ys, i)
    BY DEF Residuals, Moments
  <2>4. Residual(ys, i) = D * ys[i] + b * (i - 1) + c
    BY LineIs
  <2>5. g[i] = b * ss[i] + c * ms[i]
    OBVIOUS
  <2> HIDE DEF b, c, D, ms, ss, ps, rs, ts, g
  <2> QED
    BY <2>1, <2>2, <2>3, <2>4, <2>5
<1> HIDE DEF ms, ss, ps, rs, ts, g
<1>6. D \in Int /\ b \in Int /\ c \in Int /\ 0 \in Int /\ 1 \in Int
  <2> HIDE DEF De, Nu, X, Y
  <2> QED
    BY <1>1, <1>4
<1> HIDE DEF De, Nu, X, Q, Y, P, D, b, c
<1>7. Sum(rs, n) = D * Y + b * X + n * c
  <2>1. Combines(n, rs, D, ys, b, ms, c)
    BY <1>5 DEF Combines
  <2> QED
    BY <1>2, <1>6, <2>1, SumCombined
<1>8. Sum(g, n) = b * Q + c * X + n * 0
  <2>1. ASSUME NEW i \in 1 .. n PROVE g[i] = b * ss[i] + c * ms[i] + 0
    <3> DEFINE x == ms[i]
               z == ss[i]
    <3>1. x \in Int /\ z \in Int /\ g[i] = b * z + c * x
      BY <1>5
    <3> HIDE DEF x, z
    <3>2. b * z + c * x + 0 = b * z + c * x
      BY <1>6, <3>1
    <3> QED
      BY <3>1, <3>2 DEF x, z
  <2>2. Combines(n, g, b, ss, c, ms, 0)
    BY <1>5, <2>1 DEF Combines
  <2> QED
    BY <1>2, <1>6, <2>2, SumCombined
<1>9. Sum(ts, n) = D * P + 1 * (b * Q + c * X + n * 0) + n * 0
  <2>1. ASSUME NEW i \in 1 .. n PROVE g[i] \in Int /\ ts[i] = D * ps[i] + 1 * g[i] + 0
    <3> DEFINE x == ms[i]
               y == ys[i]
    <3>1. x \in Int /\ y \in Int /\ ts[i] = x * (D * y + b * x + c) /\ g[i] = b * (x * x) + c * x
      BY <1>5
    <3>2. ps[i] = x * y
      BY <1>5
    <3> HIDE DEF x, y
    <3>3. x * (D * y + b * x + c) = D * (x * y) + 1 * (b * (x * x) + c * x) + 0
      BY <1>6, <3>1
    <3>4. b * (x * x) + c * x \in Int
      BY <1>6, <3>1
    <3> QED
      BY <3>1, <3>2, <3>3, <3>4
  <2>2. Combines(n, ts, D, ps, 1, g, 0)
    BY <1>5, <2>1 DEF Combines
  <2>3. Sum(ts, n) = D * Sum(ps, n) + 1 * Sum(g, n) + n * 0
    BY <1>6, <2>2, SumCombined
  <2> QED
    BY <1>2, <1>8, <2>3
<1>10. D * Y + b * X + n * c = 0
  BY <1>1, <1>4 DEF D, b, c
<1>11. D * P + 1 * (b * Q + c * X + n * 0) + n * 0 = 0
  <2>1. De = n * (n * Q - X * X) /\ Nu = n * (n * P - X * Y)
    BY <1>1, <1>3
  <2> DEFINE d == n * Q - X * X
             u == n * P - X * Y
  <2>2. d \in Int /\ u \in Int /\ De = n * d /\ Nu = n * u
    BY <1>1, <2>1
  <2>3. D * P + b * Q + c * X = De * (n * P - X * Y) - Nu * (n * Q - X * X)
    BY <1>1, <1>4 DEF D, b, c
  <2>4. De * (n * P - X * Y) - Nu * (n * Q - X * X) = De * u - Nu * d
    OBVIOUS
  <2> HIDE DEF d, u
  <2>5. De * u - Nu * d = 0
    BY <2>2
  <2>6. D * P \in Int /\ b * Q + c * X \in Int
    BY <1>1, <1>6
  <2>7. 1 * (b * Q + c * X + n * 0) + n * 0 = b * Q + c * X
    BY <2>6
  <2> QED
    BY <1>1, <1>6, <2>3, <2>4, <2>5, <2>6, <2>7
<1> QED
  BY <1>7, <1>9, <1>10, <1>11 DEF rs, ts

-----------------------------------------------------------------------------
\* What the page shows: forecast, error and moment of every month.
Errors(ys, fs) == [i \in 1 .. Len(ys) |-> ys[i] - fs[i]]
ErrorMoments(ys, fs) == [i \in 1 .. Len(ys) |-> (i - 1) * Errors(ys, fs)[i]]

LEMMA ForecastNear ==
    ASSUME NEW ys \in Seq(Int), NEW n \in Nat, n = Len(ys), n >= 2, NEW i \in 1 .. n
    PROVE  /\ forecastOf(ys)[i] \in Int
           /\ Line(ys, i).num \in Int /\ n * Den(n) \in Int /\ n * Den(n) > 0
           /\ 2 * Line(ys, i).num - n * Den(n) <= 2 * (n * Den(n)) * forecastOf(ys)[i]
           /\ 2 * (n * Den(n)) * forecastOf(ys)[i] <= 2 * Line(ys, i).num + n * Den(n)
<1>1. forecastOf(ys)[i] = ToFixed(Line(ys, i).num, Line(ys, i).den)
  BY DEF forecastOf
<1>2. /\ Line(ys, i).den = n * Den(n) /\ Line(ys, i).num \in Int
      /\ n * Den(n) \in Int /\ n * Den(n) > 0
  BY LineIs
<1> QED
  BY <1>1, <1>2, ToFixedNear

LEMMA ErrorsCancel ==
    ASSUME NEW ys \in Seq(Int), NEW n \in Nat, n = Len(ys), n >= 2
    PROVE  LET fs == forecastOf(ys)
           IN  /\ Sum(Errors(ys, fs), n) \in Int
               /\ 2 * Sum(Errors(ys, fs), n) <= n /\ - n <= 2 * Sum(Errors(ys, fs), n)
               /\ Sum(ErrorMoments(ys, fs), n) \in Int /\ Sum(Months(n), n) \in Int
               /\ 2 * Sum(ErrorMoments(ys, fs), n) <= Sum(Months(n), n)
               /\ - Sum(Months(n), n) <= 2 * Sum(ErrorMoments(ys, fs), n)
<1> DEFINE fs == forecastOf(ys)
           es == Errors(ys, fs)
           xs == ErrorMoments(ys, fs)
           D == n * Den(n)
           rs == Residuals(ys)
           ts == Moments(ys)
           ms == Months(n)
           os == [i \in 1 .. n |-> 1]
<1>1. ASSUME NEW i \in 1 .. n
      PROVE  /\ es[i] \in Int /\ rs[i] \in Int /\ ms[i] \in Nat /\ os[i] \in Nat
             /\ 2 * rs[i] - D <= 2 * D * es[i] /\ 2 * D * es[i] <= 2 * rs[i] + D
             /\ es[i] = os[i] * es[i] /\ rs[i] = os[i] * rs[i]
             /\ xs[i] = ms[i] * es[i] /\ ts[i] = ms[i] * rs[i] /\ os[i] = 1
  <2> DEFINE N == Line(ys, i).num
             F == fs[i]
             y == ys[i]
  <2>1. y \in Int
    BY SumsOfRevenues
  <2>2. /\ F \in Int /\ N \in Int /\ D \in Int /\ D > 0
        /\ 2 * N - D <= 2 * D * F /\ 2 * D * F <= 2 * N + D
    BY ForecastNear
  <2>3. es[i] = y - F /\ xs[i] = (i - 1) * es[i]
    BY DEF Errors, ErrorMoments
  <2>4. rs[i] = D * y - N /\ ts[i] = (i - 1) * rs[i]
    BY LineIs DEF Residuals, Moments, Residual
  <2>5. ms[i] = i - 1 /\ i - 1 \in Nat
    BY SumsOfMonths
  <2>6. os[i] = 1
    OBVIOUS
  <2> HIDE DEF N, F, y, fs, es, xs, D, rs, ts, ms, os
  <2>7. D * y \in Int /\ 2 * D * F \in Int /\ 2 * D * (y - F) = 2 * (D * y) - 2 * D * F
    BY <2>1, <2>2
  <2>8. es[i] \in Int /\ rs[i] \in Int
    BY <2>1, <2>2, <2>3, <2>4, <2>7
  <2>9. 2 * rs[i] - D <= 2 * D * es[i] /\ 2 * D * es[i] <= 2 * rs[i] + D
    <3>1. 2 * D * es[i] = 2 * (D * y) - 2 * D * F
      BY <2>3, <2>7
    <3>2. 2 * rs[i] = 2 * (D * y) - 2 * N
      BY <2>2, <2>4, <2>7
    <3> QED
      BY <2>2, <2>7, <3>1, <3>2
  <2> QED
    BY <2>3, <2>4, <2>5, <2>6, <2>8, <2>9
<1>2. Sum(rs, n) = 0 /\ Sum(ts, n) = 0
  BY ResidualsCancel
<1>3. D \in Int /\ D > 0
  <2>1. 1 \in 1 .. n
    OBVIOUS
  <2> QED
    BY <2>1, ForecastNear
<1>4. Sum(os, n) = n * 1
  <2>1. 1 \in Int /\ \A i \in 1 .. n : os[i] = 1
    OBVIOUS
  <2> HIDE DEF os
  <2> QED
    BY <2>1, SumConstant
<1> HIDE DEF fs, es, xs, D, rs, ts, ms, os
<1>5. Rounded(n, D, es, rs, os) /\ Rounded(n, D, es, rs, ms)
  BY <1>1 DEF Rounded
<1>6. Weighted(n, es, os, es) /\ Weighted(n, rs, os, rs) /\ Weighted(n, xs, ms, es) /\ Weighted(n, ts, ms, rs)
  BY <1>1 DEF Weighted
<1>7. Sum(es, n) \in Int /\ 2 * Sum(es, n) <= Sum(os, n) /\ - Sum(os, n) <= 2 * Sum(es, n)
  BY <1>2, <1>3, <1>5, <1>6, WeightedErrors
<1>8. /\ Sum(xs, n) \in Int /\ Sum(ms, n) \in Int
      /\ 2 * Sum(xs, n) <= Sum(ms, n) /\ - Sum(ms, n) <= 2 * Sum(xs, n)
  BY <1>2, <1>3, <1>5, <1>6, WeightedErrors
<1>9. Sum(os, n) = n
  BY <1>4
<1> QED
  BY <1>7, <1>8, <1>9 DEF es, xs, ms, fs

\* The line of least squares one month on, times n * (n - 1).
NextTimes(ys) == [i \in 1 .. Len(ys) |-> (6 * i - 2 * Len(ys) - 4) * ys[i]]

LEMMA NextOnLine ==
    ASSUME NEW ys \in Seq(Int), NEW n \in Nat, n = Len(ys), n >= 2
    PROVE  LET T == Sum(NextTimes(ys), n)
               m == n * (n - 1)
           IN  /\ nextRevenue(ys) \in Int /\ T \in Int
               /\ 2 * T - 3 * m <= 2 * (nextRevenue(ys) * m)
               /\ 2 * (nextRevenue(ys) * m) <= 2 * T + 3 * m
<1> DEFINE De == Den(n)
           Nu == Num(ys)
           X == SumX(n)
           Y == Total(ys)
           P == SumXY(ys)
           D == n * De
           m == n * (n - 1)
           F == forecastOf(ys)[n]
           G == forecastOf(ys)[n - 1]
           N == Line(ys, n).num
           M == Line(ys, n - 1).num
           T == Sum(NextTimes(ys), n)
           next == nextRevenue(ys)
           L == 2 * N - M
<1>1. X \in Int /\ 2 * X = m /\ m \in Int /\ m > 0
  <2>1. X \in Int /\ 2 * X = m
    BY SumsOfMonths
  <2>2. n * (n - 1) \in Int /\ n * (n - 1) > 0
    OBVIOUS
  <2> HIDE DEF X
  <2> QED
    BY <2>1, <2>2
<1>2. Y \in Int /\ P \in Int
  BY SumsOfRevenues
<1>3. n \in 1 .. n /\ n - 1 \in 1 .. n
  OBVIOUS
<1>4. /\ F \in Int /\ N \in Int /\ D \in Int /\ D > 0
      /\ 2 * N - D <= 2 * D * F /\ 2 * D * F <= 2 * N + D
  BY <1>3, ForecastNear
<1>5. G \in Int /\ M \in Int /\ 2 * M - D <= 2 * D * G /\ 2 * D * G <= 2 * M + D
  BY <1>3, ForecastNear
<1>6. N = Y * De + Nu * (n * (n - 1) - X) /\ M = Y * De + Nu * (n * ((n - 1) - 1) - X)
  BY <1>3, LineIs
<1>7. De \in Int /\ 12 * De = n * n * n * (n * n - 1)
  BY Denominator
<1>8. Nu = n * n * P - n * X * Y
  BY NumIs
<1>9. next = F + (F - G)
  BY DEF nextRevenue
<1>10. T = 6 * P + (2 - 2 * n) * Y + n * 0
  <2> DEFINE ps == Products(ys)
             ts == NextTimes(ys)
  <2>1. Sum(ps, n) = P /\ Sum(ys, n) = Y
    BY DEF SumXY, Total
  <2>2. 6 \in Int /\ 2 - 2 * n \in Int /\ 0 \in Int
    OBVIOUS
  <2>3. ASSUME NEW i \in 1 .. n
        PROVE  ps[i] \in Int /\ ys[i] \in Int /\ ts[i] = 6 * ps[i] + (2 - 2 * n) * ys[i] + 0
    <3>1. ys[i] \in Int /\ ps[i] \in Int /\ ps[i] = (i - 1) * ys[i]
      BY SumsOfRevenues
    <3>2. ts[i] = (6 * i - 2 * n - 4) * ys[i]
      BY DEF NextTimes
    <3> DEFINE y == ys[i]
    <3> HIDE DEF y, ps, ts
    <3>3. y \in Int /\ ps[i] = (i - 1) * y /\ ts[i] = (6 * i - 2 * n - 4) * y
      BY <3>1, <3>2 DEF y
    <3>4. (6 * i - 2 * n - 4) * y = 6 * ((i - 1) * y) + (2 - 2 * n) * y + 0
      BY <3>3
    <3> QED
      BY <3>1, <3>3, <3>4 DEF y
  <2> HIDE DEF ps, ts, P, Y, T
  <2>4. Combines(n, ts, 6, ps, 2 - 2 * n, ys, 0)
    BY <2>3 DEF Combines
  <2>5. Sum(ts, n) = 6 * Sum(ps, n) + (2 - 2 * n) * Sum(ys, n) + n * 0
    BY <2>2, <2>4, SumCombined
  <2> QED
    BY <2>1, <2>5 DEF T, ts
<1> HIDE DEF De, Nu, X, Y, P, F, G, N, M, T, next
<1>11. Nu \in Int /\ T \in Int /\ next \in Int
  BY <1>1, <1>2, <1>4, <1>5, <1>8, <1>9, <1>10
\* m times the line one month on is what NextTimes adds up to, times the denominator.
<1>12. m * L = D * T
  <2>1. L = Y * De + Nu * (n * n - X)
    BY <1>1, <1>2, <1>6, <1>7, <1>11
  <2> DEFINE u == n * P - X * Y
  <2>2. u \in Int /\ Nu = n * u
    BY <1>1, <1>2, <1>8
  <2> HIDE DEF u
  <2>3. 2 * (n * n - X) = n * (n + 1)
    BY <1>1
  <2>4. m * (Nu * (n * n - X)) = 6 * (De * u)
    <3>1. 2 * (m * (Nu * (n * n - X))) = m * (n * u) * (2 * (n * n - X))
      BY <1>1, <2>2
    <3>2. m * (n * u) * (n * (n + 1)) = (n * n * n * (n * n - 1)) * u
      BY <2>2
    <3>3. (12 * De) * u = 2 * (6 * (De * u))
      BY <1>7, <2>2
    <3>4. m * (Nu * (n * n - X)) \in Int /\ 6 * (De * u) \in Int
      BY <1>1, <1>7, <1>11, <2>2
    <3> HIDE DEF m
    <3>5. m * (n * u) * (2 * (n * n - X)) = m * (n * u) * (n * (n + 1))
      BY <2>3
    <3>6. (n * n * n * (n * n - 1)) * u = (12 * De) * u
      BY <1>7
    <3>7. 2 * (m * (Nu * (n * n - X))) = 2 * (6 * (De * u))
      BY <3>1, <3>2, <3>3, <3>5, <3>6 DEF m
    <3> QED
      BY <3>4, <3>7
  <2>5. m * L = m * (Y * De) + 6 * (De * u)
    <3> HIDE DEF m, L
    <3>1. m * (Y * De + Nu * (n * n - X)) = m * (Y * De) + m * (Nu * (n * n - X))
      BY <1>1, <1>2, <1>7, <1>11
    <3> QED
      BY <2>1, <2>4, <3>1
  <2>6. m * Y + 6 * u = n * (6 * P + (2 - 2 * n) * Y + n * 0)
    <3>1. 6 * (X * Y) = 3 * (2 * X) * Y
      BY <1>1, <1>2
    <3>2. 3 * (2 * X) * Y = 3 * m * Y
      BY <1>1
    <3>3. 6 * u = 6 * (n * P) - 6 * (X * Y)
      BY <1>1, <1>2 DEF u
    <3>4. m * Y + (6 * (n * P) - 3 * m * Y) = n * (6 * P + (2 - 2 * n) * Y + n * 0)
      BY <1>2
    <3> QED
      BY <3>1, <3>2, <3>3, <3>4
  <2>7. m * (Y * De) + 6 * (De * u) = De * (m * Y + 6 * u)
    BY <1>1, <1>2, <1>7, <2>2
  <2>8. De * (n * T) = D * T
    BY <1>7, <1>11
  <2> QED
    BY <1>10, <2>5, <2>6, <2>7, <2>8
<1>13. 2 * L - 3 * D <= 2 * (D * next) /\ 2 * (D * next) <= 2 * L + 3 * D
  <2> HIDE DEF D
  <2>1. 2 * (D * next) = 2 * (2 * D * F) - 2 * D * G
    BY <1>4, <1>5, <1>9
  <2>2. 2 * D * F \in Int /\ 2 * D * G \in Int
    BY <1>4, <1>5
  <2> QED
    BY <1>4, <1>5, <2>1, <2>2
<1>14. D * (2 * T - 3 * m) <= D * (2 * (next * m)) /\ D * (2 * (next * m)) <= D * (2 * T + 3 * m)
  <2>1. L \in Int
    BY <1>4, <1>5
  <2> HIDE DEF L, D, m
  <2>2. m * (2 * L - 3 * D) <= m * (2 * (D * next)) /\ m * (2 * (D * next)) <= m * (2 * L + 3 * D)
    <3>1. 2 * L - 3 * D \in Int /\ 2 * (D * next) \in Int /\ 2 * L + 3 * D \in Int
      BY <1>4, <1>11, <2>1
    <3> QED
      BY <1>1, <1>13, <3>1
  <2>3. m * (2 * L - 3 * D) = 2 * (m * L) - 3 * (D * m) /\ m * (2 * L + 3 * D) = 2 * (m * L) + 3 * (D * m)
    BY <1>1, <1>4, <2>1
  <2>4. D * (2 * T - 3 * m) = 2 * (D * T) - 3 * (D * m) /\ D * (2 * T + 3 * m) = 2 * (D * T) + 3 * (D * m)
    BY <1>1, <1>4, <1>11
  <2>5. m * (2 * (D * next)) = D * (2 * (next * m))
    BY <1>1, <1>4, <1>11
  <2> QED
    BY <1>12, <2>2, <2>3, <2>4, <2>5
<1>15. 2 * T - 3 * m \in Int /\ 2 * (next * m) \in Int /\ 2 * T + 3 * m \in Int
  <2> HIDE DEF m
  <2> QED
    BY <1>1, <1>11
<1>16. 2 * T - 3 * m <= 2 * (next * m) /\ 2 * (next * m) <= 2 * T + 3 * m
  <2> HIDE DEF m, D
  <2> DEFINE a == 2 * T - 3 * m
             b == 2 * (next * m)
             c == 2 * T + 3 * m
  <2>1. a \in Int /\ b \in Int /\ c \in Int /\ D * a <= D * b /\ D * b <= D * c
    BY <1>14, <1>15
  <2> HIDE DEF a, b, c
  <2>2. a <= b /\ b <= c
    BY <1>4, <2>1, Cancel
  <2> QED
    BY <2>2 DEF a, b, c
<1> QED
  BY <1>11, <1>16 DEF T, next

LEMMA GrowthSpread ==
    ASSUME NEW ys \in Seq(Int), NEW n \in Nat, n = Len(ys), n >= 2
    PROVE  /\ avgGrowth(ys) \in Int
           /\ 2 * (ys[n] - ys[1]) - (n - 1) <= 2 * (avgGrowth(ys) * (n - 1))
           /\ 2 * (avgGrowth(ys) * (n - 1)) <= 2 * (ys[n] - ys[1]) + (n - 1)
<1> DEFINE difference == [i \in 1 .. n - 1 |-> ys[i + 1] - ys[i]]
           k == n - 1
           a == ys[n] - ys[1]
           g == avgGrowth(ys)
<1>1. \A i \in 1 .. n : ys[i] \in Int
  BY SumsOfRevenues
<1>2. /\ k \in Nat /\ k + 1 = n /\ k > 0
      /\ \A i \in 1 .. k + 1 : ys[i] \in Int
      /\ \A i \in 1 .. k : difference[i] = ys[i + 1] - ys[i]
  BY <1>1
<1>3. g = ToFixed(Sum(difference, k), k)
  BY DEF avgGrowth
<1> HIDE DEF difference, k
<1>4. Sum(difference, k) = ys[k + 1] - ys[1]
  BY <1>2, SumOfDifferences
<1>5. a \in Int /\ g = ToFixed(a, k)
  BY <1>1, <1>2, <1>3, <1>4
<1> HIDE DEF a, g
<1>6. g \in Int /\ 2 * a - k <= 2 * k * g /\ 2 * k * g <= 2 * a + k
  BY <1>2, <1>5, ToFixedNear
<1>7. 2 * k * g = 2 * (g * k)
  BY <1>2, <1>6
<1> QED
  BY <1>6, <1>7 DEF a, g, k

LEMMA AloneOrNone ==
    ASSUME NEW ys \in Seq(Int), Len(ys) <= 1
    PROVE  LET fs == forecastOf(ys)
           IN  /\ nextRevenue(ys) \in Int /\ avgGrowth(ys) = 0
               /\ \A i \in 1 .. Len(ys) : fs[i] = ys[i] /\ fs[i] \in Int
               /\ Len(ys) = 1 => nextRevenue(ys) = ys[1]
               /\ Sum(Errors(ys, fs), Len(ys)) = 0 /\ Sum(ErrorMoments(ys, fs), Len(ys)) = 0
               /\ Sum(Months(Len(ys)), Len(ys)) = 0
<1> DEFINE n == Len(ys)
           fs == forecastOf(ys)
           es == Errors(ys, fs)
           xs == ErrorMoments(ys, fs)
<1>1. n \in Nat /\ n <= 1 /\ \A i \in 1 .. n : ys[i] \in Int
  BY SumsOfRevenues
<1>2. avgGrowth(ys) = 0
  BY <1>1 DEF avgGrowth
<1>3. ASSUME NEW i \in 1 .. n PROVE fs[i] = ys[i] /\ ys[i] \in Int /\ es[i] = 0 /\ xs[i] = 0
  <2>0. n = 1 /\ i = 1
    <3> HIDE DEF n
    <3> QED
      BY <1>1
  <2>1. n = 1 /\ i = 1 /\ ys[1] \in Int
    BY <1>1, <2>0
  <2>2. Total(ys) = ys[1]
    <3>1. Sum(ys, 0) = 0 /\ Sum(ys, 0 + 1) = Sum(ys, 0) + ys[0 + 1]
      BY SumNext
    <3>2. Total(ys) = Sum(ys, 1)
      BY <2>1 DEF Total
    <3> QED
      BY <2>1, <3>1, <3>2
  <2>3. Den(1) = 0
    BY Denominator
  <2>4. Line(ys, 1) = [num |-> ys[1], den |-> 1]
    BY <2>1, <2>2, <2>3 DEF Line
  <2>5. fs[1] = ToFixed(ys[1], 1)
    BY <2>1, <2>4 DEF forecastOf
  <2>6. /\ ToFixed(ys[1], 1) \in Int /\ 2 * ys[1] - 1 <= 2 * 1 * ToFixed(ys[1], 1)
        /\ 2 * 1 * ToFixed(ys[1], 1) <= 2 * ys[1] + 1
    <3> DEFINE y == ys[1]
               b == 1
    <3>1. y \in Int /\ b \in Int /\ b > 0
      BY <2>1
    <3> HIDE DEF y, b
    <3>2. /\ ToFixed(y, b) \in Int /\ 2 * y - b <= 2 * b * ToFixed(y, b)
          /\ 2 * b * ToFixed(y, b) <= 2 * y + b
      BY <3>1, ToFixedNear
    <3> QED
      BY <3>2 DEF y, b
  <2>7. fs[1] = ys[1]
    BY <2>1, <2>5, <2>6
  <2>8. es[1] = ys[1] - fs[1] /\ xs[1] = (1 - 1) * es[1]
    BY <2>1 DEF Errors, ErrorMoments
  <2>9. es[1] = 0 /\ xs[1] = 0
    BY <2>1, <2>7, <2>8
  <2> QED
    BY <2>1, <2>7, <2>9
<1>4. nextRevenue(ys) \in Int /\ (n = 1 => nextRevenue(ys) = ys[1])
  BY <1>1 DEF nextRevenue
<1> HIDE DEF fs, es, xs
<1>5. Sum(es, n) = n * 0 /\ Sum(xs, n) = n * 0
  BY <1>1, <1>3, SumConstant
<1>6. Sum(Months(n), n) = 0
  <2>1. SumX(n) \in Int /\ 2 * SumX(n) = n * (n - 1)
    BY <1>1, SumsOfMonths
  <2>2. n * (n - 1) = 0
    BY <1>1
  <2> QED
    BY <2>1, <2>2 DEF SumX
<1> QED
  BY <1>1, <1>2, <1>3, <1>4, <1>5, <1>6 DEF fs, es, xs

-----------------------------------------------------------------------------
\* The page is either empty or shows the chart of the revenues.
ForecastInv == chart = NoChart \/ \E ys \in Revenues : chart = ChartOf(ys)

LEMMA SequenceOf ==
    ASSUME NEW n \in Nat, NEW f \in [1 .. n -> Int]
    PROVE  f \in Seq(Int) /\ Len(f) = n
<1>1. f \in Seq(Int)
  BY SeqDef
<1>2. DOMAIN f = 1 .. Len(f) /\ DOMAIN f = 1 .. n /\ Len(f) \in Nat
  BY <1>1, LenProperties
<1> QED
  BY <1>1, <1>2

LEMMA RevenuesAre ==
    ASSUME NEW ys \in Revenues
    PROVE  ys \in Seq(Int) /\ ys = [i \in 1 .. Len(ys) |-> ys[i]]
<1>1. PICK n \in 0 .. MaxMonths : ys \in [1 .. n -> 0 .. MaxRevenue]
  BY DEF Revenues
<1>2. n \in Nat /\ ys \in [1 .. n -> Int]
  BY <1>1, ForecastAssumption
<1>3. ys \in Seq(Int) /\ Len(ys) = n
  BY <1>2, SequenceOf
<1> QED
  BY <1>2, <1>3

LEMMA ChartTyped ==
    ASSUME NEW ys \in Revenues
    PROVE  /\ forecastOf(ys) \in Seq(Int) /\ Len(forecastOf(ys)) = Len(ys)
           /\ nextRevenue(ys) \in Int /\ avgGrowth(ys) \in Int
<1> DEFINE n == Len(ys)
           fs == forecastOf(ys)
<1>1. ys \in Seq(Int)
  BY RevenuesAre
<1>2. n \in Nat
  BY <1>1, LenProperties
<1>3. \A i \in 1 .. n : fs[i] \in Int
  BY <1>1, <1>2, ForecastNear, AloneOrNone
<1>4. fs = [i \in 1 .. n |-> fs[i]]
  BY DEF forecastOf
<1> HIDE DEF fs
<1>5. fs \in [1 .. n -> Int]
  BY <1>3, <1>4
<1>6. fs \in Seq(Int) /\ Len(fs) = n
  BY <1>2, <1>5, SequenceOf
<1>7. nextRevenue(ys) \in Int
  BY <1>1, <1>2, NextOnLine, AloneOrNone
<1>8. avgGrowth(ys) \in Int
  BY <1>1, <1>2, GrowthSpread, AloneOrNone
<1> QED
  BY <1>6, <1>7, <1>8 DEF fs

LEMMA ForecastTyped ==
    ASSUME ForecastInv
    PROVE  ForecastTypeOK
<1>1. CASE chart = NoChart
  <2>1. <<>> \in Revenues
    <3>1. <<>> \in [1 .. 0 -> 0 .. MaxRevenue] /\ 0 \in 0 .. MaxMonths
      BY ForecastAssumption
    <3> QED
      BY <3>1 DEF Revenues
  <2> QED
    BY <1>1, <2>1, EmptySeq DEF ForecastTypeOK, NoChart
<1>2. ASSUME NEW ys \in Revenues, chart = ChartOf(ys) PROVE ForecastTypeOK
  BY <1>2, ChartTyped DEF ForecastTypeOK, ChartOf
<1> QED
  BY <1>1, <1>2 DEF ForecastInv

LEMMA AbsBound ==
    ASSUME NEW a \in Int, NEW b \in Int, 2 * a <= b, - b <= 2 * a
    PROVE  2 * Abs(a) <= b
BY DEF Abs

LEMMA NearBound ==
    ASSUME NEW a \in Int, NEW b \in Int, NEW m \in Int, 2 * b - m <= 2 * a, 2 * a <= 2 * b + m
    PROVE  2 * Abs(a - b) <= m
BY DEF Abs

\* What ForecastFits says of the chart of ys, its sums named.
FitsOf(ys, fs, next, growth) ==
    LET n == Len(ys)
    IN  /\ 2 * Abs(Sum(Errors(ys, fs), n)) <= n
        /\ 2 * Abs(Sum(ErrorMoments(ys, fs), n)) <= Sum(Months(n), n)
        /\ n >= 2 => /\ 2 * Abs(next * n * (n - 1) - Sum(NextTimes(ys), n)) <= 3 * n * (n - 1)
                     /\ 2 * Abs(growth * (n - 1) - (ys[n] - ys[1])) <= n - 1
        /\ n = 1 => next = ys[1] /\ fs = ys

LEMMA ChartFits ==
    ASSUME NEW ys \in Revenues
    PROVE  FitsOf(ys, forecastOf(ys), nextRevenue(ys), avgGrowth(ys))
<1> DEFINE n == Len(ys)
           fs == forecastOf(ys)
           e == Sum(Errors(ys, fs), n)
           x == Sum(ErrorMoments(ys, fs), n)
           next == nextRevenue(ys)
           growth == avgGrowth(ys)
           T == Sum(NextTimes(ys), n)
<1>1. ys \in Seq(Int) /\ n \in Nat /\ ys = [i \in 1 .. n |-> ys[i]]
  BY RevenuesAre, LenProperties
<1>2. \A i \in 1 .. n : ys[i] \in Int
  BY <1>1, SumsOfRevenues
<1>3. CASE n >= 2
  <2>1. /\ e \in Int /\ 2 * e <= n /\ - n <= 2 * e
        /\ x \in Int /\ Sum(Months(n), n) \in Int
        /\ 2 * x <= Sum(Months(n), n) /\ - Sum(Months(n), n) <= 2 * x
    BY <1>1, <1>3, ErrorsCancel
  <2>2. /\ next \in Int /\ T \in Int
        /\ 2 * T - 3 * (n * (n - 1)) <= 2 * (next * (n * (n - 1)))
        /\ 2 * (next * (n * (n - 1))) <= 2 * T + 3 * (n * (n - 1))
    BY <1>1, <1>3, NextOnLine
  <2>3. /\ growth \in Int
        /\ 2 * (ys[n] - ys[1]) - (n - 1) <= 2 * (growth * (n - 1))
        /\ 2 * (growth * (n - 1)) <= 2 * (ys[n] - ys[1]) + (n - 1)
    BY <1>1, <1>3, GrowthSpread
  <2>4. ys[n] - ys[1] \in Int
    BY <1>1, <1>2, <1>3
  <2> HIDE DEF n, fs, e, x, next, growth, T
  <2>5. 2 * Abs(e) <= n /\ 2 * Abs(x) <= Sum(Months(n), n)
    BY <1>1, <2>1, AbsBound
  <2>6. 2 * Abs(next * n * (n - 1) - T) <= 3 * n * (n - 1)
    <3> DEFINE a == next * (n * (n - 1))
               m == 3 * (n * (n - 1))
    <3>1. a \in Int /\ m \in Int /\ next * n * (n - 1) = a /\ 3 * n * (n - 1) = m
      <4> DEFINE k == n - 1
                 p == n * k
      <4>1. k \in Int /\ n \in Int /\ next \in Int
        BY <1>1, <2>2
      <4>4. p \in Int
        <5> HIDE DEF k
        <5> QED
          BY <4>1
      <4> HIDE DEF k
      <4>2. next * n * k = next * (n * k) /\ 3 * n * k = 3 * (n * k)
        BY <4>1
      <4>3. next * p \in Int /\ 3 * p \in Int
        <5> HIDE DEF p
        <5> QED
          BY <4>1, <4>4
      <4> QED
        BY <4>2, <4>3 DEF k
    <3>2. 2 * T - m <= 2 * a /\ 2 * a <= 2 * T + m
      BY <2>2
    <3> HIDE DEF a, m
    <3> QED
      BY <2>2, <3>1, <3>2, NearBound
  <2>7. 2 * Abs(growth * (n - 1) - (ys[n] - ys[1])) <= n - 1
    <3> DEFINE a == growth * (n - 1)
               b == ys[n] - ys[1]
               m == n - 1
    <3>1. m \in Int /\ b \in Int
      BY <1>1, <2>4
    <3>3. growth * m \in Int
      <4> HIDE DEF m
      <4> QED
        BY <2>3, <3>1
    <3>2. 2 * b - m <= 2 * a /\ 2 * a <= 2 * b + m
      BY <2>3
    <3>4. a \in Int
      BY <3>3
    <3> HIDE DEF a, b, m
    <3>5. 2 * Abs(a - b) <= m
      BY <3>1, <3>2, <3>4, NearBound
    <3> QED
      BY <3>5 DEF a, b, m
  <2> QED
    BY <1>1, <1>3, <2>5, <2>6, <2>7 DEF FitsOf, n, fs, e, x, next, growth, T
<1>4. CASE n <= 1
  <2>1. /\ \A i \in 1 .. n : fs[i] = ys[i]
        /\ n = 1 => next = ys[1]
        /\ e = 0 /\ x = 0 /\ Sum(Months(n), n) = 0
    BY <1>1, <1>4, AloneOrNone
  <2>2. fs = [i \in 1 .. n |-> fs[i]]
    BY DEF forecastOf
  <2>3. fs = ys
    <3> HIDE DEF fs, n
    <3> QED
      BY <1>1, <2>1, <2>2
  <2>4. Abs(0) = 0
    BY DEF Abs
  <2>5. ~(n >= 2)
    BY <1>1, <1>4
  <2> HIDE DEF n, fs, e, x, next, growth
  <2>6. 2 * Abs(e) <= n /\ 2 * Abs(x) <= Sum(Months(n), n)
    BY <1>1, <2>1, <2>4
  <2> QED
    BY <2>1, <2>3, <2>5, <2>6 DEF FitsOf, n, fs, e, x, next, growth
<1> QED
  BY <1>1, <1>3, <1>4

LEMMA ForecastFitsInv ==
    ASSUME ForecastInv
    PROVE  ForecastFits
<1>1. ASSUME NEW ys \in Revenues, chart = ChartOf(ys) PROVE ForecastFits
  <2>1. /\ chart.revenue = ys /\ chart.forecast = forecastOf(ys)
        /\ chart.next = nextRevenue(ys) /\ chart.growth = avgGrowth(ys)
    BY <1>1 DEF ChartOf
  <2>2. FitsOf(ys, forecastOf(ys), nextRevenue(ys), avgGrowth(ys))
    BY ChartFits
  <2> QED
    BY <2>1, <2>2 DEF ForecastFits, FitsOf, Errors, ErrorMoments, NextTimes
<1>2. CASE chart = NoChart
  <2>1. chart = ChartOf(<<>>)
    <3>1. Len(<<>>) = 0 /\ <<>> \in Seq(Int)
      BY EmptySeq
    <3>2. forecastOf(<<>>) = <<>>
      BY <3>1 DEF forecastOf
    <3>3. nextRevenue(<<>>) = 0 /\ avgGrowth(<<>>) = 0
      BY <3>1 DEF nextRevenue, avgGrowth
    <3> QED
      BY <1>2, <3>2, <3>3 DEF NoChart, ChartOf
  <2>2. <<>> \in Revenues
    <3>1. <<>> \in [1 .. 0 -> 0 .. MaxRevenue] /\ 0 \in 0 .. MaxMonths
      BY ForecastAssumption
    <3> QED
      BY <3>1 DEF Revenues
  <2> QED
    BY <1>1, <2>1, <2>2
<1> QED
  BY <1>1, <1>2 DEF ForecastInv

LEMMA ForecastInitInv ==
    ASSUME ForecastInit
    PROVE  ForecastInv
BY DEF ForecastInit, ForecastInv

LEMMA ForecastNextInv ==
    ASSUME ForecastInv, [ForecastNext]_chart
    PROVE  ForecastInv'
<1>1. ASSUME NEW ys \in Revenues, ShowForecast(ys) PROVE ForecastInv'
  BY <1>1 DEF ShowForecast, ForecastInv
<1>2. CASE LeaveForecast
  BY <1>2 DEF LeaveForecast, ForecastInv
<1>3. CASE UNCHANGED chart
  BY <1>3 DEF ForecastInv
<1> QED
  BY <1>1, <1>2, <1>3 DEF ForecastNext

=============================================================================
