---------------------------- MODULE DisputeViews -----------------------------
(* Two answers that are put together from two reads, a dispute's and its
   escrow's, while the client backend and resolveDispute write both: the timeline
   of a dispute, and an escrow with its latest dispute.  The rows are those of one
   escrow, about which one dispute after another may be raised, at one time too. *)
EXTENDS Integers, Sequences, FiniteSets

CONSTANTS
    Viewer,       \* slots for requests in flight
    MaxDisputes,  \* bound: disputes about the escrow
    MaxTime       \* bound: times that Date.getTime() can tell apart

ASSUME ViewsAssumption == MaxDisputes \in Nat /\ MaxTime \in Nat \ {0}

VARIABLES
    escrow,    \* its row of transactions
    disputes,  \* its rows of disputes, in the order of their commits
    now,
    view       \* view[v]: the request that v is working on

viewVars == <<escrow, disputes, now, view>>

OfEscrow == {"escrow_created", "delivery_confirmed", "buyer_confirmed"}
Event == OfEscrow \cup {"dispute_raised", "dispute_resolved"}

\* An escrow whose money is held is disputed with its first dispute, and stays so
\* until one is resolved.  time holds its dates, 0 for NULL; cause is history: the
\* dispute that gave it its status, 0 if none did.
EscrowRow == [time : [OfEscrow -> 0 .. MaxTime],
              status : {"initiated", "held", "disputed", "over"},
              cause : 0 .. MaxDisputes]

DisputeRow == [status : {"open", "closed", "resolved"},
               raised : 1 .. MaxTime, resolved : 0 .. MaxTime]

NoDispute == [status |-> "none", raised |-> 0, resolved |-> 0]

NoEscrow == [time |-> [e \in OfEscrow |-> 0], status |-> "initiated", cause |-> 0]

\* of is the dispute that was asked for, or found; reads are the queries that are
\* left, dispute and escrow hold the rows as they were read, and before is what
\* had happened when a timeline was asked for.
NoView == [op |-> "none", of |-> 0, reads |-> <<>>, dispute |-> NoDispute,
           escrow |-> NoEscrow, before |-> {}]

ViewsTypeOK ==
    /\ now \in 1 .. MaxTime
    /\ escrow \in EscrowRow
    /\ disputes \in Seq(DisputeRow) /\ Len(disputes) <= MaxDisputes
    /\ view \in [Viewer ->
           [op : {"none", "timeline", "escrow"}, of : 0 .. MaxDisputes,
            reads : {<<>>, <<"escrow">>, <<"dispute">>,
                     <<"escrow", "dispute">>, <<"dispute", "escrow">>},
            dispute : DisputeRow \cup {NoDispute}, escrow : EscrowRow,
            before : SUBSET Event]]

ViewsInit ==
    /\ now = 1
    /\ escrow = [NoEscrow EXCEPT !.time["escrow_created"] = 1]
    /\ disputes = <<>>
    /\ view = [v \in Viewer |-> NoView]

-----------------------------------------------------------------------------
\* The dates of the events that a dispute and its escrow tell of.
Dates(d, e) ==
    [event \in Event |->
        CASE event \in OfEscrow -> e.time[event]
          [] event = "dispute_raised" -> d.raised
          [] event = "dispute_resolved" -> d.resolved]

\* What has happened, as far as dispute k goes.
Happened(k) ==
    IF k \notin DOMAIN disputes THEN {}
    ELSE {e \in Event : Dates(disputes[k], escrow)[e] # 0}

\* The events that a copy tells of, and the order in which they are pushed.
Pushed(copy) == {e \in Event : copy[e] # 0}

PushedAt(e) ==
    CASE e = "escrow_created" -> 1 [] e = "delivery_confirmed" -> 2 [] e = "buyer_confirmed" -> 3
      [] e = "dispute_raised" -> 4 [] e = "dispute_resolved" -> 5

\* Mutant: the events are left as they were pushed.
Precedes_unsorted(copy, e, f) == PushedAt(e) < PushedAt(f)

\* Array.prototype.sort is stable: by time, then as pushed.
Precedes(copy, e, f) == copy[e] < copy[f] \/ (copy[e] = copy[f] /\ PushedAt(e) < PushedAt(f))

Preceding(copy, e) == {f \in Pushed(copy) : Precedes(copy, f, e)}

Timeline(copy) ==
    [i \in 1 .. Cardinality(Pushed(copy)) |->
        CHOOSE e \in Pushed(copy) : Cardinality(Preceding(copy, e)) = i - 1]

-----------------------------------------------------------------------------
\* The passing of time.  A date is the NOW() of a transaction, when it began: one that
\* began before another may be committed after it.
Tick ==
    /\ now < MaxTime
    /\ now' = now + 1
    /\ UNCHANGED <<escrow, disputes, view>>

\* What the client backend writes: the parties' confirmations, the payment, and the
\* end of an escrow without a dispute.
Happen(e, at) ==
    /\ escrow.time[e] = 0
    /\ escrow' = [escrow EXCEPT !.time[e] = at]
    /\ UNCHANGED <<disputes, now, view>>

Fund ==
    /\ escrow.status = "initiated"
    /\ escrow' = [escrow EXCEPT !.status = "held"]
    /\ UNCHANGED <<disputes, now, view>>

Finish ==
    /\ escrow.status \in {"initiated", "held"}
    /\ escrow' = [escrow EXCEPT !.status = "over"]
    /\ UNCHANGED <<disputes, now, view>>

\* Raised in whatever status the escrow is.
Raise(at) ==
    /\ Len(disputes) < MaxDisputes
    /\ disputes' = Append(disputes, [status |-> "open", raised |-> at, resolved |-> 0])
    /\ escrow' = IF escrow.status # "held" THEN escrow
                 ELSE [escrow EXCEPT !.status = "disputed", !.cause = Len(disputes) + 1]
    /\ UNCHANGED <<now, view>>

\* The escrow is left as it is.
Withdraw(k) ==
    /\ disputes[k].status = "open"
    /\ disputes' = [disputes EXCEPT ![k].status = "closed"]
    /\ UNCHANGED <<escrow, now, view>>

\* resolveDispute, at its COMMIT: whatever the status of the escrow is.
Resolve(k, at) ==
    /\ disputes[k].status = "open"
    /\ disputes' = [disputes EXCEPT ![k].status = "resolved", ![k].resolved = at]
    /\ escrow' = [escrow EXCEPT !.status = "over", !.cause = k]
    /\ UNCHANGED <<now, view>>

-----------------------------------------------------------------------------
\* Mutant: the dispute is read before the escrow.
Reads_disputeFirst(op) == <<"dispute", "escrow">>

\* The order of the two queries: getDisputeTimeline's, and getEscrowById's.
Reads(op) == IF op = "timeline" THEN <<"dispute", "escrow">> ELSE <<"escrow", "dispute">>

\* GET /disputes/:id/timeline of dispute k, and GET /escrow/:id.
ViewTimeline(v, k) ==
    /\ view[v].op = "none"
    /\ view' = [view EXCEPT ![v] = [NoView EXCEPT
            !.op = "timeline", !.of = k, !.reads = Reads("timeline"), !.before = Happened(k)]]
    /\ UNCHANGED <<escrow, disputes, now>>

ViewEscrow(v) ==
    /\ view[v].op = "none"
    /\ view' = [view EXCEPT ![v] = [NoView EXCEPT !.op = "escrow", !.reads = Reads("escrow")]]
    /\ UNCHANGED <<escrow, disputes, now>>

\* ORDER BY created_at DESC LIMIT 1: any of those that were raised last, 0 for no row.
Latest ==
    IF disputes = <<>> THEN {0}
    ELSE {k \in DOMAIN disputes : \A j \in DOMAIN disputes : disputes[j].raised <= disputes[k].raised}

\* The disputes that the query may find; a timeline's is found by its id.
Found(v) ==
    IF view[v].op = "escrow" THEN Latest ELSE {k \in {view[v].of} : k \in DOMAIN disputes}

Reading(v, table) == view[v].reads # <<>> /\ Head(view[v].reads) = table

ReadDispute(v) ==
    /\ Reading(v, "dispute")
    /\ \E k \in Found(v) :
          view' = [view EXCEPT ![v].of = k, ![v].reads = Tail(@),
                               ![v].dispute = IF k = 0 THEN NoDispute ELSE disputes[k]]
    /\ UNCHANGED <<escrow, disputes, now>>

\* A timeline of no dispute is the empty answer, at once.
ReadNoDispute(v) ==
    /\ Reading(v, "dispute") /\ Found(v) = {}
    /\ view' = [view EXCEPT ![v] = NoView]
    /\ UNCHANGED <<escrow, disputes, now>>

ReadEscrow(v) ==
    /\ Reading(v, "escrow")
    /\ view' = [view EXCEPT ![v].escrow = escrow, ![v].reads = Tail(@)]
    /\ UNCHANGED <<escrow, disputes, now>>

Answered(v) == view[v].op # "none" /\ view[v].reads = <<>>

AnswerView(v) ==
    /\ Answered(v)
    /\ view' = [view EXCEPT ![v] = NoView]
    /\ UNCHANGED <<escrow, disputes, now>>

ViewsNext ==
    \/ Tick \/ Fund \/ Finish
    \/ \E at \in 1 .. now :
          \/ \E e \in OfEscrow : Happen(e, at)
          \/ Raise(at)
          \/ \E k \in DOMAIN disputes : Resolve(k, at)
    \/ \E k \in DOMAIN disputes : Withdraw(k)
    \/ \E v \in Viewer :
          \/ \E k \in 1 .. MaxDisputes : ViewTimeline(v, k)
          \/ ViewEscrow(v)
          \/ ReadDispute(v) \/ ReadNoDispute(v) \/ ReadEscrow(v) \/ AnswerView(v)

ViewsSpec == ViewsInit /\ [][ViewsNext]_viewVars

-----------------------------------------------------------------------------
\* The columns of both copies.
Copied(v) == Dates(view[v].dispute, view[v].escrow)

\* A timeline tells, once and in the order of their times, of every event that
\* had happened when it was asked for and of none that has not happened.
TimelineTells ==
    \A v \in Viewer : Answered(v) /\ view[v].op = "timeline" =>
        LET events == Timeline(Copied(v))
            told   == {events[i] : i \in DOMAIN events}
            dates  == Dates(disputes[view[v].of], escrow)
        IN  /\ view[v].before \subseteq told /\ told \subseteq Happened(view[v].of)
            /\ Cardinality(told) = Len(events)
            /\ \A i, j \in DOMAIN events : i < j => dates[events[i]] <= dates[events[j]]

(* The dispute that is shown with an escrow is not behind the escrow.  One in
   dispute is shown with a dispute, and the dispute that gave the escrow its status
   is not hidden by an older one; if it is the one that is shown, it is shown with
   the outcome that ended the escrow.  So a refunded escrow shown with an open
   dispute is no old news: that dispute was raised at the time of the resolved one
   or later.  And a resolved dispute beside an escrow that is not over was
   resolved between the two reads. *)
DisputeNotBehind ==
    \A v \in Viewer : Answered(v) /\ view[v].op = "escrow" =>
        LET e == view[v].escrow
            d == view[v].dispute
        IN  /\ e.status = "disputed" => d.status # "none"
            /\ e.cause # 0 => d.raised >= disputes[e.cause].raised
            /\ e.cause # 0 /\ e.status = "over" /\ view[v].of = e.cause => d.status = "resolved"
            /\ d.status = "resolved" /\ e.status # "over" => escrow.status = "over"

\* Neither answer contradicts itself more than its two reads must.
ViewsAgree == TimelineTells /\ DisputeNotBehind

=============================================================================
