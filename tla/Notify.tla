------------------------------- MODULE Notify --------------------------------
(* What admins send to users: notifications, and messages about a dispute, of
   which each is a row of dispute_messages and then a notification.  They are
   written by statements and transactions of their own, between which a
   request may fail; who is active may change meanwhile. *)
EXTENDS Users, Integers, Sequences, FiniteSets

CONSTANTS
    Sender,       \* slots for requests in flight; an idle slot is used again
    MaxRequests   \* bound: requests of a behaviour

ASSUME NotifyAssumption ==
    IsFiniteSet(Sender) /\ MaxRequests \in Nat /\ "nobody" \notin User

VARIABLES
    inbox,        \* rows of notifications: of each user, other than those of disputes
    updates,      \* ... and those of type dispute_update
    messages,     \* rows of dispute_messages, of each recipient
    confirmed,    \* "Message sent successfully": answers, of each recipient
    sending,      \* sending[s]: the request that s is working on
    budget        \* requests that are still to come

tables == <<inbox, updates, messages>>
notifyVars == <<active, inbox, updates, messages, confirmed, sending, budget>>

\* to is the number of rows that each user is to get; always and ever are the
\* users who were active all along, and at some time, since a broadcast began.
Nobody == [u \in User |-> 0]
NoSending == [op |-> "none", step |-> "idle", to |-> Nobody, always |-> {}, ever |-> {}]

NotifyTypeOK ==
    /\ UsersTypeOK
    /\ \A table \in {inbox, updates, messages, confirmed} : table \in [User -> Nat]
    /\ sending \in [Sender -> [op : {"none", "broadcast", "list", "message"},
                               step : {"idle", "select", "message", "insert", "answer"},
                               to : [User -> 0 .. 2], always : SUBSET User, ever : SUBSET User]]
    /\ budget \in 0 .. MaxRequests

NotifyInit ==
    /\ UsersInit
    /\ inbox = Nobody /\ updates = Nobody /\ messages = Nobody /\ confirmed = Nobody
    /\ sending = [s \in Sender |-> NoSending]
    /\ budget = MaxRequests

-----------------------------------------------------------------------------
At(s, step) == sending[s].step = step

Done(s) == sending' = [sending EXCEPT ![s] = NoSending]

Accept(s) ==
    /\ At(s, "idle")
    /\ budget > 0
    /\ budget' = budget - 1
    /\ UNCHANGED <<active, tables, confirmed>>

\* One row for each mention of a user in a list.
Mentions(list) == [u \in User |-> Cardinality({i \in DOMAIN list : list[i] = u})]

Just(u) == [v \in User |-> IF v = u THEN 1 ELSE 0]

\* A body of POST /notifications: broadcast goes before userIds, userIds before
\* userId, and a body with none of them is refused.
SendNotification(s, broadcast, userIds, userId) ==
    /\ Accept(s)
    /\ sending' = [sending EXCEPT ![s] =
           CASE broadcast ->
                  [NoSending EXCEPT !.op = "broadcast", !.step = "select",
                                    !.always = {u \in User : active[u]},
                                    !.ever = {u \in User : active[u]}]
             [] ~ broadcast /\ userIds # <<>> ->
                  [NoSending EXCEPT !.op = "list", !.step = "insert", !.to = Mentions(userIds)]
             [] ~ broadcast /\ userIds = <<>> /\ userId # "nobody" ->
                  [NoSending EXCEPT !.op = "list", !.step = "insert", !.to = Just(userId)]
             [] OTHER -> NoSending]

\* Mutant: the SELECT has no WHERE.
SelectActive_everyone(s) ==
    /\ At(s, "select")
    /\ sending' = [sending EXCEPT ![s].to = [u \in User |-> 1], ![s].step = "insert"]
    /\ UNCHANGED <<active, tables, confirmed, budget>>

\* SELECT id FROM users WHERE is_active; with no recipient, it is all.
SelectActive(s) ==
    /\ At(s, "select")
    /\ IF \E u \in User : active[u]
       THEN sending' = [sending EXCEPT ![s].to = [u \in User |-> IF active[u] THEN 1 ELSE 0],
                                       ![s].step = "insert"]
       ELSE Done(s)
    /\ UNCHANGED <<active, tables, confirmed, budget>>

Plus(table, rows) == [u \in User |-> table[u] + rows[u]]

\* One INSERT of all the rows, and COMMIT.
Insert(s) ==
    /\ At(s, "insert")
    /\ IF sending[s].op = "message"
       THEN /\ updates' = Plus(updates, sending[s].to)
            /\ sending' = [sending EXCEPT ![s].step = "answer"]
            /\ UNCHANGED inbox
       ELSE /\ inbox' = Plus(inbox, sending[s].to)
            /\ Done(s)
            /\ UNCHANGED updates
    /\ UNCHANGED <<active, messages, confirmed, budget>>

\* POST /disputes/:id/messages: recipient is what getDispute says of the buyer
\* or the seller, "nobody" if there is no such dispute or party.
SendMessage(s, recipient) ==
    /\ Accept(s)
    /\ sending' = [sending EXCEPT ![s] =
           IF recipient = "nobody" THEN NoSending
           ELSE [NoSending EXCEPT !.op = "message", !.step = "message", !.to = Just(recipient)]]

\* Mutant: an error of the INSERT is swallowed.
InsertMessage_bestEffort(s) ==
    /\ At(s, "message")
    /\ sending' = [sending EXCEPT ![s].step = "insert"]
    /\ messages' \in {messages, Plus(messages, sending[s].to)}
    /\ UNCHANGED <<active, inbox, updates, confirmed, budget>>

InsertMessage(s) ==
    /\ At(s, "message")
    /\ sending' = [sending EXCEPT ![s].step = "insert"]
    /\ messages' = Plus(messages, sending[s].to)
    /\ UNCHANGED <<active, inbox, updates, confirmed, budget>>

Confirm(s) ==
    /\ At(s, "answer")
    /\ confirmed' = Plus(confirmed, sending[s].to)
    /\ Done(s)
    /\ UNCHANGED <<active, tables, budget>>

\* A statement fails or the process dies: what is committed stays.
FailSending(s) ==
    /\ ~ At(s, "idle")
    /\ Done(s)
    /\ UNCHANGED <<active, tables, confirmed, budget>>

SwitchUser(u, isActive) ==
    /\ setUserActive(u, isActive)
    /\ sending' = [s \in Sender |->
           IF sending[s].op # "broadcast" THEN sending[s]
           ELSE [sending[s] EXCEPT !.always = {v \in @ : active'[v]},
                                   !.ever = @ \cup {v \in User : active'[v]}]]
    /\ UNCHANGED <<tables, confirmed, budget>>

Lists == UNION {[1 .. n -> User] : n \in 0 .. 2}

NotifyNext ==
    \/ \E s \in Sender :
          \/ \E broadcast \in BOOLEAN, userIds \in Lists, userId \in User \cup {"nobody"} :
                SendNotification(s, broadcast, userIds, userId)
          \/ \E recipient \in User \cup {"nobody"} : SendMessage(s, recipient)
          \/ SelectActive(s) \/ InsertMessage(s) \/ Insert(s) \/ Confirm(s) \/ FailSending(s)
    \/ \E u \in User, isActive \in BOOLEAN : SwitchUser(u, isActive)

NotifySpec == NotifyInit /\ [][NotifyNext]_notifyVars

-----------------------------------------------------------------------------
\* A broadcast goes to everyone who is active from its request to its SELECT,
\* and to nobody who is inactive all that time.
BroadcastReaches ==
    \A s \in Sender : sending[s].op = "broadcast" /\ At(s, "insert") =>
        LET to == {u \in User : sending[s].to[u] > 0}
        IN  sending[s].always \subseteq to /\ to \subseteq sending[s].ever

\* Whatever fails between the two writes: a user has a message for each
\* dispute_update that announces one, and a dispute_update for each message that
\* an admin was told is sent.  A message may be there twice, or unannounced.
AnnouncedIsThere ==
    \A u \in User : confirmed[u] <= updates[u] /\ updates[u] <= messages[u]

\* What is sent goes to those it is for, and what is announced is there.
SentArrives == BroadcastReaches /\ AnnouncedIsThere

=============================================================================
