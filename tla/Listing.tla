------------------------------- MODULE Listing -------------------------------
(* The lists of the dashboard.  A page is read with two queries that run side
   by side on two connections of the pool, one for the rows and one for their
   number, and the dashboard goes on to the next page while others write.

   A row that a list may show is open or closed: an active user, an unresolved
   flag, a pending dispute, an unread notification is open.  An admin who is
   deleted, or an invitation whose role is removed, is gone.  The conditions on
   columns that never change (parties, types, dates, the search) rule rows out for
   good, and those rows are left out. *)
EXTENDS Integers, Sequences, FiniteSets

CONSTANTS
    MaxRows,       \* bound: rows of a table
    MaxCreatedAt,  \* bound: times for rows to be created at
    Limit          \* the page sizes that are asked for, within 1 .. maxLimit

ASSUME ListingAssumption ==
    MaxRows \in Nat /\ MaxCreatedAt \in Nat /\ Limit \subseteq Nat \ {0}

VARIABLES
    rows,      \* rows[i]: the i-th row to be committed
    createdAt, \* createdAt[i]: its column created_at
    walk       \* a walk through the pages of one list

listVars == <<rows, createdAt, walk>>

List == {"escrows", "disputes", "flags", "alerts", "users", "userTransactions",
         "userDisputes", "walletTransactions", "notifications", "admins", "invitations"}

RowState == {"open", "closed"}

\* The query string: rows of either state, the open ones, or the others.
State == {"any", "open", "closed"}

-----------------------------------------------------------------------------
(* The WHERE of each list, as a test of a row. *)
InState(state, row) == state # "any" => row = state

listEscrows(state, row) == InState(state, row)
listDisputes(state, row) == InState(state, row)
listWalletTransactions(state, row) == InState(state, row)

\* 'suspended' and 'banned' both stand for is_active = FALSE.
listUsers(state, row) == InState(state, row)

getUserTransactions(row) == row \in RowState
getUserDisputes(row) == row \in RowState

\* deleted_at IS NULL, and the status.
listAdmins(state, row) == row # "gone" /\ InState(state, row)

\* A final status is closed, and 'pending' is open, past its expiry too.
listInvitations(state, row) == InState(state, row)

\* toBoolean of the validator leaves a boolean, which is never === 'true':
\* whatever value is given means false, that is, not resolved ...
resolvedParameter(state) == IF state = "any" THEN "any" ELSE "open"
listFlags(state, row) == InState(resolvedParameter(state), row)

\* ... not acknowledged ...
acknowledgedParameter(state) == IF state = "any" THEN "any" ELSE "open"
listAlerts(state, row) == InState(acknowledgedParameter(state), row)

\* ... or not unread_only.
unreadParameter(state) == "any"
listNotifications(state, row) == InState(unreadParameter(state), row)

Fits(list, state, row) ==
    CASE list = "escrows" -> listEscrows(state, row)
      [] list = "disputes" -> listDisputes(state, row)
      [] list = "flags" -> listFlags(state, row)
      [] list = "alerts" -> listAlerts(state, row)
      [] list = "users" -> listUsers(state, row)
      [] list = "userTransactions" -> getUserTransactions(row)
      [] list = "userDisputes" -> getUserDisputes(row)
      [] list = "walletTransactions" -> listWalletTransactions(state, row)
      [] list = "notifications" -> listNotifications(state, row)
      [] list = "admins" -> listAdmins(state, row)
      [] list = "invitations" -> listInvitations(state, row)

Where(list, state) == {row \in RowState : Fits(list, state, row)}

\* What tells the lists and their parameters apart: the rows they show, and
\* whether a row may be opened again, or go.
Shown ==
    {[where |-> Where(list, state),
      reopens |-> list \notin {"flags", "alerts", "notifications", "invitations"},
      removes |-> list \in {"admins", "invitations"}] : list \in List, state \in State}

\* The rows of a table that fit.
Fitting(where, table) == {i \in DOMAIN table : table[i] \in where}

\* Those that surely come before row i, ORDER BY created_at DESC, and those that
\* may come before or after: nothing orders rows of one created_at.
Ahead(fitting, i) == {j \in fitting : createdAt[j] > createdAt[i]}
Tied(fitting, i) == {j \in fitting : createdAt[j] = createdAt[i]}

\* The places, from 0 on, that a query may give to the rows.
Orders(fitting) ==
    {place \in [fitting -> 0 .. Cardinality(fitting) - 1] :
        \A i, j \in fitting : /\ i # j => place[i] # place[j]
                              /\ createdAt[i] > createdAt[j] => place[i] < place[j]}

\* Mutant: the page is not multiplied.
Offset_byPage(page, limit) == page - 1

Offset(page, limit) == (page - 1) * limit

\* Mutant: one row more, to tell whether there is another page.
Window_oneMore(page, limit) == Offset(page, limit) .. Offset(page, limit) + limit

\* LIMIT and OFFSET.
Window(page, limit) == Offset(page, limit) .. Offset(page, limit) + limit - 1

\* What a query may return for a page.
PagesOf(fitting, page, limit) ==
    {{i \in fitting : place[i] \in Window(page, limit)} : place \in Orders(fitting)}

\* Mutant: the last page, if it is not full, is not counted.
TotalPages_floor(total, limit) == IF total < limit THEN 1 ELSE total \div limit

\* Math.max(1, Math.ceil(total / limit))
TotalPages(total, limit) == IF total = 0 THEN 1 ELSE (total + limit - 1) \div limit

-----------------------------------------------------------------------------
(* where, reopens and removes are those of the list.  items and total are what
   the queries have returned for this page: {} and -1 before; gotRows tells an
   empty page from one that was not read.  seen and twice are what the pages have
   shown, once and more than once.  The rest is history: the rows that fit all
   along, those that were of one created_at with others when the page that was
   read began or ended among them, whether a fitting row has left or come, and whether
   one has come between the count and the rows of this page. *)
NoWalk == [where |-> {}, reopens |-> TRUE, removes |-> TRUE, limit |-> 1,
           page |-> 0, gotRows |-> FALSE, items |-> {}, total |-> -1,
           seen |-> {}, twice |-> {}, stayed |-> {}, cut |-> {},
           left |-> FALSE, came |-> FALSE, late |-> FALSE, done |-> TRUE]

Walk == [where : SUBSET RowState, reopens : BOOLEAN, removes : BOOLEAN, limit : Limit \cup {1},
         page : Nat, gotRows : BOOLEAN, items : SUBSET (1 .. MaxRows), total : -1 .. MaxRows,
         seen : SUBSET (1 .. MaxRows), twice : SUBSET (1 .. MaxRows),
         stayed : SUBSET (1 .. MaxRows), cut : SUBSET (1 .. MaxRows),
         left : BOOLEAN, came : BOOLEAN, late : BOOLEAN, done : BOOLEAN]

ListTypeOK ==
    /\ rows \in Seq(RowState \cup {"gone"}) /\ Len(rows) <= MaxRows
    /\ createdAt \in Seq(1 .. MaxCreatedAt) /\ Len(createdAt) = Len(rows)
    /\ walk \in Walk
    /\ Cardinality(walk.items) <= walk.limit

ListInit == rows = <<>> /\ createdAt = <<>> /\ walk = NoWalk

\* The rows of a table that the walk's list would show.
ShownOf(table) == Fitting(walk.where, table)

\* The request for the first page.
Open(list, limit) ==
    /\ walk = NoWalk
    /\ walk' = [NoWalk EXCEPT
           !.where = list.where, !.reopens = list.reopens, !.removes = list.removes,
           !.limit = limit, !.page = 1, !.done = FALSE,
           !.stayed = Fitting(list.where, rows)]
    /\ UNCHANGED <<rows, createdAt>>

\* The places that row i may have, and the rows of which a page may show some of
\* one created_at but not all.
Places(fitting, i) ==
    LET ahead == Cardinality(Ahead(fitting, i))
    IN  ahead .. ahead + Cardinality(Tied(fitting, i)) - 1

CutBy(fitting, window) ==
    {i \in fitting : /\ Places(fitting, i) \cap window # {}
                     /\ ~ Places(fitting, i) \subseteq window}

\* Every query orders tied rows as it happens to.
QueryRows ==
    /\ ~ walk.done /\ ~ walk.gotRows
    /\ \E items \in PagesOf(ShownOf(rows), walk.page, walk.limit) :
          walk' = [walk EXCEPT
              !.gotRows = TRUE, !.items = items,
              !.cut = @ \cup CutBy(ShownOf(rows), Window(walk.page, walk.limit))]
    /\ UNCHANGED <<rows, createdAt>>

QueryCount ==
    /\ ~ walk.done /\ walk.total = -1
    /\ walk' = [walk EXCEPT !.total = Cardinality(ShownOf(rows))]
    /\ UNCHANGED <<rows, createdAt>>

\* The answer, and the request for the next page if there is one.
Turn ==
    /\ ~ walk.done /\ walk.gotRows /\ walk.total # -1
    /\ LET last == walk.page >= TotalPages(walk.total, walk.limit)
       IN  walk' = [walk EXCEPT
               !.seen = @ \cup walk.items,
               !.twice = @ \cup (walk.seen \cap walk.items),
               !.page = IF last THEN @ ELSE @ + 1,
               !.late = last /\ @,
               !.items = {}, !.total = -1, !.gotRows = FALSE, !.done = last]
    /\ UNCHANGED <<rows, createdAt>>

\* The admin leaves the last page.
Leave ==
    /\ walk.done
    /\ walk' = NoWalk
    /\ UNCHANGED <<rows, createdAt>>

\* A write: the creation of rows, or a row's change.  A walk that is over is
\* forgotten.
Write(table) ==
    LET came == ShownOf(table) \ ShownOf(rows) # {}
    IN  /\ rows' = table
        /\ walk' = IF walk.done THEN NoWalk ELSE
               [walk EXCEPT !.stayed = @ \cap ShownOf(table),
                            !.left = @ \/ ShownOf(rows) \ ShownOf(table) # {},
                            !.came = @ \/ came,
                            !.late = @ \/ (came /\ walk.total # -1 /\ ~ walk.gotRows)]

\* One INSERT: of the n notifications of a broadcast, or of one row by the clients
\* and the workers.  created_at is when the transaction began, the same for all
\* of its rows, and maybe before that of rows that were committed first.
Create(row, n, at) ==
    /\ Len(rows) + n <= MaxRows
    /\ createdAt' = createdAt \o [k \in 1 .. n |-> at]
    /\ Write(rows \o [k \in 1 .. n |-> row])

Close(i) ==
    /\ rows[i] = "open"
    /\ Write([rows EXCEPT ![i] = "closed"])
    /\ UNCHANGED createdAt

\* resolved_at, acknowledged_at and is_read are set once, and no invitation
\* becomes pending again.
Reopen(i) ==
    /\ walk.reopens
    /\ rows[i] = "closed"
    /\ Write([rows EXCEPT ![i] = "open"])
    /\ UNCHANGED createdAt

\* softDeleteAdmin, and the CASCADE of a role's removal.
Remove(i) ==
    /\ walk.removes
    /\ rows[i] # "gone"
    /\ Write([rows EXCEPT ![i] = "gone"])
    /\ UNCHANGED createdAt

ListNext ==
    \/ \E list \in Shown, limit \in Limit : Open(list, limit)
    \/ QueryRows \/ QueryCount \/ Turn \/ Leave
    \/ \E row \in RowState, n \in 1 .. MaxRows, at \in 1 .. MaxCreatedAt : Create(row, n, at)
    \/ \E i \in DOMAIN rows : Close(i) \/ Reopen(i) \/ Remove(i)

ListSpec == ListInit /\ [][ListNext]_listVars

-----------------------------------------------------------------------------
\* LIMIT and OFFSET over a table that moves: a walk through all the pages that
\* does not show a row that fitted all along is one from which a fitting row
\* has left meanwhile (the later pages move up), or one whose last page was
\* counted before a row came and read after it; or else the row is one of several
\* of one created_at, as those of a broadcast are, and a page began or ended among them.
NothingMissed == walk.done /\ ~ walk.left /\ ~ walk.late => walk.stayed \ walk.cut \subseteq walk.seen

\* A row is on two pages only if a row has come to the list meanwhile, or a page began
\* or ended among the rows of its created_at.
NothingTwice == ~ walk.came => walk.twice \subseteq walk.cut

\* So an admin who walks through a list that stands still sees each row once whose
\* created_at is its own.  A list of notifications may repeat and skip those of
\* one broadcast: the query has no column to tell them apart.
WalkComplete == NothingMissed /\ NothingTwice

=============================================================================
