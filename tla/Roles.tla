------------------------------- MODULE Roles -------------------------------
(***************************************************************************)
(* roleService.create, update and remove over admin_roles and              *)
(* role_permissions.  The look-ups commit on their own; AdminRole.create   *)
(* and AdminRole.update write in a transaction, at PostgreSQL's default    *)
(* level (READ COMMITTED): each statement sees what was committed when it  *)
(* began, and waits for the rows that another transaction has changed.     *)
(***************************************************************************)
EXTENDS Naturals, FiniteSets

CONSTANTS
    Role,        \* slots for rows of admin_roles; that of a removed role is used again
    InitRole,    \* the custom roles at the start, InitName[r] the name of each
    InitName,
    Name,        \* names as they are written
    NewName,     \* those that bodies ask for
    Fold,        \* Fold[n]: n in lower case
    Permission,  \* rows of admin_permissions
    NewGrants,   \* the sets of permissions that bodies ask for, {} for none
    Request,     \* slots for requests in flight; an answered slot is used again
    Faults,      \* whether queries may fail and the process die
    None

ASSUME RolesAssumption ==
    /\ InitRole \subseteq Role
    /\ InitName \in [InitRole -> Name]
    /\ NewName \subseteq Name
    /\ None \notin Role \cup Name
    /\ Permission # {}
    /\ NewGrants \subseteq SUBSET Permission
    /\ Faults \in BOOLEAN

VARIABLES
    roles,  \* roles[x]: the row's name, None if there is no row, and its permissions
    req     \* req[r]: a request, and what its transaction has done

vars == <<roles, req>>

Grants == SUBSET Permission
RoleRow == [name : Name \cup {None}, permissions : Grants]
NoRow == [name |-> None, permissions |-> {}]

\* perms = {}: permissionKeys is left out, as an array it is not empty; a body
\* with neither a name nor permissionKeys has a description.  lock
\* is the lock on the role's row: a changed name locks its key as well.  seen
\* is what the DELETE saw when it began, wiped and added are role_permissions
\* rows that the transaction has deleted and inserted.
NoRequest == [op |-> "remove", step |-> "answered", role |-> None, name |-> None,
              perms |-> {}, lock |-> "none", seen |-> {}, wiped |-> {}, added |-> {}]
RequestState == [op : {"create", "update", "remove"},
                 step : {"find", "name", "row", "wipe", "wiping", "add", "commit", "delete",
                         "answered"},
                 role : Role \cup {None}, name : Name \cup {None}, perms : Grants,
                 lock : {"none", "row", "key"}, seen : Grants, wiped : Grants, added : Grants]

\* The types of the tables and the requests; role_permissions refers to rows of
\* admin_roles.
TypeOK ==
    /\ roles \in [Role -> RoleRow]
    /\ \A x \in Role : roles[x].name = None => roles[x] = NoRow
    /\ req \in [Request -> RequestState]

Init ==
    /\ roles = [x \in Role |->
           IF x \in InitRole THEN [name |-> InitName[x], permissions |-> Permission] ELSE NoRow]
    /\ req = [r \in Request |-> NoRequest]

-----------------------------------------------------------------------------
At(r, ops, step) == req[r].op \in ops /\ req[r].step = step

GoTo(r, step) ==
    /\ req' = [req EXCEPT ![r].step = step]
    /\ UNCHANGED roles

\* Mutant: the transaction is left open.
Refuse_leavesOpen(r) ==
    /\ req' = [req EXCEPT ![r].step = "answered"]
    /\ UNCHANGED roles

\* The end of a request is the end of its transaction: all locks go.
Refuse(r) ==
    /\ req' = [req EXCEPT ![r] = NoRequest]
    /\ UNCHANGED roles

\* Rows that r has deleted are no longer there for a DELETE that saw them, even
\* where r has inserted their likes.
Answer(r, deleted) ==
    req' = [s \in Request |->
        IF s = r THEN NoRequest
        ELSE [req[s] EXCEPT !.seen = IF req[s].role = req[r].role THEN @ \ deleted ELSE @]]

Others(r) == {s \in Request \ {r} : req[s].role = req[r].role}

\* Who keeps r waiting: for the row, for the name, for a row of permissions.
RowBlockers(r) ==
    {s \in Others(r) : req[s].lock # "none"
                       \/ (req[r].name \notin {None, roles[req[r].role].name} /\ req[s].added # {})}
NameBlockers(r) ==
    {s \in Request \ {r} : /\ req[s].lock = "key" /\ req[r].name # None
                           /\ \/ req[s].name = req[r].name
                              \/ roles[req[s].role].name = req[r].name}
WipeBlockers(r) == {s \in Others(r) : req[s].wiped \cap req[r].seen # {}}
AddBlockers(r) ==
    {s \in Others(r) : \/ req[s].lock = "key"
                       \/ (req[s].wiped \cup req[s].added) \cap req[r].perms # {}}
DeleteBlockers(r) ==
    {s \in Others(r) : req[s].lock # "none" \/ req[s].added # {} \/ req[s].wiped # {}}

Blockers(r) ==
    CASE req[r].step = "row" -> RowBlockers(r) \cup NameBlockers(r)
      [] req[r].step = "wiping" -> WipeBlockers(r)
      [] req[r].step = "add" -> AddBlockers(r)
      [] req[r].step = "delete" -> DeleteBlockers(r)
      [] OTHER -> {}

-----------------------------------------------------------------------------
\* The body names what it changes; a role that is created is given a fresh id.
SubmitCreate(r, x, name, perms) ==
    /\ req[r].step = "answered"
    /\ roles[x].name = None
    /\ \A s \in Request : req[s].step # "answered" => req[s].role # x
    /\ req' = [req EXCEPT ![r] = [NoRequest EXCEPT !.op = "create", !.step = "name", !.role = x,
                                                   !.name = name, !.perms = perms]]
    /\ UNCHANGED roles

SubmitUpdate(r, x, name, perms) ==
    /\ req[r].step = "answered"
    /\ roles[x].name # None
    /\ req' = [req EXCEPT ![r] = [NoRequest EXCEPT !.op = "update", !.step = "find", !.role = x,
                                                   !.name = name, !.perms = perms]]
    /\ UNCHANGED roles

SubmitRemove(r, x) ==
    /\ req[r].step = "answered"
    /\ roles[x].name # None
    /\ req' = [req EXCEPT ![r] = [NoRequest EXCEPT !.step = "find", !.role = x]]
    /\ UNCHANGED roles

\* With and without a description, when that is all that tells.
AfterFind(r) ==
    IF req[r].op = "remove" THEN {"delete"}
    ELSE IF req[r].name # None THEN {"name"}
    ELSE IF req[r].perms = {} THEN {"row"} ELSE {"row", "wipe"}

\* A custom role; nobody is assigned to it.
FindRole(r) ==
    /\ At(r, {"update", "remove"}, "find")
    /\ IF roles[req[r].role].name = None THEN Refuse(r)
       ELSE \E step \in AfterFind(r) : GoTo(r, step)

FindByName(r) ==
    /\ At(r, {"create", "update"}, "name")
    /\ IF \E x \in Role \ {req[r].role} : roles[x].name # None /\ Fold[roles[x].name] = Fold[req[r].name]
       THEN Refuse(r)
       ELSE GoTo(r, "row")

\* INSERT or UPDATE of the role's row: name is UNIQUE as it is written.  The
\* row may be gone, which an UPDATE does not mind.
WriteRow(r) ==
    LET x == req[r].role
    IN  /\ At(r, {"create", "update"}, "row")
        /\ Blockers(r) = {}
        /\ IF \E y \in Role \ {x} : req[r].name = roles[y].name /\ roles[y].name # None
           THEN Refuse(r)
           ELSE /\ req' = [req EXCEPT ![r].lock =
                               IF roles[x].name = None /\ req[r].op = "update" THEN "none"
                               ELSE IF req[r].name \in {None, roles[x].name} THEN "row" ELSE "key",
                           ![r].step = IF req[r].perms = {} THEN "commit" ELSE "wipe"]
                /\ UNCHANGED roles

\* Mutant: the DELETE runs on the pool, outside the transaction.
Wipe_onPool(r) ==
    /\ At(r, {"create", "update"}, "wipe")
    /\ roles' = [roles EXCEPT ![req[r].role].permissions = {}]
    /\ req' = [req EXCEPT ![r].step = "wiping"]

\* DELETE FROM role_permissions: it sees the rows that are there as it begins ...
Wipe(r) ==
    /\ At(r, {"create", "update"}, "wipe")
    /\ req' = [req EXCEPT ![r].seen = roles[req[r].role].permissions, ![r].step = "wiping"]
    /\ UNCHANGED roles

\* ... and deletes those that are still there once it has their locks.
Wiping(r) ==
    /\ At(r, {"create", "update"}, "wiping")
    /\ Blockers(r) = {}
    /\ req' = [req EXCEPT ![r].wiped = req[r].seen, ![r].step = "add"]
    /\ UNCHANGED roles

\* INSERT INTO role_permissions: the primary key, and the role it refers to.
Add(r) ==
    LET x == req[r].role
    IN  /\ At(r, {"create", "update"}, "add")
        /\ Blockers(r) = {}
        /\ IF \/ (roles[x].permissions \ req[r].wiped) \cap req[r].perms # {}
              \/ (roles[x].name = None /\ req[r].lock # "key")
           THEN Refuse(r)
           ELSE /\ req' = [req EXCEPT ![r].added = req[r].perms, ![r].step = "commit"]
                /\ UNCHANGED roles

\* Mutant: what was inserted is deleted with the rest.
Granted_wiped(r) ==
    (roles[req[r].role].permissions \cup req[r].added) \ req[r].wiped

\* The permissions once r commits.
GrantedBy(r) == (roles[req[r].role].permissions \ req[r].wiped) \cup req[r].added

\* Mutant: a name that the body leaves out is written as well.
NameAfter_always(r) == req[r].name

NameAfter(r) ==
    IF req[r].name = None \/ req[r].lock = "none" THEN roles[req[r].role].name ELSE req[r].name

Commit(r) ==
    LET x == req[r].role
    IN  /\ At(r, {"create", "update"}, "commit")
        /\ roles' = [roles EXCEPT ![x] =
               [name |-> NameAfter(r), permissions |-> GrantedBy(r)]]
        /\ Answer(r, req[r].wiped)

\* Cascades to role_permissions.
Delete(r) ==
    /\ At(r, {"remove"}, "delete")
    /\ Blockers(r) = {}
    /\ roles' = [roles EXCEPT ![req[r].role] = NoRow]
    /\ Answer(r, Permission)

\* PostgreSQL ends one of two transactions that wait for each other.
BreakDeadlock(r) ==
    /\ \E s \in Blockers(r) : r \in Blockers(s)
    /\ Refuse(r)

Fail(r) ==
    /\ Faults
    /\ req[r].step # "answered"
    /\ Refuse(r)

Handle(r) ==
    \/ FindRole(r) \/ FindByName(r) \/ WriteRow(r) \/ Wipe(r) \/ Wiping(r) \/ Add(r)
    \/ Commit(r) \/ Delete(r) \/ BreakDeadlock(r)

Next ==
    \E r \in Request :
        \/ \E x \in Role, name \in NewName, perms \in NewGrants \ {{}} : SubmitCreate(r, x, name, perms)
        \/ \E x \in Role, name \in NewName \cup {None}, perms \in NewGrants :
              SubmitUpdate(r, x, name, perms)
        \/ \E x \in Role : SubmitRemove(r, x)
        \/ Handle(r)
        \/ Fail(r)

Spec == Init /\ [][Next]_vars

\* A statement that is not blocked is run, and the database notices deadlocks.
\* Strong: who waits for a lock stands in its queue, and gets it before later
\* transactions do.
FairSpec == Spec /\ \A r \in Request : SF_vars(Handle(r))

-----------------------------------------------------------------------------
\* "Update fields + (optionally) replace the permission set in one transaction":
\* permissions change in one step, when a transaction is committed, to all of
\* what it asked for, and to nothing else if its DELETE saw the permissions that
\* are there at the COMMIT.  Two updates at a time may leave more, never less.
PermissionsReplaced ==
    [][\A x \in Role : roles'[x].permissions # roles[x].permissions /\ roles'[x].name # None =>
          \E r \in Request :
             /\ Commit(r) /\ req[r].role = x
             /\ req[r].perms # {} /\ req[r].perms \subseteq roles'[x].permissions
             /\ req[r].seen = roles[x].permissions => roles'[x].permissions = req[r].perms]_vars

\* Whatever waits for whatever, every request is answered.
EventuallyAnswered == \A r \in Request : req[r].step # "answered" ~> req[r].step = "answered"

=============================================================================
