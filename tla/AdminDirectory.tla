--------------------------- MODULE AdminDirectory ---------------------------
(***************************************************************************)
(* adminService.updateAdmin and softDeleteAdmin, and roleService.remove,   *)
(* over the admins and admin_roles tables.  None of them opens a           *)
(* transaction: every query commits on its own, and other requests run     *)
(* between a check and the write it guards.                                *)
(***************************************************************************)
EXTENDS Naturals, FiniteSets

CONSTANTS
    Admin,       \* rows of admins
    Role,        \* rows of admin_roles at the start
    SystemRole,  \* the seeded Super Admin role, the one with is_system
    InitRole,    \* InitRole[a]: the role of a at the start
    NewStatus,   \* the statuses that bodies ask for
    Request,     \* slots for requests in flight; an answered slot is used again
    None         \* a field left out of a request body

\* The seed leaves a Super Admin.
ASSUME AdminDirectoryAssumption ==
    /\ SystemRole \in Role
    /\ InitRole \in [Admin -> Role]
    /\ \E a \in Admin : InitRole[a] = SystemRole
    /\ None \notin {"ok", "not_found"} \cup Role \cup Admin
    /\ NewStatus \subseteq {"active", "away", "inactive", "suspended"}
    /\ IsFiniteSet(Admin)

VARIABLES
    admins,  \* admins[a]: role_id, status, and whether deleted_at is set
    roles,   \* the rows of admin_roles
    req,     \* req[r]: a request, and what it has read
    raced    \* history: whether a Super Admin was lost to a race

vars == <<admins, roles, req, raced>>
tables == <<admins, roles, raced>>

AdminStatus == {"active", "away", "inactive", "suspended"}

AdminRow == [role : Role, status : AdminStatus, deleted : BOOLEAN]

Step == {"load", "count", "role", "write", "reload", "answered"}
Op == {"update", "delete", "removeRole"}
Reply == {"ok", "not_found", "forbidden", "bad_request", "conflict", "error", None}

\* seen is the role the target had when it was loaded.
RequestState == [step : Step, op : Op, target : Admin \cup {None},
                 role : Role \cup {None}, status : AdminStatus \cup {None},
                 seen : Role, reply : Reply]

NoRequest == [step |-> "answered", op |-> "update", target |-> None,
              role |-> None, status |-> None, seen |-> SystemRole, reply |-> None]

TypeOK ==
    /\ admins \in [Admin -> AdminRow]
    /\ roles \subseteq Role
    /\ req \in [Request -> RequestState]
    /\ raced \in BOOLEAN

Init ==
    /\ admins = [a \in Admin |-> [role |-> InitRole[a], status |-> "active", deleted |-> FALSE]]
    /\ roles = Role
    /\ req = [r \in Request |-> NoRequest]
    /\ raced = FALSE

-----------------------------------------------------------------------------
At(r, op, step) == req[r].op = op /\ req[r].step = step

GoTo(r, step) ==
    /\ req' = [req EXCEPT ![r].step = step]
    /\ UNCHANGED tables

Done(r, reply) == req' = [req EXCEPT ![r].step = "answered", ![r].reply = reply]

Refuse(r, reply) == Done(r, reply) /\ UNCHANGED tables

\* SELECT COUNT(*) FROM admins WHERE role_id = $1 AND deleted_at IS NULL
UsersWithRole(role) == {a \in Admin : admins[a].role = role /\ ~ admins[a].deleted}

SuperAdmins == UsersWithRole(SystemRole)

\* What the validators and routes let through: a body with a new role, a new
\* status, or both; an id; a role's id.
Bodies(op) ==
    CASE op = "update" -> {b \in [target : Admin, role : Role \cup {None},
                                  status : NewStatus \cup {None}] : {b.role, b.status} # {None}}
      [] op = "delete" -> [target : Admin, role : {None}, status : {None}]
      [] op = "removeRole" -> [target : {None}, role : Role, status : {None}]

\* The caller was authenticated, so was not deleted.  Nobody deletes their own
\* account.
Submit(r, op, body, actor) ==
    /\ req[r].step = "answered"
    /\ ~ admins[actor].deleted
    /\ req' = [req EXCEPT ![r] =
          [step |-> IF op = "delete" /\ body.target = actor THEN "answered" ELSE "load",
           reply |-> IF op = "delete" /\ body.target = actor THEN "forbidden" ELSE None,
           op |-> op, target |-> body.target, role |-> body.role, status |-> body.status,
           seen |-> SystemRole]]
    /\ UNCHANGED tables

\* findByIdWithPermissions, which finds no deleted admin.
LoadTarget(r, found) ==
    IF admins[req[r].target].deleted
    THEN Refuse(r, "not_found")
    ELSE /\ req' = [req EXCEPT ![r].seen = admins[req[r].target].role, ![r].step = found]
         /\ UNCHANGED tables

\* Mutant: the comparison is off by one.
RefuseLast_offByOne(r, next) ==
    IF Cardinality(UsersWithRole(req[r].seen)) < 1
    THEN Refuse(r, "forbidden")
    ELSE GoTo(r, next)

\* The last Super Admin is neither demoted nor deleted.
RefuseLast(r, next) ==
    IF Cardinality(UsersWithRole(req[r].seen)) <= 1
    THEN Refuse(r, "forbidden")
    ELSE GoTo(r, next)

\* A request has looked at how many Super Admins there are, and not yet written.
PastCount(r) ==
    /\ req[r].seen = SystemRole
    /\ \/ At(r, "update", "role") \/ At(r, "update", "write")
       \/ At(r, "delete", "write")
    /\ req[r].op = "update" => req[r].role \notin {None, SystemRole}

\* r takes a Super Admin away without having counted, because its target was not
\* one when it was loaded, or between another's count and its write.
Race(r) ==
    raced' = (raced \/ /\ req[r].target \in SuperAdmins \ SuperAdmins'
                       /\ req[r].seen # SystemRole \/ \E s \in Request \ {r} : PastCount(s))

UpdateAdmin(r) ==
    \/ /\ At(r, "update", "load")
       /\ LoadTarget(r, "count")
    \/ /\ At(r, "update", "count")
       /\ IF req[r].role # None /\ req[r].seen = SystemRole /\ req[r].role # SystemRole
          THEN RefuseLast(r, "role")
          ELSE GoTo(r, "role")
    \/ /\ At(r, "update", "role")
       /\ IF req[r].role \in roles \cup {None} THEN GoTo(r, "write") ELSE Refuse(r, "bad_request")
    \/ /\ At(r, "update", "write")
       /\ IF req[r].role \in roles \cup {None}
          THEN /\ admins' = [admins EXCEPT
                    ![req[r].target].role = IF req[r].role = None THEN @ ELSE req[r].role,
                    ![req[r].target].status = IF req[r].status = None THEN @ ELSE req[r].status]
               /\ req' = [req EXCEPT ![r].step = "reload"]
               /\ UNCHANGED roles
               /\ Race(r)
          ELSE Refuse(r, "error")  \* the foreign key of role_id
    \/ /\ At(r, "update", "reload")
       /\ Refuse(r, IF admins[req[r].target].deleted THEN "not_found" ELSE "ok")

\* Mutant: a status that the column's CHECK does not list.
MarkDeleted_newStatus(r) ==
    admins' = [admins EXCEPT ![req[r].target].deleted = TRUE, ![req[r].target].status = "deleted"]

MarkDeleted(r) ==
    admins' = [admins EXCEPT ![req[r].target].deleted = TRUE, ![req[r].target].status = "inactive"]

SoftDeleteAdmin(r) ==
    \/ /\ At(r, "delete", "load")
       /\ LoadTarget(r, "count")
    \/ /\ At(r, "delete", "count")
       /\ IF req[r].seen = SystemRole THEN RefuseLast(r, "write") ELSE GoTo(r, "write")
    \/ /\ At(r, "delete", "write")
       /\ MarkDeleted(r)
       /\ Done(r, "ok")
       /\ UNCHANGED roles
       /\ Race(r)

\* Mutant: DELETE without the foreign key's ON DELETE RESTRICT.
DeleteRole_unrestricted(r) ==
    /\ At(r, "removeRole", "write")
    /\ roles' = roles \ {req[r].role}
    /\ Done(r, "ok")
    /\ UNCHANGED <<admins, raced>>

\* Mutant: the foreign key's error is swallowed.
DeleteRole_errorSwallowed(r) ==
    /\ At(r, "removeRole", "write")
    /\ roles' = IF \E a \in Admin : admins[a].role = req[r].role
                THEN roles ELSE roles \ {req[r].role}
    /\ Done(r, "ok")
    /\ UNCHANGED <<admins, raced>>

\* DELETE FROM admin_roles: role_id is ON DELETE RESTRICT, and holds for the
\* rows of deleted admins as well.
DeleteRole(r) ==
    /\ At(r, "removeRole", "write")
    /\ IF \E a \in Admin : admins[a].role = req[r].role
       THEN Refuse(r, "error")
       ELSE /\ roles' = roles \ {req[r].role}
            /\ Done(r, "ok")
            /\ UNCHANGED <<admins, raced>>

RemoveRole(r) ==
    \/ /\ At(r, "removeRole", "load")
       /\ IF req[r].role \notin roles THEN Refuse(r, "not_found")
          ELSE IF req[r].role = SystemRole THEN Refuse(r, "forbidden")
          ELSE GoTo(r, "count")
    \/ /\ At(r, "removeRole", "count")
       /\ IF UsersWithRole(req[r].role) # {} THEN Refuse(r, "conflict") ELSE GoTo(r, "write")
    \/ DeleteRole(r)

\* A query fails or the process dies: what was written stays.
Fail(r) ==
    /\ req[r].step # "answered"
    /\ Refuse(r, "error")

Next ==
    \E r \in Request :
        \/ \E op \in Op : \E body \in Bodies(op), actor \in Admin : Submit(r, op, body, actor)
        \/ UpdateAdmin(r)
        \/ SoftDeleteAdmin(r)
        \/ RemoveRole(r)
        \/ Fail(r)

Spec == Init /\ [][Next]_vars

-----------------------------------------------------------------------------
\* "Can't demote the last Super Admin (platform always has one)" (adminService).
AlwaysASuperAdmin == SuperAdmins # {}

\* The same, of the code: the last Super Admin is lost only if a request loses
\* the race between the look at its target, the count and the write.
SuperAdminUnlessRaced == SuperAdmins = {} => raced

\* "A role can't be deleted while any admin is assigned to it": every admin,
\* the deleted ones included, has a role that exists, although the count and
\* the DELETE of roleService.remove, and the look-up and the UPDATE of
\* updateAdmin, are apart.
RoleReferenced == \A a \in Admin : admins[a].role \in roles

\* What a reply says stays so: "ok" to a delete, or "not found", means the
\* admin is gone, "ok" to a role's removal that the role is.
RepliesHold ==
    \A r \in Request : req[r].step = "answered" =>
        /\ req[r].op = "delete" /\ req[r].reply = "ok" => admins[req[r].target].deleted
        /\ req[r].op \in {"update", "delete"} /\ req[r].reply = "not_found" =>
              admins[req[r].target].deleted
        /\ req[r].op = "removeRole" /\ req[r].reply \in {"ok", "not_found"} =>
              req[r].role \notin roles

=============================================================================
