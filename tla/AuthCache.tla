----------------------------- MODULE AuthCache -----------------------------
(***************************************************************************)
(* The authenticate and requirePermission middleware over the Redis copy   *)
(* of an admin's row, role and permissions (adminCache), the requests that *)
(* fill the copy (authenticate itself, login and acceptInvitation) and     *)
(* those that change the row and then drop it (updateAdmin,                *)
(* softDeleteAdmin, roleService.update, logout).                           *)
(*                                                                         *)
(* Time is counted in ticks, by ages: nothing is older than Old.           *)
(***************************************************************************)
EXTENDS Integers, FiniteSets

CONSTANTS
    Admin,     \* rows of admins
    Role,      \* rows of admin_roles
    Request,   \* slots for requests in flight; an answered slot is used again
    TTL,       \* TTL_SECONDS, in ticks
    MaxDelay,  \* assumed of the platform: no request runs for longer
    Faults,    \* whether Redis and the database may fail, and the process die
    None

ASSUME AuthCacheAssumption ==
    /\ TTL \in Nat \ {0}
    /\ MaxDelay \in Nat
    /\ Faults \in BOOLEAN

VARIABLES
    admins,   \* admins[a]: role_id, whether suspended, whether deleted_at is set
    granted,  \* the roles that hold the permission which the routes require
    cache,    \* cache[a]: the key admin:<a> in Redis, and what is left of its TTL
    req,      \* req[r]: a request, and the copy it holds
    out,      \* history: ticks since a was last let in by its row
    barred    \* history: ticks since a last held the permission by its row

vars == <<admins, granted, cache, req, out, barred>>
tables == <<admins, granted, out, barred>>

Old == TTL + MaxDelay + 1

AdminRow == [role : Role, suspended : BOOLEAN, deleted : BOOLEAN]

\* AdminWithPermissions, as far as it decides anything: whether its created_at
\* is a Date or the text that JSON.parse leaves is told by where it came from.
Copy == [suspended : BOOLEAN, holds : BOOLEAN]

NoEntry == [left |-> 0, copy |-> [suspended |-> FALSE, holds |-> FALSE]]

\* left = 0: no such key.
Entry == [left : 0 .. TTL, copy : Copy]

Call == {"call", "me"}
Fill == {"login", "accept"}
Change == {"update", "delete", "updateRole", "logout"}

NoRequest == [op |-> "logout", step |-> "answered", admin |-> None, age |-> 0,
              copy |-> [suspended |-> FALSE, holds |-> FALSE], drop |-> {}, reply |-> None]

RequestState == [op : Call \cup Fill \cup Change,
                 step : {"get", "load", "set", "write", "list", "drop", "answered"},
                 admin : Admin \cup Role \cup {None}, age : 0 .. MaxDelay, copy : Copy,
                 drop : SUBSET Admin,
                 reply : {"ok", "unauthorized", "forbidden", "error", "failed", None}]

TypeOK ==
    /\ admins \in [Admin -> AdminRow]
    /\ granted \subseteq Role
    /\ cache \in [Admin -> Entry]
    /\ req \in [Request -> RequestState]
    /\ \A r \in Request : req[r].step # "answered" =>
          req[r].admin \in IF req[r].op = "updateRole" THEN Role ELSE Admin
    /\ out \in [Admin -> 0 .. Old]
    /\ barred \in [Admin -> 0 .. Old]

LetIn(a) == ~ admins[a].suspended /\ ~ admins[a].deleted
Holds(a) == LetIn(a) /\ admins[a].role \in granted

\* What findByIdWithPermissions reads of a row that is not deleted.
RowCopy(a) == [suspended |-> admins[a].suspended, holds |-> admins[a].role \in granted]

Init ==
    /\ admins \in [Admin -> [role : Role, suspended : {FALSE}, deleted : {FALSE}]]
    /\ granted = Role
    /\ cache = [a \in Admin |-> NoEntry]
    /\ req = [r \in Request |-> NoRequest]
    /\ out = [a \in Admin |-> 0]
    /\ barred = [a \in Admin |-> 0]

-----------------------------------------------------------------------------
At(r, ops, step) == req[r].op \in ops /\ req[r].step = step

\* The slot forgets all but the reply.
Done(r, reply) == req' = [req EXCEPT ![r] = [NoRequest EXCEPT !.reply = reply]]

\* A row that lets an admin in again, or gives back the permission, starts the
\* count of ticks anew.
Restart ==
    /\ out' = [a \in Admin |-> IF LetIn(a)' THEN 0 ELSE out[a]]
    /\ barred' = [a \in Admin |-> IF Holds(a)' THEN 0 ELSE barred[a]]

\* Any token that was signed is still good: the row decides.
Submit(r, op, target) ==
    /\ req[r].step = "answered"
    /\ req' = [req EXCEPT ![r] = [NoRequest EXCEPT !.op = op, !.admin = target, !.step =
          CASE op \in Call -> "get"
            [] op \in Fill -> "load"
            [] op = "logout" -> "drop"
            [] OTHER -> "write",
          !.drop = IF op = "logout" THEN {target} ELSE {}]]
    /\ UNCHANGED <<tables, cache>>

\* authenticate, then requirePermission, then the handler; live says that the
\* copy holds dates, not their text, which toDTO of GET /me cannot format.
Verdict(op, copy, live) ==
    IF copy.suspended \/ (op = "call" /\ ~ copy.holds) THEN "forbidden"
    ELSE IF op = "me" /\ ~ live THEN "error"
    ELSE "ok"

\* Mutant: each hit puts the expiry off.
Get_sliding(r) ==
    /\ At(r, Call, "get")
    /\ LET entry == cache[req[r].admin]
       IN  IF entry.left > 0
           THEN /\ Done(r, Verdict(req[r].op, entry.copy, FALSE))
                /\ cache' = [cache EXCEPT ![req[r].admin].left = TTL]
           ELSE /\ req' = [req EXCEPT ![r].step = "load"]
                /\ UNCHANGED cache
    /\ UNCHANGED tables

\* A GET that fails counts as a miss.
Get(r) ==
    /\ At(r, Call, "get")
    /\ LET entry == cache[req[r].admin]
       IN  \/ /\ entry.left > 0
              /\ Done(r, Verdict(req[r].op, entry.copy, FALSE))
           \/ /\ entry.left = 0 \/ Faults
              /\ req' = [req EXCEPT ![r].step = "load"]
    /\ UNCHANGED <<tables, cache>>

\* findByIdWithPermissions, or login's look-up by email, in one query.  Only
\* login looks at the status before it fills the cache.
Load(r) ==
    /\ At(r, Call \cup Fill, "load")
    /\ LET a == req[r].admin
       IN  IF admins[a].deleted THEN Done(r, "unauthorized")
           ELSE IF req[r].op = "login" /\ admins[a].suspended THEN Done(r, "forbidden")
           ELSE req' = [req EXCEPT ![r].step = "set", ![r].copy = RowCopy(a)]
    /\ UNCHANGED <<tables, cache>>

\* Mutant: the entry lives for a tick too long.
Set_oneMore(r) ==
    /\ At(r, Call \cup Fill, "set")
    /\ cache' = [cache EXCEPT ![req[r].admin] = [left |-> TTL + 1, copy |-> req[r].copy]]
    /\ Done(r, IF req[r].op \in Fill THEN "ok" ELSE Verdict(req[r].op, req[r].copy, TRUE))
    /\ UNCHANGED tables

\* setCachedAdmin, which swallows its error; what the request goes on with is
\* its own copy.
Set(r) ==
    /\ At(r, Call \cup Fill, "set")
    /\ \/ cache' = [cache EXCEPT ![req[r].admin] = [left |-> TTL, copy |-> req[r].copy]]
       \/ Faults /\ UNCHANGED cache
    /\ Done(r, IF req[r].op \in Fill THEN "ok" ELSE Verdict(req[r].op, req[r].copy, TRUE))
    /\ UNCHANGED tables

\* updateAdmin's UPDATE: a role, a status, or both; softDeleteAdmin's.
WriteAdmin(r, role, suspended) ==
    LET a == req[r].admin
    IN  /\ At(r, {"update", "delete"}, "write")
        /\ admins' = [admins EXCEPT ![a] =
               IF req[r].op = "delete"
               THEN [@ EXCEPT !.deleted = TRUE, !.suspended = FALSE]
               ELSE [@ EXCEPT !.role = role, !.suspended = suspended]]
        /\ req' = [req EXCEPT ![r].step = "drop", ![r].drop = {a}]
        /\ UNCHANGED <<granted, cache>>
        /\ Restart

\* roleService.update's transaction: the role's permissions, replaced.
WriteRole(r, grant) ==
    /\ At(r, {"updateRole"}, "write")
    /\ granted' = IF grant THEN granted \cup {req[r].admin} ELSE granted \ {req[r].admin}
    /\ req' = [req EXCEPT ![r].step = "list"]
    /\ UNCHANGED <<admins, cache>>
    /\ Restart

\* Mutant: the copies are left to expire.
List_none(r) ==
    /\ At(r, {"updateRole"}, "list")
    /\ req' = [req EXCEPT ![r].step = "drop", ![r].drop = {}]
    /\ UNCHANGED <<tables, cache>>

\* The admins of the role, read after the transaction; an error drops nobody.
List(r) ==
    /\ At(r, {"updateRole"}, "list")
    /\ \/ req' = [req EXCEPT ![r].step = "drop", ![r].drop =
              {a \in Admin : admins[a].role = req[r].admin /\ ~ admins[a].deleted}]
       \/ Faults /\ Done(r, "ok")
    /\ UNCHANGED <<tables, cache>>

\* invalidateCachedAdmin, of each in any order; it swallows its error.
Drop(r) ==
    /\ At(r, Change, "drop")
    /\ \/ \E a \in req[r].drop :
             /\ cache' = [cache EXCEPT ![a] = NoEntry]
             /\ req' = [req EXCEPT ![r].drop = @ \ {a}]
       \/ /\ req[r].drop = {} \/ Faults
          /\ Done(r, "ok")
          /\ UNCHANGED cache
    /\ UNCHANGED tables

Handle(r) ==
    \/ Get(r) \/ Load(r) \/ Set(r) \/ List(r) \/ Drop(r)
    \/ \E role \in Role, suspended \in BOOLEAN : WriteAdmin(r, role, suspended)
    \/ \E grant \in BOOLEAN : WriteRole(r, grant)

\* A query fails, or the process dies.
Fail(r) ==
    /\ Faults
    /\ req[r].step # "answered"
    /\ Done(r, "failed")
    /\ UNCHANGED <<tables, cache>>

Aged(n) == IF n < Old THEN n + 1 ELSE Old

\* No request is left waiting for longer than MaxDelay.
Tick ==
    /\ \A r \in Request : req[r].step # "answered" => req[r].age < MaxDelay
    /\ cache' = [a \in Admin |-> IF cache[a].left <= 1 THEN NoEntry
                                 ELSE [cache[a] EXCEPT !.left = @ - 1]]
    /\ req' = [r \in Request |-> IF req[r].step = "answered" THEN req[r]
                                 ELSE [req[r] EXCEPT !.age = @ + 1]]
    /\ out' = [a \in Admin |-> IF LetIn(a) THEN 0 ELSE Aged(out[a])]
    /\ barred' = [a \in Admin |-> IF Holds(a) THEN 0 ELSE Aged(barred[a])]
    /\ UNCHANGED <<admins, granted>>

Next ==
    \/ \E r \in Request :
          \/ \E op \in (Call \cup Fill \cup Change) \ {"updateRole"}, a \in Admin : Submit(r, op, a)
          \/ \E role \in Role : Submit(r, "updateRole", role)
          \/ Handle(r)
          \/ Fail(r)
    \/ Tick

Spec == Init /\ [][Next]_vars

-----------------------------------------------------------------------------
Answers(r, op) == req[r].op = op /\ req[r].step # "answered" /\ req'[r].step = "answered"

\* "We cache the {admin, role, permissions} tuple for 5 minutes": the bound
\* on what a stale copy can do.  Whatever fills race with changes, whatever DEL
\* is lost and whoever keeps calling, an admin who is suspended, deleted or
\* loses a permission is not served for longer than a TTL and one request.
AccessEndsInTime ==
    [][\A r \in Request :
          /\ Answers(r, "call") /\ req'[r].reply = "ok" =>
                out[req[r].admin] <= TTL + MaxDelay /\ barred[req[r].admin] <= TTL + MaxDelay
          /\ Answers(r, "me") /\ req'[r].reply = "ok" => out[req[r].admin] <= TTL + MaxDelay]_vars

\* What AccessEndsInTime rests on: a copy that lets an admin in is at most as
\* old as the request that carries it or, once stored, as MaxDelay and the part
\* of the TTL that has gone by.
CopiesAreRecent ==
    /\ \A a \in Admin : (LetIn(a) => out[a] = 0) /\ (Holds(a) => barred[a] = 0)
    /\ \A a \in Admin : cache[a].left > 0 /\ ~ cache[a].copy.suspended =>
          /\ out[a] <= TTL - cache[a].left + MaxDelay
          /\ cache[a].copy.holds => barred[a] <= TTL - cache[a].left + MaxDelay
    /\ \A r \in Request : At(r, Call \cup Fill, "set") /\ ~ req[r].copy.suspended =>
          /\ out[req[r].admin] <= req[r].age
          /\ req[r].copy.holds => barred[req[r].admin] <= req[r].age

\* "Rejects suspended/deleted admins even with valid JWT": a call is served only
\* to an admin whom the row has let in since the call was made.  It holds of
\* requests that run one at a time with no faults: every change drops the copy.
RejectsAtOnce ==
    [][\A r \in Request : Answers(r, "call") /\ req'[r].reply = "ok" =>
          /\ out[req[r].admin] <= req[r].age
          /\ barred[req[r].admin] <= req[r].age]_vars

\* GET /auth/me with a valid token returns 200: "Dates need revival: JSON.parse
\* gives strings back" (adminCache.getCachedAdmin).
MeIsServed == [][\A r \in Request : Answers(r, "me") => req'[r].reply # "error"]_vars

=============================================================================
