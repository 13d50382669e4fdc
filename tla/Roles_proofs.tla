---------------------------- MODULE Roles_proofs ----------------------------
(* The safety of Roles, for any number of roles, permissions and requests. *)
EXTENDS Roles, TLAPS

Rows == \A x \in Role : roles[x].name = None => roles[x] = NoRow

\* What a request is about.
Named(r) ==
    /\ req[r].step = "answered" => req[r] = NoRequest
    /\ req[r].step # "answered" => req[r].role \in Role
    /\ req[r].op = "remove" => req[r].step \in {"find", "delete", "answered"}
    /\ req[r].op = "create" => req[r].name \in Name
    /\ req[r].lock = "key" => req[r].name \in Name

\* How far the transaction has replaced the permissions: a COMMIT adds all that
\* was asked for and takes what the DELETE saw, or does neither.
Replacing(r) ==
    /\ req[r].step \in {"wipe", "wiping", "add"} => req[r].perms # {}
    /\ req[r].step \in {"add", "commit"} => req[r].seen \subseteq req[r].wiped
    /\ req[r].step \notin {"wiping", "add", "commit"} \/ req[r].perms = {} => req[r].seen = {}
    /\ req[r].step \notin {"add", "commit"} \/ req[r].perms = {} => req[r].wiped = {}
    /\ req[r].added = IF req[r].step = "commit" THEN req[r].perms ELSE {}

\* Nobody removes a role whose new permissions are not committed yet.
Held(r) == req[r].added # {} => req[r].lock = "key" \/ roles[req[r].role].name # None

RequestInv(r) == Named(r) /\ Replacing(r) /\ Held(r)

RolesInv == TypeOK /\ \A r \in Request : RequestInv(r)

-----------------------------------------------------------------------------
LEMMA NoRequestType == NoRequest \in RequestState
BY DEF NoRequest, RequestState, Grants

LEMMA NoRequestInv ==
    ASSUME NEW r \in Request, req[r] = NoRequest PROVE RequestInv(r)
<1>1. /\ NoRequest.step = "answered" /\ NoRequest.op = "remove" /\ NoRequest.lock = "none"
      /\ NoRequest.seen = {} /\ NoRequest.wiped = {} /\ NoRequest.added = {}
  BY DEF NoRequest
<1> QED
  BY <1>1 DEF RequestInv, Named, Replacing, Held

LEMMA InitInv == Init => RolesInv
<1> SUFFICES ASSUME Init PROVE RolesInv
  OBVIOUS
<1>1. roles \in [Role -> RoleRow] /\ Rows
  BY RolesAssumption DEF Init, RoleRow, NoRow, Rows, Grants
<1>2. req \in [Request -> RequestState]
  BY NoRequestType DEF Init
<1>3. \A r \in Request : RequestInv(r)
  BY NoRequestInv DEF Init
<1> QED
  BY <1>1, <1>2, <1>3 DEF RolesInv, TypeOK, Rows

LEMMA Known ==
    ASSUME RolesInv, NEW r \in Request
    PROVE  req[r] \in RequestState /\ Named(r) /\ Replacing(r) /\ Held(r)
BY DEF RolesInv, TypeOK, RequestInv

\* A step of one request that changes no row.
LEMMA RowsKept ==
    ASSUME RolesInv, NEW r \in Request, NEW new \in RequestState,
           req' = [req EXCEPT ![r] = new], UNCHANGED roles,
           Named(r)', Replacing(r)', Held(r)'
    PROVE  RolesInv'
<1>1. \A q \in Request \ {r} : req'[q] = req[q]
  BY DEF RolesInv, TypeOK
<1>2. TypeOK'
  BY DEF RolesInv, TypeOK
<1>3. ASSUME NEW q \in Request PROVE RequestInv(q)'
  <2>1. CASE q = r
    BY <2>1 DEF RequestInv
  <2>2. CASE q # r
    BY <1>1, <2>2, Known DEF RequestInv, Named, Replacing, Held
  <2> QED
    BY <2>1, <2>2
<1> QED
  BY <1>2, <1>3 DEF RolesInv

LEMMA Refusing ==
    ASSUME RolesInv, NEW r \in Request, Refuse(r) PROVE RolesInv'
<1>1. req'[r] = NoRequest
  BY DEF Refuse, RolesInv, TypeOK
<1>2. /\ NoRequest.step = "answered" /\ NoRequest.op = "remove" /\ NoRequest.lock = "none"
      /\ NoRequest.seen = {} /\ NoRequest.wiped = {} /\ NoRequest.added = {}
  BY DEF NoRequest
<1> QED
  BY <1>1, <1>2, NoRequestType, RowsKept DEF Refuse, Named, Replacing, Held

-----------------------------------------------------------------------------
\* A request that comes in is known by its fields.
LEMMA Comes ==
    ASSUME RolesInv, NEW r \in Request, NEW new \in RequestState,
           req' = [req EXCEPT ![r] = new], UNCHANGED roles,
           new.role \in Role, new.step \in {"name", "find"}, new.lock = "none",
           new.seen = {}, new.wiped = {}, new.added = {},
           new.op = "create" => new.name \in Name, new.op = "remove" => new.step = "find"
    PROVE  RolesInv'
<1>1. req'[r] = new
  BY DEF RolesInv, TypeOK
<1>2. Named(r)' /\ Replacing(r)' /\ Held(r)'
  BY <1>1 DEF Named, Replacing, Held
<1> QED
  BY <1>2, RowsKept

LEMMA Submitted ==
    ASSUME RolesInv, NEW r \in Request, NEW x \in Role,
           \/ \E name \in NewName, perms \in NewGrants \ {{}} : SubmitCreate(r, x, name, perms)
           \/ \E name \in NewName \cup {None}, perms \in NewGrants : SubmitUpdate(r, x, name, perms)
           \/ SubmitRemove(r, x)
    PROVE  RolesInv'
<1>1. NewName \subseteq Name /\ NewGrants \subseteq Grants /\ {} \in Grants
  BY RolesAssumption DEF Grants
<1>2. ASSUME NEW name \in NewName, NEW perms \in NewGrants, SubmitCreate(r, x, name, perms)
      PROVE  RolesInv'
  <2> DEFINE new == [NoRequest EXCEPT !.op = "create", !.step = "name", !.role = x,
                                      !.name = name, !.perms = perms]
  <2>1. /\ new.op = "create" /\ new.step = "name" /\ new.role = x /\ new.name = name
        /\ new.lock = "none" /\ new.seen = {} /\ new.wiped = {} /\ new.added = {}
    BY DEF NoRequest
  <2>2. new \in RequestState
    BY <1>1, NoRequestType DEF RequestState
  <2> HIDE DEF new
  <2> QED
    BY <1>1, <1>2, <2>1, <2>2, Comes DEF SubmitCreate, new
<1>3. ASSUME NEW name \in NewName \cup {None}, NEW perms \in NewGrants,
             SubmitUpdate(r, x, name, perms)
      PROVE  RolesInv'
  <2> DEFINE new == [NoRequest EXCEPT !.op = "update", !.step = "find", !.role = x,
                                      !.name = name, !.perms = perms]
  <2>1. /\ new.op = "update" /\ new.step = "find" /\ new.role = x /\ new.name = name
        /\ new.lock = "none" /\ new.seen = {} /\ new.wiped = {} /\ new.added = {}
    BY DEF NoRequest
  <2>2. new \in RequestState
    BY <1>1, NoRequestType DEF RequestState
  <2> HIDE DEF new
  <2> QED
    BY <1>1, <1>3, <2>1, <2>2, Comes DEF SubmitUpdate, new
<1>4. ASSUME SubmitRemove(r, x) PROVE RolesInv'
  <2> DEFINE new == [NoRequest EXCEPT !.step = "find", !.role = x]
  <2>1. /\ new.op = "remove" /\ new.step = "find" /\ new.role = x
        /\ new.lock = "none" /\ new.seen = {} /\ new.wiped = {} /\ new.added = {}
    BY DEF NoRequest
  <2>2. new \in RequestState
    BY NoRequestType DEF RequestState
  <2>3. req' = [req EXCEPT ![r] = new] /\ UNCHANGED roles
    BY <1>4 DEF SubmitRemove
  <2> HIDE DEF new
  <2> QED
    BY <1>1, <2>1, <2>2, <2>3, Comes
<1> QED
  BY <1>2, <1>3, <1>4

LEMMA GoesOn ==
    ASSUME RolesInv, NEW r \in Request, NEW step \in {"name", "row", "wipe", "delete"},
           GoTo(r, step), req[r].step \in {"find", "name"},
           req[r].op = "remove" => step = "delete", step = "wipe" => req[r].perms # {}
    PROVE  RolesInv'
<1> DEFINE new == [req[r] EXCEPT !.step = step]
<1>1. req' = [req EXCEPT ![r] = new] /\ UNCHANGED roles /\ req'[r] = new
  BY DEF GoTo, RolesInv, TypeOK
<1>2. new \in RequestState
  BY Known DEF RequestState
<1>3. /\ new.op = req[r].op /\ new.step = step /\ new.role = req[r].role /\ new.name = req[r].name
      /\ new.perms = req[r].perms /\ new.lock = req[r].lock /\ new.seen = req[r].seen
      /\ new.wiped = req[r].wiped /\ new.added = req[r].added
  BY Known DEF RequestState
<1> HIDE DEF new
<1>4. Named(r)' /\ Replacing(r)' /\ Held(r)'
  BY <1>1, <1>3, Known DEF Named, Replacing, Held
<1> QED
  BY <1>1, <1>2, <1>4, RowsKept

LEMMA Found ==
    ASSUME RolesInv, NEW r \in Request, FindRole(r) \/ FindByName(r) PROVE RolesInv'
<1>1. CASE FindRole(r)
  <2>1. req[r].op \in {"update", "remove"} /\ req[r].step = "find"
    BY <1>1 DEF FindRole, At
  <2>2. ASSUME NEW step \in AfterFind(r), GoTo(r, step) PROVE RolesInv'
    <3>1. CASE req[r].op = "remove"
      BY <2>1, <2>2, <3>1, GoesOn DEF AfterFind
    <3>2. CASE req[r].op # "remove" /\ req[r].name # None
      BY <2>1, <2>2, <3>2, GoesOn DEF AfterFind
    <3>3. CASE req[r].op # "remove" /\ req[r].name = None /\ req[r].perms = {}
      BY <2>1, <2>2, <3>3, GoesOn DEF AfterFind
    <3>4. CASE req[r].op # "remove" /\ req[r].name = None /\ req[r].perms # {}
      <4>1. AfterFind(r) = {"row", "wipe"}
        BY <3>4 DEF AfterFind
      <4> QED
        BY <2>1, <2>2, <3>4, <4>1, GoesOn
    <3> QED
      BY <3>1, <3>2, <3>3, <3>4
  <2> QED
    BY <1>1, <2>2, Refusing DEF FindRole
<1>2. CASE FindByName(r)
  BY <1>2, Refusing, GoesOn DEF FindByName, At
<1> QED
  BY <1>1, <1>2

LEMMA RowWritten ==
    ASSUME RolesInv, NEW r \in Request, WriteRow(r) PROVE RolesInv'
<1> DEFINE x == req[r].role
           lock == IF roles[x].name = None /\ req[r].op = "update" THEN "none"
                   ELSE IF req[r].name \in {None, roles[x].name} THEN "row" ELSE "key"
           step == IF req[r].perms = {} THEN "commit" ELSE "wipe"
           new  == [req[r] EXCEPT !.lock = lock, !.step = step]
<1>1. CASE Refuse(r)
  BY <1>1, Refusing
<1>2. CASE ~ Refuse(r)
  <2>1. /\ req' = [req EXCEPT ![r] = new] /\ UNCHANGED roles /\ req'[r] = new
        /\ req[r].op \in {"create", "update"} /\ req[r].step = "row"
    BY <1>2 DEF WriteRow, At, RolesInv, TypeOK
  <2>2. lock \in {"none", "row", "key"} /\ step \in {"commit", "wipe"}
        /\ (lock = "key" => req[r].name \in Name) /\ (step = "wipe" <=> req[r].perms # {})
    BY Known DEF RequestState
  <2> HIDE DEF lock, step
  <2>3. new \in RequestState
    BY <2>2, Known DEF RequestState
  <2>4. /\ new.op = req[r].op /\ new.step = step /\ new.role = req[r].role /\ new.name = req[r].name
        /\ new.perms = req[r].perms /\ new.lock = lock /\ new.seen = req[r].seen
        /\ new.wiped = req[r].wiped /\ new.added = req[r].added
    BY Known DEF RequestState
  <2> HIDE DEF new
  <2>5. /\ req[r].seen = {} /\ req[r].wiped = {} /\ req[r].added = {}
        /\ req[r].role \in Role /\ (req[r].op = "create" => req[r].name \in Name)
    BY <2>1, Known DEF Named, Replacing
  <2>6. Named(r)' /\ Replacing(r)' /\ Held(r)'
    BY <2>1, <2>2, <2>4, <2>5 DEF Named, Replacing, Held
  <2> QED
    BY <2>1, <2>3, <2>6, RowsKept
<1> QED
  BY <1>1, <1>2

\* The statements on role_permissions, before the COMMIT.
LEMMA Replaces ==
    ASSUME RolesInv, NEW r \in Request, NEW new \in RequestState, req' = [req EXCEPT ![r] = new],
           UNCHANGED roles, new.op = req[r].op, new.role = req[r].role, new.name = req[r].name,
           new.perms = req[r].perms, new.lock = req[r].lock,
           req[r].op \in {"create", "update"}, req[r].step # "answered", req[r].perms # {},
           \/ new.step = "wiping" /\ new.wiped = {} /\ new.added = {}
           \/ new.step = "add" /\ new.seen = new.wiped /\ new.added = {}
           \/ /\ new.step = "commit" /\ new.seen \subseteq new.wiped /\ new.added = new.perms
              /\ req[r].lock = "key" \/ roles[req[r].role].name # None
    PROVE  RolesInv'
<1>1. req'[r] = new
  BY DEF RolesInv, TypeOK
<1>2. Named(r)' /\ Replacing(r)' /\ Held(r)'
  BY <1>1, Known DEF Named, Replacing, Held
<1> QED
  BY <1>2, RowsKept

LEMMA PermissionsReplacing ==
    ASSUME RolesInv, NEW r \in Request, Wipe(r) \/ Wiping(r) \/ Add(r) PROVE RolesInv'
<1>1. req[r] \in RequestState /\ req[r].op \in {"create", "update"} /\ req[r].perms # {}
      /\ Replacing(r)
  BY Known DEF Wipe, Wiping, Add, At, Replacing
<1>2. CASE Wipe(r)
  <2> DEFINE new == [req[r] EXCEPT !.seen = roles[req[r].role].permissions, !.step = "wiping"]
  <2>1. roles[req[r].role].permissions \in Grants
    BY <1>2, Known DEF Wipe, At, Named, RolesInv, TypeOK, RoleRow
  <2>2. req' = [req EXCEPT ![r] = new] /\ UNCHANGED roles /\ req[r].step = "wipe"
    BY <1>2 DEF Wipe, At, RolesInv, TypeOK
  <2>3. /\ new \in RequestState /\ new.op = req[r].op /\ new.role = req[r].role
        /\ new.name = req[r].name /\ new.perms = req[r].perms /\ new.lock = req[r].lock
        /\ new.step = "wiping" /\ new.wiped = req[r].wiped /\ new.added = req[r].added
    BY <1>1, <2>1 DEF RequestState
  <2> HIDE DEF new
  <2> QED
    BY <1>1, <2>2, <2>3, Replaces DEF Replacing
<1>3. CASE Wiping(r)
  <2> DEFINE new == [req[r] EXCEPT !.wiped = req[r].seen, !.step = "add"]
  <2>1. req' = [req EXCEPT ![r] = new] /\ UNCHANGED roles /\ req[r].step = "wiping"
    BY <1>3 DEF Wiping, At, RolesInv, TypeOK
  <2>2. /\ new \in RequestState /\ new.op = req[r].op /\ new.role = req[r].role
        /\ new.name = req[r].name /\ new.perms = req[r].perms /\ new.lock = req[r].lock
        /\ new.step = "add" /\ new.seen = req[r].seen /\ new.wiped = req[r].seen
        /\ new.added = req[r].added
    BY <1>1 DEF RequestState
  <2> HIDE DEF new
  <2> QED
    BY <1>1, <2>1, <2>2, Replaces DEF Replacing
<1>4. CASE Add(r) /\ ~ Refuse(r)
  <2> DEFINE new == [req[r] EXCEPT !.added = req[r].perms, !.step = "commit"]
  <2>1. req' = [req EXCEPT ![r] = new] /\ UNCHANGED roles /\ req[r].step = "add"
        /\ (req[r].lock = "key" \/ roles[req[r].role].name # None)
    BY <1>4 DEF Add, At, RolesInv, TypeOK
  <2>2. /\ new \in RequestState /\ new.op = req[r].op /\ new.role = req[r].role
        /\ new.name = req[r].name /\ new.perms = req[r].perms /\ new.lock = req[r].lock
        /\ new.step = "commit" /\ new.seen = req[r].seen /\ new.wiped = req[r].wiped
        /\ new.added = req[r].perms
    BY <1>1 DEF RequestState
  <2> HIDE DEF new
  <2> QED
    BY <1>1, <2>1, <2>2, Replaces DEF Replacing
<1> QED
  BY <1>2, <1>3, <1>4, Refusing

-----------------------------------------------------------------------------
\* Whoever waits on the role of a request that ends has fewer rows to delete.
LEMMA OthersKept ==
    ASSUME RolesInv, NEW r \in Request, NEW deleted, Answer(r, deleted),
           roles' \in [Role -> RoleRow], Rows',
           \A q \in Request \ {r} : req[q].added # {} =>
               req[q].lock = "key" \/ roles'[req[q].role].name # None
    PROVE  RolesInv'
<1>1. req'[r] = NoRequest
  BY DEF Answer
<1>2. ASSUME NEW q \in Request \ {r}
      PROVE  /\ req'[q] \in RequestState
             /\ req'[q].seen \subseteq req[q].seen
             /\ req'[q].op = req[q].op /\ req'[q].step = req[q].step /\ req'[q].role = req[q].role
             /\ req'[q].name = req[q].name /\ req'[q].perms = req[q].perms
             /\ req'[q].lock = req[q].lock /\ req'[q].wiped = req[q].wiped
             /\ req'[q].added = req[q].added
             /\ req[q].step = "answered" => req'[q] = req[q]
  <2> DEFINE seen == IF req[q].role = req[r].role THEN req[q].seen \ deleted ELSE req[q].seen
  <2>1. req'[q] = [req[q] EXCEPT !.seen = seen]
    BY DEF Answer
  <2>2. req[q] \in RequestState /\ Named(q) /\ Replacing(q)
    BY Known
  <2>3. seen \in Grants /\ seen \subseteq req[q].seen
    BY <2>2 DEF RequestState, Grants
  <2>4. req[q].step = "answered" => seen = req[q].seen
    BY <2>2 DEF Replacing
  <2> HIDE DEF seen
  <2> QED
    BY <2>1, <2>2, <2>3, <2>4 DEF RequestState
<1>3. TypeOK'
  <2>1. req' \in [Request -> RequestState]
    BY <1>1, <1>2, NoRequestType DEF Answer
  <2> QED
    BY <2>1 DEF TypeOK, Rows
<1>4. RequestInv(r)'
  <2>1. /\ NoRequest.step = "answered" /\ NoRequest.op = "remove" /\ NoRequest.lock = "none"
        /\ NoRequest.seen = {} /\ NoRequest.wiped = {} /\ NoRequest.added = {}
    BY DEF NoRequest
  <2> QED
    BY <1>1, <2>1 DEF RequestInv, Named, Replacing, Held
<1>5. ASSUME NEW q \in Request \ {r} PROVE RequestInv(q)'
  BY <1>2, Known DEF RequestInv, Named, Replacing, Held
<1> QED
  BY <1>3, <1>4, <1>5 DEF RolesInv

LEMMA Committed ==
    ASSUME RolesInv, NEW r \in Request, Commit(r)
    PROVE  RolesInv'
<1> DEFINE x == req[r].role
           row == [name |-> NameAfter(r), permissions |-> GrantedBy(r)]
<1>1. /\ x \in Role /\ roles[x] \in RoleRow /\ (roles[x].name = None => roles[x] = NoRow)
      /\ roles' = [roles EXCEPT ![x] = row] /\ Answer(r, req[r].wiped)
      /\ req[r] \in RequestState /\ Named(r) /\ Held(r)
  BY Known DEF Commit, At, Named, RolesInv, TypeOK
<1>2. row \in RoleRow
  BY <1>1 DEF RoleRow, RequestState, NameAfter, GrantedBy, Grants
<1>3. NameAfter(r) = None => roles[x].name = None /\ GrantedBy(r) = {}
  <2> SUFFICES ASSUME NameAfter(r) = None PROVE roles[x].name = None /\ GrantedBy(r) = {}
    OBVIOUS
  <2>1. roles[x].name = None
    BY <1>1 DEF NameAfter
  <2>2. req[r].lock = "key" => NameAfter(r) \in Name
    BY <1>1, RolesAssumption DEF NameAfter, Named
  <2>3. req[r].added = {}
    BY <1>1, <2>1, <2>2, RolesAssumption DEF Held
  <2>4. roles[x].permissions = {}
    BY <1>1, <2>1 DEF NoRow
  <2> QED
    BY <2>1, <2>3, <2>4 DEF GrantedBy
<1>4. roles[x].name # None => NameAfter(r) # None
  BY <1>3
<1>5. /\ roles' \in [Role -> RoleRow] /\ roles'[x] = row
      /\ \A y \in Role \ {x} : roles'[y] = roles[y]
  BY <1>1, <1>2 DEF RolesInv, TypeOK
<1>6. Rows'
  BY <1>3, <1>5 DEF Rows, NoRow, RolesInv, TypeOK
<1>7. \A q \in Request \ {r} : req[q].added # {} =>
          req[q].lock = "key" \/ roles'[req[q].role].name # None
  <2> SUFFICES ASSUME NEW q \in Request \ {r}, req[q].added # {}, req[q].lock # "key"
               PROVE  roles'[req[q].role].name # None
    OBVIOUS
  <2>1. req[q].role \in Role /\ roles[req[q].role].name # None
    BY Known DEF Named, Held, Replacing
  <2> QED
    BY <1>4, <1>5, <2>1
<1> QED
  BY <1>1, <1>5, <1>6, <1>7, OthersKept

LEMMA Deleted ==
    ASSUME RolesInv, NEW r \in Request, Delete(r) PROVE RolesInv'
<1> DEFINE x == req[r].role
<1>1. /\ x \in Role /\ roles' = [roles EXCEPT ![x] = NoRow] /\ Answer(r, Permission)
      /\ DeleteBlockers(r) = {}
  BY Known DEF Delete, At, Blockers, Named
<1>2. /\ roles' \in [Role -> RoleRow] /\ roles'[x] = NoRow
      /\ \A y \in Role \ {x} : roles'[y] = roles[y]
  BY <1>1 DEF RolesInv, TypeOK, NoRow, RoleRow, Grants
<1>3. Rows'
  BY <1>2 DEF Rows, RolesInv, TypeOK
<1>4. \A q \in Request \ {r} : req[q].added # {} =>
          req[q].lock = "key" \/ roles'[req[q].role].name # None
  <2> SUFFICES ASSUME NEW q \in Request \ {r}, req[q].added # {}, req[q].lock # "key"
               PROVE  roles'[req[q].role].name # None
    OBVIOUS
  <2>1. req[q].role \in Role /\ roles[req[q].role].name # None
    BY Known DEF Named, Held, Replacing
  <2>2. req[q].role # x
    BY <1>1 DEF DeleteBlockers, Others
  <2> QED
    BY <1>2, <2>1, <2>2
<1> QED
  BY <1>1, <1>2, <1>3, <1>4, OthersKept

LEMMA NextInv == RolesInv /\ [Next]_vars => RolesInv'
<1> SUFFICES ASSUME RolesInv, [Next]_vars PROVE RolesInv'
  OBVIOUS
<1>1. ASSUME NEW r \in Request, NEW x \in Role,
             \/ \E name \in NewName, perms \in NewGrants \ {{}} : SubmitCreate(r, x, name, perms)
             \/ \E name \in NewName \cup {None}, perms \in NewGrants :
                   SubmitUpdate(r, x, name, perms)
             \/ SubmitRemove(r, x)
      PROVE  RolesInv'
  BY <1>1, Submitted
<1>2. ASSUME NEW r \in Request, Handle(r) PROVE RolesInv'
  BY <1>2, Found, RowWritten, PermissionsReplacing, Committed, Deleted, Refusing
     DEF Handle, BreakDeadlock
<1>3. ASSUME NEW r \in Request, Fail(r) PROVE RolesInv'
  BY <1>3, Refusing DEF Fail
<1>4. CASE UNCHANGED vars
  BY <1>4 DEF vars, RolesInv, TypeOK, RequestInv, Named, Replacing, Held
<1> QED
  BY <1>1, <1>2, <1>3, <1>4 DEF Next

\* A step that changes the permissions of a role which stays.
LEMMA StepReplaces ==
    ASSUME RolesInv, [Next]_vars, NEW x \in Role,
           roles'[x].permissions # roles[x].permissions, roles'[x].name # None
    PROVE  \E r \in Request :
              /\ Commit(r) /\ req[r].role = x
              /\ req[r].perms # {} /\ req[r].perms \subseteq roles'[x].permissions
              /\ req[r].seen = roles[x].permissions => roles'[x].permissions = req[r].perms
<1>1. ASSUME NEW r \in Request, Delete(r) PROVE FALSE
  BY <1>1 DEF Delete, RolesInv, TypeOK, NoRow
<1>2. PICK r \in Request : Commit(r)
  BY <1>1 DEF Next, vars, SubmitCreate, SubmitUpdate, SubmitRemove, Handle, FindRole, FindByName,
              WriteRow, Wipe, Wiping, Add, BreakDeadlock, Fail, GoTo, Refuse
<1>3. /\ roles' = [roles EXCEPT ![req[r].role] = [name |-> NameAfter(r), permissions |-> GrantedBy(r)]]
      /\ req[r].step = "commit"
  BY <1>2 DEF Commit, At
<1>4. req[r].role = x /\ roles'[x].permissions = GrantedBy(r)
  BY <1>3 DEF RolesInv, TypeOK
<1>5. req[r].added = req[r].perms /\ req[r].seen \subseteq req[r].wiped
      /\ (req[r].perms = {} => req[r].wiped = {})
  BY <1>3, Known DEF Replacing
<1>6. GrantedBy(r) = (roles[x].permissions \ req[r].wiped) \cup req[r].perms
  BY <1>4, <1>5 DEF GrantedBy
<1>7. req[r].perms # {}
  BY <1>4, <1>5, <1>6
<1> QED
  BY <1>2, <1>4, <1>5, <1>6, <1>7

-----------------------------------------------------------------------------
\* The invariant of roles and of the transactions that change them.
THEOREM RolesInvariant == Spec => []RolesInv
<1> QED
  BY InitInv, NextInv, PTL DEF Spec

\* role_permissions never refers to a role that is gone.
THEOREM RolesTypeCorrect == Spec => []TypeOK
<1>1. RolesInv => TypeOK
  BY DEF RolesInv
<1> QED
  BY <1>1, RolesInvariant, PTL

\* The permissions of a role change at a COMMIT that has all of what it asked
\* for, and replaces what it saw, for any number of updates and removals.
THEOREM PermissionsAreReplaced == Spec => PermissionsReplaced
<1>1. RolesInv /\ [Next]_vars =>
        [\A x \in Role : roles'[x].permissions # roles[x].permissions /\ roles'[x].name # None =>
            \E r \in Request :
               /\ Commit(r) /\ req[r].role = x
               /\ req[r].perms # {} /\ req[r].perms \subseteq roles'[x].permissions
               /\ req[r].seen = roles[x].permissions => roles'[x].permissions = req[r].perms]_vars
  BY StepReplaces
<1> QED
  BY <1>1, RolesInvariant, PTL DEF Spec, PermissionsReplaced

=============================================================================
