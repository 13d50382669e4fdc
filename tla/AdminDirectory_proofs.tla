------------------------ MODULE AdminDirectory_proofs ------------------------
(* The safety of AdminDirectory, for any number of admins, roles and requests. *)
EXTENDS AdminDirectory, FiniteSetTheorems, TLAPS

\* What the body of a request names, and what its operation goes through.
Named(r) ==
    /\ req[r].op = "update" => req[r].step \in {"load", "count", "role", "write", "reload", "answered"}
    /\ req[r].op # "update" => req[r].step \in {"load", "count", "write", "answered"}
    /\ req[r].op = "removeRole" => req[r].role \in Role
    /\ req[r].op # "removeRole" /\ (req[r].step # "answered" \/ req[r].reply # None) =>
          req[r].target \in Admin

\* A second Super Admin is there from a request's count to its write, unless
\* another request has taken one.
TwoSuperAdmins == \E a, b \in SuperAdmins : a # b
Counted(r) == PastCount(r) => raced \/ TwoSuperAdmins

Replying(r) ==
    /\ req[r].step # "answered" => req[r].reply = None
    /\ req[r].op = "delete" /\ req[r].reply = "ok" => admins[req[r].target].deleted
    /\ req[r].op # "removeRole" /\ req[r].reply = "not_found" => admins[req[r].target].deleted
    /\ req[r].op = "removeRole" /\ req[r].reply \in {"ok", "not_found"} => req[r].role \notin roles

RequestInv(r) == Named(r) /\ Counted(r) /\ Replying(r)

DirectoryInv ==
    TypeOK /\ RoleReferenced /\ SuperAdminUnlessRaced /\ \A r \in Request : RequestInv(r)

-----------------------------------------------------------------------------
\* What the comparison with 1 says: there are two.
LEMMA MoreThanOne ==
    ASSUME NEW S, ~ (Cardinality(S) <= 1) PROVE \E a, b \in S : a # b
<1> SUFFICES ASSUME \A a, b \in S : a = b PROVE FALSE
  OBVIOUS
<1>1. CASE S = {}
  BY <1>1, FS_EmptySet
<1>2. CASE S # {}
  <2>1. PICK a : S = {a}
    BY <1>2
  <2>2. Cardinality({a}) = 1
    BY FS_Singleton
  <2> QED
    BY <2>1, <2>2
<1> QED
  BY <1>1, <1>2

LEMMA InitInv == Init => DirectoryInv
<1> SUFFICES ASSUME Init PROVE DirectoryInv
  OBVIOUS
<1> USE AdminDirectoryAssumption
<1>1. TypeOK
  BY DEF Init, TypeOK, AdminRow, AdminStatus, NoRequest, RequestState, Step, Op, Reply
<1>2. RoleReferenced
  BY DEF Init, RoleReferenced
<1>3. SuperAdminUnlessRaced
  BY DEF Init, SuperAdminUnlessRaced, SuperAdmins, UsersWithRole
<1>4. ASSUME NEW r \in Request PROVE RequestInv(r)
  <2>1. req[r].op = "update" /\ req[r].step = "answered" /\ req[r].reply = None
    BY <1>4 DEF Init, NoRequest
  <2> QED
    BY <2>1 DEF RequestInv, Named, Counted, PastCount, At, Replying
<1> QED
  BY <1>1, <1>2, <1>3, <1>4 DEF DirectoryInv

LEMMA Known ==
    ASSUME DirectoryInv, NEW r \in Request
    PROVE  req[r] \in RequestState /\ Named(r) /\ Counted(r) /\ Replying(r)
BY DEF DirectoryInv, TypeOK, RequestInv

\* Who is deleted stays so, and no role comes back.
Forward == roles' \subseteq roles /\ \A a \in Admin : admins[a].deleted => admins'[a].deleted

\* A step of others leaves what is known of a request, if it leaves its count.
LEMMA RequestKept ==
    ASSUME DirectoryInv, Forward, NEW q \in Request, req'[q] = req[q],
           PastCount(q) => raced' \/ TwoSuperAdmins'
    PROVE  RequestInv(q)'
<1>1. Named(q)'
  BY Known DEF Named
<1>2. Counted(q)'
  BY DEF Counted, PastCount, At
<1>3. Replying(q)'
  <2>1. Replying(q) /\ Named(q) /\ (req[q].op \in Op)
    BY Known DEF RequestState
  <2>2. req[q].op # "removeRole" /\ req[q].reply \in {"ok", "not_found"} => req[q].target \in Admin
    BY <2>1, AdminDirectoryAssumption DEF Named, Replying, Op
  <2> QED
    BY <2>1, <2>2 DEF Replying, Forward, Op
<1> QED
  BY <1>1, <1>2, <1>3 DEF RequestInv

\* A step of one request.
LEMMA RequestStep ==
    ASSUME DirectoryInv, NEW r \in Request, NEW new \in RequestState,
           req' = [req EXCEPT ![r] = new],
           admins' \in [Admin -> AdminRow], roles' \subseteq Role, raced' \in BOOLEAN,
           Forward, RoleReferenced', SuperAdminUnlessRaced', RequestInv(r)',
           \A q \in Request \ {r} : PastCount(q) => raced' \/ TwoSuperAdmins'
    PROVE  DirectoryInv'
<1>1. req'[r] = new /\ \A q \in Request \ {r} : req'[q] = req[q]
  BY DEF DirectoryInv, TypeOK
<1>2. TypeOK'
  BY DEF DirectoryInv, TypeOK
<1>3. ASSUME NEW q \in Request PROVE RequestInv(q)'
  <2>1. CASE q = r
    BY <2>1
  <2>2. CASE q # r
    BY <1>1, <2>2, RequestKept
  <2> QED
    BY <2>1, <2>2
<1> QED
  BY <1>2, <1>3 DEF DirectoryInv

\* A step of one request that leaves the tables alone.
LEMMA TablesKept ==
    ASSUME DirectoryInv, NEW r \in Request, NEW new \in RequestState,
           req' = [req EXCEPT ![r] = new], UNCHANGED tables, RequestInv(r)'
    PROVE  DirectoryInv'
<1>1. /\ admins' \in [Admin -> AdminRow] /\ roles' \subseteq Role /\ raced' \in BOOLEAN
      /\ Forward /\ RoleReferenced'
  BY DEF DirectoryInv, TypeOK, tables, Forward, RoleReferenced
<1>2. SuperAdmins' = SuperAdmins
  BY DEF SuperAdmins, UsersWithRole, tables
<1>3. SuperAdminUnlessRaced'
  BY <1>2 DEF DirectoryInv, SuperAdminUnlessRaced, tables
<1>4. \A q \in Request \ {r} : PastCount(q) => raced' \/ TwoSuperAdmins'
  BY <1>2, Known DEF Counted, TwoSuperAdmins, tables
<1> QED
  BY <1>1, <1>3, <1>4, RequestStep

-----------------------------------------------------------------------------
LEMMA Comes ==
    ASSUME DirectoryInv, NEW r \in Request, NEW op \in Op, NEW body \in Bodies(op),
           NEW actor \in Admin, Submit(r, op, body, actor)
    PROVE  DirectoryInv'
<1> DEFINE own == op = "delete" /\ body.target = actor
           new == [step |-> IF own THEN "answered" ELSE "load",
                   reply |-> IF own THEN "forbidden" ELSE None, op |-> op, target |-> body.target,
                   role |-> body.role, status |-> body.status, seen |-> SystemRole]
<1>1. req' = [req EXCEPT ![r] = new] /\ UNCHANGED tables
  BY DEF Submit
<1>2. /\ op # "removeRole" => body.target \in Admin
      /\ op = "removeRole" => body.target = None /\ body.role \in Role
      /\ body.role \in Role \cup {None} /\ body.status \in AdminStatus \cup {None}
  BY AdminDirectoryAssumption DEF Bodies, Op, AdminStatus
<1>3. new \in RequestState
  BY <1>2, AdminDirectoryAssumption DEF RequestState, Step, Op, Reply
<1>4. req'[r] = new
  BY <1>1 DEF DirectoryInv, TypeOK
<1>5. Named(r)' /\ Replying(r)'
  BY <1>2, <1>4, AdminDirectoryAssumption DEF Named, Replying
<1>6. Counted(r)'
  BY <1>4 DEF Counted, PastCount, At
<1> QED
  BY <1>1, <1>3, <1>5, <1>6, TablesKept DEF RequestInv

\* A request goes on to its next query; who goes past the count has counted.
LEMMA GoesOn ==
    ASSUME DirectoryInv, NEW r \in Request, NEW step \in {"count", "role", "write"}, GoTo(r, step),
           req[r].step # "answered", step = "role" => req[r].op = "update",
           PastCount(r)' => PastCount(r) \/ TwoSuperAdmins
    PROVE  DirectoryInv'
<1> DEFINE new == [req[r] EXCEPT !.step = step]
<1>1. req' = [req EXCEPT ![r] = new] /\ UNCHANGED tables
  BY DEF GoTo, DirectoryInv, TypeOK
<1>2. new \in RequestState /\ req'[r] = new
  BY <1>1, Known DEF DirectoryInv, TypeOK, RequestState, Step
<1>3. /\ new.op = req[r].op /\ new.step = step /\ new.target = req[r].target
      /\ new.role = req[r].role /\ new.reply = req[r].reply
  BY Known DEF RequestState
<1> HIDE DEF new
<1>4. Named(r)' /\ Replying(r)'
  BY <1>1, <1>2, <1>3, Known, AdminDirectoryAssumption DEF Named, Replying
<1>5. Counted(r)'
  BY <1>1, Known DEF Counted, TwoSuperAdmins, SuperAdmins, UsersWithRole, tables
<1> QED
  BY <1>1, <1>2, <1>4, <1>5, TablesKept DEF RequestInv

\* A request is answered, and nothing is written.
LEMMA Refusing ==
    ASSUME DirectoryInv, NEW r \in Request, NEW reply \in Reply, Refuse(r, reply),
           req[r].step # "answered",
           req[r].op = "delete" => reply # "ok",
           req[r].op # "removeRole" /\ reply = "not_found" => admins[req[r].target].deleted,
           req[r].op = "removeRole" /\ reply \in {"ok", "not_found"} => req[r].role \notin roles
    PROVE  DirectoryInv'
<1> DEFINE new == [req[r] EXCEPT !.step = "answered", !.reply = reply]
<1>1. req' = [req EXCEPT ![r] = new] /\ UNCHANGED tables
  BY DEF Refuse, Done, DirectoryInv, TypeOK
<1>2. new \in RequestState /\ req'[r] = new
  BY <1>1, Known DEF DirectoryInv, TypeOK, RequestState, Step
<1>3. /\ new.op = req[r].op /\ new.step = "answered" /\ new.target = req[r].target
      /\ new.role = req[r].role /\ new.reply = reply
  BY Known DEF RequestState
<1> HIDE DEF new
<1>4. Named(r)' /\ Replying(r)'
  BY <1>1, <1>2, <1>3, Known DEF Named, Replying, tables
<1>5. Counted(r)'
  BY <1>2, <1>3 DEF Counted, PastCount, At
<1> QED
  BY <1>1, <1>2, <1>4, <1>5, TablesKept DEF RequestInv

LEMMA TargetLoaded ==
    ASSUME DirectoryInv, NEW r \in Request, req[r].op # "removeRole", req[r].step = "load",
           LoadTarget(r, "count")
    PROVE  DirectoryInv'
<1>1. CASE admins[req[r].target].deleted
  BY <1>1, Refusing, AdminDirectoryAssumption DEF LoadTarget, Reply
<1>2. CASE ~ admins[req[r].target].deleted
  <2> DEFINE new == [req[r] EXCEPT !.seen = admins[req[r].target].role, !.step = "count"]
  <2>1. req' = [req EXCEPT ![r] = new] /\ UNCHANGED tables
    BY <1>2 DEF LoadTarget, DirectoryInv, TypeOK
  <2>2. req[r].target \in Admin
    BY Known DEF Named
  <2>3. new \in RequestState /\ req'[r] = new
    BY <2>1, <2>2, Known DEF DirectoryInv, TypeOK, RequestState, AdminRow, Step
  <2>4. /\ new.op = req[r].op /\ new.step = "count" /\ new.target = req[r].target
        /\ new.role = req[r].role /\ new.reply = req[r].reply
    BY Known DEF RequestState
  <2> HIDE DEF new
  <2>5. Named(r)' /\ Replying(r)'
    BY <2>1, <2>3, <2>4, Known, AdminDirectoryAssumption DEF Named, Replying
  <2>6. Counted(r)'
    BY <2>3, <2>4 DEF Counted, PastCount, At
  <2> QED
    BY <2>1, <2>3, <2>5, <2>6, TablesKept DEF RequestInv
<1> QED
  BY <1>1, <1>2

\* The guard of the last Super Admin: who gets past it has seen two.
LEMMA LastRefused ==
    ASSUME DirectoryInv, NEW r \in Request, NEW next \in {"role", "write"}, RefuseLast(r, next),
           req[r].step = "count", req[r].seen = SystemRole, req[r].op # "removeRole",
           next = "role" => req[r].op = "update"
    PROVE  DirectoryInv'
<1>1. CASE Cardinality(UsersWithRole(req[r].seen)) <= 1
  BY <1>1, Refusing, AdminDirectoryAssumption DEF RefuseLast, Reply
<1>2. CASE ~ (Cardinality(UsersWithRole(req[r].seen)) <= 1)
  <2>1. TwoSuperAdmins
    BY <1>2, MoreThanOne DEF TwoSuperAdmins, SuperAdmins
  <2> QED
    BY <1>2, <2>1, GoesOn DEF RefuseLast
<1> QED
  BY <1>1, <1>2

-----------------------------------------------------------------------------
\* A write to the row of an admin.  If it takes a Super Admin, either it raced,
\* or the request has counted two and no other one relies on its own count.
LEMMA RowWritten ==
    ASSUME DirectoryInv, NEW r \in Request, NEW new \in RequestState, NEW row \in AdminRow,
           req' = [req EXCEPT ![r] = new],
           admins' = [admins EXCEPT ![req[r].target] = row], roles' = roles, Race(r),
           req[r].target \in Admin, row.role \in roles,
           admins[req[r].target].deleted => row.deleted,
           req[r].target \in SuperAdmins \ SuperAdmins' /\ req[r].seen = SystemRole => PastCount(r),
           new.op = req[r].op, new.target = req[r].target, new.role = req[r].role,
           \/ new.op = "update" /\ new.step = "reload" /\ new.reply = None
           \/ new.op = "delete" /\ new.step = "answered" /\ new.reply = "ok" /\ row.deleted
    PROVE  DirectoryInv'
<1> DEFINE a == req[r].target
<1>1. /\ admins' \in [Admin -> AdminRow] /\ admins'[a] = row
      /\ \A b \in Admin \ {a} : admins'[b] = admins[b]
  BY DEF DirectoryInv, TypeOK
<1>2. roles' \subseteq Role /\ Forward /\ RoleReferenced'
  BY <1>1 DEF DirectoryInv, TypeOK, Forward, RoleReferenced
<1>3. raced' \in BOOLEAN /\ (raced => raced')
  BY DEF Race, DirectoryInv, TypeOK
<1>4. \A b \in Admin \ {a} : b \in SuperAdmins <=> b \in SuperAdmins'
  BY <1>1 DEF SuperAdmins, UsersWithRole
<1>5. SuperAdmins \subseteq Admin /\ SuperAdmins' \subseteq Admin
  BY DEF SuperAdmins, UsersWithRole
<1>6. \/ raced'
      \/ ~ raced /\ SuperAdmins \subseteq SuperAdmins'
      \/ /\ ~ raced /\ TwoSuperAdmins
         /\ \A q \in Request \ {r} : ~ PastCount(q)
  <2> SUFFICES ASSUME ~ raced', ~ (SuperAdmins \subseteq SuperAdmins')
               PROVE  /\ ~ raced /\ TwoSuperAdmins
                      /\ \A q \in Request \ {r} : ~ PastCount(q)
    BY <1>3
  <2>1. a \in SuperAdmins \ SuperAdmins'
    BY <1>4, <1>5
  <2>2. req[r].seen = SystemRole /\ \A q \in Request \ {r} : ~ PastCount(q)
    BY <2>1 DEF Race
  <2> QED
    BY <1>3, <2>1, <2>2, Known DEF Counted
<1>7. SuperAdminUnlessRaced'
  <2>1. CASE ~ raced /\ SuperAdmins \subseteq SuperAdmins'
    BY <2>1 DEF DirectoryInv, SuperAdminUnlessRaced
  <2>2. CASE TwoSuperAdmins
    BY <1>4, <1>5, <2>2 DEF TwoSuperAdmins, SuperAdminUnlessRaced
  <2> QED
    BY <1>6, <2>1, <2>2 DEF SuperAdminUnlessRaced
<1>8. \A q \in Request \ {r} : PastCount(q) => raced' \/ TwoSuperAdmins'
  <2> SUFFICES ASSUME NEW q \in Request \ {r}, PastCount(q), ~ raced' PROVE TwoSuperAdmins'
    OBVIOUS
  <2>1. SuperAdmins \subseteq SuperAdmins' /\ TwoSuperAdmins
    BY <1>3, <1>6, Known DEF Counted
  <2> QED
    BY <2>1 DEF TwoSuperAdmins
<1>9. req'[r] = new
  BY DEF DirectoryInv, TypeOK
<1>10. Named(r)' /\ Counted(r)' /\ Replying(r)'
  BY <1>1, <1>9, AdminDirectoryAssumption DEF Named, Counted, PastCount, At, Replying
<1> QED
  BY <1>1, <1>2, <1>3, <1>7, <1>8, <1>10, RequestStep DEF RequestInv

LEMMA AdminUpdated ==
    ASSUME DirectoryInv, NEW r \in Request, UpdateAdmin(r) PROVE DirectoryInv'
<1> USE DEF At
<1>1. CASE At(r, "update", "load") /\ LoadTarget(r, "count")
  BY <1>1, TargetLoaded
<1>2. CASE /\ At(r, "update", "count")
           /\ IF req[r].role # None /\ req[r].seen = SystemRole /\ req[r].role # SystemRole
              THEN RefuseLast(r, "role") ELSE GoTo(r, "role")
  <2>1. CASE req[r].role # None /\ req[r].seen = SystemRole /\ req[r].role # SystemRole
    BY <1>2, <2>1, LastRefused
  <2>2. CASE ~ (req[r].role # None /\ req[r].seen = SystemRole /\ req[r].role # SystemRole)
    <3>1. ~ PastCount(r)'
      <4>1. /\ req'[r].seen = req[r].seen /\ req'[r].role = req[r].role /\ req'[r].op = req[r].op
        BY <1>2, <2>2, Known DEF GoTo, DirectoryInv, TypeOK, RequestState
      <4> QED
        BY <1>2, <2>2, <4>1 DEF PastCount
    <3> QED
      BY <1>2, <2>2, <3>1, GoesOn
  <2> QED
    BY <2>1, <2>2
<1>3. CASE /\ At(r, "update", "role")
           /\ IF req[r].role \in roles \cup {None} THEN GoTo(r, "write") ELSE Refuse(r, "bad_request")
  <2>1. CASE req[r].role \in roles \cup {None}
    <3>1. PastCount(r)' => PastCount(r)
      <4>1. /\ req'[r].seen = req[r].seen /\ req'[r].role = req[r].role /\ req'[r].op = req[r].op
        BY <1>3, <2>1, Known DEF GoTo, DirectoryInv, TypeOK, RequestState
      <4> QED
        BY <1>3, <4>1 DEF PastCount
    <3> QED
      BY <1>3, <2>1, <3>1, GoesOn
  <2>2. CASE req[r].role \notin roles \cup {None}
    BY <1>3, <2>2, Refusing DEF Reply
  <2> QED
    BY <2>1, <2>2
<1>4. CASE /\ At(r, "update", "write")
           /\ req[r].role \in roles \cup {None}
           /\ admins' = [admins EXCEPT
                    ![req[r].target].role = IF req[r].role = None THEN @ ELSE req[r].role,
                    ![req[r].target].status = IF req[r].status = None THEN @ ELSE req[r].status]
           /\ req' = [req EXCEPT ![r].step = "reload"]
           /\ UNCHANGED roles
           /\ Race(r)
  <2> DEFINE a == req[r].target
             row == [admins[a] EXCEPT !.role = IF req[r].role = None THEN @ ELSE req[r].role,
                                      !.status = IF req[r].status = None THEN @ ELSE req[r].status]
             new == [req[r] EXCEPT !.step = "reload"]
  <2>1. a \in Admin /\ admins[a] \in AdminRow /\ admins[a].role \in roles
    BY <1>4, Known DEF Named, DirectoryInv, TypeOK, RoleReferenced
  <2>2. admins' = [admins EXCEPT ![a] = row] /\ req' = [req EXCEPT ![r] = new]
    BY <1>4, <2>1 DEF DirectoryInv, TypeOK, AdminRow
  <2>3. /\ row \in AdminRow /\ row.deleted = admins[a].deleted /\ row.role \in roles
        /\ row.role = IF req[r].role = None THEN admins[a].role ELSE req[r].role
    BY <1>4, <2>1, Known DEF AdminRow, RequestState, DirectoryInv, TypeOK
  <2>4. /\ new \in RequestState /\ new.op = "update" /\ new.step = "reload"
        /\ new.target = a /\ new.role = req[r].role /\ new.reply = None
    BY <1>4, Known DEF RequestState, Step, Replying
  <2> HIDE DEF row, new
  <2>5. a \in SuperAdmins \ SuperAdmins' /\ req[r].seen = SystemRole => PastCount(r)
    <3>1. admins'[a] = row
      BY <2>1, <2>2 DEF DirectoryInv, TypeOK
    <3> QED
      BY <1>4, <2>1, <2>3, <3>1 DEF SuperAdmins, UsersWithRole, PastCount
  <2> QED
    BY <1>4, <2>1, <2>2, <2>3, <2>4, <2>5, RowWritten
<1>5. CASE At(r, "update", "write") /\ Refuse(r, "error")
  BY <1>5, Refusing DEF Reply
<1>6. CASE /\ At(r, "update", "reload")
           /\ Refuse(r, IF admins[req[r].target].deleted THEN "not_found" ELSE "ok")
  BY <1>6, Refusing DEF Reply
<1> QED
  BY <1>1, <1>2, <1>3, <1>4, <1>5, <1>6 DEF UpdateAdmin

LEMMA AdminDeleted ==
    ASSUME DirectoryInv, NEW r \in Request, SoftDeleteAdmin(r) PROVE DirectoryInv'
<1> USE DEF At
<1>1. CASE At(r, "delete", "load") /\ LoadTarget(r, "count")
  BY <1>1, TargetLoaded
<1>2. CASE /\ At(r, "delete", "count")
           /\ IF req[r].seen = SystemRole THEN RefuseLast(r, "write") ELSE GoTo(r, "write")
  <2>1. CASE req[r].seen = SystemRole
    BY <1>2, <2>1, LastRefused
  <2>2. CASE req[r].seen # SystemRole
    <3>1. ~ PastCount(r)'
      BY <1>2, <2>2, Known DEF GoTo, DirectoryInv, TypeOK, RequestState, PastCount
    <3> QED
      BY <1>2, <2>2, <3>1, GoesOn
  <2> QED
    BY <2>1, <2>2
<1>3. CASE At(r, "delete", "write") /\ MarkDeleted(r) /\ Done(r, "ok") /\ UNCHANGED roles /\ Race(r)
  <2> DEFINE a == req[r].target
             row == [admins[a] EXCEPT !.deleted = TRUE, !.status = "inactive"]
             new == [req[r] EXCEPT !.step = "answered", !.reply = "ok"]
  <2>1. a \in Admin /\ admins[a] \in AdminRow /\ admins[a].role \in roles
    BY <1>3, Known DEF Named, DirectoryInv, TypeOK, RoleReferenced
  <2>2. admins' = [admins EXCEPT ![a] = row] /\ req' = [req EXCEPT ![r] = new]
    BY <1>3 DEF MarkDeleted, Done, DirectoryInv, TypeOK
  <2>3. row \in AdminRow /\ row.deleted /\ row.role \in roles
    BY <2>1 DEF AdminRow, AdminStatus
  <2>4. /\ new \in RequestState /\ new.op = "delete" /\ new.step = "answered"
        /\ new.target = a /\ new.role = req[r].role /\ new.reply = "ok"
    BY <1>3, Known DEF RequestState, Step, Reply
  <2> HIDE DEF row, new
  <2>5. req[r].seen = SystemRole => PastCount(r)
    BY <1>3 DEF PastCount
  <2> QED
    BY <1>3, <2>1, <2>2, <2>3, <2>4, <2>5, RowWritten
<1> QED
  BY <1>1, <1>2, <1>3 DEF SoftDeleteAdmin

LEMMA RoleRemoved ==
    ASSUME DirectoryInv, NEW r \in Request, RemoveRole(r) PROVE DirectoryInv'
<1> USE DEF At
<1>0. ASSUME NEW step \in {"count", "write"}, GoTo(r, step), req[r].op = "removeRole",
             req[r].step # "answered"
      PROVE  DirectoryInv'
  <2>1. ~ PastCount(r)'
    BY <1>0, Known DEF GoTo, DirectoryInv, TypeOK, RequestState, PastCount
  <2> QED
    BY <1>0, <2>1, GoesOn
<1>1. CASE /\ At(r, "removeRole", "load")
           /\ IF req[r].role \notin roles THEN Refuse(r, "not_found")
              ELSE IF req[r].role = SystemRole THEN Refuse(r, "forbidden")
              ELSE GoTo(r, "count")
  BY <1>0, <1>1, Refusing DEF Reply
<1>2. CASE /\ At(r, "removeRole", "count")
           /\ IF UsersWithRole(req[r].role) # {} THEN Refuse(r, "conflict") ELSE GoTo(r, "write")
  BY <1>0, <1>2, Refusing DEF Reply
<1>3. CASE DeleteRole(r)
  <2>1. CASE \E a \in Admin : admins[a].role = req[r].role
    BY <1>3, <2>1, Refusing DEF DeleteRole, Reply
  <2>2. CASE ~ \E a \in Admin : admins[a].role = req[r].role
    <3> DEFINE new == [req[r] EXCEPT !.step = "answered", !.reply = "ok"]
    <3>1. /\ roles' = roles \ {req[r].role} /\ UNCHANGED <<admins, raced>>
          /\ req' = [req EXCEPT ![r] = new] /\ req[r].op = "removeRole"
      BY <1>3, <2>2 DEF DeleteRole, Done, DirectoryInv, TypeOK
    <3>2. /\ new \in RequestState /\ req'[r] = new /\ new.op = "removeRole"
          /\ new.step = "answered" /\ new.role = req[r].role /\ new.reply = "ok"
      BY <3>1, Known DEF RequestState, Step, Reply, DirectoryInv, TypeOK
    <3> HIDE DEF new
    <3>3. /\ admins' \in [Admin -> AdminRow] /\ roles' \subseteq Role /\ raced' \in BOOLEAN
          /\ Forward /\ RoleReferenced'
      BY <2>2, <3>1 DEF DirectoryInv, TypeOK, Forward, RoleReferenced
    <3>4. SuperAdmins' = SuperAdmins
      BY <3>1 DEF SuperAdmins, UsersWithRole
    <3>5. SuperAdminUnlessRaced' /\ \A q \in Request \ {r} : PastCount(q) => raced' \/ TwoSuperAdmins'
      BY <3>1, <3>4, Known DEF DirectoryInv, SuperAdminUnlessRaced, Counted, TwoSuperAdmins
    <3>6. Named(r)' /\ Counted(r)' /\ Replying(r)'
      BY <3>1, <3>2, Known DEF Named, Counted, PastCount, Replying
    <3> QED
      BY <3>1, <3>2, <3>3, <3>5, <3>6, RequestStep DEF RequestInv
  <2> QED
    BY <2>1, <2>2
<1> QED
  BY <1>1, <1>2, <1>3 DEF RemoveRole

LEMMA NextInv == DirectoryInv /\ [Next]_vars => DirectoryInv'
<1> SUFFICES ASSUME DirectoryInv, [Next]_vars PROVE DirectoryInv'
  OBVIOUS
<1>1. ASSUME NEW r \in Request, NEW op \in Op, NEW body \in Bodies(op), NEW actor \in Admin,
             Submit(r, op, body, actor)
      PROVE  DirectoryInv'
  BY <1>1, Comes
<1>2. ASSUME NEW r \in Request, UpdateAdmin(r) \/ SoftDeleteAdmin(r) \/ RemoveRole(r)
      PROVE  DirectoryInv'
  BY <1>2, AdminUpdated, AdminDeleted, RoleRemoved
<1>3. ASSUME NEW r \in Request, Fail(r) PROVE DirectoryInv'
  BY <1>3, Refusing DEF Fail, Reply
<1>4. CASE UNCHANGED vars
  BY <1>4 DEF vars, DirectoryInv, TypeOK, RoleReferenced, SuperAdminUnlessRaced, SuperAdmins,
              UsersWithRole, RequestInv, Named, Counted, PastCount, At, TwoSuperAdmins, Replying
<1> QED
  BY <1>1, <1>2, <1>3, <1>4 DEF Next

-----------------------------------------------------------------------------
\* The invariant of the directory and of the requests about it.
THEOREM DirectoryInvariant == Spec => []DirectoryInv
<1> QED
  BY InitInv, NextInv, PTL DEF Spec

\* The rows and the requests are well formed.
THEOREM DirectoryTypeCorrect == Spec => []TypeOK
<1>1. DirectoryInv => TypeOK
  BY DEF DirectoryInv
<1> QED
  BY <1>1, DirectoryInvariant, PTL

\* The last Super Admin goes only in a race, however many admins and requests
\* there are: the guard of updateAdmin and softDeleteAdmin holds against
\* everything but another request between its count and its write.
THEOREM LastSuperAdminKept == Spec => []SuperAdminUnlessRaced
<1>1. DirectoryInv => SuperAdminUnlessRaced
  BY DEF DirectoryInv
<1> QED
  BY <1>1, DirectoryInvariant, PTL

\* No admin, deleted or not, is left with a role that roleService.remove has
\* deleted.
THEOREM RolesReferenced == Spec => []RoleReferenced
<1>1. DirectoryInv => RoleReferenced
  BY DEF DirectoryInv
<1> QED
  BY <1>1, DirectoryInvariant, PTL

\* What deletes, removals and look-ups have answered stays so.
THEOREM RepliesKept == Spec => []RepliesHold
<1>1. DirectoryInv => RepliesHold
  BY Known DEF RepliesHold, Replying
<1> QED
  BY <1>1, DirectoryInvariant, PTL

=============================================================================
