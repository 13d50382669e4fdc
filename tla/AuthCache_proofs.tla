-------------------------- MODULE AuthCache_proofs --------------------------
(***************************************************************************)
(* Proofs, for any TTL and any bound on a request, that the copies of      *)
(* AuthCache are recent, and that access which the row takes away ends     *)
(* within a TTL and one request; and that it ends at once where requests   *)
(* run one at a time and nothing fails.                                    *)
(***************************************************************************)
EXTENDS AuthCache, TLAPS

\* The reply of a request that ends, and the empty slot it leaves.
Reply == {"ok", "unauthorized", "forbidden", "error", "failed"}

LEMMA EmptySlot == NoRequest \in RequestState /\ NoRequest.step = "answered"
  <1>1. [suspended |-> FALSE, holds |-> FALSE] \in Copy
    BY DEF Copy
  <1>2. 0 \in 0 .. MaxDelay
    BY AuthCacheAssumption
  <1>3. NoRequest \in RequestState
    <2> HIDE DEF Copy
    <2> QED BY <1>1, <1>2 DEF NoRequest, RequestState, Change
  <1>4. QED
    BY <1>3 DEF NoRequest

LEMMA SlotType ==
  ASSUME NEW reply \in Reply
  PROVE  [NoRequest EXCEPT !.reply = reply] \in RequestState
  BY EmptySlot DEF RequestState, Reply

LEMMA EntryType == NoEntry \in Entry
  <1>1. 0 \in 0 .. TTL
    BY AuthCacheAssumption
  <1>2. QED
    BY <1>1 DEF NoEntry, Entry, Copy

LEMMA VerdictType ==
  ASSUME NEW op, NEW copy, NEW live
  PROVE  Verdict(op, copy, live) \in Reply
  BY DEF Verdict, Reply

\* The part of TypeOK about requests.
ReqType(q) ==
    /\ q \in RequestState
    /\ q.step # "answered" => q.admin \in IF q.op = "updateRole" THEN Role ELSE Admin

\* A request that ends keeps the types of the requests.
LEMMA DoneType ==
  ASSUME TypeOK, NEW r \in Request, NEW reply \in Reply, Done(r, reply)
  PROVE  /\ req' \in [Request -> RequestState]
         /\ \A s \in Request : req'[s].step # "answered" =>
               req'[s].admin \in IF req'[s].op = "updateRole" THEN Role ELSE Admin
  <1>1. [NoRequest EXCEPT !.reply = reply] \in RequestState
    BY SlotType
  <1>2. [NoRequest EXCEPT !.reply = reply].step = "answered"
    BY DEF NoRequest
  <1>3. QED
    BY <1>1, <1>2 DEF TypeOK, Done

\* So does a step of one request to a record of the right type.
LEMMA StepType ==
  ASSUME TypeOK, NEW r \in Request, NEW q, ReqType(q), req' = [req EXCEPT ![r] = q]
  PROVE  /\ req' \in [Request -> RequestState]
         /\ \A s \in Request : req'[s].step # "answered" =>
               req'[s].admin \in IF req'[s].op = "updateRole" THEN Role ELSE Admin
  BY DEF TypeOK, ReqType

LEMMA RestartType ==
  ASSUME TypeOK, Restart
  PROVE  out' \in [Admin -> 0 .. Old] /\ barred' \in [Admin -> 0 .. Old]
  BY AuthCacheAssumption DEF TypeOK, Restart, Old

\* Types and ages when one request takes the step; each action says what its
\* own record becomes.
LEMMA TypeStep ==
  ASSUME TypeOK, NEW r \in Request, Handle(r) \/ Fail(r)
  PROVE  TypeOK'
  <1> DEFINE q == req[r]
  <1>1. q \in RequestState
    BY DEF TypeOK
  <1>2. ASSUME Get(r) PROVE TypeOK'
    <2>1. UNCHANGED <<admins, granted, out, barred, cache>>
      BY <1>2 DEF Get, tables
    <2>2. CASE Done(r, Verdict(q.op, cache[q.admin].copy, FALSE))
      BY <2>1, <2>2, VerdictType, DoneType DEF TypeOK
    <2>3. CASE req' = [req EXCEPT ![r].step = "load"]
      <3>1. ReqType([q EXCEPT !.step = "load"])
        BY <1>1, <1>2 DEF TypeOK, ReqType, RequestState, Get, At, Call
      <3>2. QED
        BY <2>1, <2>3, <3>1, StepType DEF TypeOK
    <2>4. QED
      BY <1>2, <2>2, <2>3 DEF Get
  <1>3. ASSUME Load(r) PROVE TypeOK'
    <2>1. UNCHANGED <<admins, granted, out, barred, cache>>
      BY <1>3 DEF Load, tables
    <2>2. q.admin \in Admin /\ q.step = "load" /\ q.op \in Call \cup Fill
      BY <1>3 DEF Load, At, TypeOK, Call, Fill
    <2>3. CASE Done(r, "unauthorized") \/ Done(r, "forbidden")
      BY <2>1, <2>3, DoneType DEF TypeOK, Reply
    <2>4. CASE req' = [req EXCEPT ![r].step = "set", ![r].copy = RowCopy(q.admin)]
      <3>1. RowCopy(q.admin) \in Copy
        BY <2>2 DEF RowCopy, Copy, TypeOK, AdminRow
      <3>2. ReqType([q EXCEPT !.step = "set", !.copy = RowCopy(q.admin)])
        BY <1>1, <2>2, <3>1 DEF ReqType, RequestState, Call, Fill
      <3>3. req' = [req EXCEPT ![r] = [q EXCEPT !.step = "set", !.copy = RowCopy(q.admin)]]
        BY <2>4 DEF TypeOK
      <3>4. QED
        BY <2>1, <3>2, <3>3, StepType DEF TypeOK
    <2>5. QED
      BY <1>3, <2>3, <2>4 DEF Load
  <1>4. ASSUME Set(r) PROVE TypeOK'
    <2>1. UNCHANGED <<admins, granted, out, barred>>
      BY <1>4 DEF Set, tables
    <2>2. cache' \in [Admin -> Entry]
      BY <1>1, <1>4, AuthCacheAssumption DEF Set, TypeOK, Entry, RequestState
    <2>3. PICK reply \in Reply : Done(r, reply)
      BY <1>4, VerdictType DEF Set, Reply
    <2>4. QED
      BY <2>1, <2>2, <2>3, DoneType DEF TypeOK
  <1>5. ASSUME List(r) PROVE TypeOK'
    <2>1. UNCHANGED <<admins, granted, out, barred, cache>>
      BY <1>5 DEF List, tables
    <2>2. CASE Done(r, "ok")
      BY <2>1, <2>2, DoneType DEF TypeOK, Reply
    <2>3. CASE req' = [req EXCEPT ![r].step = "drop", ![r].drop =
                 {a \in Admin : admins[a].role = q.admin /\ ~ admins[a].deleted}]
      <3> DEFINE d == {a \in Admin : admins[a].role = q.admin /\ ~ admins[a].deleted}
      <3>0. q.op = "updateRole" /\ q.admin \in Role
        BY <1>5 DEF List, At, TypeOK
      <3>1. d \in SUBSET Admin
        OBVIOUS
      <3>2. ReqType([q EXCEPT !.step = "drop", !.drop = d])
        <4> HIDE DEF d
        <4> QED BY <1>1, <3>0, <3>1 DEF ReqType, RequestState
      <3>3. req' = [req EXCEPT ![r] = [q EXCEPT !.step = "drop", !.drop = d]]
        BY <2>3 DEF TypeOK
      <3>4. QED
        <4> HIDE DEF d
        <4> QED BY <2>1, <3>2, <3>3, StepType DEF TypeOK
    <2>4. QED
      BY <1>5, <2>2, <2>3 DEF List
  <1>6. ASSUME Drop(r) PROVE TypeOK'
    <2>1. UNCHANGED <<admins, granted, out, barred>>
      BY <1>6 DEF Drop, tables
    <2>2. CASE Done(r, "ok") /\ UNCHANGED cache
      BY <2>1, <2>2, DoneType DEF TypeOK, Reply
    <2>3. ASSUME NEW a \in q.drop, cache' = [cache EXCEPT ![a] = NoEntry],
                 req' = [req EXCEPT ![r].drop = @ \ {a}]
          PROVE TypeOK'
      <3>1. cache' \in [Admin -> Entry]
        BY <2>3, EntryType DEF TypeOK
      <3>2. ReqType([q EXCEPT !.drop = @ \ {a}])
        BY <1>1, <1>6 DEF ReqType, RequestState, TypeOK
      <3>3. req' = [req EXCEPT ![r] = [q EXCEPT !.drop = @ \ {a}]]
        BY <2>3 DEF TypeOK
      <3>4. QED
        BY <2>1, <3>1, <3>2, <3>3, StepType DEF TypeOK
    <2>4. QED
      BY <1>6, <2>2, <2>3 DEF Drop
  <1>7. ASSUME NEW role \in Role, NEW suspended \in BOOLEAN, WriteAdmin(r, role, suspended)
        PROVE TypeOK'
    <2>1. q.admin \in Admin /\ q.op # "updateRole"
      BY <1>7 DEF WriteAdmin, At, TypeOK
    <2>2. admins' \in [Admin -> AdminRow]
      BY <1>7, <2>1 DEF WriteAdmin, TypeOK, AdminRow
    <2>3. ReqType([q EXCEPT !.step = "drop", !.drop = {q.admin}])
      BY <1>1, <2>1 DEF ReqType, RequestState
    <2>4. req' = [req EXCEPT ![r] = [q EXCEPT !.step = "drop", !.drop = {q.admin}]]
      BY <1>7 DEF WriteAdmin, TypeOK
    <2>5. Restart /\ UNCHANGED <<granted, cache>>
      BY <1>7 DEF WriteAdmin
    <2>6. QED
      BY <2>2, <2>3, <2>4, <2>5, StepType, RestartType DEF TypeOK
  <1>8. ASSUME NEW grant \in BOOLEAN, WriteRole(r, grant) PROVE TypeOK'
    <2>1. q.admin \in Role /\ q.op = "updateRole"
      BY <1>8 DEF WriteRole, At, TypeOK
    <2>2. granted' \subseteq Role
      BY <1>8, <2>1 DEF WriteRole, TypeOK
    <2>3. ReqType([q EXCEPT !.step = "list"])
      BY <1>1, <2>1 DEF ReqType, RequestState
    <2>4. req' = [req EXCEPT ![r] = [q EXCEPT !.step = "list"]]
      BY <1>8 DEF WriteRole, TypeOK
    <2>5. Restart /\ UNCHANGED <<admins, cache>>
      BY <1>8 DEF WriteRole
    <2>6. QED
      BY <2>2, <2>3, <2>4, <2>5, StepType, RestartType DEF TypeOK
  <1>9. ASSUME Fail(r) PROVE TypeOK'
    BY <1>9, DoneType DEF Fail, TypeOK, tables, Reply
  <1>10. QED
    BY <1>2, <1>3, <1>4, <1>5, <1>6, <1>7, <1>8, <1>9 DEF Handle

\* And when a tick passes.
LEMMA TypeTick ==
  ASSUME TypeOK, Tick
  PROVE  TypeOK'
  <1>1. UNCHANGED <<admins, granted>>
    BY DEF Tick
  <1>2. cache' \in [Admin -> Entry]
    <2>1. ASSUME NEW a \in Admin, cache[a].left > 1
          PROVE  [cache[a] EXCEPT !.left = @ - 1] \in Entry
      BY <2>1, AuthCacheAssumption DEF TypeOK, Entry
    <2>2. ASSUME NEW a \in Admin
          PROVE  cache[a].left \in Int
      BY AuthCacheAssumption DEF TypeOK, Entry
    <2>3. QED
      BY <2>1, <2>2, EntryType DEF Tick
  <1>3. \A n \in 0 .. Old : Aged(n) \in 0 .. Old
    BY AuthCacheAssumption DEF Aged, Old
  <1>4. out' \in [Admin -> 0 .. Old] /\ barred' \in [Admin -> 0 .. Old]
    <2>1. 0 \in 0 .. Old
      BY AuthCacheAssumption DEF Old
    <2>2. QED
      BY <1>3, <2>1 DEF Tick, TypeOK
  <1>5. ASSUME NEW r \in Request
        PROVE  ReqType(IF req[r].step = "answered" THEN req[r] ELSE [req[r] EXCEPT !.age = @ + 1])
    <2>1. CASE req[r].step = "answered"
      BY <2>1 DEF TypeOK, ReqType
    <2>2. CASE req[r].step # "answered"
      <3>1. req[r] \in RequestState /\ req[r].age + 1 \in 0 .. MaxDelay
        BY <2>2, AuthCacheAssumption DEF TypeOK, Tick, RequestState
      <3>2. QED
        BY <2>2, <3>1 DEF TypeOK, ReqType, RequestState
    <2>3. QED
      BY <2>1, <2>2
  <1>6. /\ req' \in [Request -> RequestState]
        /\ \A s \in Request : req'[s].step # "answered" =>
              req'[s].admin \in IF req'[s].op = "updateRole" THEN Role ELSE Admin
    BY <1>5 DEF Tick, ReqType
  <1>7. QED
    BY <1>1, <1>2, <1>4, <1>6 DEF TypeOK

LEMMA TypeSubmit ==
  ASSUME TypeOK, NEW r \in Request, NEW op, NEW target, Submit(r, op, target),
         \/ op \in (Call \cup Fill \cup Change) \ {"updateRole"} /\ target \in Admin
         \/ op = "updateRole" /\ target \in Role
  PROVE  TypeOK'
  <1> DEFINE step == CASE op \in Call -> "get"
                      [] op \in Fill -> "load"
                      [] op = "logout" -> "drop"
                      [] OTHER -> "write"
             drop == IF op = "logout" THEN {target} ELSE {}
             q == [NoRequest EXCEPT !.op = op, !.admin = target, !.step = step, !.drop = drop]
  <1>1. step \in {"get", "load", "drop", "write"}
    OBVIOUS
  <1>2. drop \in SUBSET Admin
    OBVIOUS
  <1>3. NoRequest \in RequestState
    BY EmptySlot
  <1>4. q \in RequestState
    <2> HIDE DEF step, drop
    <2> QED BY <1>1, <1>2, <1>3 DEF RequestState, Change
  <1>5. ReqType(q)
    <2> HIDE DEF step, drop
    <2> QED BY <1>4 DEF ReqType, NoRequest
  <1>6. req' = [req EXCEPT ![r] = q]
    BY DEF Submit
  <1>7. UNCHANGED <<admins, granted, out, barred, cache>>
    BY DEF Submit, tables
  <1>8. QED
    <2> HIDE DEF q
    <2> QED BY <1>5, <1>6, <1>7, StepType DEF TypeOK

LEMMA TypeInit == Init => TypeOK
  <1> SUFFICES ASSUME Init PROVE TypeOK
    OBVIOUS
  <1>1. NoRequest \in RequestState /\ NoRequest.step = "answered"
    BY EmptySlot
  <1>2. 0 \in 0 .. Old
    BY AuthCacheAssumption DEF Old
  <1>3. QED
    BY <1>1, <1>2, EntryType DEF Init, TypeOK, AdminRow

LEMMA TypeNext == TypeOK /\ [Next]_vars => TypeOK'
  <1> SUFFICES ASSUME TypeOK, [Next]_vars PROVE TypeOK'
    OBVIOUS
  <1>1. CASE UNCHANGED vars
    BY <1>1 DEF vars, TypeOK
  <1>2. CASE Tick
    BY <1>2, TypeTick
  <1>3. ASSUME NEW r \in Request,
               \/ \E op \in (Call \cup Fill \cup Change) \ {"updateRole"}, a \in Admin : Submit(r, op, a)
               \/ \E role \in Role : Submit(r, "updateRole", role)
        PROVE  TypeOK'
    BY <1>3, TypeSubmit
  <1>4. ASSUME NEW r \in Request, Handle(r) \/ Fail(r) PROVE TypeOK'
    BY <1>4, TypeStep
  <1>5. QED
    BY <1>1, <1>2, <1>3, <1>4 DEF Next

\* The types of AuthCache, for any number of admins, roles and requests.
THEOREM TypeCorrect == Spec => []TypeOK
  BY TypeInit, TypeNext, PTL DEF Spec

-----------------------------------------------------------------------------
\* The parts of CopiesAreRecent: the counts, the entries, the requests.
Counts == \A a \in Admin : (LetIn(a) => out[a] = 0) /\ (Holds(a) => barred[a] = 0)

EntryIsRecent(a) ==
    cache[a].left > 0 /\ ~ cache[a].copy.suspended =>
        /\ out[a] <= TTL - cache[a].left + MaxDelay
        /\ cache[a].copy.holds => barred[a] <= TTL - cache[a].left + MaxDelay

CarriedIsRecent(r) ==
    At(r, Call \cup Fill, "set") /\ ~ req[r].copy.suspended =>
        /\ out[req[r].admin] <= req[r].age
        /\ req[r].copy.holds => barred[req[r].admin] <= req[r].age

LEMMA Parts ==
    CopiesAreRecent <=> /\ Counts
                        /\ \A a \in Admin : EntryIsRecent(a)
                        /\ \A r \in Request : CarriedIsRecent(r)
  BY DEF CopiesAreRecent, Counts, EntryIsRecent, CarriedIsRecent

\* Numbers, out of the types.
LEMMA Numbers ==
  ASSUME TypeOK
  PROVE  /\ TTL \in Nat /\ TTL > 0 /\ MaxDelay \in Nat
         /\ \A a \in Admin : /\ out[a] \in Nat /\ barred[a] \in Nat
                             /\ cache[a].left \in Nat /\ cache[a].left <= TTL
         /\ \A r \in Request : req[r].age \in Nat /\ req[r].age <= MaxDelay
  BY AuthCacheAssumption DEF TypeOK, Entry, RequestState, Old

\* A change of the rows only ever starts a count anew.
LEMMA RestartLowers ==
  ASSUME TypeOK, Restart, NEW a \in Admin
  PROVE  /\ out'[a] <= out[a] /\ barred'[a] <= barred[a]
         /\ LetIn(a)' => out'[a] = 0
         /\ Holds(a)' => barred'[a] = 0
  BY Numbers DEF Restart

\* A request that is not about to store its copy says nothing.
LEMMA RecentStep ==
  ASSUME TypeOK, CopiesAreRecent, NEW r \in Request, Handle(r) \/ Fail(r)
  PROVE  CopiesAreRecent'
  <1> DEFINE q == req[r]
  <1>0. Counts /\ (\A a \in Admin : EntryIsRecent(a)) /\ \A s \in Request : CarriedIsRecent(s)
    BY Parts
  <1>1. ASSUME UNCHANGED <<admins, granted, out, barred, cache>>,
               NEW next, req' = [req EXCEPT ![r] = next],
               next.step = "set" =>
                  /\ next.admin \in Admin
                  /\ ~ next.copy.suspended => out[next.admin] = 0
                  /\ ~ next.copy.suspended /\ next.copy.holds => barred[next.admin] = 0,
               next.age \in Nat
        PROVE  CopiesAreRecent'
    <2>1. Counts'
      BY <1>0, <1>1 DEF Counts, LetIn, Holds
    <2>2. \A a \in Admin : EntryIsRecent(a)'
      BY <1>0, <1>1 DEF EntryIsRecent
    <2>3. ASSUME NEW s \in Request PROVE CarriedIsRecent(s)'
      <3>1. CASE s = r
        <4>1. req'[s] = next
          BY <1>1, <3>1 DEF TypeOK
        <4>2. QED
          BY <1>1, <4>1 DEF CarriedIsRecent, At
      <3>2. CASE s # r
        <4>1. req'[s] = req[s]
          BY <1>1, <3>2 DEF TypeOK
        <4>2. CarriedIsRecent(s)
          BY <1>0
        <4>3. QED
          BY <1>1, <4>1, <4>2 DEF CarriedIsRecent, At
      <3>3. QED
        BY <3>1, <3>2
    <2>4. QED
      BY <2>1, <2>2, <2>3 DEF CopiesAreRecent, Counts, EntryIsRecent, CarriedIsRecent
  <1>2. ASSUME NEW reply, Done(r, reply), UNCHANGED <<admins, granted, out, barred, cache>>
        PROVE  CopiesAreRecent'
    <2> DEFINE n == [NoRequest EXCEPT !.reply = reply]
    <2>1. n.step # "set" /\ n.age \in Nat
      BY DEF NoRequest
    <2>2. req' = [req EXCEPT ![r] = n]
      BY <1>2 DEF Done
    <2>3. QED
      <3> HIDE DEF n
      <3> QED BY <1>1, <1>2, <2>1, <2>2
  <1>3. ASSUME Get(r) PROVE CopiesAreRecent'
    <2>1. UNCHANGED <<admins, granted, out, barred, cache>>
      BY <1>3 DEF Get, tables
    <2>2. CASE req' = [req EXCEPT ![r].step = "load"]
      <3>1. [q EXCEPT !.step = "load"].step # "set" /\ [q EXCEPT !.step = "load"].age \in Nat
        BY Numbers DEF TypeOK, RequestState
      <3>2. req' = [req EXCEPT ![r] = [q EXCEPT !.step = "load"]]
        BY <2>2 DEF TypeOK
      <3>3. QED
        BY <1>1, <2>1, <3>1, <3>2
    <2>3. QED
      BY <1>2, <1>3, <2>1, <2>2 DEF Get
  <1>4. ASSUME Load(r) PROVE CopiesAreRecent'
    <2>1. UNCHANGED <<admins, granted, out, barred, cache>>
      BY <1>4 DEF Load, tables
    <2>2. CASE /\ ~ admins[q.admin].deleted
               /\ req' = [req EXCEPT ![r].step = "set", ![r].copy = RowCopy(q.admin)]
      <3> DEFINE n == [q EXCEPT !.step = "set", !.copy = RowCopy(q.admin)]
      <3>1. q.admin \in Admin
        BY <1>4 DEF Load, At, TypeOK, Call, Fill
      <3>2. n.admin = q.admin /\ n.copy = RowCopy(q.admin) /\ n.age = q.age
        BY DEF TypeOK, RequestState
      <3>3. ~ n.copy.suspended => out[q.admin] = 0
        BY <1>0, <2>2, <3>1, <3>2 DEF RowCopy, LetIn, Counts
      <3>4. ~ n.copy.suspended /\ n.copy.holds => barred[q.admin] = 0
        <4>1. ASSUME ~ n.copy.suspended, n.copy.holds PROVE Holds(q.admin)
          <5>1. RowCopy(q.admin).holds => admins[q.admin].role \in granted
            BY DEF RowCopy
          <5>2. RowCopy(q.admin).suspended = admins[q.admin].suspended
            BY DEF RowCopy
          <5>3. QED
            BY <2>2, <3>2, <4>1, <5>1, <5>2 DEF LetIn, Holds
        <4>2. QED
          BY <1>0, <3>1, <4>1 DEF Counts
      <3>5. req' = [req EXCEPT ![r] = n]
        BY <2>2 DEF TypeOK
      <3>6. n.age \in Nat
        BY <3>2, Numbers
      <3>7. QED
        <4> HIDE DEF n
        <4> QED BY <1>1, <2>1, <3>1, <3>2, <3>3, <3>4, <3>5, <3>6
    <2>3. QED
      BY <1>2, <1>4, <2>1, <2>2 DEF Load
  <1>5. ASSUME Set(r) PROVE CopiesAreRecent'
    <2>1. UNCHANGED <<admins, granted, out, barred>>
      BY <1>5 DEF Set, tables
    <2>2. PICK reply : Done(r, reply)
      BY <1>5 DEF Set
    <2>3. CASE UNCHANGED cache
      BY <1>2, <2>1, <2>2, <2>3
    <2>4. CASE cache' = [cache EXCEPT ![q.admin] = [left |-> TTL, copy |-> q.copy]]
      <3>1. Counts'
        BY <1>0, <2>1 DEF Counts, LetIn, Holds
      <3>2. ASSUME NEW a \in Admin PROVE EntryIsRecent(a)'
        <4>1. CASE a = q.admin
          <5>1. cache'[a].left = TTL /\ cache'[a].copy = q.copy
            BY <2>4, <4>1 DEF TypeOK
          <5>2. ~ q.copy.suspended =>
                   out[a] <= MaxDelay /\ (q.copy.holds => barred[a] <= MaxDelay)
            BY <1>0, <1>5, <4>1, Numbers DEF CarriedIsRecent, Set
          <5>3. QED
            BY <2>1, <5>1, <5>2, Numbers DEF EntryIsRecent
        <4>2. CASE a # q.admin
          <5>1. cache'[a] = cache[a]
            BY <2>4, <4>2 DEF TypeOK
          <5>2. QED
            BY <1>0, <2>1, <5>1 DEF EntryIsRecent
        <4>3. QED
          BY <4>1, <4>2
      <3>3. ASSUME NEW s \in Request PROVE CarriedIsRecent(s)'
        <4>1. CASE s = r
          BY <2>2, <4>1 DEF TypeOK, Done, CarriedIsRecent, At, NoRequest
        <4>2. CASE s # r
          <5>1. req'[s] = req[s]
            BY <2>2, <4>2 DEF TypeOK, Done
          <5>2. QED
            BY <1>0, <2>1, <5>1 DEF CarriedIsRecent, At
        <4>3. QED
          BY <4>1, <4>2
      <3>4. QED
        BY <3>1, <3>2, <3>3 DEF CopiesAreRecent, Counts, EntryIsRecent, CarriedIsRecent
    <2>5. QED
      BY <1>5, <2>3, <2>4 DEF Set
  <1>6. ASSUME List(r) PROVE CopiesAreRecent'
    <2>1. UNCHANGED <<admins, granted, out, barred, cache>>
      BY <1>6 DEF List, tables
    <2>2. ASSUME NEW d, req' = [req EXCEPT ![r].step = "drop", ![r].drop = d]
          PROVE  CopiesAreRecent'
      <3> DEFINE n == [q EXCEPT !.step = "drop", !.drop = d]
      <3>1. n.step # "set" /\ n.age \in Nat
        BY Numbers DEF TypeOK, RequestState
      <3>2. req' = [req EXCEPT ![r] = n]
        BY <2>2 DEF TypeOK
      <3>3. QED
        <4> HIDE DEF n
        <4> QED BY <1>1, <2>1, <3>1, <3>2
    <2>3. QED
      BY <1>2, <1>6, <2>1, <2>2 DEF List
  <1>7. ASSUME Drop(r) PROVE CopiesAreRecent'
    <2>1. UNCHANGED <<admins, granted, out, barred>>
      BY <1>7 DEF Drop, tables
    <2>2. CASE Done(r, "ok") /\ UNCHANGED cache
      BY <1>2, <2>1, <2>2
    <2>3. ASSUME NEW b \in q.drop, cache' = [cache EXCEPT ![b] = NoEntry],
                 req' = [req EXCEPT ![r].drop = @ \ {b}]
          PROVE CopiesAreRecent'
      <3>1. Counts'
        BY <1>0, <2>1 DEF Counts, LetIn, Holds
      <3>2. \A a \in Admin : EntryIsRecent(a)'
        BY <1>0, <2>1, <2>3 DEF TypeOK, EntryIsRecent, NoEntry
      <3>3. ASSUME NEW s \in Request PROVE CarriedIsRecent(s)'
        <4>1. /\ req'[s].op = req[s].op /\ req'[s].step = req[s].step
              /\ req'[s].admin = req[s].admin /\ req'[s].age = req[s].age
              /\ req'[s].copy = req[s].copy
          BY <2>3 DEF TypeOK, RequestState
        <4>2. QED
          BY <1>0, <2>1, <4>1 DEF CarriedIsRecent, At
      <3>4. QED
        BY <3>1, <3>2, <3>3 DEF CopiesAreRecent, Counts, EntryIsRecent, CarriedIsRecent
    <2>4. QED
      BY <1>7, <2>2, <2>3 DEF Drop
  <1>8. ASSUME Restart, UNCHANGED cache, NEW next, next # "set",
               \A s \in Request : /\ req'[s].op = req[s].op /\ req'[s].admin = req[s].admin
                                  /\ req'[s].age = req[s].age /\ req'[s].copy = req[s].copy
                                  /\ req'[s].step = IF s = r THEN next ELSE req[s].step
        PROVE  CopiesAreRecent'
    <2>0. \A a \in Admin : out'[a] \in Nat /\ barred'[a] \in Nat
      BY <1>8, RestartType DEF Old
    <2>1. Counts'
      BY <1>8, RestartLowers DEF Counts
    <2>2. ASSUME NEW a \in Admin PROVE EntryIsRecent(a)'
      BY <1>0, <1>8, <2>0, RestartLowers, Numbers DEF EntryIsRecent
    <2>3. ASSUME NEW s \in Request PROVE CarriedIsRecent(s)'
      <3>1. CASE At(s, Call \cup Fill, "set") /\ s # r
        <4>1. req[s].admin \in Admin
          BY <3>1 DEF At, TypeOK, Call, Fill
        <4>2. QED
          BY <1>0, <1>8, <2>0, <3>1, <4>1, RestartLowers, Numbers DEF CarriedIsRecent, At
      <3>2. CASE ~ (At(s, Call \cup Fill, "set") /\ s # r)
        BY <1>8, <3>2 DEF CarriedIsRecent, At
      <3>3. QED
        BY <3>1, <3>2
    <2>4. QED
      BY <2>1, <2>2, <2>3 DEF CopiesAreRecent, Counts, EntryIsRecent, CarriedIsRecent
  <1>9. ASSUME NEW role \in Role, NEW suspended \in BOOLEAN, WriteAdmin(r, role, suspended)
        PROVE CopiesAreRecent'
    <2>1. \A s \in Request : /\ req'[s].op = req[s].op /\ req'[s].admin = req[s].admin
                             /\ req'[s].age = req[s].age /\ req'[s].copy = req[s].copy
                             /\ req'[s].step = IF s = r THEN "drop" ELSE req[s].step
      BY <1>9 DEF WriteAdmin, TypeOK, RequestState
    <2>2. QED
      BY <1>8, <1>9, <2>1 DEF WriteAdmin
  <1>10. ASSUME NEW grant \in BOOLEAN, WriteRole(r, grant) PROVE CopiesAreRecent'
    <2>1. \A s \in Request : /\ req'[s].op = req[s].op /\ req'[s].admin = req[s].admin
                             /\ req'[s].age = req[s].age /\ req'[s].copy = req[s].copy
                             /\ req'[s].step = IF s = r THEN "list" ELSE req[s].step
      BY <1>10 DEF WriteRole, TypeOK, RequestState
    <2>2. QED
      BY <1>8, <1>10, <2>1 DEF WriteRole
  <1>11. ASSUME Fail(r) PROVE CopiesAreRecent'
    BY <1>2, <1>11 DEF Fail, tables
  <1>12. QED
    BY <1>3, <1>4, <1>5, <1>6, <1>7, <1>9, <1>10, <1>11 DEF Handle

\* When a tick passes, every count, every entry and every request in flight
\* grows older by the same.
LEMMA RecentTick ==
  ASSUME TypeOK, CopiesAreRecent, Tick
  PROVE  CopiesAreRecent'
  <1>0. Counts /\ (\A a \in Admin : EntryIsRecent(a)) /\ \A s \in Request : CarriedIsRecent(s)
    BY Parts
  <1>1. ASSUME NEW a \in Admin
        PROVE  /\ out'[a] \in Nat /\ out'[a] <= out[a] + 1 /\ (LetIn(a) => out'[a] = 0)
               /\ barred'[a] \in Nat /\ barred'[a] <= barred[a] + 1 /\ (Holds(a) => barred'[a] = 0)
    <2>1. \A n \in 0 .. Old : Aged(n) \in Nat /\ Aged(n) <= n + 1
      BY AuthCacheAssumption DEF Aged, Old
    <2>2. out[a] \in 0 .. Old /\ barred[a] \in 0 .. Old
      BY DEF TypeOK
    <2>3. /\ out'[a] = IF LetIn(a) THEN 0 ELSE Aged(out[a])
          /\ barred'[a] = IF Holds(a) THEN 0 ELSE Aged(barred[a])
      BY DEF Tick
    <2>4. QED
      BY <2>1, <2>2, <2>3, Numbers
  <1>2. Counts'
    <2>1. \A a \in Admin : (LetIn(a)' <=> LetIn(a)) /\ (Holds(a)' <=> Holds(a))
      BY DEF Tick, LetIn, Holds
    <2>2. QED
      BY <1>1, <2>1 DEF Counts
  <1>3. ASSUME NEW a \in Admin PROVE EntryIsRecent(a)'
    <2>1. CASE cache[a].left <= 1
      BY <2>1 DEF Tick, EntryIsRecent, NoEntry
    <2>2. CASE ~ (cache[a].left <= 1)
      <3>1. cache'[a].left = cache[a].left - 1 /\ cache'[a].copy = cache[a].copy
        BY <2>2 DEF Tick, TypeOK, Entry
      <3>2. QED
        BY <1>0, <1>1, <2>2, <3>1, Numbers DEF EntryIsRecent
    <2>3. QED
      BY <2>1, <2>2
  <1>4. ASSUME NEW s \in Request PROVE CarriedIsRecent(s)'
    <2>1. CASE req[s].step = "answered"
      BY <2>1 DEF Tick, CarriedIsRecent, At
    <2>2. CASE req[s].step # "answered"
      <3>1. /\ req'[s].op = req[s].op /\ req'[s].step = req[s].step
            /\ req'[s].admin = req[s].admin /\ req'[s].copy = req[s].copy
            /\ req'[s].age = req[s].age + 1
        BY <2>2 DEF Tick, TypeOK, RequestState
      <3>2. CASE At(s, Call \cup Fill, "set")
        <4>1. req[s].admin \in Admin
          BY <3>2 DEF At, TypeOK, Call, Fill
        <4>2. QED
          BY <1>0, <1>1, <3>1, <3>2, <4>1, Numbers DEF CarriedIsRecent, At
      <3>3. CASE ~ At(s, Call \cup Fill, "set")
        BY <3>1, <3>3 DEF CarriedIsRecent, At
      <3>4. QED
        BY <3>2, <3>3
    <2>3. QED
      BY <2>1, <2>2
  <1>5. QED
    BY <1>2, <1>3, <1>4 DEF CopiesAreRecent, Counts, EntryIsRecent, CarriedIsRecent

LEMMA RecentSubmit ==
  ASSUME TypeOK, CopiesAreRecent, NEW r \in Request, NEW op, NEW target, Submit(r, op, target)
  PROVE  CopiesAreRecent'
  <1>0. Counts /\ (\A a \in Admin : EntryIsRecent(a)) /\ \A s \in Request : CarriedIsRecent(s)
    BY Parts
  <1>1. UNCHANGED <<admins, granted, out, barred, cache>>
    BY DEF Submit, tables
  <1>2. ASSUME NEW s \in Request PROVE CarriedIsRecent(s)'
    <2>1. CASE s = r
      <3>1. req'[s].step # "set"
        BY <2>1 DEF Submit, TypeOK, NoRequest
      <3>2. QED
        BY <3>1 DEF CarriedIsRecent, At
    <2>2. CASE s # r
      <3>1. req'[s] = req[s]
        BY <2>2 DEF Submit, TypeOK
      <3>2. QED
        BY <1>0, <1>1, <3>1 DEF CarriedIsRecent, At
    <2>3. QED
      BY <2>1, <2>2
  <1>3. QED
    BY <1>0, <1>1, <1>2
       DEF CopiesAreRecent, Counts, EntryIsRecent, CarriedIsRecent, LetIn, Holds

LEMMA RecentInit == Init => CopiesAreRecent
  BY DEF Init, CopiesAreRecent, NoEntry, NoRequest, At

LEMMA RecentNext == TypeOK /\ CopiesAreRecent /\ [Next]_vars => CopiesAreRecent'
  <1> SUFFICES ASSUME TypeOK, CopiesAreRecent, [Next]_vars PROVE CopiesAreRecent'
    OBVIOUS
  <1>1. CASE UNCHANGED vars
    BY <1>1 DEF vars, CopiesAreRecent, LetIn, Holds, At
  <1>2. CASE Tick
    BY <1>2, RecentTick
  <1>3. ASSUME NEW r \in Request,
               \/ \E op \in (Call \cup Fill \cup Change) \ {"updateRole"}, a \in Admin : Submit(r, op, a)
               \/ \E role \in Role : Submit(r, "updateRole", role)
        PROVE  CopiesAreRecent'
    BY <1>3, RecentSubmit
  <1>4. ASSUME NEW r \in Request, Handle(r) \/ Fail(r) PROVE CopiesAreRecent'
    BY <1>4, RecentStep
  <1>5. QED
    BY <1>1, <1>2, <1>3, <1>4 DEF Next

\* Copies are recent, whatever fills, changes, faults and expiries do.
THEOREM CopiesRecent == Spec => []CopiesAreRecent
  <1>1. Init => TypeOK /\ CopiesAreRecent
    BY TypeInit, RecentInit
  <1>2. (TypeOK /\ CopiesAreRecent) /\ [Next]_vars => (TypeOK /\ CopiesAreRecent)'
    BY TypeNext, RecentNext
  <1>3. QED
    BY <1>1, <1>2, PTL DEF Spec

-----------------------------------------------------------------------------
\* Access ends within a TTL and one request: a call is served on an entry that
\* has not expired or on a copy that the call itself has read.
Served ==
    \A r \in Request :
        /\ Answers(r, "call") /\ req'[r].reply = "ok" =>
              out[req[r].admin] <= TTL + MaxDelay /\ barred[req[r].admin] <= TTL + MaxDelay
        /\ Answers(r, "me") /\ req'[r].reply = "ok" => out[req[r].admin] <= TTL + MaxDelay

\* A call that ends well ends at an entry, or at the copy it has read, which lets
\* the admin in.
LEMMA ServedByCopy ==
  ASSUME TypeOK, [Next]_vars, NEW r \in Request, req[r].op \in Call,
         req[r].step # "answered", req'[r].step = "answered", req'[r].reply = "ok"
  PROVE  /\ req[r].admin \in Admin
         /\ \/ /\ At(r, Call, "get")
               /\ cache[req[r].admin].left > 0
               /\ ~ cache[req[r].admin].copy.suspended
               /\ req[r].op = "call" => cache[req[r].admin].copy.holds
            \/ /\ At(r, Call \cup Fill, "set")
               /\ ~ req[r].copy.suspended
               /\ req[r].op = "call" => req[r].copy.holds
  <1>1. req[r].admin \in Admin
    BY DEF TypeOK, Call
  <1>2. ASSUME NEW op, NEW copy, NEW live, Verdict(op, copy, live) = "ok"
        PROVE  ~ copy.suspended /\ (op = "call" => copy.holds)
    BY <1>2 DEF Verdict
  <1>r. ASSUME NEW reply, Done(r, reply) PROVE reply = "ok"
    <2>1. req'[r] = [NoRequest EXCEPT !.reply = reply]
      BY <1>r DEF Done, TypeOK
    <2>2. req'[r].reply = reply
      BY <2>1 DEF NoRequest
    <2>3. QED
      BY <2>2
  <1>s. ASSUME NEW step, step # "answered" PROVE ~ (req' = [req EXCEPT ![r].step = step])
    BY <1>s DEF TypeOK, RequestState
  <1>3. CASE Get(r)
    <2>1. /\ At(r, Call, "get") /\ cache[req[r].admin].left > 0
          /\ Verdict(req[r].op, cache[req[r].admin].copy, FALSE) = "ok"
      BY <1>3, <1>r, <1>s DEF Get
    <2>2. QED
      BY <1>1, <1>2, <2>1
  <1>4. CASE Set(r)
    <2>1. req[r].op \notin Fill
      BY DEF Call, Fill
    <2>2. Done(r, Verdict(req[r].op, req[r].copy, TRUE)) /\ At(r, Call \cup Fill, "set")
      BY <1>4, <2>1 DEF Set
    <2>3. Verdict(req[r].op, req[r].copy, TRUE) = "ok"
      BY <1>r, <2>2
    <2>4. QED
      BY <1>1, <1>2, <2>2, <2>3
  <1>5. Get(r) \/ Set(r)
    <2>1. CASE UNCHANGED vars \/ Tick
      <3>1. CASE UNCHANGED vars
        BY <3>1 DEF vars
      <3>2. CASE Tick
        BY <3>2 DEF Tick, TypeOK, RequestState
      <3>3. QED
        BY <2>1, <3>1, <3>2
    <2>2. ASSUME NEW s \in Request, s # r,
                 \/ \E op, a : Submit(s, op, a)
                 \/ Handle(s) \/ Fail(s)
          PROVE  req'[r] = req[r]
      BY <2>2 DEF Submit, Handle, Get, Load, Set, List, Drop, WriteAdmin, WriteRole, Fail, Done, TypeOK
    <2>3. ASSUME \/ \E op, a : Submit(r, op, a)
                 \/ Handle(r) \/ Fail(r)
          PROVE  Get(r) \/ Set(r)
      <3>1. ~ \E op, a : Submit(r, op, a)
        BY DEF Submit
      <3>2. ~ Fail(r)
        BY DEF Fail, Done, TypeOK, NoRequest
      <3>3. ~ Load(r)
        <4>1. ~ Done(r, "unauthorized") /\ ~ Done(r, "forbidden")
          BY <1>r
        <4>2. ~ (req' = [req EXCEPT ![r].step = "set", ![r].copy = RowCopy(req[r].admin)])
          BY DEF TypeOK, RequestState
        <4>3. QED
          BY <4>1, <4>2 DEF Load
      <3>4. ~ List(r) /\ ~ Drop(r)
        BY DEF List, Drop, At, Call, Change
      <3>5. \A role, suspended : ~ WriteAdmin(r, role, suspended)
        BY DEF WriteAdmin, At, Call
      <3>6. \A grant : ~ WriteRole(r, grant)
        BY DEF WriteRole, At, Call
      <3>7. QED
        BY <2>3, <3>1, <3>2, <3>3, <3>4, <3>5, <3>6 DEF Handle
    <2>4. QED
      BY <2>1, <2>2, <2>3 DEF Next
  <1>6. QED
    BY <1>3, <1>4, <1>5

LEMMA ServedOnRecentCopies ==
  TypeOK /\ CopiesAreRecent /\ [Next]_vars => Served
  <1> SUFFICES ASSUME TypeOK, CopiesAreRecent, [Next]_vars, NEW r \in Request,
                      req[r].op \in Call, req[r].step # "answered",
                      req'[r].step = "answered", req'[r].reply = "ok"
               PROVE  /\ out[req[r].admin] <= TTL + MaxDelay
                      /\ req[r].op = "call" => barred[req[r].admin] <= TTL + MaxDelay
    BY DEF Served, Answers, Call
  <1>1. req[r].admin \in Admin
    BY ServedByCopy
  <1>2. EntryIsRecent(req[r].admin) /\ CarriedIsRecent(r)
    BY <1>1, Parts
  <1> DEFINE a == req[r].admin
  <1>3. CASE cache[a].left > 0 /\ ~ cache[a].copy.suspended
             /\ (req[r].op = "call" => cache[a].copy.holds)
    BY <1>1, <1>2, <1>3, Numbers DEF EntryIsRecent
  <1>4. CASE At(r, Call \cup Fill, "set") /\ ~ req[r].copy.suspended
             /\ (req[r].op = "call" => req[r].copy.holds)
    BY <1>1, <1>2, <1>4, Numbers DEF CarriedIsRecent
  <1>5. QED
    BY <1>3, <1>4, ServedByCopy

\* The bound holds of every behaviour, for any TTL and any MaxDelay.
THEOREM AccessEnds == Spec => AccessEndsInTime
  <1>1. Spec => []TypeOK
    BY TypeCorrect
  <1>2. Spec => []CopiesAreRecent
    BY CopiesRecent
  <1>3. TypeOK /\ CopiesAreRecent /\ [Next]_vars => [Served]_vars
    BY ServedOnRecentCopies
  <1>4. Spec => [][Served]_vars
    BY <1>1, <1>2, <1>3, PTL DEF Spec
  <1>5. QED
    BY <1>4 DEF AccessEndsInTime, Served

-----------------------------------------------------------------------------
\* One request at a time, and no faults: the copies then agree with the rows,
\* but for the admins whose copies a change is about to drop.
OneAtATime == ~ Faults /\ \A r, s \in Request : r = s

Dropping(r, a) ==
    \/ req[r].step = "drop" /\ a \in req[r].drop
    \/ req[r].step = "list" /\ admins[a].role = req[r].admin /\ ~ admins[a].deleted

Agrees(a, copy) == ~ copy.suspended => LetIn(a) /\ (copy.holds => Holds(a))

EntryAgrees(a) ==
    cache[a].left > 0 => Agrees(a, cache[a].copy) \/ \E r \in Request : Dropping(r, a)

CarriedAgrees(r) == At(r, Call \cup Fill, "set") => Agrees(req[r].admin, req[r].copy)

CopiesAgree ==
    /\ \A a \in Admin : EntryAgrees(a)
    /\ \A r \in Request : CarriedAgrees(r)

\* The copy of a row that is not deleted agrees with it.
LEMMA RowCopyAgrees ==
  ASSUME NEW a \in Admin, ~ admins[a].deleted
  PROVE  Agrees(a, RowCopy(a))
  BY DEF Agrees, RowCopy, LetIn, Holds

\* A request that drops nobody leaves every entry in agreement with its row.
LEMMA AllAgree ==
  ASSUME OneAtATime, CopiesAgree, NEW r \in Request, req[r].step \notin {"drop", "list"},
         NEW a \in Admin, cache[a].left > 0
  PROVE  Agrees(a, cache[a].copy)
  BY DEF OneAtATime, CopiesAgree, EntryAgrees, Dropping

\* While the rows stay, copies agree after a step that stores only what agrees,
\* and that takes an admin off the list of those to drop only with the copy.
LEMMA AgreeWhileRowsStay ==
  ASSUME OneAtATime, TypeOK, CopiesAgree, NEW r \in Request,
         UNCHANGED <<admins, granted>>,
         \A a \in Admin : cache'[a].left > 0 =>
             \/ Agrees(a, cache'[a].copy)
             \/ cache'[a] = cache[a] /\ (Dropping(r, a) => Dropping(r, a)'),
         req'[r].step = "set" => Agrees(req'[r].admin, req'[r].copy)
  PROVE  CopiesAgree'
  <1>1. ASSUME NEW a \in Admin PROVE EntryAgrees(a)'
    <2>1. \A copy : Agrees(a, copy) <=> ~ copy.suspended => LetIn(a)' /\ (copy.holds => Holds(a)')
      BY DEF Agrees, LetIn, Holds
    <2>2. CASE cache'[a].left > 0 /\ cache'[a] = cache[a] /\ (Dropping(r, a) => Dropping(r, a)')
      <3>1. Agrees(a, cache[a].copy) \/ Dropping(r, a)
        BY <2>2 DEF CopiesAgree, EntryAgrees, OneAtATime
      <3>2. QED
        BY <2>1, <2>2, <3>1 DEF EntryAgrees, Agrees
    <2>3. CASE Agrees(a, cache'[a].copy)
      BY <2>1, <2>3 DEF EntryAgrees, Agrees
    <2>4. QED
      BY <2>2, <2>3 DEF EntryAgrees
  <1>2. ASSUME NEW s \in Request PROVE CarriedAgrees(s)'
    <2>1. s = r
      BY DEF OneAtATime
    <2>2. QED
      BY <2>1 DEF CarriedAgrees, At, Agrees, LetIn, Holds
  <1>3. QED
    BY <1>1, <1>2 DEF CopiesAgree

LEMMA AgreeStep ==
  ASSUME OneAtATime, TypeOK, CopiesAgree, NEW r \in Request, Handle(r)
  PROVE  CopiesAgree'
  <1> DEFINE q == req[r]
  <1>1. ASSUME NEW reply, Done(r, reply) PROVE req'[r].step = "answered"
    BY <1>1 DEF Done, TypeOK, NoRequest
  <1>2. CASE Get(r) \/ Load(r)
    <2>1. UNCHANGED <<admins, granted, cache>> /\ q.step \in {"get", "load"}
      BY <1>2 DEF Get, Load, tables, At
    <2>2. \A a \in Admin : cache[a].left > 0 => Agrees(a, cache[a].copy)
      BY <2>1, AllAgree
    <2>3. req'[r].step = "set" => Agrees(req'[r].admin, req'[r].copy)
      <3>1. CASE Get(r)
        <4>1. req'[r].step # "set"
          BY <3>1, <1>1 DEF Get, TypeOK, RequestState
        <4>2. QED
          BY <4>1
      <3>2. CASE Load(r)
        <4>1. ASSUME ~ admins[q.admin].deleted,
                     req' = [req EXCEPT ![r].step = "set", ![r].copy = RowCopy(q.admin)]
              PROVE  Agrees(req'[r].admin, req'[r].copy)
          <5>1. q.admin \in Admin
            BY <3>2 DEF Load, At, TypeOK, Call, Fill
          <5>2. req'[r].admin = q.admin /\ req'[r].copy = RowCopy(q.admin)
            BY <4>1 DEF TypeOK, RequestState
          <5>3. QED
            BY <4>1, <5>1, <5>2, RowCopyAgrees
        <4>2. QED
          BY <3>2, <1>1, <4>1 DEF Load
      <3>3. QED
        BY <1>2, <3>1, <3>2
    <2>4. QED
      BY <2>1, <2>2, <2>3, AgreeWhileRowsStay
  <1>3. CASE Set(r)
    <2>1. /\ UNCHANGED <<admins, granted>> /\ At(r, Call \cup Fill, "set")
          /\ cache' = [cache EXCEPT ![q.admin] = [left |-> TTL, copy |-> q.copy]]
      BY <1>3 DEF Set, tables, OneAtATime
    <2>2. q.admin \in Admin
      BY <2>1 DEF At, TypeOK, Call, Fill
    <2>3. ASSUME NEW a \in Admin, cache'[a].left > 0 PROVE Agrees(a, cache'[a].copy)
      <3>1. CASE a = q.admin
        <4>1. cache'[a].copy = q.copy
          BY <2>1, <3>1 DEF TypeOK
        <4>2. QED
          BY <2>1, <3>1, <4>1 DEF CopiesAgree, CarriedAgrees
      <3>2. CASE a # q.admin
        <4>1. cache'[a] = cache[a]
          BY <2>1, <2>2, <3>2 DEF TypeOK
        <4>2. QED
          BY <2>1, <2>3, <4>1, AllAgree DEF At
      <3>3. QED
        BY <3>1, <3>2
    <2>4. req'[r].step # "set"
      BY <1>1, <1>3 DEF Set
    <2>5. QED
      BY <2>1, <2>3, <2>4, AgreeWhileRowsStay
  <1>4. CASE List(r)
    <2>1. /\ UNCHANGED <<admins, granted, cache>> /\ q.step = "list"
          /\ req' = [req EXCEPT ![r].step = "drop", ![r].drop =
                {a \in Admin : admins[a].role = q.admin /\ ~ admins[a].deleted}]
      BY <1>4 DEF List, tables, At, OneAtATime
    <2>2. /\ req'[r].step = "drop"
          /\ req'[r].drop = {a \in Admin : admins[a].role = q.admin /\ ~ admins[a].deleted}
      BY <2>1 DEF TypeOK, RequestState
    <2>3. \A a \in Admin : Dropping(r, a) => Dropping(r, a)'
      BY <2>1, <2>2 DEF Dropping
    <2>4. QED
      BY <2>1, <2>2, <2>3, AgreeWhileRowsStay
  <1>5. CASE Drop(r)
    <2>0. UNCHANGED <<admins, granted>> /\ q.step = "drop"
      BY <1>5 DEF Drop, tables, At
    <2>1. ASSUME NEW a \in q.drop, cache' = [cache EXCEPT ![a] = NoEntry],
                 req' = [req EXCEPT ![r].drop = @ \ {a}]
          PROVE  CopiesAgree'
      <3>1. req'[r].step = "drop" /\ req'[r].drop = q.drop \ {a}
        BY <2>0, <2>1 DEF TypeOK, RequestState
      <3>2. ASSUME NEW b \in Admin, cache'[b].left > 0
            PROVE  cache'[b] = cache[b] /\ (Dropping(r, b) => Dropping(r, b)')
        <4>1. b # a
          BY <2>1, <3>2 DEF TypeOK, NoEntry
        <4>2. QED
          BY <2>0, <2>1, <3>1, <4>1 DEF Dropping, TypeOK
      <3>3. QED
        BY <2>0, <3>1, <3>2, AgreeWhileRowsStay
    <2>2. CASE q.drop = {} /\ Done(r, "ok") /\ UNCHANGED cache
      <3>1. \A a \in Admin : ~ Dropping(r, a)
        BY <2>0, <2>2 DEF Dropping
      <3>2. QED
        BY <1>1, <2>0, <2>2, <3>1, AgreeWhileRowsStay
    <2>3. QED
      BY <1>5, <2>1, <2>2 DEF Drop, OneAtATime
  <1>6. ASSUME NEW role \in Role, NEW suspended \in BOOLEAN, WriteAdmin(r, role, suspended)
        PROVE  CopiesAgree'
    <2>1. /\ UNCHANGED <<granted, cache>> /\ q.step = "write" /\ q.admin \in Admin
          /\ \A a \in Admin : a # q.admin => admins'[a] = admins[a]
          /\ req'[r].step = "drop" /\ req'[r].drop = {q.admin}
      BY <1>6 DEF WriteAdmin, At, TypeOK, RequestState
    <2>2. ASSUME NEW a \in Admin PROVE EntryAgrees(a)'
      <3>1. CASE a = q.admin
        BY <2>1, <3>1 DEF EntryAgrees, Dropping
      <3>2. CASE a # q.admin
        <4>1. cache[a].left > 0 => Agrees(a, cache[a].copy)
          BY <2>1, AllAgree
        <4>2. QED
          BY <2>1, <3>2, <4>1 DEF EntryAgrees, Agrees, LetIn, Holds
      <3>3. QED
        BY <3>1, <3>2
    <2>3. QED
      BY <2>1, <2>2 DEF CopiesAgree, CarriedAgrees, At, OneAtATime
  <1>7. ASSUME NEW grant \in BOOLEAN, WriteRole(r, grant) PROVE CopiesAgree'
    <2>1. /\ UNCHANGED <<admins, cache>> /\ q.step = "write"
          /\ \A role \in Role : role # q.admin => (role \in granted' <=> role \in granted)
          /\ req'[r].step = "list" /\ req'[r].admin = q.admin
      BY <1>7 DEF WriteRole, At, TypeOK, RequestState
    <2>2. ASSUME NEW a \in Admin PROVE EntryAgrees(a)'
      <3>0. cache[a].left > 0 => Agrees(a, cache[a].copy)
        BY <2>1, AllAgree
      <3>1. CASE admins[a].role = q.admin /\ ~ admins[a].deleted
        BY <2>1, <3>1 DEF EntryAgrees, Dropping
      <3>2. CASE admins[a].deleted
        BY <2>1, <3>0, <3>2 DEF EntryAgrees, Agrees, LetIn
      <3>3. CASE admins[a].role # q.admin
        <4>1. Holds(a) <=> Holds(a)'
          BY <2>1, <3>3 DEF Holds, LetIn, TypeOK, AdminRow
        <4>2. QED
          BY <2>1, <3>0, <4>1 DEF EntryAgrees, Agrees, LetIn
      <3>4. QED
        BY <3>1, <3>2, <3>3
    <2>3. QED
      BY <2>1, <2>2 DEF CopiesAgree, CarriedAgrees, At, OneAtATime
  <1>8. QED
    BY <1>2, <1>3, <1>4, <1>5, <1>6, <1>7 DEF Handle

LEMMA AgreeSubmit ==
  ASSUME OneAtATime, TypeOK, CopiesAgree, NEW r \in Request, NEW op, NEW target,
         Submit(r, op, target)
  PROVE  CopiesAgree'
  <1>1. UNCHANGED <<admins, granted, cache>> /\ req[r].step = "answered"
    BY DEF Submit, tables
  <1>2. \A a \in Admin : cache[a].left > 0 => Agrees(a, cache[a].copy)
    BY <1>1, AllAgree
  <1>3. req'[r].step # "set"
    BY DEF Submit, TypeOK, NoRequest
  <1>4. QED
    BY <1>1, <1>2, <1>3, AgreeWhileRowsStay

LEMMA AgreeTick ==
  ASSUME OneAtATime, TypeOK, CopiesAgree, Tick
  PROVE  CopiesAgree'
  <1>1. UNCHANGED <<admins, granted>>
    BY DEF Tick
  <1>2. ASSUME NEW s \in Request
        PROVE  /\ req'[s].op = req[s].op /\ req'[s].step = req[s].step
               /\ req'[s].admin = req[s].admin /\ req'[s].copy = req[s].copy
               /\ req'[s].drop = req[s].drop
    BY DEF Tick, TypeOK, RequestState
  <1>3. ASSUME NEW a \in Admin PROVE EntryAgrees(a)'
    <2>1. CASE cache[a].left <= 1
      BY <2>1 DEF Tick, EntryAgrees, NoEntry
    <2>2. CASE ~ (cache[a].left <= 1)
      <3>1. cache'[a].copy = cache[a].copy /\ cache[a].left > 0
        BY <2>2, Numbers DEF Tick, TypeOK, Entry
      <3>2. Agrees(a, cache[a].copy) \/ \E s \in Request : Dropping(s, a)
        BY <3>1 DEF CopiesAgree, EntryAgrees
      <3>3. QED
        BY <1>1, <1>2, <3>1, <3>2 DEF EntryAgrees, Agrees, LetIn, Holds, Dropping
    <2>3. QED
      BY <2>1, <2>2
  <1>4. ASSUME NEW s \in Request PROVE CarriedAgrees(s)'
    BY <1>1, <1>2 DEF CopiesAgree, CarriedAgrees, At, Agrees, LetIn, Holds
  <1>5. QED
    BY <1>3, <1>4 DEF CopiesAgree

LEMMA AgreeInit == Init => CopiesAgree
  BY DEF Init, CopiesAgree, EntryAgrees, CarriedAgrees, NoEntry, NoRequest, At

LEMMA AgreeNext == OneAtATime /\ TypeOK /\ CopiesAgree /\ [Next]_vars => CopiesAgree'
  <1> SUFFICES ASSUME OneAtATime, TypeOK, CopiesAgree, [Next]_vars PROVE CopiesAgree'
    OBVIOUS
  <1>1. CASE UNCHANGED vars
    BY <1>1 DEF vars, CopiesAgree, EntryAgrees, CarriedAgrees, Dropping, Agrees, LetIn, Holds, At
  <1>2. CASE Tick
    BY <1>2, AgreeTick
  <1>3. ASSUME NEW r \in Request,
               \/ \E op \in (Call \cup Fill \cup Change) \ {"updateRole"}, a \in Admin : Submit(r, op, a)
               \/ \E role \in Role : Submit(r, "updateRole", role)
        PROVE  CopiesAgree'
    BY <1>3, AgreeSubmit
  <1>4. ASSUME NEW r \in Request, Handle(r) \/ Fail(r) PROVE CopiesAgree'
    BY <1>4, AgreeStep DEF Fail, OneAtATime
  <1>5. QED
    BY <1>1, <1>2, <1>3, <1>4 DEF Next

ServedByRow ==
    \A r \in Request : Answers(r, "call") /\ req'[r].reply = "ok" =>
        /\ out[req[r].admin] <= req[r].age
        /\ barred[req[r].admin] <= req[r].age

LEMMA ServedOnAgreeingCopies ==
  OneAtATime /\ TypeOK /\ CopiesAreRecent /\ CopiesAgree /\ [Next]_vars => ServedByRow
  <1> SUFFICES ASSUME OneAtATime, TypeOK, CopiesAreRecent, CopiesAgree, [Next]_vars,
                      NEW r \in Request, Answers(r, "call"), req'[r].reply = "ok"
               PROVE  out[req[r].admin] <= req[r].age /\ barred[req[r].admin] <= req[r].age
    BY DEF ServedByRow
  <1> DEFINE a == req[r].admin
  <1>0. req[r].op = "call" /\ req[r].op \in Call
    BY DEF Answers, Call
  <1>1. /\ a \in Admin
        /\ \/ /\ At(r, Call, "get") /\ cache[a].left > 0
              /\ ~ cache[a].copy.suspended /\ cache[a].copy.holds
           \/ /\ At(r, Call \cup Fill, "set")
              /\ ~ req[r].copy.suspended /\ req[r].copy.holds
    BY <1>0, ServedByCopy DEF Answers
  <1>2. LetIn(a) /\ Holds(a)
    <2>1. CASE At(r, Call, "get") /\ cache[a].left > 0 /\ ~ cache[a].copy.suspended /\ cache[a].copy.holds
      <3>1. Agrees(a, cache[a].copy)
        BY <1>1, <2>1, AllAgree DEF At
      <3>2. QED
        BY <2>1, <3>1 DEF Agrees
    <2>2. CASE At(r, Call \cup Fill, "set") /\ ~ req[r].copy.suspended /\ req[r].copy.holds
      BY <2>2 DEF CopiesAgree, CarriedAgrees, Agrees
    <2>3. QED
      BY <1>1, <2>1, <2>2
  <1>3. out[a] = 0 /\ barred[a] = 0
    BY <1>1, <1>2, Parts DEF Counts
  <1>4. QED
    BY <1>1, <1>3, Numbers

\* A call is served only to an admin whom the row lets in, whatever the
\* sequence of requests and expiries, if requests run one at a time and
\* nothing fails.
THEOREM ServedAtOnce == OneAtATime => (Spec => RejectsAtOnce)
  <1> SUFFICES ASSUME OneAtATime PROVE Spec => RejectsAtOnce
    OBVIOUS
  <1>1. Init => CopiesAgree
    BY AgreeInit
  <1>2. TypeOK /\ CopiesAgree /\ [Next]_vars => CopiesAgree'
    BY AgreeNext
  <1>3. Spec => []CopiesAgree
    BY <1>1, <1>2, TypeCorrect, PTL DEF Spec
  <1>4. TypeOK /\ CopiesAreRecent /\ CopiesAgree /\ [Next]_vars => [ServedByRow]_vars
    BY ServedOnAgreeingCopies
  <1>5. Spec => [][ServedByRow]_vars
    BY <1>3, <1>4, TypeCorrect, CopiesRecent, PTL DEF Spec
  <1>6. QED
    BY <1>5 DEF RejectsAtOnce, ServedByRow
=============================================================================
