---------------------------- MODULE Sessions_proofs --------------------------
(* The safety of Sessions, for any number of tokens and requests. *)
EXTENDS Sessions, TLAPS

Issued(t) == tokens[t].status # "none"
Spent(t)  == tokens[t].status \in {"revoked", "expired"}

\* A token is exchanged when it is spent.
Lineage == \A u \in Token : tokens[u].parent # None => Spent(tokens[u].parent)

Holding == \A t \in held : Issued(t)

\* Steps at which a request has passed the look at the account.
PastAccount(r) ==
    \/ req[r].op = "refresh" /\ req[r].step \in {"revoke", "issue", "stamp"}
    \/ req[r].op = "login" /\ req[r].step \in {"issue", "stamp"}

\* The token that a request came with was issued; one that was dead is spent.
Presented(r) ==
    /\ req[r].op = "refresh" => req[r].token \in Token
    /\ req[r].op = "logout" /\ (req[r].step # "answered" \/ req[r].reply # None) =>
          req[r].token \in Token
    /\ req[r].token \in Token => Issued(req[r].token)
    /\ req[r].op = "refresh" /\ req[r].dead => Spent(req[r].token)

\* What a request has read, and what it may issue in exchange.
Reading(r) ==
    /\ req[r].op = "login" /\ req[r].step \in {"account", "issue"} => req[r].read = None
    /\ req[r].op = "login" => req[r].step \notin {"find", "revoke"}
    /\ req[r].op = "logout" => req[r].step \in {"find", "revoke", "answered"}
    /\ req[r].op # "login" /\ req[r].step \in {"account", "revoke"} =>
          req[r].read = req[r].token
    /\ req[r].op = "refresh" /\ req[r].step = "issue" =>
          req[r].read \in Token /\ Spent(req[r].read)
    /\ req[r].step = "stamp" => req[r].read \in Token /\ Issued(req[r].read)

Replying(r) ==
    /\ req[r].step # "answered" => req[r].reply = None
    /\ req[r].op = "refresh" /\ req[r].dead =>
          req[r].step \in {"find", "answered"} /\ req[r].reply # "ok"
    /\ req[r].op = "logout" /\ req[r].reply = "ok" => req[r].swallowed \/ Spent(req[r].token)

Barring(r) ==
    /\ req[r].step # "answered" /\ req[r].barred => account # "active"
    /\ PastAccount(r) => ~ req[r].barred
    /\ req[r].op # "logout" /\ req[r].reply = "ok" => ~ req[r].barred

RequestInv(r) == Presented(r) /\ Reading(r) /\ Replying(r) /\ Barring(r)

SessionsInv == TypeOK /\ Lineage /\ Holding /\ \A r \in Request : RequestInv(r)

-----------------------------------------------------------------------------
LEMMA InitInv == Init => SessionsInv
<1> SUFFICES ASSUME Init PROVE SessionsInv
  OBVIOUS
<1>1. TypeOK
  BY DEF Init, TypeOK, TokenRow, TokenStatus, NoRequest, RequestState
<1>2. Lineage /\ Holding
  BY SessionsAssumption DEF Init, Lineage, Holding
<1>3. ASSUME NEW r \in Request PROVE RequestInv(r)
  BY SessionsAssumption
     DEF Init, NoRequest, RequestInv, Presented, Reading, Replying, Barring, PastAccount
<1> QED
  BY <1>1, <1>2, <1>3 DEF SessionsInv

\* A spent token stays spent, and one that was issued stays issued.
Forward == \A t \in Token : (Issued(t) => Issued(t)') /\ (Spent(t) => Spent(t)')

\* A step that leaves a request and the account alone leaves what is known of it.
LEMMA RequestKept ==
    ASSUME SessionsInv, Forward, account' = account,
           NEW q \in Request, req'[q] = req[q]
    PROVE  RequestInv(q)'
<1>1. Presented(q)'
  BY DEF SessionsInv, RequestInv, Presented, Forward
<1>2. Reading(q)'
  BY DEF SessionsInv, RequestInv, Reading, Forward
<1>3. Replying(q)'
  BY SessionsAssumption DEF SessionsInv, RequestInv, Replying, Presented, Forward
<1>4. Barring(q)'
  BY DEF SessionsInv, RequestInv, Barring, PastAccount
<1> QED
  BY <1>1, <1>2, <1>3, <1>4 DEF RequestInv

\* A step of one request.
LEMMA RequestStep ==
    ASSUME SessionsInv, NEW r \in Request, NEW new \in RequestState,
           req' = [req EXCEPT ![r] = new], account' = account,
           tokens' \in [Token -> TokenRow], held' \subseteq Token,
           Forward, Lineage', Holding', RequestInv(r)'
    PROVE  SessionsInv'
<1>1. TypeOK'
  BY DEF SessionsInv, TypeOK
<1>2. ASSUME NEW q \in Request PROVE RequestInv(q)'
  <2>1. CASE q = r
    BY <2>1
  <2>2. CASE q # r
    BY <2>2, RequestKept DEF SessionsInv, TypeOK
  <2> QED
    BY <2>1, <2>2
<1> QED
  BY <1>1, <1>2 DEF SessionsInv

\* A step of one request that leaves the tables alone.
LEMMA TablesKept ==
    ASSUME SessionsInv, NEW r \in Request, NEW new \in RequestState,
           req' = [req EXCEPT ![r] = new], UNCHANGED tables, RequestInv(r)'
    PROVE  SessionsInv'
<1>1. Forward /\ Lineage' /\ Holding'
  BY DEF SessionsInv, tables, Forward, Lineage, Holding, Issued, Spent
<1> QED
  BY <1>1, RequestStep DEF SessionsInv, TypeOK, tables

-----------------------------------------------------------------------------
\* What the invariant says of the request that moves.
LEMMA Known ==
    ASSUME SessionsInv, NEW r \in Request
    PROVE  /\ req[r] \in RequestState /\ RequestInv(r)
           /\ Presented(r) /\ Reading(r) /\ Replying(r) /\ Barring(r)
BY DEF SessionsInv, TypeOK, RequestInv

\* A request that is answered before it has passed the account, other than ok,
\* or a logout that has found its token dead or has met an error.
LEMMA Answering ==
    ASSUME SessionsInv, NEW r \in Request, NEW new \in RequestState,
           req[r].step # "answered",
           new.op = req[r].op, new.token = req[r].token, new.dead = req[r].dead,
           new.barred = req[r].barred, new.step = "answered",
           \/ new.reply \in {"unauthorized", "forbidden", "error"}
           \/ new.op = "logout" /\ new.reply = "ok" /\ (new.swallowed \/ Spent(req[r].token)),
           req' = [req EXCEPT ![r] = new], UNCHANGED tables
    PROVE  SessionsInv'
<1>1. req'[r] = new
  BY DEF SessionsInv, TypeOK
<1>2. Presented(r)'
  BY <1>1, Known DEF Presented, Issued, Spent, tables
<1>3. Reading(r)'
  BY <1>1 DEF Reading, RequestState
<1>4. Replying(r)'
  BY <1>1, Known DEF Replying, Spent, tables, RequestState
<1>5. Barring(r)'
  BY <1>1, Known DEF Barring, PastAccount, RequestState
<1> QED
  BY <1>2, <1>3, <1>4, <1>5, TablesKept DEF RequestInv

\* A request that comes in.
LEMMA LoginComes ==
    ASSUME SessionsInv, NEW r \in Request, SubmitLogin(r) PROVE SessionsInv'
<1> DEFINE new == [NoRequest EXCEPT !.op = "login", !.step = "account",
                                    !.barred = account # "active"]
<1>1. new \in RequestState /\ req'[r] = new /\ req' = [req EXCEPT ![r] = new]
  BY DEF SubmitLogin, SessionsInv, TypeOK, NoRequest, RequestState
<1>2. account' = account /\ UNCHANGED tables
  BY DEF SubmitLogin, tables
<1>3. /\ new.op = "login" /\ new.step = "account" /\ new.token = None
      /\ new.read = None /\ new.reply = None
  BY DEF NoRequest
<1>4. new.barred => account # "active"
  BY DEF NoRequest
<1> HIDE DEF new
<1>5. Presented(r)' /\ Reading(r)' /\ Replying(r)'
  BY <1>1, <1>3, SessionsAssumption DEF Presented, Reading, Replying
<1>6. Barring(r)'
  BY <1>1, <1>2, <1>3, <1>4, SessionsAssumption DEF Barring, PastAccount
<1> QED
  BY <1>1, <1>2, <1>5, <1>6, TablesKept DEF RequestInv

LEMMA TokenComes ==
    ASSUME SessionsInv, NEW r \in Request, NEW op \in {"refresh", "logout"}, NEW t \in Token,
           SubmitToken(r, op, t)
    PROVE  SessionsInv'
<1> DEFINE new == [NoRequest EXCEPT !.op = op, !.step = "find", !.token = t,
                       !.dead = tokens[t].status # "active", !.barred = account # "active"]
<1>1. req' = [req EXCEPT ![r] = new] /\ new \in RequestState /\ req'[r] = new
  BY DEF SubmitToken, SessionsInv, TypeOK, NoRequest, RequestState
<1>2. account' = account /\ UNCHANGED tables /\ t \in held
  BY DEF SubmitToken, tables
<1>3. Issued(t) /\ (tokens[t].status # "active" => Spent(t))
  BY <1>2 DEF SessionsInv, Holding, Issued, Spent, TypeOK, TokenRow, TokenStatus
<1>4. /\ new.op = op /\ new.step = "find" /\ new.token = t
      /\ new.read = None /\ new.reply = None
  BY DEF NoRequest
<1>5. /\ new.dead => tokens[t].status # "active"
      /\ new.barred => account # "active"
  BY DEF NoRequest
<1> HIDE DEF new
<1>6. Presented(r)'
  BY <1>1, <1>2, <1>3, <1>4, <1>5 DEF Presented, Issued, Spent, tables
<1>7. Reading(r)' /\ Replying(r)'
  BY <1>1, <1>4, SessionsAssumption DEF Reading, Replying
<1>8. Barring(r)'
  BY <1>1, <1>2, <1>4, <1>5, SessionsAssumption DEF Barring, PastAccount
<1> QED
  BY <1>1, <1>2, <1>6, <1>7, <1>8, TablesKept DEF RequestInv

LEMMA TokenFound ==
    ASSUME SessionsInv, NEW r \in Request, FindToken(r) PROVE SessionsInv'
<1>0. /\ req[r].op \in {"refresh", "logout"} /\ req[r].step = "find"
      /\ req[r].token \in Token /\ Issued(req[r].token)
  BY Known DEF FindToken, At, Presented
<1>1. CASE tokens[req[r].token].status = "active"
  <2> DEFINE new == [req[r] EXCEPT !.read = req[r].token,
                         !.step = IF req[r].op = "refresh" THEN "account" ELSE "revoke"]
  <2>1. req' = [req EXCEPT ![r] = new] /\ UNCHANGED tables
    BY <1>1 DEF FindToken, SessionsInv, TypeOK
  <2>2. new \in RequestState /\ req'[r] = new
    BY <1>0, <2>1, Known DEF SessionsInv, TypeOK, RequestState
  <2>3. ~ (req[r].op = "refresh" /\ req[r].dead)
    BY <1>1, Known DEF Presented, Spent
  <2>4. Presented(r)'
    BY <1>0, <2>1, <2>2, <2>3 DEF Presented, Issued, tables
  <2>5. Reading(r)' /\ Replying(r)'
    BY <1>0, <2>1, <2>2, <2>3, Known, SessionsAssumption DEF Reading, Replying
  <2>6. Barring(r)'
    BY <1>0, <2>1, <2>2, Known, SessionsAssumption DEF Barring, PastAccount, Replying, tables
  <2> QED
    BY <2>1, <2>2, <2>4, <2>5, <2>6, TablesKept DEF RequestInv
<1>2. CASE tokens[req[r].token].status # "active"
  <2> DEFINE new == [req[r] EXCEPT !.step = "answered", !.read = None,
                         !.reply = IF req[r].op = "refresh" THEN "unauthorized" ELSE "ok"]
  <2>1. req' = [req EXCEPT ![r] = new] /\ UNCHANGED tables
    BY <1>2 DEF FindToken, Refuse, Done, SessionsInv, TypeOK
  <2>2. new \in RequestState
    BY Known DEF RequestState
  <2>3. Spent(req[r].token)
    BY <1>0, <1>2 DEF Issued, Spent, SessionsInv, TypeOK, TokenRow, TokenStatus
  <2> QED
    BY <1>0, <2>1, <2>2, <2>3, Known, Answering DEF RequestState
<1> QED
  BY <1>1, <1>2

LEMMA AccountLoaded ==
    ASSUME SessionsInv, NEW r \in Request, LoadAccount(r) PROVE SessionsInv'
<1>0. req[r].op \in {"login", "refresh"} /\ req[r].step = "account"
  BY DEF LoadAccount, At
<1>1. CASE account = "active"
  <2> DEFINE new == [req[r] EXCEPT !.step = IF req[r].op = "login" THEN "issue" ELSE "revoke"]
  <2>1. req' = [req EXCEPT ![r] = new] /\ UNCHANGED tables
    BY <1>1 DEF LoadAccount, GoTo, SessionsInv, TypeOK
  <2>2. new \in RequestState /\ req'[r] = new
    BY <2>1, Known DEF SessionsInv, TypeOK, RequestState
  <2>3. Presented(r)'
    BY <1>0, <2>1, <2>2, Known DEF Presented, Issued, Spent, tables
  <2>4. Reading(r)' /\ Replying(r)'
    BY <1>0, <2>1, <2>2, Known, SessionsAssumption DEF Reading, Replying
  <2>5. Barring(r)'
    BY <1>0, <1>1, <2>1, <2>2, Known, SessionsAssumption DEF Barring, PastAccount, Replying, tables
  <2> QED
    BY <2>1, <2>2, <2>3, <2>4, <2>5, TablesKept DEF RequestInv
<1>2. CASE account # "active"
  <2> DEFINE code == IF account = "suspended" /\ req[r].op = "login" THEN "forbidden"
                     ELSE "unauthorized"
             new == [req[r] EXCEPT !.step = "answered", !.reply = code, !.read = None]
  <2>1. req' = [req EXCEPT ![r] = new] /\ UNCHANGED tables
    BY <1>2 DEF LoadAccount, Refuse, Done, SessionsInv, TypeOK
  <2>2. code \in {"unauthorized", "forbidden"}
    OBVIOUS
  <2> HIDE DEF code
  <2>3. new \in RequestState
    BY <2>2, Known DEF RequestState
  <2>4. /\ new.op = req[r].op /\ new.token = req[r].token /\ new.dead = req[r].dead
        /\ new.barred = req[r].barred /\ new.step = "answered" /\ new.reply = code
    BY Known DEF RequestState
  <2> HIDE DEF new
  <2> QED
    BY <1>0, <2>1, <2>2, <2>3, <2>4, Answering
<1> QED
  BY <1>1, <1>2

\* A token that is spent, with the request that spends it going on.
LEMMA TokenRevoked ==
    ASSUME SessionsInv, NEW r \in Request, Revoke(r) PROVE SessionsInv'
<1>0. /\ req[r].op \in {"refresh", "logout"} /\ req[r].step = "revoke"
      /\ req[r].read = req[r].token /\ req[r].token \in Token /\ Issued(req[r].token)
  BY Known DEF Revoke, At, Presented, Reading
<1>1. /\ account' = account /\ held' = held
      /\ tokens' = [tokens EXCEPT ![req[r].token].status = IF @ = "active" THEN "revoked" ELSE @]
  BY <1>0 DEF Revoke
<1>2. tokens' \in [Token -> TokenRow]
  BY <1>0, <1>1 DEF SessionsInv, TypeOK, TokenRow, TokenStatus
<1>3. \A t \in Token : tokens'[t].parent = tokens[t].parent
  BY <1>0, <1>1 DEF SessionsInv, TypeOK, TokenRow
<1>4. Forward /\ Spent(req[r].token)'
  <2>1. ASSUME NEW t \in Token, t # req[r].token PROVE tokens'[t] = tokens[t]
    BY <1>0, <1>1, <2>1 DEF SessionsInv, TypeOK
  <2>2. tokens[req[r].token] \in TokenRow
    BY <1>0 DEF SessionsInv, TypeOK
  <2>3. tokens'[req[r].token].status =
            IF tokens[req[r].token].status = "active" THEN "revoked" ELSE tokens[req[r].token].status
    BY <1>0, <1>1, <2>2 DEF SessionsInv, TypeOK, TokenRow
  <2>4. tokens'[req[r].token].status \in {"revoked", "expired"}
    BY <1>0, <2>2, <2>3 DEF Issued, TokenRow, TokenStatus
  <2>5. req'[r].token = req[r].token
    BY Known DEF Revoke, Done, SessionsInv, TypeOK, RequestState
  <2>6. Spent(req[r].token)'
    BY <2>4, <2>5 DEF Spent
  <2> QED
    BY <2>1, <2>4, <2>6 DEF Forward, Issued, Spent
<1>5. Lineage' /\ Holding'
  <2>1. \A t \in Token : tokens[t].parent \in Token \cup {None}
    BY DEF SessionsInv, TypeOK, TokenRow
  <2> QED
    BY <1>1, <1>3, <1>4, <2>1 DEF SessionsInv, TypeOK, Lineage, Holding, Forward
<1>6. CASE req[r].op = "refresh"
  <2> DEFINE new == [req[r] EXCEPT !.step = "issue"]
  <2>1. req' = [req EXCEPT ![r] = new]
    BY <1>6 DEF Revoke, SessionsInv, TypeOK
  <2>2. new \in RequestState /\ req'[r] = new
    BY <2>1, Known DEF SessionsInv, TypeOK, RequestState
  <2>3. /\ new.op = "refresh" /\ new.step = "issue" /\ new.token = req[r].token
        /\ new.read = req[r].token /\ new.reply = None
    BY <1>0, <1>6, Known DEF RequestState, Replying
  <2>4. (new.dead => req[r].dead) /\ (new.barred => req[r].barred)
    BY Known DEF RequestState
  <2> HIDE DEF new
  <2>5. ~ new.dead /\ ~ new.barred
    BY <1>0, <1>6, <2>4, Known DEF Replying, Barring, PastAccount
  <2>6. Presented(r)' /\ Reading(r)'
    BY <1>0, <1>4, <2>2, <2>3, <2>5 DEF Presented, Reading, Forward, Issued, Spent
  <2>7. Replying(r)' /\ Barring(r)'
    BY <2>2, <2>3, <2>5, SessionsAssumption DEF Replying, Barring, PastAccount
  <2> QED
    BY <1>1, <1>2, <1>4, <1>5, <2>1, <2>2, <2>6, <2>7, RequestStep
       DEF SessionsInv, TypeOK, RequestInv
<1>7. CASE req[r].op = "logout"
  <2> DEFINE new == [req[r] EXCEPT !.step = "answered", !.reply = "ok", !.read = None]
  <2>1. req' = [req EXCEPT ![r] = new]
    BY <1>7 DEF Revoke, Done, SessionsInv, TypeOK
  <2>2. new \in RequestState /\ req'[r] = new
    BY <2>1, Known DEF SessionsInv, TypeOK, RequestState
  <2>3. new.op = "logout" /\ new.step = "answered" /\ new.token = req[r].token
    BY <1>7, Known DEF RequestState
  <2> HIDE DEF new
  <2>4. Presented(r)' /\ Reading(r)'
    BY <1>0, <1>4, <2>2, <2>3 DEF Presented, Reading, Forward, Issued
  <2>5. Replying(r)' /\ Barring(r)'
    BY <1>4, <2>2, <2>3 DEF Replying, Barring, PastAccount, Spent
  <2> QED
    BY <1>1, <1>2, <1>4, <1>5, <2>1, <2>2, <2>4, <2>5, RequestStep
       DEF SessionsInv, TypeOK, RequestInv
<1> QED
  BY <1>0, <1>6, <1>7

LEMMA TokenIssued ==
    ASSUME SessionsInv, NEW r \in Request, NEW t \in Token, Issue(r, t) PROVE SessionsInv'
<1> DEFINE row == [status |-> "active", parent |-> req[r].read]
           new == [req[r] EXCEPT !.read = t, !.step = "stamp"]
<1>0. /\ req[r].op \in {"login", "refresh"} /\ req[r].step = "issue"
      /\ tokens[t].status = "none" /\ account' = account /\ held' = held
      /\ tokens' = [tokens EXCEPT ![t] = row]
  BY DEF Issue, At
<1>1. req[r].read \in Token \cup {None} /\ (req[r].read # None => Spent(req[r].read))
  BY <1>0, Known DEF Reading
<1>2. row \in TokenRow /\ row.status = "active" /\ row.parent = req[r].read
  BY <1>1 DEF TokenRow, TokenStatus
<1> HIDE DEF row
<1>3. tokens' \in [Token -> TokenRow] /\ tokens'[t] = row
      /\ \A u \in Token : u # t => tokens'[u] = tokens[u]
  BY <1>0, <1>2 DEF SessionsInv, TypeOK
<1>4. Forward
  BY <1>0, <1>2, <1>3 DEF Forward, Issued, Spent
<1>5. Holding'
  BY <1>0, <1>4 DEF SessionsInv, TypeOK, Holding, Forward
<1>6. Lineage'
  <2> SUFFICES ASSUME NEW u \in Token, tokens'[u].parent # None
               PROVE  tokens'[tokens'[u].parent].status \in {"revoked", "expired"}
    BY DEF Lineage, Spent
  <2>1. CASE u = t
    <3>1. tokens'[u].parent = req[r].read /\ req[r].read \in Token /\ Spent(req[r].read)
      BY <1>1, <1>2, <1>3, <2>1
    <3> QED
      BY <1>0, <1>3, <3>1 DEF Spent
  <2>2. CASE u # t
    <3>1. tokens'[u] = tokens[u] /\ tokens[u].parent \in Token /\ Spent(tokens[u].parent)
      BY <1>3, <2>2 DEF SessionsInv, TypeOK, TokenRow, Lineage
    <3> QED
      BY <1>0, <1>3, <3>1 DEF Spent
  <2> QED
    BY <2>1, <2>2
<1>7. req' = [req EXCEPT ![r] = new]
  BY DEF Issue, SessionsInv, TypeOK
<1>8. new \in RequestState /\ req'[r] = new
  BY <1>7, Known DEF SessionsInv, TypeOK, RequestState
<1>9. /\ new.op = req[r].op /\ new.step = "stamp" /\ new.token = req[r].token
      /\ new.read = t /\ new.reply = None
  BY <1>0, Known DEF RequestState, Replying
<1>10. (new.dead => req[r].dead) /\ (new.barred => req[r].barred)
  BY Known DEF RequestState
<1> HIDE DEF new
<1>11. ~ (new.op = "refresh" /\ new.dead) /\ ~ new.barred
  BY <1>0, <1>9, <1>10, Known DEF Replying, Barring, PastAccount
<1>12. Issued(t)'
  BY <1>2, <1>3 DEF Issued
<1>13. Presented(r)'
  BY <1>0, <1>4, <1>8, <1>9, <1>11, Known DEF Presented, Forward
<1>14. Reading(r)' 
  BY <1>0, <1>8, <1>9, <1>12 DEF Reading, Issued
<1>15. Replying(r)' /\ Barring(r)'
  BY <1>0, <1>8, <1>9, <1>11, SessionsAssumption DEF Replying, Barring, PastAccount
<1> QED
  BY <1>0, <1>3, <1>4, <1>5, <1>6, <1>7, <1>8, <1>13, <1>14, <1>15, RequestStep
     DEF SessionsInv, TypeOK, RequestInv

LEMMA TokenReplied ==
    ASSUME SessionsInv, NEW r \in Request, Stamp(r) PROVE SessionsInv'
<1> DEFINE new == [req[r] EXCEPT !.step = "answered", !.reply = "ok", !.read = None]
<1>0. /\ req[r].op \in {"login", "refresh"} /\ req[r].step = "stamp"
      /\ req[r].read \in Token /\ Issued(req[r].read)
      /\ account' = account /\ tokens' = tokens /\ held' = held \cup {req[r].read}
  BY Known DEF Stamp, At, Reading
<1>1. req' = [req EXCEPT ![r] = new]
  BY DEF Stamp, Done, SessionsInv, TypeOK
<1>2. new \in RequestState /\ req'[r] = new
  BY <1>1, Known DEF SessionsInv, TypeOK, RequestState
<1>3. /\ new.op = req[r].op /\ new.step = "answered" /\ new.token = req[r].token
  BY Known DEF RequestState
<1>4. (new.dead => req[r].dead) /\ (new.barred => req[r].barred)
  BY Known DEF RequestState
<1> HIDE DEF new
<1>5. ~ (new.op = "refresh" /\ new.dead) /\ ~ new.barred
  BY <1>0, <1>3, <1>4, Known DEF Replying, Barring, PastAccount
<1>6. Forward /\ Lineage' /\ Holding' /\ held' \subseteq Token
  BY <1>0 DEF SessionsInv, TypeOK, Forward, Lineage, Holding, Issued, Spent
<1>7. Presented(r)'
  BY <1>0, <1>2, <1>3, <1>5, <1>6, Known DEF Presented, Forward
<1>8. Reading(r)' /\ Replying(r)' /\ Barring(r)'
  BY <1>0, <1>2, <1>3, <1>5 DEF Reading, Replying, Barring, PastAccount
<1> QED
  BY <1>0, <1>1, <1>2, <1>6, <1>7, <1>8, RequestStep DEF SessionsInv, TypeOK, RequestInv

LEMMA RequestFails ==
    ASSUME SessionsInv, NEW r \in Request, Fail(r) PROVE SessionsInv'
<1> DEFINE swallows == req[r].op = "logout"
           new == [req[r] EXCEPT !.step = "answered", !.read = None,
                       !.reply = IF req[r].op = "logout" THEN "ok" ELSE "error",
                       !.swallowed = swallows]
<1>1. /\ req[r].step # "answered" /\ UNCHANGED tables
      /\ req' = [req EXCEPT ![r] = new]
  BY DEF Fail, SessionsInv, TypeOK
<1>2. swallows \in BOOLEAN
  OBVIOUS
<1>3. new \in RequestState
  BY <1>2, Known DEF RequestState
<1>4. /\ new.op = req[r].op /\ new.token = req[r].token /\ new.dead = req[r].dead
      /\ new.barred = req[r].barred /\ new.step = "answered"
      /\ new.reply = IF req[r].op = "logout" THEN "ok" ELSE "error"
  BY Known DEF RequestState
<1>5. req[r].op = "logout" => new.swallowed
  BY Known DEF RequestState
<1> HIDE DEF new
<1> QED
  BY <1>1, <1>3, <1>4, <1>5, Answering

-----------------------------------------------------------------------------
\* Every request in flight learns of the account's new status.
LEMMA AccountChanged ==
    ASSUME SessionsInv, NEW status \in {"active", "suspended", "deleted"},
           ChangeAccount(status)
    PROVE  SessionsInv'
<1>1. tokens' = tokens /\ held' = held /\ account' = status
  BY DEF ChangeAccount
<1>2. Lineage' /\ Holding'
  BY <1>1 DEF SessionsInv, Lineage, Holding, Issued, Spent
<1>3. ASSUME NEW q \in Request PROVE req'[q] \in RequestState /\ RequestInv(q)'
  <2>1. CASE req[q].step = "answered"
    <3>1. req'[q] = req[q]
      BY <2>1 DEF ChangeAccount
    <3>2. Presented(q)' /\ Reading(q)' /\ Replying(q)' /\ Barring(q)'
      BY <1>1, <2>1, <3>1, Known
         DEF Presented, Reading, Replying, Barring, PastAccount, Issued, Spent
    <3> QED
      BY <3>1, <3>2, Known DEF RequestInv
  <2>2. CASE req[q].step # "answered"
    <3> DEFINE bars == req[q].barred /\ status # "active"
               new == [req[q] EXCEPT !.barred = bars]
    <3>1. req'[q] = new
      BY <2>2 DEF ChangeAccount
    <3>2. bars \in BOOLEAN
      OBVIOUS
    <3>3. bars => req[q].barred /\ status # "active"
      OBVIOUS
    <3> HIDE DEF bars
    <3>4. new \in RequestState
      BY <3>2, Known DEF RequestState
    <3>5. /\ new.op = req[q].op /\ new.step = req[q].step /\ new.token = req[q].token
          /\ new.read = req[q].read /\ new.reply = req[q].reply
      BY Known DEF RequestState
    <3>6. (new.dead <=> req[q].dead) /\ (new.barred => bars)
      BY Known DEF RequestState
    <3> HIDE DEF new
    <3>7. Presented(q)' /\ Reading(q)'
      BY <1>1, <3>1, <3>5, <3>6, Known DEF Presented, Reading, Issued, Spent
    <3>8. Replying(q)'
      BY <1>1, <2>2, <3>1, <3>5, <3>6, Known, SessionsAssumption DEF Replying
    <3>9. Barring(q)'
      BY <1>1, <2>2, <3>1, <3>3, <3>5, <3>6, Known, SessionsAssumption
         DEF Barring, PastAccount, Replying
    <3> QED
      BY <3>1, <3>4, <3>7, <3>8, <3>9 DEF RequestInv
  <2> QED
    BY <2>1, <2>2
<1>4. TypeOK'
  <2>1. req' = [q \in Request |-> req'[q]]
    BY DEF ChangeAccount
  <2> QED
    BY <1>1, <1>3, <2>1 DEF SessionsInv, TypeOK
<1> QED
  BY <1>2, <1>3, <1>4 DEF SessionsInv

LEMMA TokenExpires ==
    ASSUME SessionsInv, NEW t \in Token, Expire(t) PROVE SessionsInv'
<1>1. /\ tokens[t].status = "active" /\ account' = account /\ held' = held /\ req' = req
      /\ tokens' = [tokens EXCEPT ![t].status = "expired"]
  BY DEF Expire
<1>2. tokens' \in [Token -> TokenRow]
  BY <1>1 DEF SessionsInv, TypeOK, TokenRow, TokenStatus
<1>3. /\ tokens'[t].status = "expired" /\ tokens'[t].parent = tokens[t].parent
      /\ \A u \in Token : u # t => tokens'[u] = tokens[u]
  BY <1>1 DEF SessionsInv, TypeOK, TokenRow
<1>4. Forward
  BY <1>1, <1>3 DEF Forward, Issued, Spent
<1>5. Lineage' /\ Holding'
  <2>1. \A u \in Token : tokens'[u].parent = tokens[u].parent
                         /\ tokens[u].parent \in Token \cup {None}
    BY <1>3 DEF SessionsInv, TypeOK, TokenRow
  <2> QED
    BY <1>1, <1>4, <2>1 DEF SessionsInv, TypeOK, Lineage, Holding, Forward
<1>6. \A q \in Request : RequestInv(q)'
  BY <1>1, <1>4, RequestKept
<1> QED
  BY <1>1, <1>2, <1>5, <1>6 DEF SessionsInv, TypeOK

LEMMA NextInv == SessionsInv /\ [Next]_vars => SessionsInv'
<1> SUFFICES ASSUME SessionsInv, [Next]_vars PROVE SessionsInv'
  OBVIOUS
<1>1. ASSUME NEW r \in Request, SubmitLogin(r) PROVE SessionsInv'
  BY <1>1, LoginComes
<1>2. ASSUME NEW r \in Request, NEW op \in {"refresh", "logout"}, NEW t \in Token,
             SubmitToken(r, op, t)
      PROVE  SessionsInv'
  BY <1>2, TokenComes
<1>3. ASSUME NEW r \in Request, Handle(r) PROVE SessionsInv'
  BY <1>3, TokenFound, AccountLoaded, TokenRevoked, TokenReplied, TokenIssued DEF Handle
<1>4. ASSUME NEW r \in Request, Fail(r) PROVE SessionsInv'
  BY <1>4, RequestFails
<1>5. ASSUME NEW status \in {"active", "suspended", "deleted"}, ChangeAccount(status)
      PROVE  SessionsInv'
  BY <1>5, AccountChanged
<1>6. ASSUME NEW t \in Token, Expire(t) PROVE SessionsInv'
  BY <1>6, TokenExpires
<1>7. CASE UNCHANGED vars
  <2>1. Forward
    BY <1>7 DEF vars, Forward, Issued, Spent
  <2>2. \A q \in Request : RequestInv(q)'
    BY <1>7, <2>1, RequestKept DEF vars
  <2> QED
    BY <1>7, <2>2 DEF vars, SessionsInv, TypeOK, Lineage, Holding, Issued, Spent
<1> QED
  BY <1>1, <1>2, <1>3, <1>4, <1>5, <1>6, <1>7 DEF Next

-----------------------------------------------------------------------------
\* The invariant holds in every state: a token is exchanged for another only
\* when it is spent (issueTokenPair comes after revoke), and each request goes
\* on only with what its earlier queries allow.
THEOREM SessionsInvariant == Spec => []SessionsInv
<1> QED
  BY InitInv, NextInv, PTL DEF Spec

\* The state of the refresh tokens and of the requests is well formed.
THEOREM SessionsTypeCorrect == Spec => []TypeOK
<1>1. SessionsInv => TypeOK
  BY DEF SessionsInv
<1> QED
  BY <1>1, SessionsInvariant, PTL

\* A refresh and a logout spend the token, whatever fails and whatever else
\* presents it at the same time (authService.refresh, logout).
THEOREM TokensAreSpent == Spec => []SpentTokensDie
<1>1. SessionsInv => SpentTokensDie
  <2> SUFFICES ASSUME SessionsInv PROVE SpentTokensDie
    OBVIOUS
  <2>1. OldDiesFirst
    <3> SUFFICES ASSUME NEW t \in Token, NEW u \in Token, tokens[u].parent = t
                 PROVE  tokens[t].status # "active"
      BY DEF OldDiesFirst, Children
    <3> QED
      BY SessionsAssumption DEF SessionsInv, Lineage, Spent
  <2>2. LogoutEnds
    <3> SUFFICES ASSUME NEW r \in Request, req[r].op = "logout", req[r].reply = "ok",
                        tokens[req[r].token].status = "active"
                 PROVE  req[r].swallowed
      BY DEF LogoutEnds
    <3> QED
      BY Known DEF Replying, Spent
  <2> QED
    BY <2>1, <2>2 DEF SpentTokensDie
<1> QED
  BY <1>1, SessionsInvariant, PTL

\* A token that was dead when the refresh came in is worth nothing, for good
\* (RefreshTokenModel.findActiveByRawToken).
THEOREM DeadTokensRefused == Spec => []DeadTokenRefused
<1>1. SessionsInv => DeadTokenRefused
  BY Known DEF DeadTokenRefused, Replying
<1> QED
  BY <1>1, SessionsInvariant, PTL

\* No tokens for an account that was barred for all of the request
\* (authService.login, refresh).
THEOREM BarredAccountsGetNothing == Spec => []BarredGetsNothing
<1>1. SessionsInv => BarredGetsNothing
  BY Known DEF BarredGetsNothing, Barring
<1> QED
  BY <1>1, SessionsInvariant, PTL

=============================================================================
