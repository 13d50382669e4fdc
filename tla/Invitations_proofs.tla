-------------------------- MODULE Invitations_proofs --------------------------
(* The safety of Invitations, for any number of invitations, addresses, roles,
   tokens and requests. *)
EXTENDS Invitations, TLAPS

Issued(i) == invitations[i].status # "none"
Over(i)   == invitations[i].status \notin {"none", "pending"}

\* What an invitation has become, and the account that came of it.
Rows ==
    \A i \in Invitation :
        /\ Issued(i) => invitations[i].email \in Email
        /\ invitations[i].role # None => Issued(i)
        /\ consumed[i] \in {0, 1}
        /\ invitations[i].status = "accepted" => consumed[i] = 1
        /\ consumed[i] = 1 => /\ Issued(i) /\ admins[invitations[i].email].exists
                              /\ admins[invitations[i].email].from = i

Accounts ==
    \A e \in Email : admins[e].exists =>
        /\ admins[e].from \in Invitation
        /\ invitations[admins[e].from].status \in {"accepted", "removed"}

\* No token is known that was not generated.
Mailed == \A t \in mailed : Issued(t[1]) /\ t[2] <= invitations[t[1]].token

\* The transactions of acceptInvitation that have inserted their row.
Writing(r) == req[r].op = "accept" /\ req[r].step \in {"mark", "commit"}

\* The unique index lets one of them have an address.
WritesAlone ==
    \A q, r \in Request : Writing(q) /\ Writing(r) /\ req[q].email = req[r].email => q = r

Steps(r) ==
    /\ req[r].op = "accept" =>
          req[r].step \in {"find", "check", "insert", "mark", "commit", "session", "answered"}
    /\ req[r].op = "preview" => req[r].step \in {"find", "answered"}
    /\ req[r].op = "revoke" => req[r].step \in {"find", "write", "answered"}

\* The invitation that a request is about, and its token.
Named(r) ==
    /\ req[r].op = "invite" => req[r].email \in Email /\ req[r].role \in Role
    /\ req[r].op \in {"resend", "preview", "accept"} => req[r].inv \in Invitation
    /\ req[r].op = "revoke" /\ (req[r].step # "answered" \/ req[r].reply # None) =>
          req[r].inv \in Invitation
    /\ req[r].step = "send" => req[r].inv \in Invitation /\ req[r].token # 0
    /\ req[r].inv \in Invitation =>
          Issued(req[r].inv) /\ req[r].token <= invitations[req[r].inv].token

\* What acceptInvitation has read, and goes by, however long it takes.
Accepting(r) ==
    req[r].op = "accept" =>
        /\ req[r].step \in {"check", "insert", "mark", "commit", "session"} =>
              /\ req[r].email \in Email
              /\ req[r].email = invitations[req[r].inv].email
        /\ req[r].step \in {"mark", "commit"} => ~ admins[req[r].email].exists
        /\ req[r].step = "session" =>
              admins[req[r].email].exists /\ admins[req[r].email].from = req[r].inv

Replying(r) ==
    /\ req[r].step # "answered" => req[r].reply = None
    /\ req[r].op = "revoke" /\ req[r].reply = "ok" => Over(req[r].inv)
    /\ req[r].op = "accept" /\ req[r].reply = "ok" =>
          /\ req[r].email \in Email
          /\ admins[req[r].email].exists /\ admins[req[r].email].from = req[r].inv
    /\ req[r].op = "accept" /\ req[r].dead =>
          /\ Dead(req[r].inv, req[r].token)
          /\ req[r].step \in {"find", "answered"} /\ req[r].reply # "ok"
    /\ req[r].op = "preview" /\ req[r].reply = "bad_request" => Dead(req[r].inv, req[r].token)

RequestInv(r) == Steps(r) /\ Named(r) /\ Accepting(r) /\ Replying(r)

TablesInv == Rows /\ Accounts /\ Mailed /\ OnePendingPerEmail

InvitationsInv ==
    TypeOK /\ TablesInv /\ WritesAlone /\ \A r \in Request : RequestInv(r)

-----------------------------------------------------------------------------
LEMMA InitInv == Init => InvitationsInv
<1> SUFFICES ASSUME Init PROVE InvitationsInv
  OBVIOUS
<1> USE InvitationsAssumption
<1>1. TypeOK
  BY DEF Init, TypeOK, InvitationRow, InvitationStatus, NoInvitation, AdminRow, NoAdmin,
         NoRequest, RequestState
<1>2. TablesInv
  BY DEF Init, TablesInv, Rows, Accounts, Mailed, OnePendingPerEmail, NoInvitation, NoAdmin, Issued
<1>3. WritesAlone
  BY DEF Init, WritesAlone, Writing, NoRequest
<1>4. ASSUME NEW r \in Request PROVE RequestInv(r)
  <2>1. /\ req[r].op = "revoke" /\ req[r].step = "answered" /\ req[r].inv = None
        /\ req[r].reply = None
    BY DEF Init, NoRequest
  <2> QED
    BY <2>1 DEF RequestInv, Steps, Named, Accepting, Replying
<1> QED
  BY <1>1, <1>2, <1>3, <1>4 DEF InvitationsInv

\* Tokens only grow, what is over or dead stays so, and accounts stay.
RowsForward ==
    \A i \in Invitation : Issued(i) =>
        /\ Issued(i)' /\ invitations'[i].email = invitations[i].email
        /\ invitations[i].token <= invitations'[i].token
        /\ Over(i) => Over(i)'
        /\ \A t \in 0 .. MaxToken : t <= invitations[i].token /\ Dead(i, t) => Dead(i, t)'

AccountsForward ==
    \A e \in Email : admins[e].exists => admins'[e].exists /\ admins'[e].from = admins[e].from

NoNewAccount == \A e \in Email : admins'[e].exists => admins[e].exists

Forward == RowsForward /\ AccountsForward

LEMMA Known ==
    ASSUME InvitationsInv, NEW r \in Request
    PROVE  /\ req[r] \in RequestState
           /\ Steps(r) /\ Named(r) /\ Accepting(r) /\ Replying(r)
BY DEF InvitationsInv, TypeOK, RequestInv

\* A step of others leaves what is known of a request.
LEMMA RequestKept ==
    ASSUME InvitationsInv, TypeOK', Forward, NEW q \in Request, req'[q] = req[q],
           Writing(q) => ~ admins'[req[q].email].exists
    PROVE  RequestInv(q)'
<1>1. Steps(q)'
  BY Known DEF Steps
<1>2. Named(q)'
  <2>1. ASSUME req[q].inv \in Invitation
        PROVE  /\ invitations'[req[q].inv].status # "none"
               /\ req[q].token <= invitations'[req[q].inv].token
    <3>1. Issued(req[q].inv) /\ req[q].token <= invitations[req[q].inv].token
      BY <2>1, Known DEF Named
    <3>2. /\ invitations'[req[q].inv].status # "none"
          /\ invitations[req[q].inv].token <= invitations'[req[q].inv].token
      BY <2>1, <3>1 DEF Forward, RowsForward, Issued
    <3>3. /\ req[q].token \in Nat /\ invitations[req[q].inv].token \in Nat
          /\ invitations'[req[q].inv].token \in Nat
      BY <2>1, InvitationsAssumption, TypeOK' DEF InvitationsInv, TypeOK, InvitationRow, RequestState
    <3> QED
      BY <3>1, <3>2, <3>3
  <2> QED
    BY <2>1, Known DEF Named, Issued
<1>3. Accepting(q)'
  BY Known DEF Accepting, Named, Writing, Forward, RowsForward, AccountsForward
<1>4. Replying(q)'
  <2>1. req[q].inv \in Invitation /\ Dead(req[q].inv, req[q].token) =>
            Dead(req[q].inv, req[q].token)'
    BY Known DEF Named, Forward, RowsForward, RequestState, Dead
  <2>2. req[q].inv \in Invitation /\ Over(req[q].inv) =>
            invitations'[req[q].inv].status \notin {"none", "pending"}
    BY Known DEF Named, Forward, RowsForward, Over
  <2>3. Replying(q) /\ Named(q) /\ Steps(q)
    BY Known
  <2>4. req[q].op = "revoke" /\ req[q].reply = "ok" => Over(req[q].inv)'
    BY <2>2, <2>3, InvitationsAssumption DEF Replying, Named, Over
  <2>5. req[q].op = "accept" /\ req[q].reply = "ok" =>
            admins'[req[q].email].exists /\ admins'[req[q].email].from = req[q].inv
    BY <2>3 DEF Replying, Forward, AccountsForward
  <2>6. req[q].op = "accept" /\ req[q].dead => Dead(req[q].inv, req[q].token)'
    BY <2>1, <2>3 DEF Replying, Named
  <2>7. req[q].op = "preview" /\ req[q].reply = "bad_request" => Dead(req[q].inv, req[q].token)'
    BY <2>1, <2>3 DEF Replying, Named
  <2> HIDE DEF Dead, Over
  <2> QED
    BY <2>3, <2>4, <2>5, <2>6, <2>7 DEF Replying
<1> QED
  BY <1>1, <1>2, <1>3, <1>4 DEF RequestInv

\* A step of one request.
LEMMA RequestStep ==
    ASSUME InvitationsInv, NEW r \in Request, NEW new \in RequestState,
           req' = [req EXCEPT ![r] = new], TypeOK', TablesInv', RequestInv(r)', Forward,
           \A q \in Request \ {r} : Writing(q) => ~ admins'[req[q].email].exists,
           Writing(r)' => \/ Writing(r) /\ new.email = req[r].email
                          \/ ~ EmailHeld(new.email)
    PROVE  InvitationsInv'
<1>1. req'[r] = new /\ \A q \in Request \ {r} : req'[q] = req[q]
  BY DEF InvitationsInv, TypeOK
<1>2. ASSUME NEW q \in Request PROVE RequestInv(q)'
  <2>1. CASE q = r
    BY <2>1
  <2>2. CASE q # r
    BY <1>1, <2>2, RequestKept
  <2> QED
    BY <2>1, <2>2
<1>3. WritesAlone'
  <2> SUFFICES ASSUME NEW p \in Request, NEW q \in Request, Writing(p)', Writing(q)',
                      req'[p].email = req'[q].email, p # q
               PROVE  FALSE
    BY DEF WritesAlone
  <2>1. ASSUME NEW o \in Request \ {r}, Writing(o)', req'[o].email = new.email, Writing(r)'
        PROVE  FALSE
    <3>1. Writing(o) /\ req[o].email = new.email
      BY <1>1, <2>1 DEF Writing
    <3>2. EmailHeld(new.email)
      BY <3>1 DEF Writing, EmailHeld
    <3>3. Writing(r) /\ new.email = req[r].email
      BY <2>1, <3>2
    <3> QED
      BY <3>1, <3>3 DEF InvitationsInv, WritesAlone
  <2>2. CASE p = r
    BY <1>1, <2>1, <2>2
  <2>3. CASE q = r
    BY <1>1, <2>1, <2>3
  <2>4. CASE p # r /\ q # r
    BY <1>1, <2>4 DEF InvitationsInv, WritesAlone, Writing
  <2> QED
    BY <2>2, <2>3, <2>4
<1> QED
  BY <1>2, <1>3 DEF InvitationsInv

\* A step of one request that leaves the tables alone.
LEMMA TablesKept ==
    ASSUME InvitationsInv, NEW r \in Request, NEW new \in RequestState,
           req' = [req EXCEPT ![r] = new], UNCHANGED tables, RequestInv(r)',
           Writing(r)' => \/ Writing(r) /\ new.email = req[r].email
                          \/ ~ EmailHeld(new.email)
    PROVE  InvitationsInv'
<1>1. TypeOK'
  BY DEF InvitationsInv, TypeOK, tables
<1>2. TablesInv'
  BY DEF InvitationsInv, TablesInv, Rows, Accounts, Mailed, OnePendingPerEmail, Issued, tables
<1>3. Forward
  BY DEF InvitationsInv, TypeOK, InvitationRow, tables, Forward, RowsForward, AccountsForward,
         Issued, Over, Dead
<1>4. \A q \in Request \ {r} : Writing(q) => ~ admins'[req[q].email].exists
  BY Known DEF Accepting, Writing, tables
<1> QED
  BY <1>1, <1>2, <1>3, <1>4, RequestStep

-----------------------------------------------------------------------------
\* A request that comes in is known by its fields.
LEMMA Comes ==
    ASSUME InvitationsInv, NEW r \in Request, NEW new \in RequestState,
           req' = [req EXCEPT ![r] = new], UNCHANGED tables,
           new.reply = None, new.step \in {"find", "role"},
           new.op = "invite" <=> new.step = "role",
           new.op = "invite" => new.email \in Email /\ new.role \in Role /\ new.inv = None,
           new.op # "invite" => /\ new.inv \in Invitation /\ Issued(new.inv)
                                /\ new.token <= invitations[new.inv].token,
           new.op = "accept" /\ new.dead => Dead(new.inv, new.token)
    PROVE  InvitationsInv'
<1>1. req'[r] = new
  BY DEF InvitationsInv, TypeOK
<1>2. Steps(r)' /\ Accepting(r)' /\ ~ Writing(r)'
  BY <1>1 DEF Steps, Accepting, Writing
<1>3. Named(r)'
  BY <1>1, InvitationsAssumption DEF Named, Issued, tables
<1>4. Replying(r)'
  BY <1>1, InvitationsAssumption DEF Replying, Dead, tables
<1> QED
  BY <1>2, <1>3, <1>4, TablesKept DEF RequestInv

LEMMA NoRequestType == NoRequest \in RequestState
BY InvitationsAssumption DEF NoRequest, RequestState

LEMMA InviteComes ==
    ASSUME InvitationsInv, NEW r \in Request, NEW e \in Email, NEW role \in Role,
           SubmitInvite(r, e, role)
    PROVE  InvitationsInv'
<1> DEFINE new == [NoRequest EXCEPT !.op = "invite", !.step = "role", !.email = e, !.role = role]
<1>1. req' = [req EXCEPT ![r] = new] /\ UNCHANGED tables
  BY DEF SubmitInvite
<1>2. new \in RequestState
  BY NoRequestType DEF RequestState
<1>3. /\ new.reply = None /\ new.step = "role" /\ new.op = "invite"
      /\ new.email = e /\ new.role = role /\ new.inv = None
  BY DEF NoRequest
<1> HIDE DEF new
<1> QED
  BY <1>1, <1>2, <1>3, Comes

LEMMA ByIdComes ==
    ASSUME InvitationsInv, NEW r \in Request, NEW op \in {"resend", "revoke"},
           NEW i \in Invitation, SubmitById(r, op, i)
    PROVE  InvitationsInv'
<1> DEFINE new == [NoRequest EXCEPT !.op = op, !.step = "find", !.inv = i]
<1>1. req' = [req EXCEPT ![r] = new] /\ UNCHANGED tables /\ Issued(i)
  BY DEF SubmitById, Issued
<1>2. new \in RequestState
  BY NoRequestType DEF RequestState
<1>3. /\ new.reply = None /\ new.step = "find" /\ new.op = op /\ new.inv = i /\ new.token = 0
  BY DEF NoRequest
<1>4. new.token <= invitations[i].token
  BY <1>3, InvitationsAssumption DEF InvitationsInv, TypeOK, InvitationRow
<1> HIDE DEF new
<1> QED
  BY <1>1, <1>2, <1>3, <1>4, Comes

LEMMA TokenComes ==
    ASSUME InvitationsInv, NEW r \in Request, NEW op \in {"preview", "accept"},
           NEW t \in mailed, SubmitToken(r, op, t[1], t[2])
    PROVE  InvitationsInv'
<1> DEFINE dead == Dead(t[1], t[2])
           new == [NoRequest EXCEPT !.op = op, !.step = "find", !.inv = t[1],
                                    !.token = t[2], !.dead = dead]
<1>1. req' = [req EXCEPT ![r] = new] /\ UNCHANGED tables
  BY DEF SubmitToken
<1>2. /\ t[1] \in Invitation /\ t[2] \in 0 .. MaxToken
      /\ Issued(t[1]) /\ t[2] <= invitations[t[1]].token
  BY DEF InvitationsInv, TypeOK, TablesInv, Mailed
<1>3. dead \in BOOLEAN
  BY DEF Dead
<1>4. dead => Dead(t[1], t[2])
  OBVIOUS
<1> HIDE DEF dead
<1>5. new \in RequestState
  BY <1>2, <1>3, InvitationsAssumption DEF NoRequest, RequestState
<1>6. /\ new.reply = None /\ new.step = "find" /\ new.op = op
      /\ new.inv = t[1] /\ new.token = t[2]
  BY DEF NoRequest
<1>7. new.dead => dead
  BY <1>3 DEF NoRequest
<1> HIDE DEF new
<1> QED
  BY <1>1, <1>2, <1>4, <1>5, <1>6, <1>7, Comes

-----------------------------------------------------------------------------
\* A request goes on to its next query.
LEMMA GoesOn ==
    ASSUME InvitationsInv, NEW r \in Request,
           NEW step \in {"role", "email", "pending", "insert", "write", "mark", "commit"},
           GoTo(r, step), req[r].step # "answered",
           req[r].op # "preview",
           req[r].op = "revoke" => step = "write",
           req[r].op = "accept" =>
               /\ req[r].step \in {"check", "insert", "mark"}
               /\ step \in {"insert", "mark", "commit"}
               /\ step = "mark" => ~ admins[req[r].email].exists /\ ~ EmailHeld(req[r].email)
               /\ step = "commit" => Writing(r)
    PROVE  InvitationsInv'
<1> DEFINE new == [req[r] EXCEPT !.step = step]
<1>1. req' = [req EXCEPT ![r] = new] /\ UNCHANGED tables
  BY DEF GoTo, InvitationsInv, TypeOK
<1>2. new \in RequestState /\ req'[r] = new
  BY <1>1, Known DEF InvitationsInv, TypeOK, RequestState
<1>3. /\ new.op = req[r].op /\ new.step = step /\ new.inv = req[r].inv
      /\ new.email = req[r].email /\ new.role = req[r].role
      /\ new.token = req[r].token /\ new.reply = req[r].reply
  BY Known DEF RequestState
<1>4. new.dead => req[r].dead
  BY Known DEF RequestState
<1> HIDE DEF new
<1>5. Steps(r)' /\ Named(r)'
  BY <1>1, <1>2, <1>3, Known DEF Steps, Named, Issued, tables
<1>6. Accepting(r)'
  BY <1>1, <1>2, <1>3, Known DEF Accepting, Writing, tables
<1>7. Replying(r)'
  BY <1>1, <1>2, <1>3, <1>4, Known, InvitationsAssumption DEF Replying
<1>8. Writing(r)' => Writing(r) \/ ~ EmailHeld(new.email)
  BY <1>2, <1>3 DEF Writing
<1> QED
  BY <1>1, <1>2, <1>3, <1>5, <1>6, <1>7, <1>8, TablesKept DEF RequestInv

\* A request is answered, and has written nothing with the answer.
LEMMA Refusing ==
    ASSUME InvitationsInv, NEW r \in Request,
           NEW reply \in {"ok", "bad_request", "conflict", "not_found", "error"},
           Refuse(r, reply), req[r].step # "answered",
           reply = "ok" => req[r].op # "revoke",
           reply = "ok" /\ req[r].op = "accept" => req[r].step = "session",
           reply = "bad_request" /\ req[r].op = "preview" => Dead(req[r].inv, req[r].token)
    PROVE  InvitationsInv'
<1> DEFINE new == [req[r] EXCEPT !.step = "answered", !.reply = reply]
<1>1. req' = [req EXCEPT ![r] = new] /\ UNCHANGED tables
  BY DEF Refuse, Done, InvitationsInv, TypeOK
<1>2. new \in RequestState /\ req'[r] = new
  BY <1>1, Known DEF InvitationsInv, TypeOK, RequestState
<1>3. /\ new.op = req[r].op /\ new.step = "answered" /\ new.inv = req[r].inv
      /\ new.email = req[r].email /\ new.role = req[r].role
      /\ new.token = req[r].token /\ new.reply = reply
  BY Known DEF RequestState
<1>4. new.dead => req[r].dead
  BY Known DEF RequestState
<1> HIDE DEF new
<1>5. Steps(r)' /\ Named(r)'
  BY <1>1, <1>2, <1>3, Known DEF Steps, Named, Issued, tables
<1>6. Accepting(r)' /\ ~ Writing(r)'
  BY <1>2, <1>3 DEF Accepting, Writing
<1>7. Replying(r)'
  <2>1. Replying(r) /\ Accepting(r)
    BY Known
  <2>0. \A i \in Invitation : \A t \in 0 .. MaxToken : Dead(i, t)' <=> Dead(i, t)
    BY <1>1 DEF Dead, tables
  <2>5. req[r].op \in {"accept", "preview"} =>
            req[r].inv \in Invitation /\ req[r].token \in 0 .. MaxToken
    BY Known DEF Named, RequestState
  <2>2. req'[r].op = "accept" /\ req'[r].dead =>
            Dead(req[r].inv, req[r].token)' /\ req'[r].reply # "ok"
    BY <1>2, <1>3, <1>4, <2>0, <2>1, <2>5 DEF Replying
  <2>3. req'[r].op = "preview" /\ req'[r].reply = "bad_request" =>
            Dead(req[r].inv, req[r].token)'
    BY <1>2, <1>3, <2>0, <2>5
  <2>4. new.op = "accept" /\ new.reply = "ok" =>
            /\ new.email \in Email
            /\ admins'[new.email].exists /\ admins'[new.email].from = new.inv
    BY <1>1, <1>3, <2>1 DEF Accepting, tables
  <2> QED
    BY <1>2, <1>3, <2>2, <2>3, <2>4 DEF Replying
<1> QED
  BY <1>1, <1>2, <1>5, <1>6, <1>7, TablesKept DEF RequestInv

-----------------------------------------------------------------------------
LEMMA Previewed ==
    ASSUME InvitationsInv, NEW r \in Request, Preview(r) PROVE InvitationsInv'
<1>1. CASE Dead(req[r].inv, req[r].token)
  BY <1>1, Refusing DEF Preview, At
<1>2. CASE ~ Dead(req[r].inv, req[r].token)
  BY <1>2, Refusing DEF Preview, At
<1> QED
  BY <1>1, <1>2

LEMMA RefusedOrOn ==
    ASSUME InvitationsInv, NEW r \in Request, req[r].step # "answered",
           req[r].op \in {"invite", "resend", "revoke"},
           NEW reply \in {"bad_request", "conflict", "not_found", "error"},
           NEW step \in {"role", "email", "pending", "insert", "write"},
           req[r].op = "revoke" => step = "write",
           Refuse(r, reply) \/ GoTo(r, step)
    PROVE  InvitationsInv'
BY GoesOn, Refusing

\* What markAccepted and the others leave of the rows of invitations: a row that
\* keeps its email, and whose status and token go forward.
LEMMA RowChanges ==
    ASSUME InvitationsInv, NEW i \in Invitation, Issued(i), NEW row \in InvitationRow,
           invitations' = [invitations EXCEPT ![i] = row],
           row.status # "none", row.email = invitations[i].email,
           invitations[i].token <= row.token,
           Over(i) => row.status = invitations[i].status,
           row.status = "pending" => invitations[i].status = "pending",
           row.status = "accepted" => invitations[i].status = "accepted",
           invitations[i].expired /\ ~ row.expired => invitations[i].token < row.token
    PROVE  /\ invitations' \in [Invitation -> InvitationRow]
           /\ RowsForward /\ OnePendingPerEmail'
           /\ UNCHANGED <<admins, consumed>> => Rows' /\ Accounts'
<1>1. /\ invitations' \in [Invitation -> InvitationRow] /\ invitations'[i] = row
      /\ \A j \in Invitation : j # i => invitations'[j] = invitations[j]
      /\ invitations \in [Invitation -> InvitationRow]
  BY DEF InvitationsInv, TypeOK
<1>2. RowsForward
  <2> SUFFICES ASSUME NEW j \in Invitation, Issued(j)
               PROVE  /\ invitations'[j].status # "none"
                      /\ invitations'[j].email = invitations[j].email
                      /\ invitations[j].token <= invitations'[j].token
                      /\ Over(j) => invitations'[j].status \notin {"none", "pending"}
                      /\ \A t \in 0 .. MaxToken :
                            t <= invitations[j].token /\ Dead(j, t) => Dead(j, t)'
    BY DEF RowsForward, Issued, Over
  <2>1. CASE j # i
    BY <1>1, <2>1, InvitationsAssumption DEF Issued, Over, Dead, InvitationRow
  <2>2. CASE j = i
    <3>1. \A t \in 0 .. MaxToken :
              t <= invitations[i].token /\ Dead(i, t) =>
                  row.status # "pending" \/ row.token # t \/ row.expired
      BY InvitationsAssumption, <1>1 DEF Dead, InvitationRow, InvitationStatus
    <3>2. Over(i) => row.status \notin {"none", "pending"}
      BY DEF Over
    <3> QED
      BY <1>1, <2>2, <3>1, <3>2 DEF Dead
  <2> QED
    BY <2>1, <2>2
<1>3. OnePendingPerEmail'
  BY <1>1 DEF InvitationsInv, TablesInv, OnePendingPerEmail
<1>4. ASSUME UNCHANGED <<admins, consumed>> PROVE Rows' /\ Accounts'
  BY <1>1, <1>4 DEF InvitationsInv, TablesInv, Rows, Accounts, Issued, Over
<1> QED
  BY <1>1, <1>2, <1>3, <1>4

\* The rows that RequestStep asks about, when no account is made.
LEMMA NoneMade ==
    ASSUME InvitationsInv, NoNewAccount, NEW q \in Request, Writing(q)
    PROVE  ~ admins'[req[q].email].exists
BY Known DEF Accepting, Writing, NoNewAccount

\* A step of no request.
LEMMA RequestsRest ==
    ASSUME InvitationsInv, TypeOK', TablesInv', Forward, NoNewAccount, req' = req
    PROVE  InvitationsInv'
<1>1. \A q \in Request : RequestInv(q)'
  BY RequestKept, NoneMade
<1>2. WritesAlone'
  BY DEF InvitationsInv, WritesAlone, Writing
<1> QED
  BY <1>1, <1>2 DEF InvitationsInv

-----------------------------------------------------------------------------
LEMMA InvitationInserted ==
    ASSUME InvitationsInv, NEW r \in Request, NEW i \in Invitation, InsertInvitation(r, i)
    PROVE  InvitationsInv'
<1>0. /\ req[r].op = "invite" /\ req[r].step = "insert" /\ invitations[i].status = "none"
      /\ req[r].email \in Email /\ req[r].role \in Role
  BY Known DEF InsertInvitation, At, Named
<1>1. CASE req[r].role \notin roles \/ Pending(req[r].email) # {}
  BY <1>0, <1>1, Refusing DEF InsertInvitation
<1>2. CASE ~ (req[r].role \notin roles \/ Pending(req[r].email) # {})
  <2> DEFINE row == [status |-> "pending", email |-> req[r].email, role |-> req[r].role,
                     token |-> 1, expired |-> FALSE]
             new == [req[r] EXCEPT !.step = "send", !.inv = i, !.token = 1]
  <2>1. /\ invitations' = [invitations EXCEPT ![i] = row]
        /\ req' = [req EXCEPT ![r] = new]
        /\ UNCHANGED <<admins, roles, mailed, consumed>>
    BY <1>2 DEF InsertInvitation, InvitationsInv, TypeOK
  <2>2. /\ row \in InvitationRow /\ row.status = "pending" /\ row.email = req[r].email
        /\ row.token = 1
    BY <1>0, InvitationsAssumption DEF InvitationRow, InvitationStatus
  <2> HIDE DEF row
  <2>3. /\ invitations' \in [Invitation -> InvitationRow] /\ invitations'[i] = row
        /\ \A j \in Invitation : j # i => invitations'[j] = invitations[j]
    BY <2>1, <2>2 DEF InvitationsInv, TypeOK
  <2>4. new \in RequestState /\ req'[r] = new
    <3>1. 1 \in 0 .. MaxToken
      BY InvitationsAssumption
    <3>2. new \in RequestState
      BY <3>1, Known DEF RequestState
    <3> QED
      BY <2>1, <3>2 DEF InvitationsInv, TypeOK
  <2>5. /\ new.op = "invite" /\ new.step = "send" /\ new.inv = i /\ new.token = 1
        /\ new.email = req[r].email /\ new.role = req[r].role /\ new.reply = req[r].reply
    BY <1>0, Known DEF RequestState
  <2> HIDE DEF new
  <2>6. TypeOK'
    BY <2>1, <2>3, <2>4 DEF InvitationsInv, TypeOK
  <2>7. Forward /\ NoNewAccount
    BY <1>0, <2>1, <2>3, InvitationsAssumption
       DEF InvitationsInv, TypeOK, InvitationRow, Forward, RowsForward, AccountsForward,
           NoNewAccount, Issued, Over, Dead
  <2>8. Rows' /\ Accounts' /\ Mailed'
    <3>1. Rows'
      BY <1>0, <2>1, <2>2, <2>3 DEF InvitationsInv, TablesInv, Rows, Issued
    <3>2. Accounts'
      BY <1>0, <2>1, <2>2, <2>3 DEF InvitationsInv, TablesInv, Accounts
    <3>3. Mailed'
      BY <1>0, <2>1, <2>2, <2>3 DEF InvitationsInv, TypeOK, TablesInv, Mailed, Issued
    <3> QED
      BY <3>1, <3>2, <3>3
  <2>9. OnePendingPerEmail'
    BY <1>2, <2>2, <2>3 DEF InvitationsInv, TablesInv, OnePendingPerEmail, Pending
  <2>10. RequestInv(r)' /\ ~ Writing(r)'
    <3>1. Steps(r)' /\ Accepting(r)' /\ ~ Writing(r)'
      BY <2>4, <2>5 DEF Steps, Accepting, Writing
    <3>2. Named(r)'
      BY <1>0, <2>2, <2>3, <2>4, <2>5 DEF Named, Issued
    <3>3. Replying(r)'
      BY <1>0, <2>4, <2>5, Known DEF Replying
    <3> QED
      BY <3>1, <3>2, <3>3 DEF RequestInv
  <2> QED
    BY <2>1, <2>4, <2>6, <2>7, <2>8, <2>9, <2>10, NoneMade, RequestStep DEF TablesInv
<1> QED
  BY <1>1, <1>2

LEMMA Sent ==
    ASSUME InvitationsInv, NEW r \in Request, Send(r) PROVE InvitationsInv'
<1> DEFINE new == [req[r] EXCEPT !.step = "answered", !.reply = "ok"]
<1>0. /\ req[r].step = "send" /\ req[r].op \in {"invite", "resend"}
      /\ req[r].inv \in Invitation /\ req[r].token \in 1 .. MaxToken
      /\ Issued(req[r].inv) /\ req[r].token <= invitations[req[r].inv].token
  BY Known, InvitationsAssumption DEF Send, Steps, Named, RequestState
<1>1. /\ req' = [req EXCEPT ![r] = new]
      /\ mailed' \in {mailed, mailed \cup {<<req[r].inv, req[r].token>>}}
      /\ UNCHANGED <<invitations, admins, roles, consumed>>
  BY DEF Send, Done, InvitationsInv, TypeOK
<1>2. new \in RequestState /\ req'[r] = new
  BY <1>1, Known DEF InvitationsInv, TypeOK, RequestState
<1>3. /\ new.op = req[r].op /\ new.step = "answered" /\ new.inv = req[r].inv
      /\ new.email = req[r].email /\ new.role = req[r].role /\ new.token = req[r].token
  BY Known DEF RequestState
<1> HIDE DEF new
<1>4. mailed' \subseteq Invitation \X (1 .. MaxToken) /\ Mailed'
  <2>1. \A t \in mailed' : t \in mailed \/ t = <<req[r].inv, req[r].token>>
    BY <1>1
  <2>2. <<req[r].inv, req[r].token>> \in Invitation \X (1 .. MaxToken)
    BY <1>0
  <2> QED
    BY <1>0, <1>1, <2>1, <2>2 DEF InvitationsInv, TypeOK, TablesInv, Mailed, Issued
<1>5. TypeOK'
  BY <1>1, <1>2, <1>4 DEF InvitationsInv, TypeOK
<1>6. TablesInv' /\ Forward /\ NoNewAccount
  BY <1>1, <1>4, InvitationsAssumption
     DEF InvitationsInv, TypeOK, TablesInv, Rows, Accounts, OnePendingPerEmail, InvitationRow,
         Forward, RowsForward, AccountsForward, NoNewAccount, Issued, Over, Dead
<1>7. Steps(r)' /\ Named(r)' /\ Accepting(r)' /\ Replying(r)' /\ ~ Writing(r)'
  BY <1>0, <1>1, <1>2, <1>3, Known DEF Steps, Named, Accepting, Replying, Writing, Issued
<1> QED
  BY <1>1, <1>2, <1>5, <1>6, <1>7, NoneMade, RequestStep DEF RequestInv

LEMMA Invited ==
    ASSUME InvitationsInv, NEW r \in Request, Invite(r) PROVE InvitationsInv'
<1>1. CASE At(r, "invite", "role")
  BY <1>1, RefusedOrOn, InvitationInserted DEF Invite, At
<1>2. CASE At(r, "invite", "email")
  BY <1>2, RefusedOrOn, InvitationInserted DEF Invite, At
<1>3. CASE At(r, "invite", "pending")
  BY <1>3, RefusedOrOn, InvitationInserted DEF Invite, At
<1>4. CASE \E i \in Invitation : InsertInvitation(r, i)
  BY <1>4, InvitationInserted
<1> QED
  BY <1>1, <1>2, <1>3, <1>4 DEF Invite

LEMMA Found ==
    ASSUME InvitationsInv, NEW r \in Request,
           FindPending(r, "resend", "role") \/ FindPending(r, "revoke", "write")
    PROVE  InvitationsInv'
<1>1. CASE FindPending(r, "resend", "role")
  <2>1. req[r].op = "resend" /\ req[r].step = "find"
    BY <1>1 DEF FindPending, At
  <2> QED
    BY <1>1, <2>1, RefusedOrOn DEF FindPending
<1>2. CASE FindPending(r, "revoke", "write")
  <2>1. req[r].op = "revoke" /\ req[r].step = "find"
    BY <1>2 DEF FindPending, At
  <2> QED
    BY <1>2, <2>1, RefusedOrOn DEF FindPending
<1> QED
  BY <1>1, <1>2

LEMMA Rotated ==
    ASSUME InvitationsInv, NEW r \in Request, Rotate(r) PROVE InvitationsInv'
<1>0. req[r].op = "resend" /\ req[r].step = "write" /\ req[r].inv \in Invitation
  BY Known DEF Rotate, At, Named
<1>1. CASE invitations[req[r].inv].status # "pending"
  BY <1>0, <1>1, Refusing DEF Rotate
<1>2. CASE invitations[req[r].inv].status = "pending"
  <2> DEFINE i == req[r].inv
             row == [invitations[i] EXCEPT !.token = invitations[i].token + 1, !.expired = FALSE]
             new == [req[r] EXCEPT !.step = "send", !.token = invitations[i].token + 1]
  <2>0. invitations[i] \in InvitationRow /\ invitations[i].token < MaxToken
    BY <1>0, <1>2 DEF Rotate, InvitationsInv, TypeOK
  <2>1. /\ invitations' = [invitations EXCEPT ![i] = row]
        /\ req' = [req EXCEPT ![r] = new]
        /\ UNCHANGED <<admins, roles, mailed, consumed>>
    BY <1>0, <1>2, <2>0 DEF Rotate, InvitationsInv, TypeOK, InvitationRow
  <2>2. invitations[i].token + 1 \in 0 .. MaxToken /\ invitations[i].token + 1 # 0
    BY <2>0, InvitationsAssumption DEF InvitationRow
  <2>3. /\ row \in InvitationRow /\ row.status = "pending" /\ row.email = invitations[i].email
        /\ row.token = invitations[i].token + 1
    BY <1>2, <2>0, <2>2 DEF InvitationRow, InvitationStatus
  <2>4. new \in RequestState
    BY <2>2, Known DEF RequestState
  <2>5. req'[r] = new
    BY <2>1 DEF InvitationsInv, TypeOK
  <2>6. /\ new.op = "resend" /\ new.step = "send" /\ new.inv = i
        /\ new.token = invitations[i].token + 1 /\ new.reply = req[r].reply
    BY <1>0, Known DEF RequestState
  <2> HIDE DEF row, new
  <2>7. /\ invitations' \in [Invitation -> InvitationRow] /\ RowsForward
        /\ OnePendingPerEmail' /\ Rows' /\ Accounts'
    <3>1. /\ Issued(i) /\ ~ Over(i) /\ row.status # "none" /\ row.status # "accepted"
          /\ invitations[i].token <= row.token /\ invitations[i].token < row.token
      BY <1>2, <2>0, <2>3, InvitationsAssumption DEF Issued, Over, InvitationRow
    <3>2. UNCHANGED <<admins, consumed>>
      BY <2>1
    <3> HIDE DEF i
    <3> QED
      BY <1>0, <1>2, <2>1, <2>3, <3>1, <3>2, RowChanges DEF i
  <2>8. TypeOK'
    BY <2>1, <2>4, <2>7 DEF InvitationsInv, TypeOK
  <2>9. Forward /\ NoNewAccount
    BY <2>1, <2>7 DEF Forward, AccountsForward, NoNewAccount
  <2>10. Mailed'
    <3> SUFFICES ASSUME NEW t \in mailed
                 PROVE  /\ invitations'[t[1]].status # "none"
                        /\ t[2] <= invitations'[t[1]].token
      BY <2>1 DEF Mailed, Issued
    <3>1. /\ t[1] \in Invitation /\ t[2] \in Nat /\ Issued(t[1])
          /\ t[2] <= invitations[t[1]].token
      BY DEF InvitationsInv, TypeOK, TablesInv, Mailed
    <3>2. /\ invitations'[t[1]].status # "none"
          /\ invitations[t[1]].token <= invitations'[t[1]].token
      BY <2>7, <3>1 DEF RowsForward, Issued
    <3>3. invitations[t[1]].token \in Nat /\ invitations'[t[1]].token \in Nat
      BY <2>7, <3>1, InvitationsAssumption DEF InvitationsInv, TypeOK, InvitationRow
    <3> QED
      BY <3>1, <3>2, <3>3
  <2>11. Steps(r)' /\ Accepting(r)' /\ ~ Writing(r)'
    BY <2>5, <2>6 DEF Steps, Accepting, Writing
  <2>12. Named(r)'
    <3>1. invitations'[i] = row
      BY <1>0, <2>1 DEF InvitationsInv, TypeOK
    <3> QED
      BY <1>0, <2>2, <2>3, <2>5, <2>6, <3>1 DEF Named, Issued
  <2>13. Replying(r)'
    BY <1>0, <2>5, <2>6, Known DEF Replying
  <2> QED
    BY <2>1, <2>4, <2>7, <2>8, <2>9, <2>10, <2>11, <2>12, <2>13, NoneMade, RequestStep
       DEF TablesInv, RequestInv
<1> QED
  BY <1>1, <1>2

\* Tokens that were mailed stay known, whatever becomes of the rows.
LEMMA MailedKept ==
    ASSUME InvitationsInv, RowsForward, mailed' = mailed,
           invitations' \in [Invitation -> InvitationRow]
    PROVE  Mailed'
<1> SUFFICES ASSUME NEW t \in mailed
             PROVE  invitations'[t[1]].status # "none" /\ t[2] <= invitations'[t[1]].token
  BY DEF Mailed, Issued
<1>1. t[1] \in Invitation /\ t[2] \in Nat /\ Issued(t[1]) /\ t[2] <= invitations[t[1]].token
  BY DEF InvitationsInv, TypeOK, TablesInv, Mailed
<1>2. /\ invitations'[t[1]].status # "none"
      /\ invitations[t[1]].token <= invitations'[t[1]].token
  BY <1>1 DEF RowsForward, Issued
<1>3. invitations[t[1]].token \in Nat /\ invitations'[t[1]].token \in Nat
  BY <1>1, InvitationsAssumption DEF InvitationsInv, TypeOK, InvitationRow
<1> QED
  BY <1>1, <1>2, <1>3

LEMMA RowRevoked ==
    ASSUME InvitationsInv, NEW r \in Request, RevokeRow(r) PROVE InvitationsInv'
<1> DEFINE i == req[r].inv
           status == IF invitations[i].status = "pending" THEN "revoked" ELSE invitations[i].status
           row == [invitations[i] EXCEPT !.status = status]
           new == [req[r] EXCEPT !.step = "answered", !.reply = "ok"]
<1>0. /\ req[r].op = "revoke" /\ req[r].step = "write" /\ i \in Invitation /\ Issued(i)
      /\ invitations[i] \in InvitationRow
  BY Known DEF RevokeRow, At, Named, InvitationsInv, TypeOK
<1>1. /\ invitations' = [invitations EXCEPT ![i] = row]
      /\ req' = [req EXCEPT ![r] = new]
      /\ UNCHANGED <<admins, roles, mailed, consumed>>
  BY <1>0 DEF RevokeRow, Done, InvitationsInv, TypeOK, InvitationRow
<1>2. /\ row \in InvitationRow /\ row.status \notin {"none", "pending"}
      /\ Over(i) => row.status = invitations[i].status
      /\ row.status = "accepted" => invitations[i].status = "accepted"
      /\ row.email = invitations[i].email /\ row.token = invitations[i].token
  BY <1>0 DEF InvitationRow, InvitationStatus, Issued, Over
<1>3. row.expired <=> invitations[i].expired
  BY <1>0 DEF InvitationRow
<1>4. new \in RequestState /\ req'[r] = new
  BY <1>1, Known DEF InvitationsInv, TypeOK, RequestState
<1>5. /\ new.op = "revoke" /\ new.step = "answered" /\ new.inv = i
      /\ new.token = req[r].token
  BY <1>0, Known DEF RequestState
<1> HIDE DEF status, row, new
<1>6. /\ invitations' \in [Invitation -> InvitationRow] /\ RowsForward
      /\ OnePendingPerEmail' /\ Rows' /\ Accounts'
  <2>1. invitations[i].token <= row.token
    BY <1>0, <1>2, InvitationsAssumption DEF InvitationRow
  <2>2. UNCHANGED <<admins, consumed>>
    BY <1>1
  <2>3. row.status # "none" /\ row.status # "pending"
    BY <1>2
  <2> HIDE DEF i
  <2>4. i \in Invitation
    BY <1>0
  <2> QED
    BY <1>0, <1>1, <1>2, <1>3, <2>1, <2>2, <2>3, <2>4, RowChanges
<1>7. TypeOK' /\ Mailed'
  BY <1>1, <1>4, <1>6, MailedKept DEF InvitationsInv, TypeOK
<1>8. Forward /\ NoNewAccount
  BY <1>1, <1>6 DEF Forward, AccountsForward, NoNewAccount
<1>9. invitations'[i] = row
  BY <1>0, <1>1 DEF InvitationsInv, TypeOK
<1>10. Steps(r)' /\ Accepting(r)' /\ ~ Writing(r)' /\ Replying(r)'
  BY <1>2, <1>4, <1>5, <1>9 DEF Steps, Accepting, Writing, Replying, Over
<1>11. Named(r)'
  BY <1>0, <1>2, <1>4, <1>5, <1>9, Known DEF Named, Issued
<1> QED
  BY <1>1, <1>4, <1>6, <1>7, <1>8, <1>10, <1>11, NoneMade, RequestStep DEF TablesInv, RequestInv

LEMMA Resent ==
    ASSUME InvitationsInv, NEW r \in Request, Resend(r) PROVE InvitationsInv'
<1>1. CASE FindPending(r, "resend", "role")
  BY <1>1, Found
<1>2. CASE At(r, "resend", "role") /\ ~ Rotate(r) /\ ~ FindPending(r, "resend", "role")
  BY <1>2, RefusedOrOn DEF Resend, At
<1>3. CASE Rotate(r)
  BY <1>3, Rotated
<1> QED
  BY <1>1, <1>2, <1>3 DEF Resend

-----------------------------------------------------------------------------
LEMMA InvitationRead ==
    ASSUME InvitationsInv, NEW r \in Request, FindByToken(r) PROVE InvitationsInv'
<1>0. req[r].op = "accept" /\ req[r].step = "find"
  BY DEF FindByToken, At
<1>1. CASE Dead(req[r].inv, req[r].token)
  BY <1>0, <1>1, Refusing DEF FindByToken
<1>2. CASE ~ Dead(req[r].inv, req[r].token)
  <2> DEFINE i == req[r].inv
             new == [req[r] EXCEPT !.step = "check", !.email = invitations[i].email,
                                   !.role = invitations[i].role]
  <2>1. req' = [req EXCEPT ![r] = new] /\ UNCHANGED tables
    BY <1>2 DEF FindByToken, InvitationsInv, TypeOK
  <2>2. /\ i \in Invitation /\ Issued(i) /\ invitations[i] \in InvitationRow
        /\ invitations[i].email \in Email
    BY <1>0, Known DEF Named, InvitationsInv, TypeOK, TablesInv, Rows
  <2>3. new \in RequestState /\ req'[r] = new
    <3>1. invitations[i].email \in Email \cup {None} /\ invitations[i].role \in Role \cup {None}
      BY <2>2 DEF InvitationRow
    <3>2. new \in RequestState
      BY <3>1, Known DEF RequestState
    <3> QED
      BY <2>1, <3>2 DEF InvitationsInv, TypeOK
  <2>4. /\ new.op = "accept" /\ new.step = "check" /\ new.inv = i
        /\ new.email = invitations[i].email /\ new.token = req[r].token
        /\ new.reply = req[r].reply
    BY <1>0, Known DEF RequestState
  <2>5. ~ new.dead
    BY <1>0, <1>2, Known DEF RequestState, Replying
  <2> HIDE DEF new
  <2>6. Steps(r)' /\ Accepting(r)' /\ ~ Writing(r)'
    BY <2>1, <2>2, <2>3, <2>4 DEF Steps, Accepting, Writing, tables
  <2>7. Named(r)'
    BY <1>0, <2>1, <2>3, <2>4, Known DEF Named, Issued, tables
  <2>8. Replying(r)'
    BY <1>0, <2>3, <2>4, <2>5, Known, InvitationsAssumption DEF Replying
  <2> QED
    BY <2>1, <2>3, <2>6, <2>7, <2>8, TablesKept DEF RequestInv
<1> QED
  BY <1>1, <1>2

LEMMA AcceptGoesOn ==
    ASSUME InvitationsInv, NEW r \in Request, CheckEmail(r) \/ CreateAdmin(r) \/ MarkAccepted(r)
    PROVE  InvitationsInv'
<1>1. CASE CheckEmail(r)
  <2>1. req[r].op = "accept" /\ req[r].step = "check"
    BY <1>1 DEF CheckEmail, At
  <2> QED
    BY <1>1, <2>1, GoesOn, Refusing DEF CheckEmail
<1>2. CASE CreateAdmin(r)
  <2>1. req[r].op = "accept" /\ req[r].step = "insert" /\ ~ EmailHeld(req[r].email)
    BY <1>2 DEF CreateAdmin, At
  <2>2. Refuse(r, "error") \/ (GoTo(r, "mark") /\ ~ admins[req[r].email].exists)
    BY <1>2 DEF CreateAdmin
  <2> QED
    BY <2>1, <2>2, GoesOn, Refusing
<1>3. CASE MarkAccepted(r)
  <2>1. req[r].op = "accept" /\ req[r].step = "mark" /\ Writing(r) /\ GoTo(r, "commit")
    BY <1>3 DEF MarkAccepted, At, Writing
  <2> QED
    BY <2>1, GoesOn
<1> QED
  BY <1>1, <1>2, <1>3

LEMMA SessionOpened ==
    ASSUME InvitationsInv, NEW r \in Request, OpenSession(r) PROVE InvitationsInv'
<1>1. req[r].op = "accept" /\ req[r].step = "session"
  BY DEF OpenSession, At
<1>2. Refuse(r, "ok") \/ Refuse(r, "error")
  BY DEF OpenSession
<1> QED
  BY <1>1, <1>2, Refusing

\* The commit: the account is the first of its address and of its invitation.
LEMMA AcceptCommitted ==
    ASSUME InvitationsInv, NEW r \in Request, CommitAccept(r) PROVE InvitationsInv'
<1> DEFINE i == req[r].inv
           e == req[r].email
           row == [invitations[i] EXCEPT !.status = "accepted"]
           account == [exists |-> TRUE, role |-> req[r].role, deleted |-> FALSE, from |-> i]
<1>0. /\ req[r].op = "accept" /\ req[r].step = "commit" /\ i \in Invitation /\ e \in Email
      /\ Issued(i) /\ invitations[i] \in InvitationRow /\ e = invitations[i].email
      /\ ~ admins[e].exists /\ Writing(r) /\ req[r].reply = None
  BY Known DEF CommitAccept, At, Named, Accepting, Replying, Writing, InvitationsInv, TypeOK
<1>1. /\ invitations' = [invitations EXCEPT ![i] = row]
      /\ admins' = [admins EXCEPT ![e] = account]
      /\ consumed' = [consumed EXCEPT ![i] = consumed[i] + 1]
      /\ UNCHANGED <<roles, mailed>>
  BY <1>0 DEF CommitAccept, Publish, InvitationsInv, TypeOK, InvitationRow
<1>2. consumed[i] = 0
  BY <1>0 DEF InvitationsInv, TablesInv, Rows
<1>3. /\ row \in InvitationRow /\ row.status = "accepted" /\ row.email = e
      /\ row.token = invitations[i].token
  BY <1>0 DEF InvitationRow, InvitationStatus
<1>4. account \in AdminRow /\ account.exists /\ account.from = i
  BY <1>0, Known DEF AdminRow, RequestState
<1> HIDE DEF row, account
<1>5. /\ invitations' \in [Invitation -> InvitationRow] /\ invitations'[i] = row
      /\ \A j \in Invitation : j # i => invitations'[j] = invitations[j]
      /\ admins' \in [Email -> AdminRow] /\ admins'[e] = account
      /\ \A f \in Email : f # e => admins'[f] = admins[f]
      /\ consumed' \in [Invitation -> Nat] /\ consumed'[i] = 1
      /\ \A j \in Invitation : j # i => consumed'[j] = consumed[j]
  BY <1>0, <1>1, <1>2, <1>3, <1>4 DEF InvitationsInv, TypeOK
<1>6. RowsForward
  <2> SUFFICES ASSUME NEW j \in Invitation, Issued(j)
               PROVE  /\ invitations'[j].status # "none"
                      /\ invitations'[j].email = invitations[j].email
                      /\ invitations[j].token <= invitations'[j].token
                      /\ Over(j) => invitations'[j].status \notin {"none", "pending"}
                      /\ \A t \in 0 .. MaxToken :
                            t <= invitations[j].token /\ Dead(j, t) => Dead(j, t)'
    BY DEF RowsForward, Issued, Over
  <2>1. invitations[j].token \in Nat
    BY InvitationsAssumption DEF InvitationsInv, TypeOK, InvitationRow
  <2>2. CASE j # i
    BY <1>5, <2>1, <2>2 DEF Issued, Over, Dead
  <2>3. CASE j = i
    BY <1>0, <1>3, <1>5, <2>1, <2>3 DEF Dead
  <2> QED
    BY <2>2, <2>3
<1>7. AccountsForward
  BY <1>0, <1>5 DEF AccountsForward
<1>8. Rows'
  <2> SUFFICES ASSUME NEW j \in Invitation
               PROVE  /\ invitations'[j].status # "none" => invitations'[j].email \in Email
                      /\ invitations'[j].role # None => invitations'[j].status # "none"
                      /\ consumed'[j] \in {0, 1}
                      /\ invitations'[j].status = "accepted" => consumed'[j] = 1
                      /\ consumed'[j] = 1 =>
                            /\ invitations'[j].status # "none"
                            /\ admins'[invitations'[j].email].exists
                            /\ admins'[invitations'[j].email].from = j
    BY DEF Rows, Issued
  <2>1. CASE j = i
    BY <1>0, <1>3, <1>4, <1>5, <2>1
  <2>2. CASE j # i
    <3>1. consumed[j] = 1 => invitations[j].email \in Email /\ invitations[j].email # e
      BY <1>0 DEF InvitationsInv, TablesInv, Rows
    <3> QED
      BY <1>5, <2>2, <3>1 DEF InvitationsInv, TablesInv, Rows, Issued
  <2> QED
    BY <2>1, <2>2
<1>9. Accounts'
  <2> SUFFICES ASSUME NEW f \in Email, admins'[f].exists
               PROVE  /\ admins'[f].from \in Invitation
                      /\ invitations'[admins'[f].from].status \in {"accepted", "removed"}
    BY DEF Accounts
  <2>1. CASE f = e
    BY <1>0, <1>3, <1>4, <1>5, <2>1
  <2>2. CASE f # e
    <3>1. admins[f].from \in Invitation
          /\ invitations[admins[f].from].status \in {"accepted", "removed"}
      BY <1>5, <2>2 DEF InvitationsInv, TablesInv, Accounts
    <3> QED
      BY <1>3, <1>5, <2>2, <3>1
  <2> QED
    BY <2>1, <2>2
<1>10. OnePendingPerEmail'
  BY <1>3, <1>5 DEF InvitationsInv, TablesInv, OnePendingPerEmail
<1>11. Mailed'
  BY <1>1, <1>5, <1>6, MailedKept
<1>12. \A q \in Request \ {r} : Writing(q) => ~ admins'[req[q].email].exists
  BY <1>0, <1>5, Known DEF InvitationsInv, WritesAlone, Accepting, Writing
<1>13. ASSUME NEW new \in RequestState, req' = [req EXCEPT ![r] = new],
              new.op = "accept", new.inv = i, new.email = e, new.token = req[r].token,
              ~ new.dead,
              \/ new.step = "session" /\ new.reply = None
              \/ new.step = "answered" /\ new.reply = "error"
       PROVE  InvitationsInv'
  <2>1. req'[r] = new
    BY <1>13 DEF InvitationsInv, TypeOK
  <2>2. TypeOK'
    BY <1>1, <1>5, <1>13 DEF InvitationsInv, TypeOK
  <2>3. Steps(r)' /\ Accepting(r)' /\ ~ Writing(r)'
    BY <1>0, <1>3, <1>4, <1>5, <1>13, <2>1 DEF Steps, Accepting, Writing
  <2>4. Named(r)'
    BY <1>0, <1>3, <1>5, <1>13, <2>1, Known DEF Named, Issued
  <2>5. Replying(r)'
    BY <1>13, <2>1, InvitationsAssumption DEF Replying
  <2> QED
    BY <1>6, <1>7, <1>8, <1>9, <1>10, <1>11, <1>12, <1>13, <2>2, <2>3, <2>4, <2>5, RequestStep
       DEF TablesInv, Forward, RequestInv
<1>14. ~ (req[r].dead)
  BY <1>0, Known DEF Replying
<1>15. CASE req' = [req EXCEPT ![r].step = "session"]
  <2> DEFINE new == [req[r] EXCEPT !.step = "session"]
  <2>1. new \in RequestState /\ req' = [req EXCEPT ![r] = new]
    BY <1>15, Known DEF RequestState, InvitationsInv, TypeOK
  <2>2. /\ new.op = "accept" /\ new.inv = i /\ new.email = e /\ new.token = req[r].token
        /\ new.step = "session" /\ new.reply = None
    BY <1>0, Known DEF RequestState
  <2>3. ~ new.dead
    BY <1>14, Known DEF RequestState
  <2> HIDE DEF new
  <2> QED
    BY <1>13, <2>1, <2>2, <2>3
<1>16. CASE Done(r, "error")
  <2> DEFINE new == [req[r] EXCEPT !.step = "answered", !.reply = "error"]
  <2>1. new \in RequestState /\ req' = [req EXCEPT ![r] = new]
    BY <1>16, Known DEF Done, RequestState, InvitationsInv, TypeOK
  <2>2. /\ new.op = "accept" /\ new.inv = i /\ new.email = e /\ new.token = req[r].token
        /\ new.step = "answered" /\ new.reply = "error"
    BY <1>0, Known DEF RequestState
  <2>3. ~ new.dead
    BY <1>14, Known DEF RequestState
  <2> HIDE DEF new
  <2> QED
    BY <1>13, <2>1, <2>2, <2>3
<1> QED
  BY <1>15, <1>16 DEF CommitAccept

-----------------------------------------------------------------------------
LEMMA Expires ==
    ASSUME InvitationsInv, NEW i \in Invitation, Expire(i) PROVE InvitationsInv'
<1> DEFINE row == [invitations[i] EXCEPT !.expired = TRUE]
<1>1. /\ invitations' = [invitations EXCEPT ![i] = row] /\ invitations[i].status = "pending"
      /\ UNCHANGED <<admins, roles, mailed, req, consumed>> /\ invitations[i] \in InvitationRow
  BY DEF Expire, InvitationsInv, TypeOK
<1>2. /\ row \in InvitationRow /\ row.status = "pending" /\ row.email = invitations[i].email
      /\ row.token = invitations[i].token
  BY <1>1 DEF InvitationRow
<1>3. row.expired
  BY <1>1 DEF InvitationRow
<1> HIDE DEF row
<1>4. invitations[i].token <= row.token /\ Issued(i) /\ ~ Over(i)
  BY <1>1, <1>2, InvitationsAssumption DEF InvitationRow, Issued, Over
<1>5. UNCHANGED <<admins, consumed>>
  BY <1>1
<1>6. row.status # "none" /\ row.status # "accepted"
  BY <1>2
<1>7. /\ invitations' \in [Invitation -> InvitationRow] /\ RowsForward
      /\ OnePendingPerEmail' /\ Rows' /\ Accounts'
  BY <1>1, <1>2, <1>3, <1>4, <1>5, <1>6, RowChanges
<1>8. TypeOK' /\ Mailed' /\ AccountsForward /\ NoNewAccount
  BY <1>1, <1>7, MailedKept DEF InvitationsInv, TypeOK, AccountsForward, NoNewAccount
<1> QED
  BY <1>1, <1>7, <1>8, RequestsRest DEF TablesInv, Forward

\* What others do to an account leaves where it came from.
LEMMA AccountChanges ==
    ASSUME InvitationsInv, NEW e \in Email, NEW account \in AdminRow,
           admins[e].exists, account.exists, account.from = admins[e].from,
           admins' = [admins EXCEPT ![e] = account],
           UNCHANGED <<invitations, roles, mailed, req, consumed>>
    PROVE  InvitationsInv'
<1>1. /\ admins' \in [Email -> AdminRow] /\ admins'[e] = account
      /\ \A f \in Email : f # e => admins'[f] = admins[f]
  BY DEF InvitationsInv, TypeOK
<1>2. TypeOK'
  BY <1>1 DEF InvitationsInv, TypeOK
<1>3. \A f \in Email : admins'[f].from = admins[f].from /\ (admins'[f].exists <=> admins[f].exists)
  BY <1>1
<1>4. TablesInv'
  BY <1>3 DEF InvitationsInv, TypeOK, TablesInv, Rows, Accounts, Mailed, OnePendingPerEmail, Issued
<1>5. RowsForward
  BY InvitationsAssumption
     DEF InvitationsInv, TypeOK, InvitationRow, RowsForward, Issued, Over, Dead
<1>6. AccountsForward /\ NoNewAccount
  BY <1>3 DEF AccountsForward, NoNewAccount
<1> QED
  BY <1>2, <1>4, <1>5, <1>6, RequestsRest DEF Forward

LEMMA AccountDeleted ==
    ASSUME InvitationsInv, NEW e \in Email, SoftDelete(e) PROVE InvitationsInv'
<1> DEFINE account == [admins[e] EXCEPT !.deleted = TRUE]
<1>1. /\ admins[e].exists /\ admins[e] \in AdminRow
      /\ admins' = [admins EXCEPT ![e] = account]
      /\ UNCHANGED <<invitations, roles, mailed, req, consumed>>
  BY DEF SoftDelete, ActiveAdmin, InvitationsInv, TypeOK
<1>2. account \in AdminRow /\ account.exists /\ account.from = admins[e].from
  BY <1>1 DEF AdminRow
<1> HIDE DEF account
<1> QED
  BY <1>1, <1>2, AccountChanges

LEMMA AccountGetsRole ==
    ASSUME InvitationsInv, NEW e \in Email, NEW role \in Role, ChangeRole(e, role)
    PROVE  InvitationsInv'
<1> DEFINE account == [admins[e] EXCEPT !.role = role]
<1>1. /\ admins[e].exists /\ admins[e] \in AdminRow
      /\ admins' = [admins EXCEPT ![e] = account]
      /\ UNCHANGED <<invitations, roles, mailed, req, consumed>>
  BY DEF ChangeRole, InvitationsInv, TypeOK
<1>2. account \in AdminRow /\ account.exists /\ account.from = admins[e].from
  BY <1>1 DEF AdminRow
<1> HIDE DEF account
<1> QED
  BY <1>1, <1>2, AccountChanges

\* The CASCADE: invitations of the role go, accepted ones too.
LEMMA RoleRemoved ==
    ASSUME InvitationsInv, NEW role \in Role, RemoveRole(role) PROVE InvitationsInv'
<1>1. /\ invitations' = [i \in Invitation |->
              IF invitations[i].role = role THEN [invitations[i] EXCEPT !.status = "removed"]
                                            ELSE invitations[i]]
      /\ roles' \subseteq Role /\ UNCHANGED <<admins, mailed, req, consumed>>
      /\ \A i \in Invitation : invitations[i] \in InvitationRow
  BY DEF RemoveRole, InvitationsInv, TypeOK
<1>2. ASSUME NEW i \in Invitation
      PROVE  /\ invitations'[i] \in InvitationRow
             /\ invitations'[i].email = invitations[i].email
             /\ invitations'[i].token = invitations[i].token
             /\ \/ invitations'[i].status = "removed" /\ invitations[i].role = role
                \/ invitations'[i] = invitations[i]
  BY <1>1 DEF InvitationRow, InvitationStatus
<1>3. ASSUME NEW i \in Invitation, invitations[i].role = role PROVE Issued(i)
  BY <1>3, InvitationsAssumption DEF InvitationsInv, TablesInv, Rows
<1>4. TypeOK'
  BY <1>1, <1>2 DEF InvitationsInv, TypeOK
<1>5. RowsForward
  BY <1>1, <1>2, InvitationsAssumption DEF RowsForward, Issued, Over, Dead, InvitationRow
<1>6. Rows' /\ Accounts' /\ OnePendingPerEmail'
  BY <1>1, <1>2, <1>3 DEF InvitationsInv, TablesInv, Rows, Accounts, OnePendingPerEmail, Issued
<1>7. Mailed' /\ AccountsForward /\ NoNewAccount
  BY <1>1, <1>4, <1>5, MailedKept DEF TypeOK, AccountsForward, NoNewAccount
<1> QED
  BY <1>1, <1>4, <1>5, <1>6, <1>7, RequestsRest DEF TablesInv, Forward

LEMMA NextInv == InvitationsInv /\ [Next]_vars => InvitationsInv'
<1> SUFFICES ASSUME InvitationsInv, [Next]_vars PROVE InvitationsInv'
  OBVIOUS
<1>1. ASSUME NEW r \in Request, NEW e \in Email, NEW role \in Role, SubmitInvite(r, e, role)
      PROVE  InvitationsInv'
  BY <1>1, InviteComes
<1>2. ASSUME NEW r \in Request, NEW op \in {"resend", "revoke"}, NEW i \in Invitation,
             SubmitById(r, op, i)
      PROVE  InvitationsInv'
  BY <1>2, ByIdComes
<1>3. ASSUME NEW r \in Request, NEW t \in mailed, NEW op \in {"preview", "accept"},
             SubmitToken(r, op, t[1], t[2])
      PROVE  InvitationsInv'
  BY <1>3, TokenComes
<1>4. ASSUME NEW r \in Request, Handle(r) PROVE InvitationsInv'
  <2>1. CASE Invite(r) \/ Resend(r) \/ Send(r) \/ Preview(r)
    BY <2>1, Invited, Resent, Sent, Previewed
  <2>2. CASE Revoke(r)
    BY <2>2, Found, RowRevoked DEF Revoke
  <2>3. CASE Accept(r)
    BY <2>3, InvitationRead, AcceptGoesOn, AcceptCommitted, SessionOpened DEF Accept
  <2> QED
    BY <1>4, <2>1, <2>2, <2>3 DEF Handle
<1>5. ASSUME NEW r \in Request, Fail(r) PROVE InvitationsInv'
  BY <1>5, Refusing DEF Fail
<1>6. ASSUME NEW i \in Invitation, Expire(i) PROVE InvitationsInv'
  BY <1>6, Expires
<1>7. ASSUME NEW e \in Email, SoftDelete(e) PROVE InvitationsInv'
  BY <1>7, AccountDeleted
<1>8. ASSUME NEW e \in Email, NEW role \in Role, ChangeRole(e, role) PROVE InvitationsInv'
  BY <1>8, AccountGetsRole
<1>9. ASSUME NEW role \in Role, RemoveRole(role) PROVE InvitationsInv'
  BY <1>9, RoleRemoved
<1>10. CASE UNCHANGED vars
  <2>1. TypeOK' /\ TablesInv'
    BY <1>10 DEF vars, InvitationsInv, TypeOK, TablesInv, Rows, Accounts, Mailed,
                 OnePendingPerEmail, Issued
  <2>2. Forward /\ NoNewAccount
    BY <1>10, InvitationsAssumption
       DEF vars, InvitationsInv, TypeOK, InvitationRow, Forward, RowsForward, AccountsForward,
           NoNewAccount, Issued, Over, Dead
  <2> QED
    BY <1>10, <2>1, <2>2, RequestsRest DEF vars
<1> QED
  BY <1>1, <1>2, <1>3, <1>4, <1>5, <1>6, <1>7, <1>8, <1>9, <1>10 DEF Next

-----------------------------------------------------------------------------
\* The invariant of invitations and of the requests about them.
THEOREM InvitationsInvariant == Spec => []InvitationsInv
<1> QED
  BY InitInv, NextInv, PTL DEF Spec

\* The state is well formed, for any number of tokens per invitation.
THEOREM InvitationsTypeCorrect == Spec => []TypeOK
<1>1. InvitationsInv => TypeOK
  BY DEF InvitationsInv
<1> QED
  BY <1>1, InvitationsInvariant, PTL

\* The partial unique index of migration 005 holds against every interleaving of
\* invites, resends and accepts.
THEOREM OnePending == Spec => []OnePendingPerEmail
<1>1. InvitationsInv => OnePendingPerEmail
  BY DEF InvitationsInv, TablesInv
<1> QED
  BY <1>1, InvitationsInvariant, PTL

\* An invitation makes one account, although markAccepted does not look at the
\* status: the UNIQUE email is what stops the second.
THEOREM UsedOnce == Spec => []SingleUse
<1>1. InvitationsInv => SingleUse
  <2> SUFFICES ASSUME InvitationsInv, NEW i \in Invitation PROVE consumed[i] <= 1
    BY DEF SingleUse
  <2>1. consumed[i] \in {0, 1}
    BY DEF InvitationsInv, TablesInv, Rows
  <2>2. CASE consumed[i] = 0
    BY <2>2
  <2>3. CASE consumed[i] = 1
    BY <2>3
  <2> QED
    BY <2>1, <2>2, <2>3
<1> QED
  BY <1>1, InvitationsInvariant, PTL

\* Account and invitation commit together (authService.acceptInvitation).
THEOREM BothCommit == Spec => []BothOrNeither
<1>1. InvitationsInv => BothOrNeither
  BY DEF InvitationsInv, TablesInv, Rows, Accounts, BothOrNeither
<1> QED
  BY <1>1, InvitationsInvariant, PTL

\* A dead link stays dead, through resends and new invitations.
THEOREM DeadLinksRefused == Spec => []DeadTokenRefused
<1>1. InvitationsInv => DeadTokenRefused
  BY Known DEF DeadTokenRefused, Replying
<1> QED
  BY <1>1, InvitationsInvariant, PTL

\* What revokes and accepts were told stays so.
THEOREM RepliesKept == Spec => []RepliesHold
<1>1. InvitationsInv => RepliesHold
  BY Known DEF RepliesHold, Replying, Over
<1> QED
  BY <1>1, InvitationsInvariant, PTL

=============================================================================
