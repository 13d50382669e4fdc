---------------------------- MODULE Invitations ----------------------------
(***************************************************************************)
(* The life of an admin invitation: adminService.invite, resendInvitation  *)
(* and revokeInvitation, whose queries commit one by one, and              *)
(* authService.acceptInvitation, which reads the invitation on its own,    *)
(* hashes the password, and then writes in a transaction.  The page that   *)
(* accepts shows a preview first.                                          *)
(***************************************************************************)
EXTENDS Naturals

CONSTANTS
    Invitation,  \* rows of admin_invitations
    Email,       \* addresses, in lower case
    Role,        \* rows of admin_roles at the start
    Request,     \* slots for requests in flight; an answered slot is used again
    MaxToken,    \* bound: the tokens that one invitation may have had
    None

ASSUME InvitationsAssumption ==
    /\ MaxToken \in Nat \ {0}
    /\ None \notin {"ok", "bad_request"} \cup Email \cup Role \cup Invitation

VARIABLES
    invitations,  \* invitations[i]: the row, its token by number
    admins,       \* admins[e]: the row with that email, if any
    roles,        \* the rows of admin_roles
    mailed,       \* tokens that reached a mailbox
    req,          \* req[r]: a request, and what it has read
    consumed      \* history: how often each invitation has created an admin

vars == <<invitations, admins, roles, mailed, req, consumed>>
tables == <<invitations, admins, roles, mailed, consumed>>

InvitationStatus == {"none", "pending", "accepted", "expired", "revoked", "removed"}

NoInvitation == [status |-> "none", email |-> None, role |-> None, token |-> 0, expired |-> FALSE]
InvitationRow == [status : InvitationStatus, email : Email \cup {None},
                  role : Role \cup {None}, token : 0 .. MaxToken, expired : BOOLEAN]

\* from is the invitation whose accepted_as names the row.
NoAdmin == [exists |-> FALSE, role |-> None, deleted |-> FALSE, from |-> None]
AdminRow == [exists : BOOLEAN, role : Role \cup {None}, deleted : BOOLEAN,
             from : Invitation \cup {None}]

\* token is the one presented (preview, accept) or generated (invite, resend); dead says
\* that the token was of no use when the request came in.
NoRequest == [op |-> "revoke", step |-> "answered", inv |-> None, email |-> None,
              role |-> None, token |-> 0, dead |-> FALSE, reply |-> None]
RequestState == [op : {"invite", "resend", "revoke", "preview", "accept"},
                 step : {"find", "role", "email", "pending", "insert", "write",
                         "send", "check", "mark", "commit", "session", "answered"},
                 inv : Invitation \cup {None}, email : Email \cup {None},
                 role : Role \cup {None}, token : 0 .. MaxToken, dead : BOOLEAN,
                 reply : {"ok", "bad_request", "conflict", "not_found", "error", None}]

TypeOK ==
    /\ invitations \in [Invitation -> InvitationRow]
    /\ admins \in [Email -> AdminRow]
    /\ roles \subseteq Role
    /\ mailed \subseteq Invitation \X (1 .. MaxToken)
    /\ req \in [Request -> RequestState]
    /\ consumed \in [Invitation -> Nat]

Init ==
    /\ invitations = [i \in Invitation |-> NoInvitation]
    /\ admins = [e \in Email |-> NoAdmin]
    /\ roles = Role
    /\ mailed = {}
    /\ req = [r \in Request |-> NoRequest]
    /\ consumed = [i \in Invitation |-> 0]

-----------------------------------------------------------------------------
At(r, op, step) == req[r].op = op /\ req[r].step = step

GoTo(r, step) ==
    /\ req' = [req EXCEPT ![r].step = step]
    /\ UNCHANGED tables

Done(r, reply) == req' = [req EXCEPT ![r].step = "answered", ![r].reply = reply]

Refuse(r, reply) == Done(r, reply) /\ UNCHANGED tables

ActiveAdmin(e) == admins[e].exists /\ ~ admins[e].deleted
Pending(e) == {i \in Invitation : invitations[i].status = "pending" /\ invitations[i].email = e}

\* A transaction holds the key of the email that it has inserted and the role
\* that it refers to, and then the row that it has marked, until it ends.
EmailHeld(e) ==
    \E r \in Request : req[r].op = "accept" /\ req[r].step \in {"mark", "commit"} /\ req[r].email = e
RoleHeld(role) ==
    \E r \in Request : req[r].op = "accept" /\ req[r].step \in {"mark", "commit"} /\ req[r].role = role
RowHeld(i) == \E r \in Request : At(r, "accept", "commit") /\ req[r].inv = i

\* Of no use now: unknown, rotated away, expired, or the row is not pending.
Dead(i, token) ==
    \/ invitations[i].status # "pending"
    \/ invitations[i].token # token
    \/ invitations[i].expired

-----------------------------------------------------------------------------
SubmitInvite(r, email, role) ==
    /\ req[r].step = "answered"
    /\ req' = [req EXCEPT ![r] = [NoRequest EXCEPT !.op = "invite", !.step = "role",
                                                   !.email = email, !.role = role]]
    /\ UNCHANGED tables

\* The row was listed: ids are not guessed.
SubmitById(r, op, i) ==
    /\ req[r].step = "answered"
    /\ invitations[i].status # "none"
    /\ req' = [req EXCEPT ![r] = [NoRequest EXCEPT !.op = op, !.step = "find", !.inv = i]]
    /\ UNCHANGED tables

SubmitToken(r, op, i, token) ==
    /\ req[r].step = "answered"
    /\ <<i, token>> \in mailed
    /\ req' = [req EXCEPT ![r] = [NoRequest EXCEPT !.op = op, !.step = "find", !.inv = i,
                                                   !.token = token, !.dead = Dead(i, token)]]
    /\ UNCHANGED tables

\* getInvitationPreview: the reason of a refusal is left out, and so is what a
\* preview shows, for no column of it but the names ever changes.
Preview(r) ==
    /\ At(r, "preview", "find")
    /\ Refuse(r, IF Dead(req[r].inv, req[r].token) THEN "bad_request" ELSE "ok")

\* Mutant: the table without its partial unique index.
InsertInvitation_noIndex(r, i) ==
    /\ At(r, "invite", "insert")
    /\ invitations[i].status = "none"
    /\ IF req[r].role \notin roles
       THEN Refuse(r, "error")
       ELSE /\ invitations' = [invitations EXCEPT ![i] =
                  [status |-> "pending", email |-> req[r].email, role |-> req[r].role,
                   token |-> 1, expired |-> FALSE]]
            /\ req' = [req EXCEPT ![r].step = "send", ![r].inv = i, ![r].token = 1]
            /\ UNCHANGED <<admins, roles, mailed, consumed>>

\* The foreign key, and the unique index of pending emails, which waits for a
\* transaction that is changing such a row.
InsertInvitation(r, i) ==
    /\ At(r, "invite", "insert")
    /\ invitations[i].status = "none"
    /\ \A p \in Pending(req[r].email) : ~ RowHeld(p)
    /\ IF req[r].role \notin roles \/ Pending(req[r].email) # {}
       THEN Refuse(r, "error")
       ELSE /\ invitations' = [invitations EXCEPT ![i] =
                  [status |-> "pending", email |-> req[r].email, role |-> req[r].role,
                   token |-> 1, expired |-> FALSE]]
            /\ req' = [req EXCEPT ![r].step = "send", ![r].inv = i, ![r].token = 1]
            /\ UNCHANGED <<admins, roles, mailed, consumed>>

\* Best effort: the row stays, and the reply is ok, when the mail is lost.
Send(r) ==
    /\ req[r].step = "send"
    /\ mailed' \in {mailed, mailed \cup {<<req[r].inv, req[r].token>>}}
    /\ Done(r, "ok")
    /\ UNCHANGED <<invitations, admins, roles, consumed>>

Invite(r) ==
    \/ /\ At(r, "invite", "role")
       /\ IF req[r].role \in roles THEN GoTo(r, "email") ELSE Refuse(r, "bad_request")
    \/ /\ At(r, "invite", "email")
       /\ IF ActiveAdmin(req[r].email) THEN Refuse(r, "conflict") ELSE GoTo(r, "pending")
    \/ /\ At(r, "invite", "pending")
       /\ IF Pending(req[r].email) # {} THEN Refuse(r, "conflict") ELSE GoTo(r, "insert")
    \/ \E i \in Invitation : InsertInvitation(r, i)

\* resendInvitation and revokeInvitation begin with the same look-up.
FindPending(r, op, next) ==
    /\ At(r, op, "find")
    /\ CASE invitations[req[r].inv].status = "removed" -> Refuse(r, "not_found")
         [] invitations[req[r].inv].status = "pending" -> GoTo(r, next)
         [] OTHER -> Refuse(r, "bad_request")

\* Mutant: a resend makes the row pending again, whatever it was.
Rotate_reopens(r) ==
    /\ At(r, "resend", "write")
    /\ ~ RowHeld(req[r].inv)
    /\ invitations[req[r].inv].token < MaxToken
    /\ invitations' = [invitations EXCEPT ![req[r].inv].token = @ + 1,
                           ![req[r].inv].status = "pending", ![req[r].inv].expired = FALSE]
    /\ req' = [req EXCEPT ![r].step = "send", ![r].token = invitations[req[r].inv].token + 1]
    /\ UNCHANGED <<admins, roles, mailed, consumed>>

\* rotateToken: a new token and a new expiry, of a row that is still pending.
Rotate(r) ==
    /\ At(r, "resend", "write")
    /\ ~ RowHeld(req[r].inv)
    /\ IF invitations[req[r].inv].status # "pending"
       THEN Refuse(r, "not_found")
       ELSE /\ invitations[req[r].inv].token < MaxToken
            /\ invitations' = [invitations EXCEPT ![req[r].inv].token = @ + 1,
                                                  ![req[r].inv].expired = FALSE]
            /\ req' = [req EXCEPT ![r].step = "send",
                                  ![r].token = invitations[req[r].inv].token + 1]
            /\ UNCHANGED <<admins, roles, mailed, consumed>>

Resend(r) ==
    \/ FindPending(r, "resend", "role")
    \/ /\ At(r, "resend", "role")
       /\ IF invitations[req[r].inv].role \in roles THEN GoTo(r, "write") ELSE Refuse(r, "bad_request")
    \/ Rotate(r)

\* Mutant: a status that the column's CHECK does not list.
RevokeRow_cancelled(r) ==
    /\ At(r, "revoke", "write")
    /\ ~ RowHeld(req[r].inv)
    /\ invitations' = [invitations EXCEPT ![req[r].inv].status =
                           IF @ = "pending" THEN "cancelled" ELSE @]
    /\ Done(r, "ok")
    /\ UNCHANGED <<admins, roles, mailed, consumed>>

\* Mutant: the UPDATE without AND status = 'pending'.
RevokeRow_anyStatus(r) ==
    /\ At(r, "revoke", "write")
    /\ ~ RowHeld(req[r].inv)
    /\ invitations' = [invitations EXCEPT ![req[r].inv].status =
                           IF @ = "removed" THEN @ ELSE "revoked"]
    /\ Done(r, "ok")
    /\ UNCHANGED <<admins, roles, mailed, consumed>>

\* How many rows the UPDATE changed is not looked at.
RevokeRow(r) ==
    /\ At(r, "revoke", "write")
    /\ ~ RowHeld(req[r].inv)
    /\ invitations' = [invitations EXCEPT ![req[r].inv].status =
                           IF @ = "pending" THEN "revoked" ELSE @]
    /\ Done(r, "ok")
    /\ UNCHANGED <<admins, roles, mailed, consumed>>

Revoke(r) == FindPending(r, "revoke", "write") \/ RevokeRow(r)

-----------------------------------------------------------------------------
\* Mutant: the status of the row is not looked at.
FindByToken_anyStatus(r) ==
    LET row == invitations[req[r].inv]
    IN  /\ At(r, "accept", "find")
        /\ IF row.status = "removed" \/ row.token # req[r].token \/ row.expired
           THEN Refuse(r, "bad_request")
           ELSE /\ req' = [req EXCEPT ![r].step = "check", ![r].email = row.email, ![r].role = row.role]
                /\ UNCHANGED tables

\* Read outside the transaction; nothing reads the row again.
FindByToken(r) ==
    LET row == invitations[req[r].inv]
    IN  /\ At(r, "accept", "find")
        /\ IF Dead(req[r].inv, req[r].token)
           THEN Refuse(r, "bad_request")
           ELSE /\ req' = [req EXCEPT ![r].step = "check", ![r].email = row.email, ![r].role = row.role]
                /\ UNCHANGED tables

CheckEmail(r) ==
    /\ At(r, "accept", "check")
    /\ IF ActiveAdmin(req[r].email) THEN Refuse(r, "error") ELSE GoTo(r, "insert")

\* Mutant: admins.email without UNIQUE.
CreateAdmin_noUnique(r) ==
    /\ At(r, "accept", "insert")
    /\ IF req[r].role \in roles THEN GoTo(r, "mark") ELSE Refuse(r, "error")

\* INSERT INTO admins: email is UNIQUE, deleted rows included, and an insert of
\* the same email waits for the transaction that made the first.
CreateAdmin(r) ==
    /\ At(r, "accept", "insert")
    /\ ~ EmailHeld(req[r].email)
    /\ IF admins[req[r].email].exists \/ req[r].role \notin roles
       THEN Refuse(r, "error")
       ELSE GoTo(r, "mark")

\* markAccepted changes the row, whatever its status; nobody sees it yet.
MarkAccepted(r) == At(r, "accept", "mark") /\ GoTo(r, "commit")

Publish(r) ==
    /\ invitations' = [invitations EXCEPT ![req[r].inv].status = "accepted"]
    /\ admins' = [admins EXCEPT ![req[r].email] =
           [exists |-> TRUE, role |-> req[r].role, deleted |-> FALSE, from |-> req[r].inv]]
    /\ consumed' = [consumed EXCEPT ![req[r].inv] = @ + 1]
    /\ UNCHANGED <<roles, mailed>>

\* COMMIT, whose acknowledgement may be lost.
CommitAccept(r) ==
    /\ At(r, "accept", "commit")
    /\ Publish(r)
    /\ \/ req' = [req EXCEPT ![r].step = "session"]
       \/ Done(r, "error")

\* The look-up of the new admin, and the tokens.
OpenSession(r) ==
    /\ At(r, "accept", "session")
    /\ Refuse(r, IF ActiveAdmin(req[r].email) THEN "ok" ELSE "error")

Accept(r) ==
    FindByToken(r) \/ CheckEmail(r) \/ CreateAdmin(r) \/ MarkAccepted(r)
        \/ CommitAccept(r) \/ OpenSession(r)

\* A query fails, or the process dies; an open transaction is rolled back.
Fail(r) ==
    /\ req[r].step # "answered"
    /\ Refuse(r, "error")

-----------------------------------------------------------------------------
\* Seven days pass.  No code ever writes the status 'expired'.
Expire(i) ==
    /\ invitations[i].status = "pending" /\ ~ invitations[i].expired
    /\ invitations' = [invitations EXCEPT ![i].expired = TRUE]
    /\ UNCHANGED <<admins, roles, mailed, req, consumed>>

\* softDeleteAdmin, for this module: the row stays.
SoftDelete(e) ==
    /\ ActiveAdmin(e)
    /\ admins' = [admins EXCEPT ![e].deleted = TRUE]
    /\ UNCHANGED <<invitations, roles, mailed, req, consumed>>

\* updateAdmin, for this module: another role.
ChangeRole(e, role) ==
    /\ admins[e].exists /\ role \in roles
    /\ admins' = [admins EXCEPT ![e].role = role]
    /\ UNCHANGED <<invitations, roles, mailed, req, consumed>>

\* roleService.remove, for this module: RESTRICT for the admins of the role,
\* CASCADE for its invitations.
RemoveRole(role) ==
    /\ role \in roles /\ ~ RoleHeld(role)
    /\ \A e \in Email : admins[e].role # role
    /\ roles' = roles \ {role}
    /\ invitations' = [i \in Invitation |->
           IF invitations[i].role = role THEN [invitations[i] EXCEPT !.status = "removed"]
                                         ELSE invitations[i]]
    /\ UNCHANGED <<admins, mailed, req, consumed>>

Handle(r) ==
    \/ Invite(r) \/ Resend(r) \/ Revoke(r) \/ Send(r) \/ Preview(r) \/ Accept(r)

Next ==
    \/ \E r \in Request :
          \/ \E e \in Email, role \in Role : SubmitInvite(r, e, role)
          \/ \E op \in {"resend", "revoke"}, i \in Invitation : SubmitById(r, op, i)
          \/ \E t \in mailed : \E op \in {"preview", "accept"} : SubmitToken(r, op, t[1], t[2])
          \/ Handle(r)
          \/ Fail(r)
    \/ \E i \in Invitation : Expire(i)
    \/ \E e \in Email : SoftDelete(e) \/ \E role \in Role : ChangeRole(e, role)
    \/ \E role \in Role : RemoveRole(role)

Spec == Init /\ [][Next]_vars

-----------------------------------------------------------------------------
\* "We never end up with a created admin + unmarked invitation (or vice
\* versa)" (authService.acceptInvitation): of an invitation and the admin that
\* came of it, both commit or neither does, whatever resends, revokes and
\* crashes do in between.
BothOrNeither ==
    /\ \A e \in Email : admins[e].exists =>
          invitations[admins[e].from].status \in {"accepted", "removed"}
    /\ \A i \in Invitation : invitations[i].status = "accepted" =>
          admins[invitations[i].email].from = i

\* "Only one pending invite per email at a time" (migration 005), although
\* invite looks for one and inserts in two statements.
OnePendingPerEmail ==
    \A i, j \in Invitation :
        /\ invitations[i].status = "pending"
        /\ invitations[j].status = "pending"
        /\ invitations[i].email = invitations[j].email
        => i = j

\* One admin per invitation, and one only, although acceptInvitation reads the
\* status outside the transaction and markAccepted does not look at it again:
\* two requests with one token, retries after a lost reply, a resend between.
SingleUse == \A i \in Invitation : consumed[i] <= 1

\* A token that was expired, rotated, revoked, used or removed when the request
\* came in is refused for good: no later step revives it, and a token that the
\* page has called invalid is never welcome afterwards.
DeadTokenRefused ==
    \A r \in Request :
        /\ req[r].op = "accept" /\ req[r].dead =>
              req[r].step \in {"find", "answered"} /\ req[r].reply # "ok"
        /\ req[r].op = "preview" /\ req[r].reply = "bad_request" =>
              Dead(req[r].inv, req[r].token)

\* What a reply says stays so: a revoked invitation never becomes pending
\* again, and whoever was welcomed has an account that came of the invitation.
RepliesHold ==
    \A r \in Request : req[r].step = "answered" /\ req[r].reply = "ok" =>
        /\ req[r].op = "revoke" => invitations[req[r].inv].status # "pending"
        /\ req[r].op = "accept" => admins[req[r].email].from = req[r].inv

=============================================================================
