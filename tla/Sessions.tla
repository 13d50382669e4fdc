------------------------------ MODULE Sessions ------------------------------
(***************************************************************************)
(* The refresh tokens of one admin: authService.login, refresh and logout  *)
(* over admin_refresh_tokens.  Every query is by admin_id, so admins do    *)
(* not interfere, and every query commits on its own.                      *)
(***************************************************************************)
EXTENDS Naturals, FiniteSets

CONSTANTS
    Token,    \* rows of admin_refresh_tokens; bound: how many are ever issued
    Request,  \* slots for requests in flight; an answered slot is used again
    Faults,   \* whether queries may fail and the process die
    None

ASSUME SessionsAssumption == None \notin Token \cup {"ok"} /\ Faults \in BOOLEAN

VARIABLES
    account,  \* the admin's row: active, suspended, or deleted
    tokens,   \* tokens[t]: the row, and the token that it was exchanged for
    held,     \* tokens that a reply has carried to a client
    req       \* req[r]: a request, and what it has read

vars == <<account, tokens, held, req>>
tables == <<account, tokens, held>>

TokenStatus == {"none", "active", "revoked", "expired"}
TokenRow == [status : TokenStatus, parent : Token \cup {None}]

\* read is the row that was found (refresh, logout), then the one issued.  dead
\* says that the token was of no use when the request came, barred that the
\* account has not been active since, swallowed that a logout has met an error.
NoRequest == [op |-> "logout", step |-> "answered", token |-> None, read |-> None,
              dead |-> FALSE, barred |-> FALSE, swallowed |-> FALSE, reply |-> None]
RequestState == [op : {"login", "refresh", "logout"},
                 step : {"find", "account", "revoke", "issue", "stamp", "answered"},
                 token : Token \cup {None}, read : Token \cup {None},
                 dead : BOOLEAN, barred : BOOLEAN, swallowed : BOOLEAN,
                 reply : {"ok", "unauthorized", "forbidden", "error", None}]

TypeOK ==
    /\ account \in {"active", "suspended", "deleted"}
    /\ tokens \in [Token -> TokenRow]
    /\ held \subseteq Token
    /\ req \in [Request -> RequestState]

Init ==
    /\ account = "active"
    /\ tokens = [t \in Token |-> [status |-> "none", parent |-> None]]
    /\ held = {}
    /\ req = [r \in Request |-> NoRequest]

-----------------------------------------------------------------------------
At(r, ops, step) == req[r].op \in ops /\ req[r].step = step

GoTo(r, step) ==
    /\ req' = [req EXCEPT ![r].step = step]
    /\ UNCHANGED tables

Done(r, reply) == req' = [req EXCEPT ![r].step = "answered", ![r].reply = reply, ![r].read = None]

Refuse(r, reply) == Done(r, reply) /\ UNCHANGED tables

\* Bound: a request that may issue a token comes while there is one for it.
TokenLeft ==
    \/ account = "deleted"
    \/ Cardinality({r \in Request : req[r].op # "logout" /\ req[r].step \notin {"stamp", "answered"}})
          < Cardinality({t \in Token : tokens[t].status = "none"})

SubmitLogin(r) ==
    /\ req[r].step = "answered" /\ TokenLeft
    /\ req' = [req EXCEPT ![r] = [NoRequest EXCEPT !.op = "login", !.step = "account",
                                                   !.barred = account # "active"]]
    /\ UNCHANGED tables

SubmitToken(r, op, t) ==
    /\ req[r].step = "answered"
    /\ t \in held
    /\ op = "refresh" => TokenLeft
    /\ req' = [req EXCEPT ![r] = [NoRequest EXCEPT !.op = op, !.step = "find", !.token = t,
                    !.dead = tokens[t].status # "active", !.barred = account # "active"]]
    /\ UNCHANGED tables

\* Mutant: AND expires_at > NOW() is missing.
FindToken_expired(r) ==
    /\ At(r, {"refresh", "logout"}, "find")
    /\ IF tokens[req[r].token].status \in {"active", "expired"}
       THEN /\ req' = [req EXCEPT ![r].read = req[r].token,
                           ![r].step = IF req[r].op = "refresh" THEN "account" ELSE "revoke"]
            /\ UNCHANGED tables
       ELSE Refuse(r, IF req[r].op = "refresh" THEN "unauthorized" ELSE "ok")

\* findActiveByRawToken: one SELECT, then the comparisons.
FindToken(r) ==
    /\ At(r, {"refresh", "logout"}, "find")
    /\ IF tokens[req[r].token].status = "active"
       THEN /\ req' = [req EXCEPT ![r].read = req[r].token,
                           ![r].step = IF req[r].op = "refresh" THEN "account" ELSE "revoke"]
            /\ UNCHANGED tables
       ELSE Refuse(r, IF req[r].op = "refresh" THEN "unauthorized" ELSE "ok")

\* Mutant: a refresh looks only at whether the admin exists.
LoadAccount_anyStatus(r) ==
    /\ At(r, {"login", "refresh"}, "account")
    /\ IF account = "deleted" \/ (account = "suspended" /\ req[r].op = "login")
       THEN Refuse(r, "unauthorized")
       ELSE GoTo(r, IF req[r].op = "login" THEN "issue" ELSE "revoke")

\* A login that is not refused goes on with the row that it has read, however
\* long the comparison of the password takes.
LoadAccount(r) ==
    /\ At(r, {"login", "refresh"}, "account")
    /\ CASE account = "active" -> GoTo(r, IF req[r].op = "login" THEN "issue" ELSE "revoke")
         [] account = "suspended" /\ req[r].op = "login" -> Refuse(r, "forbidden")
         [] OTHER -> Refuse(r, "unauthorized")

\* Mutant: the row is left as it is.
Revoke_forgotten(r) ==
    /\ At(r, {"refresh", "logout"}, "revoke")
    /\ IF req[r].op = "refresh" THEN req' = [req EXCEPT ![r].step = "issue"] ELSE Done(r, "ok")
    /\ UNCHANGED tables

\* UPDATE ... WHERE revoked_at IS NULL; whether it changed the row is not
\* looked at.
Revoke(r) ==
    /\ At(r, {"refresh", "logout"}, "revoke")
    /\ tokens' = [tokens EXCEPT ![req[r].read].status = IF @ = "active" THEN "revoked" ELSE @]
    /\ IF req[r].op = "refresh" THEN req' = [req EXCEPT ![r].step = "issue"] ELSE Done(r, "ok")
    /\ UNCHANGED <<account, held>>

\* Mutant: a status that no row has.
Issue_live(r, t) ==
    /\ At(r, {"login", "refresh"}, "issue")
    /\ tokens[t].status = "none"
    /\ tokens' = [tokens EXCEPT ![t] = [status |-> "live", parent |-> req[r].read]]
    /\ req' = [req EXCEPT ![r].read = t, ![r].step = "stamp"]
    /\ UNCHANGED <<account, held>>

\* issueTokenPair: sign, hash and insert.
Issue(r, t) ==
    /\ At(r, {"login", "refresh"}, "issue")
    /\ tokens[t].status = "none"
    /\ tokens' = [tokens EXCEPT ![t] = [status |-> "active", parent |-> req[r].read]]
    /\ req' = [req EXCEPT ![r].read = t, ![r].step = "stamp"]
    /\ UNCHANGED <<account, held>>

\* updateLastLogin and the audit record; the reply carries the token.
Stamp(r) ==
    /\ At(r, {"login", "refresh"}, "stamp")
    /\ held' = held \cup {req[r].read}
    /\ Done(r, "ok")
    /\ UNCHANGED <<account, tokens>>

\* A query fails or the process dies.  logout takes any error for a token that
\* is garbage, and answers ok.
Fail(r) ==
    /\ Faults
    /\ req[r].step # "answered"
    /\ req' = [req EXCEPT ![r].step = "answered", ![r].read = None,
                          ![r].reply = IF req[r].op = "logout" THEN "ok" ELSE "error",
                          ![r].swallowed = req[r].op = "logout"]
    /\ UNCHANGED tables

\* updateAdmin and softDeleteAdmin, for this module.
ChangeAccount(status) ==
    /\ account # "deleted" /\ account # status
    /\ account' = status
    /\ req' = [r \in Request |-> 
           IF req[r].step = "answered" THEN req[r]
           ELSE [req[r] EXCEPT !.barred = @ /\ status # "active"]]
    /\ UNCHANGED <<tokens, held>>

Expire(t) ==
    /\ tokens[t].status = "active"
    /\ tokens' = [tokens EXCEPT ![t].status = "expired"]
    /\ UNCHANGED <<account, held, req>>

Handle(r) ==
    \/ FindToken(r) \/ LoadAccount(r) \/ Revoke(r) \/ Stamp(r)
    \/ \E t \in Token : Issue(r, t)

Next ==
    \/ \E r \in Request :
          \/ SubmitLogin(r)
          \/ \E op \in {"refresh", "logout"}, t \in Token : SubmitToken(r, op, t)
          \/ Handle(r)
          \/ Fail(r)
    \/ \E status \in {"active", "suspended", "deleted"} : ChangeAccount(status)
    \/ \E t \in Token : Expire(t)

Spec == Init /\ [][Next]_vars

-----------------------------------------------------------------------------
Children(t) == {u \in Token : tokens[u].parent = t}

\* "Rotation: on every refresh we revoke the old and issue a new pair": the
\* old one is dead before the new one exists, whatever fails in between and
\* whoever refreshes or logs out at the same time.
OldDiesFirst == \A t \in Token : Children(t) # {} => tokens[t].status # "active"

\* "Revoke the refresh token the client holds" (logout): the answer is ok
\* whatever happens, and the token is dead, for good, unless an error was taken
\* for a garbage token.
LogoutEnds ==
    \A r \in Request :
        req[r].op = "logout" /\ req[r].reply = "ok" /\ tokens[req[r].token].status = "active" =>
            req[r].swallowed

\* A token is spent by a refresh and by a logout, and by both of them at once.
SpentTokensDie == OldDiesFirst /\ LogoutEnds

\* A token that was revoked, rotated away or expired when the request came in
\* is worth no new token, for good.
DeadTokenRefused ==
    \A r \in Request : req[r].op = "refresh" /\ req[r].dead =>
        req[r].step \in {"find", "answered"} /\ req[r].reply # "ok"

\* "Account not accessible": a login or refresh is answered with tokens only to
\* an account that was active for some of the time that the request took,
\* although the status is read long before the token is issued.
BarredGetsNothing ==
    \A r \in Request : req[r].op # "logout" /\ req[r].reply = "ok" => ~ req[r].barred

=============================================================================
