-------------------------------- MODULE Server --------------------------------
(***************************************************************************)
(* server.ts around DisputeResolution: one process accepts the requests,   *)
(* is told to shut down, drains, ends the pool and exits; or is killed.    *)
(* PM2 starts it again.                                                    *)
(*                                                                         *)
(* server.close stops the listening at once and emits 'close' when the     *)
(* last connection is gone, and also for a later call.  A connection is    *)
(* modelled as long as its request is in flight.  pool.end rejects every   *)
(* later connect, waits for the clients in use, and rejects when it is     *)
(* called again.  When the process is gone PostgreSQL rolls back.          *)
(***************************************************************************)
EXTENDS DisputeResolution

CONSTANTS
    Signal,   \* calls of shutdown: SIGTERM, SIGINT, an uncaught exception
    Asked,    \* bound: the resolutions that admins ask for
    MaxGone   \* bound: requests whose clients have gone, at a time

ASSUME ServerAssumption == Asked \subseteq Resolution /\ MaxGone \in Nat

VARIABLES
    listening,  \* whether the server accepts requests
    pool,       \* "open", or "ended": pool.end has been called
    closing,    \* closing[s]: where the call of shutdown for s is
    gone,       \* requests in flight whose client has closed the connection
    process     \* "running", or how it ended

serverVars == <<listening, pool, closing, gone, process>>
allVars    == <<vars, serverVars>>

ServerTypeOK ==
    /\ TypeOK
    /\ listening \in BOOLEAN
    /\ pool \in {"open", "ended"}
    /\ closing \in [Signal -> {"none", "draining", "ending", "rejected"}]
    /\ gone \subseteq Request
    /\ process \in {"running", "exit 0", "exit 1"}

ServerInit ==
    /\ Init
    /\ listening = TRUE /\ pool = "open" /\ process = "running"
    /\ closing = [s \in Signal |-> "none"]
    /\ gone = {}

-----------------------------------------------------------------------------
Running == process = "running"

InFlight == {r \in Request : req[r].step \notin {"idle", "answered"}}
Waiting  == InFlight \ gone

Accept(r, d, resolution) ==
    /\ Running /\ listening
    /\ Submit(r, d, resolution)
    /\ UNCHANGED serverVars

\* pool.connect() once the pool is ended, or left in its queue until the
\* timeout.
Refused(r) ==
    /\ req[r].step = "connect"
    /\ pool = "ended"
    /\ Rollback(r, "error")

\* The handler goes on whether or not its client is still there.
Serve(r) ==
    /\ Running
    /\ IF req[r].step = "connect" /\ pool = "ended" THEN Refused(r) ELSE Handle(r)
    /\ gone' = gone \cap {q \in Request : req'[q].step # "answered"}
    /\ UNCHANGED <<listening, pool, closing, process>>

ServeFails(r) ==
    /\ Running
    /\ Fail(r)
    /\ gone' = gone \ {r}
    /\ UNCHANGED <<listening, pool, closing, process>>

HangUp(r) ==
    /\ Running
    /\ r \in Waiting
    /\ Cardinality(gone) < MaxGone
    /\ gone' = gone \cup {r}
    /\ UNCHANGED <<vars, listening, pool, closing, process>>

\* shutdown: the timer is set and server.close called.
Shutdown(s) ==
    /\ Running /\ closing[s] = "none"
    /\ closing' = [closing EXCEPT ![s] = "draining"]
    /\ listening' = FALSE
    /\ UNCHANGED <<vars, pool, gone, process>>

Draining == {s \in Signal : closing[s] = "draining"}

\* Of the callbacks that run now, one may be the first to call pool.end.
CallbacksRun ==
    /\ pool' = "ended"
    /\ \E first \in Draining :
          closing' = [s \in Signal |->
              CASE s = first /\ pool = "open" -> "ending"
                [] s \in Draining /\ ~ (s = first /\ pool = "open") -> "rejected"
                [] OTHER -> closing[s]]
    /\ UNCHANGED <<vars, listening, gone, process>>

\* Mutant: closeDatabase does not wait for the callback of server.close.
Closed_atOnce == Running /\ Draining # {} /\ CallbacksRun

\* 'close': no connection is left.
Closed == Running /\ Draining # {} /\ Waiting = {} /\ CallbacksRun

\* process.exit, or the kernel's doing: what is in flight is cut off.
Exit(code) ==
    /\ Running
    /\ process' = code
    /\ req' = [r \in Request |-> IF r \in InFlight THEN Ended(r, "error")[r] ELSE req[r]]
    /\ lock' = [row \in Row |-> None]
    /\ listening' = FALSE /\ pool' = "ended" /\ gone' = {}
    /\ closing' = [s \in Signal |-> "none"]
    /\ UNCHANGED tables

\* The pool is closed, then Redis; clearTimeout; process.exit(0).
Finish(s) == closing[s] = "ending" /\ Clients = {} /\ Exit("exit 0")

\* catch: process.exit(1).
GiveUp(s) == closing[s] = "rejected" /\ Exit("exit 1")

\* GRACEFUL_SHUTDOWN_TIMEOUT
TimeOut(s) == closing[s] # "none" /\ Exit("exit 1")

Killed == Exit("exit 1")

Restart ==
    /\ ~ Running
    /\ process' = "running" /\ listening' = TRUE /\ pool' = "open"
    /\ UNCHANGED <<vars, closing, gone>>

ServerNext ==
    \/ \E r \in Request :
        \/ \E d \in Dispute, resolution \in Asked : Accept(r, d, resolution)
        \/ Serve(r) \/ ServeFails(r) \/ HangUp(r)
    \/ \E s \in Signal : Shutdown(s) \/ Finish(s) \/ GiveUp(s) \/ TimeOut(s)
    \/ Closed \/ Killed \/ Restart
    \/ Client /\ UNCHANGED serverVars

\* As in DisputeResolution; and callbacks and promises are run.  Nothing is
\* asked of the timer: a shutdown ends without it.
ServerFairness ==
    /\ \A r \in Request : SF_allVars(Serve(r))
    /\ WF_allVars(Closed)
    /\ \A s \in Signal : WF_allVars(Finish(s)) /\ WF_allVars(GiveUp(s))

ServerSpec == ServerInit /\ [][ServerNext]_allVars /\ ServerFairness

-----------------------------------------------------------------------------
\* An exit with 0 cuts nobody off: no transaction is open, and all who are
\* still there have their answers; nor has the end of the pool refused anyone
\* who was there.
CleanExit ==
    /\ (Running /\ pool = "ended") => Waiting = {}
    /\ (Running /\ process' = "exit 0") => Clients = {} /\ Waiting = {}

\* Every shutdown comes to an end, with the requests that were accepted
\* before it, whatever rows and clients these wait for, and although nobody
\* but the timer could stop them; and an end that is called clean is one.
ShutsDown ==
    /\ [][CleanExit]_allVars
    /\ \A s \in Signal : closing[s] # "none" ~> ~ Running

=============================================================================
