# PadLok admin API: verification

TLA+ specifications of the admin API in `src/`, checked with TLC; every safety
property that the runs check on small instances is proved with TLAPS for every value of the
constants. Source paths below are relative to `src/src/`.

The API is a Node/Express process over a PostgreSQL database that it shares with
the *client backend* (another repository, which owns `users`, `transactions`,
`wallets`, `wallet_transactions`, `disputes`, `notifications`), and a Redis
instance. Handlers are sequential, but every `await` is a point at which other
requests, other processes and the client backend run. So the state is the
tables, the Redis keys and, per request in flight, the step it is at and what
it has read; and an action is one query, or one write, with everything the
handler does up to the next `await`.

## 1. Inventory

| Component | State | Operations | What makes it correct |
|---|---|---|---|
| Dispute resolution (`features/escrow/escrowService.ts:518-626`, `utils/withTransaction.ts`) | disputes, transactions, wallets, wallet_transactions; row locks; pooled clients | `resolveDispute` (resolve, payout, refund) | a dispute is paid once, to the right party, all or nothing; no credit is lost; replies are true; nobody waits for ever |
| Escrow and dispute reads (`features/escrow`) | none of its own | lists, details, timeline, stats | two reads do not contradict each other |
| Dispute messages (`features/escrow/escrowController.ts:196-238`) | dispute_messages, notifications | `sendMessage` | what is announced, or confirmed, is there |
| Wallet reads (`features/wallet`) | none | ledger list, overview | lists are complete |
| Admin directory (`features/admin/adminService.ts:269-371`) | admins | update, soft delete | a Super Admin is left; every admin has a role |
| Invitations (`adminService.ts:58-190`, `auth/authService.ts:256-335`, `models/AdminInvitation.ts`) | admin_invitations, admins | invite, resend, revoke, preview, accept | one pending per address; one admin per invitation; dead links stay dead |
| Sessions (`auth/authService.ts`, `models/AdminRefreshToken.ts`) | admin_refresh_tokens | login, refresh, logout | rotation never leaves two generations alive; barred accounts get nothing |
| Access control (`middleware/auth.ts`, `requirePermission.ts`, `utils/adminCache.ts`) | Redis key per admin, TTL 5 min | authenticate, GET /auth/me, invalidation | access that is taken away ends |
| Roles (`features/role`, `models/AdminRole.ts`) | admin_roles, role_permissions | create, update, remove | permissions are replaced as a whole; deadlocks end |
| Flags and alerts (`features/flag`) | user_flags, risk_alerts | create, resolve, figures, acknowledge | one resolver; figures add up |
| Notifications (`features/notification`) | notifications | send, list, mark read | a broadcast reaches the active users |
| Users (`features/user`) | users.is_active | activate, deactivate, lists | |
| Paged lists (eleven lists of seven services, `utils/pagination.ts`) | none | a page and its count | a walk through the pages misses nothing that stays |
| Analytics (`features/analytics`, `getEscrowStats`) | none | parallel read-only sums, a forecast | an escrow counts once; the forecast is the line it claims to be |
| Migrations (`database/runMigrations.ts`, `rollbackMigrations.ts`) | admin_migrations, the schema | up, down | what is tracked is there |
| Seed (`database/seed.ts`) | admin_permissions, the Super Admin role, the bootstrap account | one script, run again and again | a half-done seed is completed |
| Server (`server.ts`, `config/database.ts`) | the listening socket, the pool, calls of shutdown | accept, drain, end the pool, exit | every shutdown ends, and a clean one cuts nobody off |
| Rate limiter, mail, audit log, plumbing | counters, an append-only log | | |

How they interact:

- All of them call the database through one pool (`config/database.ts`);
  `withTransaction` takes one client for its whole duration, `pool.query` one per
  statement. Row locks and unique indexes are the only mutual exclusion.
- Changes of admins and roles call `invalidateCachedAdmin` *after* they have
  written; `authenticate`, `login` and `acceptInvitation` store copies after
  they have read. Nothing orders the two.
- `adminService`, `authService` and `roleService` share admins, admin_roles and
  admin_invitations through foreign keys (RESTRICT for admins, CASCADE for
  invitations and permissions).
- `escrowController.sendMessage` calls `escrowService`, then
  `notificationService`, each with a commit of its own.
- `rollbackMigrations` imports `loadMigrations` from the module that runs the
  migrations when it is loaded: a rollback is two tasks over one pool.
- `server.shutdown` ends the pool under every handler; signals and uncaught
  exceptions each call it.
- The client backend writes users, escrows, disputes and wallets at any time.

What is hard: check-then-act over several queries (nearly all of admin, role and
auth code), read-modify-write of balances, a cache that is filled and dropped
concurrently, failures between two writes, commits whose acknowledgement is
lost, answers made of several reads, scripts that overlap and die half-way,
a shutdown with requests in flight, and waiting for locks, clients and each
other. `PROJECT.json` lists these hazards one by one, each at its line with the
properties that cover it or the reason why none does.

## 2. Modules

| Module | Models | Extends or instantiates |
|---|---|---|
| `EscrowData` | what rows of disputes, escrows and wallets say for good | |
| `DisputeSettlement` | **abstract**: a dispute is settled in one step | EscrowData |
| `DisputeResolution` | `resolveDispute` statement by statement, and the client backend | EscrowData; INSTANCE of DisputeSettlement |
| `DisputeResolution_proofs` | its theorems, and those of `Server` | Server, TLAPS |
| `Server` | the process around the requests: accept, shutdown, drain, exit, restart | DisputeResolution |
| `AdminDirectory` | `updateAdmin`, `softDeleteAdmin`, `roleService.remove` | |
| `AdminDirectory_proofs` | its theorems | AdminDirectory, TLAPS |
| `Invitations` | invite, resend, revoke, preview, accept | |
| `Invitations_proofs` | its theorems | Invitations, TLAPS |
| `Sessions` | login, refresh, logout | |
| `Sessions_proofs` | its theorems | Sessions, TLAPS |
| `AuthCache` | the middleware over the Redis copy, and all that fills or drops it | |
| `AuthCache_proofs` | its theorems | AuthCache, TLAPS |
| `Roles` | create, update, remove, with PostgreSQL's locks | |
| `Roles_proofs` | its theorems | Roles, TLAPS |
| `Listing` | LIMIT/OFFSET walks over the eleven lists | |
| `Users` | `users.is_active` | |
| `Risk` | flags, their resolution, the figures | Users |
| `Notify` | broadcasts, notifications, dispute messages | Users |
| `DisputeViews` | timeline of a dispute; escrow with its dispute | |
| `Analytics` | the figures of the cards, query by query, and `getEscrowStats` | Users |
| `Forecast` | least squares in exact arithmetic, with the rounding of `toFixed` | |
| `Migrations` | runs and rollbacks, statement by statement | |
| `Seed` | the seed, statement by statement | |
| `Console` | the composition of the last nine | Listing, Risk, Notify, DisputeViews, Analytics, Forecast, Migrations, Seed |
| `Figures_proofs` | lemmas on the steps of the figures and on the forecast | Analytics, Forecast, TLAPS |
| `Console_proofs` | the theorems of Console and all its parts | Console, Figures_proofs |
| `MC*` | the instances for TLC | the module they are named after |

### How state and actions correspond to the code

**Requests.** `req[r]` is a slot for a request in flight. `req[r].step` names the
next `await`; the other fields are the local variables the handler still needs.
`Submit` is the arrival of a request (any that the routes and validators let
through), `Done`/`Refuse`/`Ended` the reply, `Fail` an error thrown by a query,
a lost connection or the death of the process: in a transaction the draft is
dropped, elsewhere what was written stays. An answered slot can be used again,
so a behaviour has any number of requests, retries among them.

**DisputeResolution.** `Connect` is `pool.connect` and BEGIN, `LockDispute`,
`LockEscrow`, `LockWallet` are the three `SELECT ... FOR UPDATE`, with the checks
that follow each; `CreditWallet`, `InsertEntry`, `UpdateEscrow`,
`UpdateDispute` are the four writes, which stay in the transaction's draft
(`wrote`, `after`); `Commit` publishes the draft, and may answer "error" when
the acknowledgement is lost; `Rollback` drops it and releases rows and client.
`ledger[u]` are the wallet_transactions rows; the dispute a row stems from is
the part of `reference` that names it (line 582). The client backend raises,
reviews and withdraws disputes, confirms deliveries, pays sellers and takes
deposits. It is external: it is assumed to lock the rows that it writes.

**Server.** `Serve` is a step of a request while the process runs; once the pool has
ended, `connect` is refused (`Refused`). `Shutdown(s)` is a call of `shutdown` up to its first
`await`; `Closed` is the event 'close', at which the callbacks of all calls run:
the first to call `pool.end` waits for the clients (`Finish`), every other is
rejected and exits with 1 (`GiveUp`). `HangUp` takes a client away whose request goes on,
so that the pool may end under a request. `Exit` rolls back what is open, `Restart` is PM2.

**AdminDirectory, Invitations, Sessions.** One action per query. Uniqueness and
foreign keys are guards of the writes, with the error they raise: ON DELETE
RESTRICT in `DeleteRole`, UNIQUE email in `CreateAdmin`, the partial unique index
in `InsertInvitation`. `acceptInvitation` has its transaction (`CheckEmail` to
`CommitAccept`); who waits for a row it holds waits in `RowHeld`, `RoleHeld` and
`EmailHeld`. `consumed`, `raced`, `dead`, `barred` and `swallowed` are history: they
remember what a property needs and no action reads them.

**AuthCache.** `Get`, `Load`, `Set` are `authenticate`'s three awaits; `WriteAdmin`
then `Drop` are `updateAdmin` and `softDeleteAdmin`; `WriteRole`, `List`, `Drop`
are `roleService.update` and `invalidateAdminCachesForRole`. Time is a tick that ages entries
and requests. `out[a]` and `barred[a]` count the ticks since the row of `a` last
let it in, or last held the permission.

**Roles.** `wiped`, `added` and `lock` are the rows a transaction has deleted,
inserted and locked. `Wipe` takes the snapshot of the DELETE and `Wiping` deletes
what is still there when its locks are granted: READ COMMITTED. `Blockers(r)` are the
requests that `r` waits for, `BreakDeadlock` is PostgreSQL's victim.

**Console.** `Listing` abstracts a row to whether it is open (active,
unresolved, pending, unread), which is what the WHERE of a list can change its
mind about; `Close` is also `markRead` and `acknowledgeAlert`. Its parameters
are modelled as the controllers read them: the validator's `toBoolean` leaves a
boolean, so `=== 'true'` never holds and `resolved`, `acknowledged` and
`unread_only` never select closed rows. The lists are ordered by `created_at` and by nothing else
(`notificationService.ts:82`), and one INSERT may make many rows of one `created_at` (`Create`, a broadcast
at lines 205-210): so every query gives the rows places as it likes (`Orders`, any order that puts
later times first), and a page is the set of rows whose place is in its `Window`. Rows
may also be committed out of the order of their times. `DisputeViews` has the rows of one escrow and
any number of disputes about it, each raised in whatever status the escrow is, and withdrawn or resolved;
the escrow's status is a column of its own, and GET /escrow/:id finds any of the disputes that were raised
last (`Latest`). A date is when the writing transaction began, not when it committed. The timeline is ordered by places (`Precedes`). `Risk`, `Notify` and `DisputeViews`
take the queries of one answer one at a time, and so does `Analytics`: a figure is
the set of rows that its query counts or adds up, and between the queries the deals move, and
disputes are raised, withdrawn (`CloseQuarrel`: the escrow is left 'disputed') and resolved. `Forecast` keeps `num`, `den`, `meanX` and `meanY` as whole numbers by
multiplying with the number of months; `ToFixed` rounds the fraction.
In `Migrations` a process has a task that applies and one that rolls back: `ReadPending` and
`ReadApplied` read the list, `ApplySql`/`ApplyRow` and `RollbackSql`/`RollbackRow` are the two statements
of each transaction, `Untrack` is the DELETE without a DOWN (a row that nobody has committed is not found, and not waited for), `CloseTask` ends the pool; the orders of
`loadMigrations` and `getAppliedMigrationIds` are `InFileOrder` and `NewestFirst`.
`holder` is the transaction that has changed a migration's objects and not
committed: statements wait for it. The eight pages share only
`users.is_active`, so `Console` fixes the page that moves (`page`) and lets the
others rest (`Rest`): the product of their states would show nothing more.

## 3. Runs

| Run | Configuration | Shows |
|---|---|---|
| `resolve` | 2 requests, 3 disputes (two on one escrow), 2 escrows, 1 wallet that both may credit, payees without a wallet, pool of 2 | `PaidOnceIfResolved`, `EscrowOver`, `HonestReply`, `LedgerChain`; the inductive `TransactionInv`; the refinement `SettlesAtomically` |
| `resolve_liveness` | `MCServer`: 3 requests, pool of 2, 1 dispute, 2 calls of shutdown, kills and restarts | `EventuallyAnswered` under fairness: no lock or client leaks, no cycle of waiting; `ShutsDown` |
| `resolve_doc_escrow_state` | 2 disputes on one escrow | **violation** of `ResolvesOnlyPermittedEscrow` |
| `directory` | 2 admins, 3 roles, 2 requests | `RoleReferenced`, `RepliesHold`, `SuperAdminUnlessRaced` |
| `directory_doc_last_super_admin` | 2 Super Admins, 2 requests | **violation** of `AlwaysASuperAdmin` |
| `invitations` | 2 invitations of one address, 2 tokens each, 1 role, 2 requests | `SingleUse`, `OnePendingPerEmail`, `BothOrNeither`, `DeadTokenRefused`, `RepliesHold` |
| `sessions` | 3 tokens, 2 requests | `SpentTokensDie`, `DeadTokenRefused`, `BarredGetsNothing` |
| `auth_staleness` | 1 admin, 1 role, 2 requests, TTL 2, MaxDelay 1, all faults | `AccessEndsInTime` and the invariant `CopiesAreRecent` behind it |
| `auth_one_by_one` | 2 admins, 2 roles, TTL 2, one request at a time, no faults | `RejectsAtOnce` |
| `auth_me` | 1 admin, one request at a time | **violation** of `MeIsServed` |
| `roles` | 2 slots of roles, 2 permissions, 2 requests | `PermissionsReplaced`, `EventuallyAnswered` |
| `console` | walks over up to 3 rows with pages of 2; 2 times of creation; 2 users, 2 flags, 2 admins; 2 senders, 3 messages; 1 viewer, 2 disputes, 2 times; 1 escrow with one pending dispute at a time, 1 transfer; 6 months; 3 migrations, 2 processes; 2 seeds of up to 3 permissions | `WalkComplete`; `ResolvedOnce`, `FlagsAgree`; `SentArrives`; `ViewsAgree`; `MoneyCountedOnce`; `ForecastFits`; `TrackingTells`; `SeedComplete` |

Each run also checks the `TypeOK` of its module unless it is about liveness or one property.
Properties that speak of one page and need each other are stated as one:
`WalkComplete` is `NothingMissed` and `NothingTwice`, `FlagsAgree` is `FiguresAddUp`
and `BannedAreHigh`, `SentArrives` and `ViewsAgree` likewise, `SpentTokensDie` is
`OldDiesFirst` and `LogoutEnds`. `PROJECT.json` has mutants for the parts.

Sizes: `console` has about 880,000 distinct states, `sessions` 344,000,
`resolve_liveness` 26,700 (with a liveness graph of two properties).

### Bounds, and why they are enough

- *Two requests* show every race between a check and a write; nothing in the
  code waits for more than one other request except through the pool, and
  `resolve_liveness` has three for that. The theorems hold for any number.
- *Disputes, escrows, wallets*: the three ways two requests can meet are the
  same dispute, two disputes of one escrow, and two escrows that credit one wallet; `resolve`
  has all of them. `MaxMovements` bounds the client backend's deposits: they are made
  to a wallet with an empty ledger, which is enough for one between a request's
  reading and writing (the row lock forbids it). Amounts are 2 and 3, so that
  they cannot be exchanged. A dispute whose escrow does not exist (`EscrowOf[d] =
  None`) occurs in no run, only in the proofs.
- *Directory*: `NewStatus = {}`, because a status decides nothing here and
  multiplies the states; two admins are the fewest that can both be the last.
  `CHECK_DEADLOCK FALSE`: once all admins are deleted nobody can send a request.
- *Invitations*: `MaxToken = 2` is one resend, so that an old and a new link exist;
  a resend waits for a token to be left. *Sessions*: three tokens are a login,
  a refresh and a concurrent refresh. `TokenLeft` admits a request that may issue a
  token only while there is one for it, so that the bound never blocks a
  request half-way.
- *AuthCache*: `Old` is where ages stop counting, above every bound in a property.
- *Server*: `Asked = {"refund"}`, for the other resolutions differ in which rows they lock
  and not in how they wait; `MaxGone = 1` is one request whose client is gone beside two
  whose clients wait. Two calls of shutdown are a signal and a second one.
- *Migrations*: one process rolls back (and thereby applies), one applies; of three migrations the
  first can be run again, the last has no DOWN, and a checkout has two or three of them.
  *Seed*: a list of one, two or three permissions is an older or a newer checkout.
  *Analytics*: escrows are independent of each other in every figure, so one is enough; a
  transfer is there because some figures count it. *Forecast*: every series of up to six months
  (the number that the code asks for) of revenues 0, 1 and 2, in hundredths, where rounding matters most.
- *Console*: three rows and pages of two are two pages, enough for a row to move from
  an unread page to a read one and back; two times of creation let a page part two rows of one
  time beside a third of another. Two disputes are an older one and a later one, or two of one time.
  `MaxFlags`, `MaxRequests` and `MaxDisputes` bound tables that only grow, `MaxTime` the clock.
- *The constraints of `console`*. `MC_Undecided` leaves a walk where it is once a row has left it and one has come to it: from
  then on both halves of `WalkComplete` are vacuous until the walk is over and another begins. The tables that such
  a walk would go on to meet are reached without a walk too, so no state that could violate anything is lost.
  `MC_OneSwitched` lets one of the two users be switched while the figures of money are open, for no property speaks of
  the number of users. `MaxQuarrels` is one: another dispute may be raised after one was
  withdrawn or resolved, whatever the escrow's status is then.
- Symmetry is used only for invariants, action properties and the refinement of
  sets whose members the model never tells apart; never with liveness.

### Fairness

`DisputeResolution!Fairness` is strong for the steps of each request (`Handle`): Node runs what
is ready, and PostgreSQL queues the waiters of a row, so that a row that is free again and
again does go to each of them. A request that waits for a client is answered
anyhow, at the latest by `connectionTimeoutMillis` (`ConnectTimeout`). No fairness
is asked of `Fail` or of the client backend. `ServerFairness` asks the same of `Serve`, and weak
fairness of the event 'close' and of the callbacks that it runs (`Closed`, `Finish`,
`GiveUp`), which Node's event loop justifies. Nothing is asked of the timer, of signals or of kills:
`ShutsDown` shows that a shutdown ends without its timer. `Roles!FairSpec` is strong for
`Handle`: locks are queued, and `deadlock_timeout` makes `BreakDeadlock` happen.

### What the violations show

- **A second dispute on an escrow that is over pays again.** The comment of `resolveDispute`
  (`features/escrow/escrowService.ts:515-516`) promises a check of the escrow's status; the
  code reads the status and never looks at it. The counterexample refunds one escrow
  twice. `EscrowOver` is therefore stated for *one of* the resolved disputes.
- **The last Super Admin can be lost.** "Can't demote the last Super Admin"
  (`adminService.ts:10`) is checked with a count in a query of its own. What the code does
  ensure is `SuperAdminUnlessRaced`.
- **GET /auth/me fails on a cache hit.** `getCachedAdmin` returns parsed JSON, whose dates are
  texts; `toDTO` (`models/Admin.ts:247-248`) calls `toISOString` on them. The integration test covers
  the miss only.

### What the models show besides, with no run of its own

- An expired invitation stays pending (no code writes 'expired'), so it
  blocks a new one until it is revoked or sent again.
- An address whose admin was deleted can be invited, and accept then always fails on
  UNIQUE email.
- A revoke that comes while accept hashes the password is told "revoked", and
  the admin is created: `DeadTokenRefused` speaks of tokens that were dead when the request came.
- Two updates of one role can leave the union of both sets (`PermissionsReplaced`
  says exactly when).
- A logout that meets an error answers ok and leaves the token alive (`swallowed`).
- `npm run migrate:down` also runs `migrate`, by its import: whichever task is over first ends the
  pool, so the other fails at its next `connect`; or what was rolled back is applied again. A run that
  overlaps a rollback can leave objects present and untracked, or gaps in the order:
  `TrackingTells` promises the converse only for histories without such an overlap.
- A migration without DOWN is untracked with its objects left, and cannot be applied
  again unless its statements say IF NOT EXISTS.
- The second `pool.end` of a process rejects outside any handler: a rollback that succeeds
  exits with an error. A second signal likewise turns a clean shutdown into exit 1.
- The seed takes a deleted bootstrap account for present and cannot restore it.
- The delivery rate of `getNotificationStats` divides failures of all time by the notifications of one
  day, so it can be negative (`notificationService.ts:119-133`).
- Two refreshes with one token can both succeed (`OldDiesFirst` holds, the token has two children).
- `flagged_users` counts a user with flags of two severities twice, and `accounts_banned` leaves out an inactive
  user whose critical flag stands beside one of another severity: `FiguresAddUp` says exactly when
  each is wrong, and in which direction.
- Pages of a notifications list that stands still may repeat rows of one broadcast and skip others: nothing orders rows of one
  `created_at` between two queries. `WalkComplete` speaks of rows that no page parts from their like.
- A refunded or completed escrow may be shown with an open dispute, and rightly so: it was raised later. What
  `DisputeNotBehind` excludes is a dispute that is older news than the escrow beside it.
- An escrow whose dispute was withdrawn stays 'disputed' with nothing pending; the activity (`analyticsService.ts:61-71`)
  counts it neither as ongoing nor as completed nor in dispute, although its money is held. `MoneyCountedOnce` names this as the exception.
- Figures of flags or of money whose queries did not see the same rows may differ in anything that moved between
  them; nothing in the code bounds it, and no property does.

## 4. Proofs

The proof modules are checked by `tlapm` to the last leaf, for every value of the constants
that satisfies the modules' named assumptions.

**DisputeResolution_proofs** (assumes `EscrowDataAssumption`,
`DisputeResolutionAssumption`). `TypeCorrect` first. None of the safety
properties is inductive: that `Commit` may overwrite a balance is right only because the balance
is still the one that was read. `TransactionInv` says so: at each step a request
holds the rows that it has read, what it has read is still true (`HeldRows`), and its draft is
what the statements up to that step wrote (`Draft`). `TransactionsIsolated`
proves it, one step per action; a lock is held by one request, so no other action touches the rows.
On it rest

- `LedgersChained`: `LedgerChain`, by cases on who appends a row;
- `PaidExactlyOnce`: `PaidOnceIfResolved`; a commit finds its dispute unresolved
  (`HeldRows`), so it had no ledger row;
- `EscrowsOver`, `RepliesHonest`: `EscrowOver`, `HonestReply`; final statuses are never left;
- `ResolvesAtomically`: `SettlesAtomically`. Every action but `Commit` and the client backend's
  stutters under the mapping; a `Commit` is a `Settle`.

The last part is about `Server` (assumes also `ServerAssumption`, that resolutions are asked for and `MaxGone` is a number). `ServerSteps`:
a step of the process is one of `DisputeResolution` or `CutOff`, the end of all transactions
at once, which `CutOffInv` and `CutOffPayments` treat. So `PaidOnceAcrossRestarts` and
`SettlesAcrossRestarts` hold of every history of kills, shutdowns and restarts. `ExitsClean` is the safety half of `ShutsDown`;
its invariant `DrainInv` says that nobody is accepted once a shutdown was called, so nobody
joins those who wait (`WaitingShrinks`) after the last of them was gone.

**AuthCache_proofs** (assumes `AuthCacheAssumption`). `TypeCorrect`; `CopiesRecent`:
a copy in a request is as old as the request at most, a copy in Redis as old as `MaxDelay` and the
elapsed part of its TTL; and, from it, `AccessEnds`: no admin is served for longer
than `TTL + MaxDelay` after losing access. `MaxDelay`, the longest a request may hang between two
awaits, is an assumption about the platform (guard of `Tick`): the code has no
such bound on a Redis call or a query, and without one the late store has no bound either.
`ServedAtOnce`: under `OneAtATime` (no faults, one slot for requests, as in the run) there is no such delay.
Its invariant `CopiesAgree` says that a copy that lets an admin in agrees with the row, but for the
admins whose copies the change under way is about to drop (`Dropping`).

**Sessions_proofs** (assumes `SessionsAssumption`). `SessionsInv` has a part about the tables
and four about each request. `Lineage`: a token has a successor only when it is spent; it
needs that the one about to be exchanged is spent already (`Reading`), which no later step
undoes (`Forward`: spent stays spent). `Presented` says that the tokens of requests were issued,
`Replying` what a dead token and an answered logout imply, `Barring` that a request past the look at the
account was not barred then. `RequestStep` reduces an action to the request that moves, for
`RequestKept` shows that the others keep what is known of them. From it `TokensAreSpent`,
`DeadTokensRefused` and `BarredAccountsGetNothing`.

**Invitations_proofs** (assumes `InvitationsAssumption`). `SingleUse` is what an UPDATE
without a look at the status puts in doubt: `markAccepted` would mark a used row again. The
argument goes by the account. `Rows` says that a used invitation has an account of its address,
`Accepting` that a request goes by the address that it has read and that no account has it once
the row is inserted, and `WritesAlone` that one open transaction at most has inserted an address.
So a commit finds its invitation unused. `Named` keeps a request's token at or below its row's, and `RowsForward`,
which every action satisfies, says that tokens only grow and that what is over or dead stays so; from
it `DeadLinksRefused` and `RepliesKept`. `OnePending`, `UsedOnce` and `BothCommit` are conjuncts, or
follow from `Rows` and `Accounts`. The proof is laid out as that of Sessions: `RequestStep`,
`RequestKept`, one lemma per action.

**AdminDirectory_proofs** (assumes `AdminDirectoryAssumption`). `DirectoryInv` adds to the properties
what is known of a request. `SuperAdminUnlessRaced` is not inductive: that the write of a request which
has counted leaves a Super Admin depends on what others did since the count. `Counted` says it: past its
count, either a race has happened or there are two Super Admins still, for whoever took one away while
another request was past its count has raced. `Replying` keeps what was answered true by `Forward`: the deleted stay deleted and
no role comes back. From it `LastSuperAdminKept`, `RolesReferenced` (the foreign key and the
look-up) and `RepliesKept`.

**Roles_proofs** (assumes `RolesAssumption`). `PermissionsReplaced` is an action property about
`Commit`, which adds `added` and takes away `wiped`. `Replacing` says how these have come about: at
COMMIT `added` is all that was asked for, and all that the DELETE saw is wiped. `Held` says
that a role with uncommitted permissions cannot be removed, by its lock or because its row is there.

**Console_proofs**, with the lemmas of **Figures_proofs** (assume the named assumptions of the eight
parts). `ConsoleInv` is the conjunction of one inductive invariant per part and of `PagesRest`: what shares
`users.is_active` with the page that is open is not under way. Its parts:

- `ListInv`, for `WalkComplete`. The place of a row is at least the number of fitting rows of later times (`Rank`), and
  less than that plus the rows of its own time (`PlaceOfRow`); so a row whose time no page cuts is on the page of its
  `Rank`, whatever order a query gives to ties (`RowOnPage`). If no row has left, the rows that the walk has still to show
  have at least as many before them as the pages have passed (`Reached`), for places only grow,
  and a count that is not late includes them, so that the page is not the last. If none has come, what
  was shown has fewer. A write changes places in one direction only under either condition. Rows that a page has cut (`walk.cut`) are left out of both.
- `RiskInv`, for `ResolvedOnce` and `FlagsAgree`: the desk's winner is who the row names, and figures that
  are fresh are those of this moment. What they are of is counting: flagged users are the sum over the severities, which is the
  number of their union exactly when no two meet (`UnionCount`, `CountsExact`), and `CriticalFlags` is at least the number of the
  banned, by an injection of users into flags.
- `NotifyInv`, for `SentArrives`: whatever has been announced has its row (`RowsAreThere`), and what a
  request carries between its SELECT and its INSERT is between who was active all along and who ever was (`Meant`).
- `ViewsInv`, for `ViewsAgree`: dates are written once, so that a copy's are final (`Holds`, `CopiesDispute`); a disputed escrow
  has the dispute that made it so, and one that a dispute ended has it resolved (`Caused`, of the row and of its copies), whatever
  else is raised or withdrawn. So the query that follows finds that dispute or one raised no
  earlier (`FoundAfter`). A general lemma says that `Timeline` holds every event once and in order.
- `AnalyticsInv`, for `MoneyCountedOnce`: what a query has counted of an escrow that has not moved since
  is what it would count now (`CountsHold`), the sums of one query share no escrow (`StatsApart`), and
  a disputed escrow has a pending dispute unless one was withdrawn (`DisputedPends`).
- `ForecastInv`, for `ForecastFits`: the chart is that of its revenues, so that the property is a theorem of arithmetic.
  `SumOfMonths` and `SumOfSquares` give closed forms; from them `Denominator` (positive from two
  months on), `ResidualsCancel` (the exact line's errors, and their moments, add up to zero) and
  `NextOnLine`. `ToFixedNear` bounds one rounding by a half, and `WeightedErrors` carries it through a weighted sum.
- `ScriptsInv`, for `TrackingTells`: as long as no rollback meets a run, what a run has still to apply begins at
  the next migration or at one that another run has applied meanwhile (`RunsGoOn`), and what a rollback has
  still to do begins at the newest or at one that is gone (`RollbacksGoOn`); so rows are added and deleted at the end only.
- `SeedInv`, for `SeedComplete`: for each seed, the keys behind its loop are in the table, and after `grant`
  they are granted; permissions and grants only grow.

The library's induction theorems take an operator and cannot be used here. Where an argument is by
induction (sums of any length, in `Figures_proofs`), lemma `AllNaturals` takes the step instead as a fact about
a set of naturals and follows from the well-foundedness of `<`.

Two things came to light by proving: a CASE of `Roles` (what follows `findById`) and one of `AuthCache`
(`Verdict`) had arms that overlap, of which TLC always took the first, as the code's early returns
do, but which the semantics leaves open; both are nested IFs now.

Only model-checked: liveness and anything with fairness (`EventuallyAnswered`, and of
`ShutsDown` that a shutdown ends: outside the prover's reach), and that the three documented promises fail, which is a counterexample each.
No module declares a RECURSIVE operator.

## 5. Plan

Order: what moves money, then who has access, then who becomes an admin, then
what is shown, then what operators run. Done: sections 2 to 4. What is left:

1. An abstract specification of access (an admin is served or not) that AuthCache implements
   within its bound, and of invitations (an invitation becomes an admin or dies).
2. `userFlagsTableCache` with Migrations, once a rollback under a running server is a case the
   documents describe.
3. `parseDurationToMs` and `parsePagination` as operators over bounded inputs.

## 6. Not modelled, and why

- *Audit log*: append-only, errors swallowed, never read.
- *Rate limiter*: the counters are a library's; the code only fails open.
- *E-mail*: a mail arrives or not (`Send`); templates and transport are I/O.
- *Tokens and hashes*: exact; cryptography is not a question of interleaving.
- *Validators and formatting*: they fix the inputs of the modules.
- *Single-query reads* (templates, details, insights, trends of users and wallets): no state,
  no interleaving. The seasonal peak of the forecast is a sum by quarters.
- *Idle keep-alive connections*: Node closes them with the server; a connection lasts as long as its request.
- *logoutAllSessions, updatePassword*: no caller.
- *Currencies, notes, names, search conditions*: no property tells them apart. In `listUsers`
  the conditions on flags are left out.
- *Users and notifications*: foreign keys to deleted users are the client backend's.

## 7. Running

    tlc -config Resolve.cfg MCDisputeResolution
    tlapm DisputeResolution_proofs.tla

and likewise for the other runs, whose module and configuration are in
`PROJECT.json` with what each checks, the source lines of every definition
(`map`), and for each property a mutant of the code that violates it.
