# Verification of the FastAPI Clean Backend Template

TLA+ models of the backend in this repository, TLC configurations that check them on
small instances, and TLAPS proofs of what matters most for every instance. The modules
follow the code under `backend/app` and `database/postgres`; `PROJECT.json` names, for
every definition, the lines it stands for.

Contents: [the system](#the-system) · [what can go wrong](#what-can-go-wrong) ·
[the modules](#the-modules) · [the runs](#the-runs) · [the proofs](#the-proofs) ·
[findings](#findings-and-known-limits) · [not modelled](#not-modelled) · [plan](#plan)

## The system

A cookie-session backend: the browser holds an opaque session token, PostgreSQL holds the
session and the identity provider's (GoTrue's) tokens, and all access to tables goes
through stored functions.

| Part | Code | State it keeps | Operations | Hard because |
|---|---|---|---|---|
| Session store | `database/postgres/procedures/app/sessions/*.sql`, `auth/session_repository.py` | `app.user_sessions` | create, get, touch, rotate, revoke, revoke_all, purge | concurrent transactions at READ COMMITTED, frozen `now()`, row locks and re-checks, deadlocks, cancelled statements |
| Auth routes | `auth/routes.py`, `auth/dependencies.py` | none of their own between requests | login, callback, refresh, logout, me | several awaits between a check and the write that relies on it; answers lost or delivered late |
| GoTrue client | `auth/supabase_auth_client.py` | none; the provider's grants | exchange_code, refresh, logout, get_user | a call may take effect although it fails here |
| Cookies, CSRF, PKCE | `auth/cookies.py`, `csrf.py`, `pkce.py` | the browser's cookies | set and clear | order of answers |
| Token generator and cipher | `auth/session_tokens.py`, `token_cipher.py` | none | generate, hash, encrypt | – |
| JWKS client, JWT verifier | `auth/jwks_client.py`, `jwt_verifier.py` | key cache and its age | get_key, preload | callers interleave at the fetch; the endpoint's keys change meanwhile |
| Identity mapping | `procedures/app/identity/map_identity.sql`, `auth/identity_mapper.py` | users, identities, tenants, memberships | map (and provision) | racing first logins, an exception handler that undoes half |
| Request transaction and pool | `core/middleware/db_transaction.py`, `db/*` | pool of connections; a connection (and transaction) per request | acquire, commit, roll back, release | two connections per request, cancellation, a bounded pool without a timeout |
| Health probes | `api/v1/health/routes.py` | none | live, ready, deep | share the pool with everyone; report on what `app.state` shows, not on what requests use |
| Rate limiting | `rate_limiting/*`, `core/middleware/rate_limit.py` | a counter per key in Redis | check, enforce, resolve the client's address | window boundaries, replies lost after counting, restarts; headers that clients write; two call sites, inside and outside the exception boundary |
| Container and lifespan | `bootstrap/*`, `infrastructure/cache/redis_client.py` | process resources, adapters cached on `app.state` | startup, shutdown, provide | failure midway, caches that outlive a lifespan |
| Authorization | `authorization/*`, `auth/scopes.py` | the loaded policy | enforce, compute_scopes, reload | two layers computed from one policy by different algorithms, allow against deny, a service built by whoever needs it first |
| Request admission | `auth/dependencies.py`, `core/errors/*`, `modules/_authz_demo/api/router.py` | none of its own | CSRF check, principal, quota, scope gate, handler, error mapping | the order of the checks; what an answer gives away |
| The rest | parsing of the configuration, envelopes, logging, middleware stubs, the example module, sqitch scripts | – | – | – |

How they interact. A request passes the middleware stack: the rate limiter first, then
`DBTransactionMiddleware`, which takes a pool connection for the whole request. A route's
dependencies resolve the session cookie with `get` and `touch` of the session store; the
handler calls GoTrue and the repositories. Each repository call takes a *second*
connection from the pool and runs one stored function on it, which commits when the call
returns. So one refresh of one browser is three transactions of the store and a provider
call, and other requests run between any two of them. Everything in the Python process is
one asyncio loop: code runs without interruption up to an `await`, and any number of
requests wait at theirs. PostgreSQL, Redis and GoTrue are shared by several processes.

What makes each part correct:

- *Session store*: a login is carried by at most one unrevoked session; a session is
  rotated at most once; owner and absolute deadline never change along a login; what is
  dead is never revived by a late write; a purge takes only the dead; revoke-all revokes
  what it has seen; no crowd of calls waits for itself, and every call ends.
- *Routes*: the stored provider tokens are the ones the provider takes next; the browser's
  cookie names the newest session; logout ends the login; nothing the routes do breaks the
  life of a login the store promises.
- *Pool*: no connection leaks or has two users; what is written on the request's
  connection follows the status; requests do not starve.
- *JWKS cache*: it is as fresh as its age says; retired keys stop and new keys start to be
  accepted in time.
- *Identity mapping*: one user per subject, however first logins race; no leftovers; its
  callers see a lookup or a provisioning in one step; a session only for a member, however
  stale the mapping is.
- *Rate limiter*: bursts at the boundary of windows let fewer than twice the limit through
  in a window less what a reply may take; no endless block; an honest Retry-After; every
  request counted under its client, whatever header it sent.
- *Admission*: refused exactly when told so; nothing done for a request that another site
  forged; nothing said about other tenants' items; decided on no older a policy than the
  one in force when it came; the route gate no finer than the service behind it.
- *Lifecycle*: what was opened is closed, unless an exception ended the lifespan; new
  adapters are over open pools; the readiness probe tells a serving application from a
  stopped one.

## What can go wrong

`PROJECT.json` lists the hazards at their lines. In short: two transactions between read
and write of one row (rotate, touch, revoke, revoke-all, purge); decisions made with the
`now()` of a transaction that then waits; a session checked by a dependency and used after
a provider call; a reply lost after its effect; a cookie delivered out of order; pool
exhaustion by requests that hold one connection and wait for another; a failing commit;
overlapping fetches of keys; counters without expiry; racing inserts behind a primary key;
a mapping that is stale when its session is created; startup and shutdown that raise
midway; adapters and services kept longer than what they are over; a policy reloaded
between two checks of one request; checks in an order that lets a refused request leave
traces. Nine hazards have no property; their notes say why. Most of these are limits the
code has and accepts: a property next to them says what holds otherwise.

## The modules

**`LoginLineage`** is the abstract specification: a login is carried by at most one session
(`live`), a rotation moves it to a token never used before (`issued`), and a login that
has ended is never resumed. Two modules implement it, and this is how they compose:

    SessionStore  --implements-->  LoginLineage  <--implements--  AuthFlow

`SessionStore` shows that each stored function, however it is split into statements and
interleaved, acts on a login as one step of `LoginLineage`. `AuthFlow` therefore takes the
store's functions as atomic steps and asks what the routes make of them; its own
`LineageSpec` shows that the combination still keeps the promise.

**`SessionStore`** models the stored functions as PostgreSQL runs them at READ COMMITTED.
`row` is the table by token (the hash of a token is the token), `call` the function call
each connection runs: the statement it is at, its frozen `now()`, the rows it has locked,
for revoke-all and the purge the rows of its snapshot. `Begin…` is the repository's method,
`TouchRead`/`TouchWrite` and `RotateLock`/`RotateCommit` are the statements between which
others can run; `create` and `revoke` are single statements on one row. A statement over
many rows goes from row to row in an order the SQL does not fix, waits for each, re-checks
it and keeps what it has locked: `RevokeAllScan`/`RevokeAllRow`/`RevokeAllCommit`, and for
the purge `PurgeScan`/`PurgeRow` (the DELETE), `PurgeCascade`/`PurgeCutRow` (the foreign
key, which sets `rotated_from` to NULL in the rows that pointed at a deleted one, while
those are still locked) and `PurgeCommit`. A waiting statement is one whose action is
disabled while another call holds the row (`Free`); `Wanted` is the row it waits for, and
calls that wait for each other in a circle are `Deadlocked`. `Abort` is a broken connection, a timeout or a deadlock's victim; the driver's
`command_timeout` bounds how old a call can be (`Tick`). `origin` is a history variable:
the login a token descends from.

**`AuthFlow`** models one browser, the routes and the provider. `req` is a handler: the
await it is at, the cookies its request came with, the provider tokens it holds in memory
and the answer it will give. Each action runs a handler from one await to the next. `Die`
is a restart or a lost answer; where a database or provider call appears as an action,
one of its disjuncts is "it took effect and the reply was lost". The generation of the
provider's refresh token is a number (`held`): the provider takes the newest once.
`Authenticate` is `verify_csrf` with `get_current_principal`; the CSRF cookie comes and
goes with the session cookie, so the presence of the one stands for the other. The idle
slide by `touch` is `SessionStore`'s subject; here a session expires at any time
(`Expire`). `/auth/me` reads only.

**`RequestPool`** models the middleware's connection, the repositories' connections and
the pool. `own` says what became of the statements on the request's connection; what a
repository writes is durable whatever becomes of the request and has no state here.
`Start` and `StartFails` are BEGIN, on a connection already taken; `Close` has the ways a
transaction ends (commit, failed commit, rollback, failed rollback), `Cancel` is the
unwinding of the context managers. `UseConnection` stands for a statement that succeeds:
no handler of the repository uses the request's connection yet, and one that swallowed a
failed statement and answered 2xx would find its COMMIT turned into a ROLLBACK.

**`JwksCache`** models `JwksClient`. A caller runs up to its fetch in one step (`GetKey`,
`Preload`), the endpoint answers at some later moment with the keys it publishes then
(`Serve`), and the rest of `get_key` runs when the answer arrives (`Arrive`), on the cache
as it is by then. `FetchTimeout` bounds a fetch; httpx bounds each of its phases, so the
sum is an assumption about the client.

**`RateLimiter`** models one Redis key: the Lua script (`RunScript`) is one step, the
verdict (`Decide`) another, taken when the reply has arrived, and the call can fail before
or after the script (`Fail`). A reply takes at most `Delay`, the client's socket timeout
(`Tick`). Two histories tell the two events apart: `counted` is about scripts, `admitted`
about requests let through, which is later and may fall into the next window. Redis may
restart empty and a key may lose its expiry. Time is in ticks finer than a second, because
Redis rounds what it reports (`SecondsLeft`).

**`IdentityMapping`** models `app.map_identity` statement by statement, and what the
callback does with its result. `Locked` is the wait for a pending insert of the same
primary key; `Insert` either leaves rows pending or runs into the unique violation, whose
handler (`Retry`) looks again. Between the mapping and `create_user_session`, and between
the two checks of that function (`CheckTenant`, `InsertSession`), an operator may remove
users and suspend memberships; `changed` records that one did while a function ran.
`home` stands for the tenant and membership a user is provisioned with, `carried` for the
users with a session.

**`IdentityDirectory`** is what `IdentityMapping` promises the callbacks: a directory that
is asked (`Ask`) and answers in one step, with the user the subject has (`Find`), with a
new one (`Provision`) or not at all (`Refuse`); a session is created only for a user its
subject still has (`Carry`). `IdentityMapping!Directory` maps the statements to it: a call
is a question until it ends, `Commit` provisions and `Resolve` finds, the loser's insert
wastes an id (`Waste`), and the id of pending rows is taken only by their commit or their
rollback (`Taken`). A refusal promises nothing about its reason; `LoserGetsWinner` does.

**`Authorization`** is a module of operators: the matcher and the effect of
`casbin_model.conf` (`Matches`, `Allowed`), `AuthorizationService.enforce` (`Enforce`) and
`compute_scopes` (`ComputeScopes`), each a function of a policy, which is a set of rules.
Conditions are named, not parsed. **`Admission`** extends it with the way of a request:
`Arrive`, `Ceiling` (the middleware's check), `VerifyCsrf`, `Authenticate`, `Quota`,
`Provide`/`LoadPolicy`/`KeepService` (the lazily built service; FastAPI runs the provider
in a thread, so these are steps), `Gate` and `Edit`, each with its way of failing. The
counter of a key is a number here, since `RateLimiter` has its time. `ResolveClientIp`
gets what the socket and the header say (`Peer`, `Hops`), which follow from the proxies a
request came through and from what its client wrote (`Origin`). Principals come from a
constant: those the session store returns have no roles yet (`auth/dependencies.py:60-68`),
the repository's tests inject others. `ChangePolicy` and `Reload` are the operator's.

**`Lifecycle`** models one application object through several lifespans. `container`,
`state` (what `app.state` shows) and `cached` (the adapters requests have built there) name
the lifespan a thing is of; `open` is the truth about the resources. `StartupSteps` and
`ShutdownSteps` are the order of the code; every step may raise (`AcquireFails`,
`ReleaseFails`), which ends the lifespan where it is. Requests reach the providers while
the server serves, and outside a lifespan through transports that skip it. `Readiness` is
the report of the probe, on what `app.state` shows; a database that stops answering while
the application serves is not part of the model.

The `MC…` modules add symmetry sets and the constant `Members`. Operators marked
"Mutant:" in a comment are variants of the action that follows with a plausible mistake in
it; no specification uses them, and `PROJECT.json` says which property each one breaks.

## The runs

| Run | Checks | Bounds |
|---|---|---|
| `session_rotation` | `OneLivePerLogin`, `LineageSpec` | 2 connections, 3 tokens, clock 0..2 |
| `session_lifetime` | `StoreInvariant`, `ClaimsInvariant`, `LoginTermsFixed`, `DeadLoginStaysDead`, `PurgeTakesOnlyDead`, `RevokeAllCovers` | 2 connections, 2 tokens, 2 tenants (one inactive), TTLs 4 and 2, clock 0..5 |
| `session_liveness` | `NeverStuck`, `EveryCallReturns` | 2 connections, 2 tokens, TTLs of 1, command timeout 2, clock 0..2 |
| `session_logout_everywhere` | `RevokeAllEndsLogins` (violated) | 2 connections, 2 tokens |
| `flow_sessions` | `FlowInvariant`, `RefreshableUnlessStranded`, `CookieIsNewest`, `LogoutEndsUnracedLogin`, `LineageSpec` | 2 handlers, 3 tokens, 2 PKCE flows, 2 provider refreshes |
| `pool_service` | `PoolInvariant`, `PoolNeverStuck`, `EveryRequestAnswered` | 2 requests, 3 connections |
| `pool_probe` | `LiveProbeAnswered` (violated) | 3 requests, 2 connections |
| `jwks_freshness` | `CacheInvariant`, `RetiredKeyNotServed`, `NewKeyRejectedBriefly` | 2 callers, 2 keys, TTL 2, interval 1, fetch 1, clock 0..5 |
| `limiter_window` | `LimiterInvariant`, `BurstsBounded`, `RetryAfterAlmostSuffices` | 2 requests, limit 1, window 2 s of 3 ticks, replies within 1 tick, rule fails closed, clock 0..8 |
| `identity_race` | `IdentityInvariant`, `LoserGetsWinner`, `DirectorySpec`, `LoginsOfMembers`, `EveryCallEnds` | 2 callbacks, 2 subjects, 2 user ids |
| `admission_requests` | `StagesInvariant`, `GateCoversService`, `BucketIsTheClient`, `ForeignLikeMissing`, `DeniedIffTold`, `ForgedLeavesNoTrace`, `ReloadHolds` | 2 requests, 2 principals, 3 ways through 0 to 2 proxies, 2 policies, limits of 1, counters up to 2, rules without a fail mode of their own fail open |
| `lifecycle_restarts` | `LifecycleInvariant`, `LeftOpenOnlyByFailure`, `ReadyWhileServing`, `NewAdapterOpen` | 2 lifespans, all 512 settings of the flags |

The inductive invariants (`StoreInvariant`, `PoolInvariant`, `CacheInvariant`,
`LimiterInvariant`, `IdentityInvariant`, `StagesInvariant`, `LifecycleInvariant`,
`FlowInvariant`) begin
with the type invariant of their module; the theorems of the proofs state the named parts
one by one.

Why the bounds are enough. Two connections are what a lost update or a broken lock needs,
and three tokens give a login two generations and still a second rotation that races;
revoke-all and the purge need two rows to lock them in opposite orders; in
`session_liveness` time passes an expiry, so that a purge finds rows, and both circles (two
revoke-alls or purges, one of each) are reached. The clock of `session_lifetime`
passes the idle deadline, the absolute one and the purge's, with a touch or a rotation
that started before each. In `flow_sessions` two handlers with two flows cover refresh
against refresh, refresh against logout, and a second login beside either. The JWKS clock
is long enough for a key to be retired, the cache to go stale and a fetch to overlap the
next one. The limiter's clock spans a window and a half: a burst at the end of one and
the start of another, with decisions on either side of the boundary; its bound on spans of
two windows needs more time than the run has and is the theorem's. Two user ids are one for the winner of a race and one that the
loser wastes, or one for a subject that is removed and comes back. Two
requests of `admission_requests` are enough to build the service twice, to use up a limit
of one and to compare a foreign item's answer with a missing one's; the second policy both
takes away and adds, so an older one shows. A second lifespan is what a stale adapter
needs. `lifecycle_restarts` does not look for deadlock: after its last lifespan an
application without lazily built parts has nothing left to do.

Bounds in the guards: `MaxTime` (clocks), `MaxRefreshes` (provider refreshes per grant),
`MaxCount` (the Redis counters), `MaxLives` (lifespans). Token, flow and user ids are used up: a generator never
repeats itself. Symmetry is used where the model values are interchangeable, and in no run
with liveness.

Fairness. `SessionStore!FairSpec`: PostgreSQL goes on with a call it can go on with, a
statement that can have its lock again and again gets it (lock queues are first come,
first served: strong fairness of `Execute`), and the deadlock detector picks a victim
(weak fairness of `DeadlockVictim`). No client has to begin or abort anything.
`RequestPool!FairSpec`: handlers and statements end (`command_timeout` bounds the latter),
and a waiter is served if connections keep coming back (strong fairness; asyncio wakes the
waiters of the pool's queue in their order). `IdentityMapping!FairSpec`: the server runs
each call that is not waiting. `EveryRequestAnswered` needs more connections than
requests; `EveryCallEnds` lets a call wait before its insert when the run's user ids are
used up, as the property says.

## The proofs

Eight modules of theorems (`SessionStoreProofs`, `AuthFlowProofs`, `RequestPoolProofs`,
`JwksCacheProofs`, `RateLimiterProofs`, `IdentityMappingProofs`, `AdmissionProofs`, which
holds those about `Authorization` too, and `LifecycleProofs`) prove, for all values of the constants that satisfy the modules'
assumptions, the safety properties their runs check. TLC checks each inductive invariant
first, as an invariant of a run or as a conjunct of one. Every property of a passing run
is stated by a theorem, except the three that need fairness.

**Session store.** The invariant has two layers. `StoreInvariant` is about the rows and
the calls in flight: types, `OriginsKnown`, `PredecessorsRevoked` (what a row was rotated
from is revoked: two rows with one predecessor would need two commits on an unrevoked
row), `CallsFormed`, `NewTokensFresh`, and `LocksHeld` (a locked row stays unrevoked until
its holder commits, and has one holder). `OneLivePerLogin` is not inductive alone: a
rotation that commits must still hold the lock it decided under, which is `LocksHeld`.
There is one lemma for each writing step (`CreateRows`, `RotateRows`, `TouchRows`,
`RevokeRows`, `RevokeAllRows`, `PurgeRows`) and two for the bookkeeping of calls.
`ClaimsInvariant` says that what a call decided about a row still holds when it writes;
it needs `ShortCalls` (`CallTimeout < IdleTtl`; by default 30 s against 1800 s), which the
theorems `ClaimsInvariance`, `RevokeAllIsThorough` and `DeadLoginsStayDead` state as a
hypothesis. `StoreImplementsLineage` maps every step to a step of `LoginLineage` or a
stutter. `StoreNeverStuck` is the safety half of `EveryCallReturns`: if no call can go on,
every call waits for a row somebody holds, and the holder, a revoke-all or a purge (a
rotation that holds its row never waits again), waits too. Among the finitely many calls
there is a smallest set that whatever its members wait for does not leave, and in a
smallest such set everybody is also waited for (lemma `Circle`): a deadlock the detector
ends. `CanGoOn` spells out the guards of `Execute`, since the prover has no ENABLED.
`PurgesCover` is the part of the invariant about the purge: what it has deleted stays dead
and old, and by the time it commits no row points at it that it has not cut.

**Authentication routes.** None of the properties of `AuthFlow` is inductive. `FlowInvariant`
adds what each handler knows at the await it is at (`HandlerFormed`), that the sessions of a
login share one grant and are ordered by the generation of tokens they hold, with only the
last one possibly active (`SessionsFormed`), that no two handlers bring the same session or
work on the same flow (`HandlersApart`), and that the browser is never behind the cookies
its requests came with (`CookiesAhead`). The key step is a rotation: the handler holds
exactly the grant's generation, which is above that of every session of the login, so that
a second refresh that also passed the checks no longer holds it, and nobody is about to
bring a session of that login (`RotatesUnpending`). Most steps only move a handler on or
end a session (`QuietStep`); the others have a lemma each (`HandlerLeaves`, `GrantBegins`,
`GrantRenewed`, `SessionBegins`, `SessionRotates`). `BrowserHasNewest`, `LogoutEnds` and
`RoutesImplementLineage` follow for any number of handlers, sessions, flows and refreshes.

**Request pool.** `PoolInvariant` adds to `ConnectionsAccounted` that what a request holds
follows from its step, and that a mutating request's transaction is open until it is
answered. `PoolSuffices` counts: requests that all wait hold at most one connection each.

**JWKS cache.** `CacheInvariant` carries, for each fetch under way, that its answer is one
the endpoint could have given since it was sent; `CacheIsRecent` then survives the arrival
of an older answer after a newer one. The two windows follow from the age tests.

**Rate limiter.** `LimiterInvariant` says that the key of an identifier ends within one
window from now if it has an expiry at all, and that every answer was right about the
window it met, up to the rounding of TTL. The lemma `Rounding` does the arithmetic for any
window and any resolution of the clock; `DenialsAreFinite` and `RetryAfterIsHonest` follow.
`BurstsAreBounded` needs histories one can reason about without summing: `counted[t]` and
`admitted[t]` are the numbers of scripts within the limit and of requests let through
before tick `t` (since the last restart of Redis), so that a span's count is a difference.
The counter covers every script since its window began, and what came before is within the
limit per window (`WindowsCounted`, with `CountsSince`); a span of a window's length meets
at most two windows of the key, and the first script of the second one is not in the first:
fewer than twice the limit (`ScriptsBounded`). Decisions follow scripts: under a rule that
fails closed, what was let through in a span and what is counted but still undecided is no
more than the scripts of the span and of the delay before it (`DecisionsCounted`, by
counting the undecided requests: a script adds one, a decision or a lost reply takes one
away). The two together give the bound on the requests that pass, which is the one a
service behind the limiter sees. Without the delay it would be wrong: late replies can let
more than twice the limit through in one whole window.

**Identity mapping.** `IdentityInvariant` adds to `EveryUserMappedOnce` that pending rows
are for a fresh user and a subject nobody has or inserts (`PendingFresh`: this is what the
unique index gives), that what a call found out holds until an operator interferes
(`FoundHolds`), and, whatever operators do, that the user a call has is still its
subject's or gone for good (`UsersSettled`: no id comes back, and no pending row has it).
The proofs carry `LoserGetsWinner` along, which needs `FoundHolds`. `DirectoryImplemented`
goes through the steps one by one: `Commit` is a `Provision` because pending rows are
fresh, and `Resolve`, statements after the row was found, is still a `Find` because a user
with an active tenant exists and is therefore still its subject's; `InsertSession` is a
`Carry` for the same reason. `MappingsStay` and `AnswersAreMappings` say of the tables
what follows for a caller.

**Authorization.** No induction: the four theorems are about every policy and every
context. `GateCovers` compares the two algorithms rule by rule; `BackstopAgrees` shows that
the matcher's own tenant test refuses what the service refuses before asking it;
`RefundNeedsFinance` and `RolesOnlyAdd` are about the deny rule that is shipped.

**Admission.** `ClientIsFound` is about sequences: in the hops that any chain of trusted
proxies leaves behind, the last untrusted one is the client. The inductive invariant
strengthens `StagesInvariant` with the properties of the answers; each of the fifteen
steps of a request replaces one request by a well-formed one and changes at most one other
variable, and the lemmas say so once for all. `GatesCover` takes `GateCovers` to every
policy an enforcer ever loads.

**Lifecycle.** `LifecycleInvariant` accounts for everything open, shown or cached by a
lifespan that runs or by one that an exception ended. `ReleasedDropped` and `HeldOpen` are
what makes it inductive through a shutdown that fails halfway. `EnabledShown` follows
`startup()` along its steps: what is enabled and passed is held, and what is held is shown
when the application serves. `ReadinessTellsServing` puts it together with `HeldOpen`: no
component the probe asks for is missing or closed while a lifespan serves, and the
database's or Redis' is missing after one has ended normally.

Only model-checked: liveness (`EveryCallReturns`, `EveryRequestAnswered`,
`EveryCallEnds`) and the violations. Liveness rests on fairness, hence on ENABLED, which
the prover does not treat, and needs an induction over the number of calls that still
wait, which the installed provers cannot instantiate. What can be proved of it is:
`StoreNeverStuck` and `PoolSuffices` say for all values of the constants that no state is
one in which everybody waits; the runs show that fairness then leads out of it.

## Findings and known limits

What the code does against what it says, each with a run that shows it:

1. `revoke_all_user_sessions` misses a login that is being rotated
   (`session_logout_everywhere`). The row it waits for comes back revoked, and its
   successor is not in the statement's snapshot. `RevokeAllCovers` is what does hold.
2. Requests that hold one connection and wait for another can drain the pool for good, and
   the liveness probe waits with them (`pool_probe`). `PoolNeverStuck` and
   `EveryRequestAnswered` give the condition under which this cannot happen: fewer
   concurrent requests than connections.

Limits of the design that the models make visible and a property delimits:

- `logout` does not end a login that a concurrent refresh moves on while it runs
  (`auth/routes.py:184` revokes the token the request came with).
  `LogoutEndsUnracedLogin` is what does hold.
- A mutating request is not one transaction: the repositories run on pool connections of
  their own and have committed when they return (`auth/session_repository.py:216`), although
  `core/middleware/db_transaction.py:6-7` speaks of one transaction shared by every
  repository call. `PoolInvariant` says what holds of the request's own connection.
- An adapter built in one lifespan stays on `app.state` in the next, over a closed pool,
  and the readiness probe, which asks the new pool, does not see it: "ready" says nothing
  about adapters. The process normally has one lifespan.
- A refresh whose rotation fails after the provider has replaced the tokens leaves a session
  that cannot be refreshed again (`RefreshableUnlessStranded`), and one whose answer is lost
  leaves the browser with a dead token (`CookieIsNewest`).
- A startup that fails leaves what it had opened to the exit of the process
  (`LeftOpenOnlyByFailure`), and a shutdown step that raises leaves `app.state` as it is.
- `Container.shutdown` says it releases in reverse order of acquisition
  (`bootstrap/container.py:119`); it closes the GoTrue client first, then Redis, then the
  database, which nothing depends on.
- A lazily built authorization service may be replaced by one that was built at the same
  time from an older file; `ReloadHolds` is about the one that startup builds.
- Suspending a membership does not end the sessions it has; `users.status` is stored and
  read by none of the functions of a login.

Smaller ones: concurrent callers with an unknown key id each fetch the JWKS, since the
interval counts from the last completed fetch; Retry-After can be half a second short,
since Redis rounds TTL (`RetryAfterAlmostSuffices` is the exact bound); `touch` on a row
purged between its two statements returns a null deadline, which the repository cannot
parse; a second login does not revoke the browser's previous session.

## Not modelled

Envelopes and wording of errors, parsing of the configuration, logging, the middleware
stubs (idempotency and tenant extraction pass every request through), security headers,
pagination, the example module and the change scripts: pure or stateless code, listed with
reasons in `PROJECT.json`. Within the modelled parts: encryption and hashing (library calls
on data no property tells apart), signature verification (PyJWT), HTTP details of the
provider's client, the parsing of addresses and of the policy's conditions, a request
without a socket peer (all of them share one bucket), and the test doubles. External
behaviour is modelled from how the code uses it: PostgreSQL's locks, snapshots and unique
indexes; Redis' keys and TTL; GoTrue's single-use refresh tokens and codes; the proxies in
front of the server; the operator; the browser.

## Plan

Done, in this order: `SessionStore` with `LoginLineage`; `AuthFlow`; `RequestPool`;
`JwksCache`; `RateLimiter`; `IdentityMapping` with the session it leads to;
`Authorization`; `Admission`; `Lifecycle`; proofs for all of them; `IdentityDirectory`, its
refinement and the proofs of the limiter's bound and of the store's progress.

Next, most important first:

1. `AuthFlow`: the answers of `touch`, and the cookies an error leaves behind.
2. A property of `JwksCache` that counts fetches for unknown key ids, once the code counts
   attempts instead of completions.
