---------------------------- MODULE SessionStore ----------------------------
(***************************************************************************)
(* The server-side session store: the six app.*_user_session functions of  *)
(* database/postgres/procedures/app/sessions and the row each writes, as   *)
(* PostgreSQL executes them for AsyncpgSessionRepository.                  *)
(*                                                                         *)
(* Every repository call is one pool.fetchval, hence one READ COMMITTED    *)
(* transaction of its own: now() is frozen when the call begins, every     *)
(* statement of the function reads what has committed when it runs, a row  *)
(* written or selected FOR UPDATE stays locked until the call ends, and a  *)
(* statement that waited for a lock re-checks its WHERE clause against the *)
(* new row version.  A statement over many rows waits for one row at a     *)
(* time and keeps the rows it has passed.  A call can be aborted between   *)
(* any two statements (a lost connection, a cancelled statement, a         *)
(* deadlock victim).                                                       *)
(*                                                                         *)
(* A session is named by its cookie token; rows hold the token's hash, so  *)
(* one identifier stands for both and for the row's id.                    *)
(***************************************************************************)
EXTENDS Integers, FiniteSets

CONSTANTS
  Backends,       \* database connections, each serving one call at a time
  Sessions,       \* session tokens that can be generated
  Users,
  Tenants,
  ActiveTenants,  \* tenants whose status is 'active'
  Members,        \* <<user, tenant>> pairs with an active membership
  AbsoluteTtl,    \* session_absolute_ttl_seconds, in ticks
  IdleTtl,        \* session_idle_ttl_seconds, in ticks
  Grace,          \* p_older_than of the retention purge, in ticks
  CallTimeout,    \* db_command_timeout: the driver cancels a longer call
  MaxTime,        \* bound: the clock stops here
  Null

Owners == Users \X Tenants

Row == [owner: Owners, absolute: Nat, idle: Nat,
        revoked: Nat \cup {Null}, rotated_from: Sessions \cup {Null}]

ASSUME StoreAssumption ==
  /\ IsFiniteSet(Backends)
  /\ ActiveTenants \subseteq Tenants
  /\ Members \subseteq Users \X Tenants
  /\ AbsoluteTtl \in Nat \ {0}
  /\ IdleTtl \in Nat \ {0}
  /\ Grace \in Nat
  /\ CallTimeout \in Nat
  /\ MaxTime \in Nat
  /\ Null \notin Nat
  /\ Null \notin Sessions
  /\ Null \notin Owners
  /\ Null \notin Row

VARIABLES
  row,     \* app.user_sessions: Null for a token that has no row
  origin,  \* history: the login a stored token descends from, Null before
  clock,   \* wall-clock time
  call     \* per backend, the function call being executed

vars == <<row, origin, clock, call>>

Statements == {"none", "create", "touch", "touch_write", "rotate",
               "rotate_commit", "revoke", "revoke_all", "revoke_all_rows",
               "purge", "purge_rows", "purge_cut"}

\* The statements that go from row to row.
RowByRow == {"revoke_all_rows", "purge_rows", "purge_cut"}

(***************************************************************************)
(* `at' is the statement the call executes next, `now' the frozen clock,   *)
(* `locked' the rows it holds and `token' the row it works on.  For a      *)
(* statement over many rows `targets' are the rows of its snapshot not yet *)
(* visited, `token' the one of them it visits next and `seen' the rows the *)
(* snapshot matched; at "purge_cut", `seen' are the rows deleted.          *)
(***************************************************************************)
Call == [at: Statements, now: Nat, token: Sessions \cup {Null},
         new: Sessions \cup {Null}, owner: Owners \cup {Null},
         seen: SUBSET Sessions, targets: SUBSET Sessions,
         locked: SUBSET Sessions]

NoCall == [at |-> "none", now |-> 0, token |-> Null, new |-> Null,
           owner |-> Null, seen |-> {}, targets |-> {}, locked |-> {}]

TypeOK ==
  /\ row \in [Sessions -> Row \cup {Null}]
  /\ origin \in [Sessions -> Sessions \cup {Null}]
  /\ clock \in Nat
  /\ call \in [Backends -> Call]

Earliest(a, b) == IF a <= b THEN a ELSE b

Stored(s) == row[s] # Null

Live(s) == Stored(s) /\ row[s].revoked = Null

Expired(s, now) == row[s].absolute <= now \/ row[s].idle <= now

\* What get, touch and rotate require of a row before they go on.
Active(s, now) == Live(s) /\ ~Expired(s, now)

\* No other call in flight holds a lock on the row of s.
Free(b, s) == \A c \in Backends \ {b} : s \notin call[c].locked

\* Tokens come from a 256-bit generator: a new one was never used before.
Fresh(s) == origin[s] = Null /\ \A c \in Backends : call[c].new # s

Init ==
  /\ row = [s \in Sessions |-> Null]
  /\ origin = [s \in Sessions |-> Null]
  /\ clock = 0
  /\ call = [b \in Backends |-> NoCall]

-----------------------------------------------------------------------------
(* A call begins: its transaction starts and freezes now().                *)

NewCall(at, token, new, owner) ==
  [NoCall EXCEPT !.at = at, !.now = clock, !.token = token, !.new = new, !.owner = owner]

Begin(b, c) ==
  /\ call[b] = NoCall
  /\ call' = [call EXCEPT ![b] = c]
  /\ UNCHANGED <<row, origin, clock>>

BeginCreate(b) == \E s \in Sessions, o \in Owners :
  Fresh(s) /\ Begin(b, NewCall("create", Null, s, o))

BeginTouch(b) == \E s \in Sessions :
  origin[s] # Null /\ Begin(b, NewCall("touch", s, Null, Null))

BeginRotate(b) == \E s, n \in Sessions :
  origin[s] # Null /\ Fresh(n) /\ Begin(b, NewCall("rotate", s, n, Null))

BeginRevoke(b) == \E s \in Sessions :
  origin[s] # Null /\ Begin(b, NewCall("revoke", s, Null, Null))

BeginRevokeAll(b) == \E o \in Owners :
  Begin(b, NewCall("revoke_all", Null, Null, o))

BeginPurge(b) == Begin(b, NewCall("purge", Null, Null, Null))

\* Mutant: the connection goes back to the pool with its transaction open.
ReturnInTransaction(b) ==
  call' = [call EXCEPT ![b] = [NoCall EXCEPT !.locked = call[b].locked]]

\* The call returns, with a result or an error, and its locks are released.
Return(b) == call' = [call EXCEPT ![b] = NoCall]

\* The transaction rolls back: nothing it wrote was visible to anyone.
Abort(b) ==
  /\ call[b].at # "none"
  /\ Return(b)
  /\ UNCHANGED <<row, origin, clock>>

-----------------------------------------------------------------------------
(* create_user_session                                                     *)

NewRow(owner, absolute, now, from) ==
  [owner |-> owner, absolute |-> absolute,
   idle |-> Earliest(now + IdleTtl, absolute),
   revoked |-> Null, rotated_from |-> from]

Create(b) ==
  LET c == call[b] IN
  /\ c.at = "create"
  /\ Return(b)
  /\ UNCHANGED clock
  /\ \/ /\ c.owner[2] \in ActiveTenants
        /\ c.owner \in Members
        /\ row' = [row EXCEPT ![c.new] = NewRow(c.owner, c.now + AbsoluteTtl, c.now, Null)]
        /\ origin' = [origin EXCEPT ![c.new] = c.new]
     \/ /\ c.owner[2] \notin ActiveTenants \/ c.owner \notin Members
        /\ UNCHANGED <<row, origin>>

-----------------------------------------------------------------------------
(* touch_user_session: a plain SELECT, then an UPDATE by id that re-checks *)
(* nothing but the row's existence.                                        *)

\* Mutant: touch asks only whether the session was revoked.
TouchReadAnyAge(b) ==
  LET c == call[b] IN
  /\ c.at = "touch"
  /\ \/ /\ Live(c.token)
        /\ call' = [call EXCEPT ![b].at = "touch_write"]
     \/ /\ ~Live(c.token)
        /\ Return(b)
  /\ UNCHANGED <<row, origin, clock>>

TouchRead(b) ==
  LET c == call[b] IN
  /\ c.at = "touch"
  /\ \/ /\ Active(c.token, c.now)
        /\ call' = [call EXCEPT ![b].at = "touch_write"]
     \/ /\ ~Active(c.token, c.now)
        /\ Return(b)
  /\ UNCHANGED <<row, origin, clock>>

\* Mutant: touch sets the idle deadline to now() itself.
TouchWriteNoWindow(b) ==
  LET c == call[b] IN
  /\ c.at = "touch_write"
  /\ Free(b, c.token)
  /\ \/ /\ Stored(c.token)
        /\ row' = [row EXCEPT ![c.token].idle = Earliest(c.now, row[c.token].absolute)]
     \/ /\ ~Stored(c.token)
        /\ UNCHANGED row
  /\ Return(b)
  /\ UNCHANGED <<origin, clock>>

TouchWrite(b) ==
  LET c == call[b] IN
  /\ c.at = "touch_write"
  /\ Free(b, c.token)
  /\ \/ /\ Stored(c.token)
        /\ row' = [row EXCEPT ![c.token].idle =
                     Earliest(c.now + IdleTtl, row[c.token].absolute)]
     \/ /\ ~Stored(c.token)
        /\ UNCHANGED row
  /\ Return(b)
  /\ UNCHANGED <<origin, clock>>

-----------------------------------------------------------------------------
(* rotate_user_session: SELECT ... FOR UPDATE and the checks, then the     *)
(* INSERT and the UPDATE, which become visible together at commit.         *)

\* Mutant: the SELECT is not FOR UPDATE.
RotateUnlocked(b) ==
  LET c == call[b] IN
  /\ c.at = "rotate"
  /\ \/ /\ Active(c.token, c.now)
        /\ call' = [call EXCEPT ![b].at = "rotate_commit"]
     \/ /\ ~Active(c.token, c.now)
        /\ Return(b)
  /\ UNCHANGED <<row, origin, clock>>

\* Mutant: the check for revoked_at is missing.
RotateRevoked(b) ==
  LET c == call[b]
      ok == Stored(c.token) /\ ~Expired(c.token, c.now) IN
  /\ c.at = "rotate"
  /\ Free(b, c.token)
  /\ \/ /\ ok
        /\ call' = [call EXCEPT ![b].at = "rotate_commit", ![b].locked = {c.token}]
     \/ /\ ~ok
        /\ Return(b)
  /\ UNCHANGED <<row, origin, clock>>

RotateLock(b) ==
  LET c == call[b] IN
  /\ c.at = "rotate"
  /\ Free(b, c.token)
  /\ \/ /\ Active(c.token, c.now)
        /\ call' = [call EXCEPT ![b].at = "rotate_commit", ![b].locked = {c.token}]
     \/ /\ ~Active(c.token, c.now)
        /\ Return(b)
  /\ UNCHANGED <<row, origin, clock>>

\* Mutant: every refresh starts a new absolute lifetime.
RotateExtends(b) ==
  LET c == call[b]
      old == row[c.token] IN
  /\ c.at = "rotate_commit"
  /\ row' = [row EXCEPT ![c.new] = NewRow(old.owner, c.now + AbsoluteTtl, c.now, c.token),
                        ![c.token].revoked = c.now]
  /\ origin' = [origin EXCEPT ![c.new] = origin[c.token]]
  /\ Return(b)
  /\ UNCHANGED clock

RotateCommit(b) ==
  LET c == call[b]
      old == row[c.token] IN
  /\ c.at = "rotate_commit"
  /\ row' = [row EXCEPT ![c.new] = NewRow(old.owner, old.absolute, c.now, c.token),
                        ![c.token].revoked = c.now]
  /\ origin' = [origin EXCEPT ![c.new] = origin[c.token]]
  /\ Return(b)
  /\ UNCHANGED clock

-----------------------------------------------------------------------------
(* revoke_user_session: idempotent, one UPDATE.                            *)

Revoke(b) ==
  LET c == call[b] IN
  /\ c.at = "revoke"
  /\ Free(b, c.token)
  /\ \/ /\ Live(c.token)
        /\ row' = [row EXCEPT ![c.token].revoked = c.now]
     \/ /\ ~Live(c.token)
        /\ UNCHANGED row
  /\ Return(b)
  /\ UNCHANGED <<origin, clock>>

-----------------------------------------------------------------------------
(* Statements over many rows: the snapshot decides which rows are visited; *)
(* they are visited one by one, in no order the SQL fixes, and each is     *)
(* waited for, re-checked and, if it still qualifies, locked.              *)

\* The row visited next, when those of S are left.
Ahead(S) == IF S = {} THEN {Null} ELSE S

ScanRows(b, at, rows) ==
  /\ \E t \in Ahead(rows) :
       call' = [call EXCEPT ![b] = [call[b] EXCEPT
         !.at = at, !.token = t, !.seen = rows, !.targets = rows]]
  /\ UNCHANGED <<row, origin, clock>>

\* The row visited is free, and locked if it qualifies.
VisitRow(b, qualifies) ==
  LET c == call[b] IN
  /\ c.token # Null
  /\ Free(b, c.token)
  /\ \E t \in Ahead(c.targets \ {c.token}) :
       call' = [call EXCEPT ![b] = [c EXCEPT
         !.token = t, !.targets = c.targets \ {c.token},
         !.locked = IF qualifies THEN c.locked \cup {c.token} ELSE c.locked]]
  /\ UNCHANGED <<row, origin, clock>>

-----------------------------------------------------------------------------
(* revoke_all_user_sessions: one UPDATE.                                   *)

RevokeAllMatches(s, owner, now) == Active(s, now) /\ row[s].owner = owner

RevokeAllScan(b) ==
  LET c == call[b] IN
  /\ c.at = "revoke_all"
  /\ ScanRows(b, "revoke_all_rows", {s \in Sessions : RevokeAllMatches(s, c.owner, c.now)})

\* Mutant: rows another call holds are skipped (SKIP LOCKED).
RevokeAllSkipsLocked(b) ==
  LET c == call[b] IN
  /\ c.at = "revoke_all_rows"
  /\ \/ VisitRow(b, RevokeAllMatches(c.token, c.owner, c.now))
     \/ /\ c.token # Null /\ ~Free(b, c.token)
        /\ \E t \in Ahead(c.targets \ {c.token}) :
             call' = [call EXCEPT ![b].token = t, ![b].targets = c.targets \ {c.token}]
        /\ UNCHANGED <<row, origin, clock>>

RevokeAllRow(b) ==
  LET c == call[b] IN
  /\ c.at = "revoke_all_rows"
  /\ VisitRow(b, RevokeAllMatches(c.token, c.owner, c.now))

RevokeAllCommit(b) ==
  LET c == call[b] IN
  /\ c.at = "revoke_all_rows"
  /\ c.targets = {}
  /\ row' = [s \in Sessions |->
               IF s \in c.locked THEN [row[s] EXCEPT !.revoked = c.now] ELSE row[s]]
  /\ Return(b)
  /\ UNCHANGED <<origin, clock>>

-----------------------------------------------------------------------------
(* delete_expired_sessions: DELETE of the rows past the grace window, then *)
(* the trigger of the foreign key, which sets rotated_from to NULL in the  *)
(* rows that pointed at a deleted one.  Its UPDATE locks row by row too,   *)
(* while the call holds what it deleted.                                   *)

\* Mutant: the purge goes by the idle deadline.
PurgeableIdle(s, now) ==
  /\ Stored(s)
  /\ \/ row[s].idle < now - Grace
     \/ row[s].revoked # Null /\ row[s].revoked < now - Grace

Purgeable(s, now) ==
  /\ Stored(s)
  /\ \/ row[s].absolute < now - Grace
     \/ row[s].revoked # Null /\ row[s].revoked < now - Grace

PointsInto(s, S) == Stored(s) /\ row[s].rotated_from \in S

PurgeScan(b) ==
  LET c == call[b] IN
  /\ c.at = "purge"
  /\ ScanRows(b, "purge_rows", {s \in Sessions : Purgeable(s, c.now)})

PurgeRow(b) ==
  LET c == call[b] IN
  /\ c.at = "purge_rows"
  /\ VisitRow(b, Purgeable(c.token, c.now))

\* The DELETE is done; the trigger looks for rows that pointed at a deleted one.
PurgeCascade(b) ==
  LET c == call[b]
      cut == {s \in Sessions : PointsInto(s, c.locked)} \ c.locked IN
  /\ c.at = "purge_rows"
  /\ c.targets = {}
  /\ \E t \in Ahead(cut) :
       call' = [call EXCEPT ![b] = [c EXCEPT
         !.at = "purge_cut", !.token = t, !.seen = c.locked, !.targets = cut]]
  /\ UNCHANGED <<row, origin, clock>>

PurgeCutRow(b) ==
  LET c == call[b] IN
  /\ c.at = "purge_cut"
  /\ VisitRow(b, PointsInto(c.token, c.seen))

\* Mutant: the foreign key is not ON DELETE SET NULL.
PurgeLeavesPointers(b) ==
  LET c == call[b] IN
  /\ c.at = "purge_cut"
  /\ c.targets = {}
  /\ row' = [s \in Sessions |-> IF s \in c.seen THEN Null ELSE row[s]]
  /\ Return(b)
  /\ UNCHANGED <<origin, clock>>

PurgeCommit(b) ==
  LET c == call[b] IN
  /\ c.at = "purge_cut"
  /\ c.targets = {}
  /\ row' = [s \in Sessions |->
               IF s \in c.seen THEN Null
               ELSE IF s \in c.locked THEN [row[s] EXCEPT !.rotated_from = Null]
               ELSE row[s]]
  /\ Return(b)
  /\ UNCHANGED <<origin, clock>>

-----------------------------------------------------------------------------

\* Time passes; a call older than the command timeout has been cancelled.
Tick ==
  /\ clock < MaxTime
  /\ \A b \in Backends : call[b].at # "none" => clock < call[b].now + CallTimeout
  /\ clock' = clock + 1
  /\ UNCHANGED <<row, origin, call>>

BeginCall(b) ==
  \/ BeginCreate(b)
  \/ BeginTouch(b)
  \/ BeginRotate(b)
  \/ BeginRevoke(b)
  \/ BeginRevokeAll(b)
  \/ BeginPurge(b)

\* The statements PostgreSQL executes for the call in flight.
Execute(b) ==
  \/ Create(b)
  \/ TouchRead(b)
  \/ TouchWrite(b)
  \/ RotateLock(b)
  \/ RotateCommit(b)
  \/ Revoke(b)
  \/ RevokeAllScan(b)
  \/ RevokeAllRow(b)
  \/ RevokeAllCommit(b)
  \/ PurgeScan(b)
  \/ PurgeRow(b)
  \/ PurgeCascade(b)
  \/ PurgeCutRow(b)
  \/ PurgeCommit(b)

Next == Tick \/ \E b \in Backends : BeginCall(b) \/ Execute(b) \/ Abort(b)

Spec == Init /\ [][Next]_vars

-----------------------------------------------------------------------------
(* Fairness: PostgreSQL keeps executing a call that can go on, its lock    *)
(* queues are first come first served (a statement that could get its lock *)
(* again and again gets it), and the deadlock detector rolls a victim      *)
(* back.  Clients promise nothing: no call has to begin, or to be aborted. *)

\* The row the statement of b has to lock next, if there is one.
Wanted(b) ==
  IF call[b].at \in {"touch_write", "rotate", "revoke"} \cup RowByRow
    THEN {call[b].token} \ {Null} ELSE {}

WaitsFor(c, d) == c # d /\ Wanted(c) \cap call[d].locked # {}

\* Mutant: nobody looks for deadlocks.
DeadlockUnseen(b) == b \notin Backends

\* b is on a cycle of calls each of which waits for a row the next one holds.
Deadlocked(b) ==
  \E B \in SUBSET Backends :
    /\ b \in B
    /\ \A c \in B : /\ \E d \in B : WaitsFor(c, d)
                    /\ \E d \in B : WaitsFor(d, c)

DeadlockVictim(b) == Deadlocked(b) /\ Abort(b)

FairSpec ==
  /\ Spec
  /\ \A b \in Backends : SF_vars(Execute(b)) /\ WF_vars(DeadlockVictim(b))

-----------------------------------------------------------------------------
(* The store implements the abstract life of a login.                      *)

Carriers == [l \in Sessions |-> {s \in Sessions : Live(s) /\ origin[s] = l}]

Lineage == INSTANCE LoginLineage WITH
  issued <- {s \in Sessions : origin[s] # Null},
  live <- Carriers

\* Every step of the functions, in any interleaving, begins, rotates or ends
\* logins as LoginLineage allows: the successor of a rotation takes over from
\* the one session that carried the login, and a login whose session was
\* revoked or purged is never carried again.
LineageSpec == Lineage!Spec

-----------------------------------------------------------------------------
(* Properties                                                              *)

\* However many refreshes of one login run at once, and whatever revocations
\* and aborts fall between them, at most one of its sessions is unrevoked: a
\* double rotation cannot mint two live sessions (rotate_user_session.sql).
OneLivePerLogin ==
  \A r, s \in Sessions :
    Live(r) /\ Live(s) /\ origin[r] = origin[s] => r = s

\* "Exactly one rotation ever succeeds": no two stored rows claim the same
\* predecessor, also after purges have cut the chain behind them.
RotatedOnce ==
  \A r, s \in Sessions :
    /\ Stored(r) /\ Stored(s)
    /\ row[r].rotated_from # Null
    /\ row[r].rotated_from = row[s].rotated_from
    => r = s

\* A rotation carries user, tenant and absolute expiry over unchanged, and a
\* touch never reaches past it: every stored generation of a login has the
\* same owner and deadline, and idles out no later than that deadline.
LoginTermsFixed ==
  /\ \A r, s \in Sessions :
       Stored(r) /\ Stored(s) /\ origin[r] = origin[s] =>
         row[r].owner = row[s].owner /\ row[r].absolute = row[s].absolute
  /\ \A s \in Sessions : Stored(s) => row[s].idle <= row[s].absolute

-----------------------------------------------------------------------------
(* Action properties                                                       *)

\* A session of login l that is unrevoked and expired less than CallTimeout ago.
Resumable(l) ==
  \E s \in Sessions :
    /\ origin[s] = l
    /\ Live(s)
    /\ ~Expired(s, clock - CallTimeout)

\* A login all of whose sessions are revoked, purged or expired for longer
\* than a call can last stays dead: no touch that decided on an old read and
\* no rotation that waited for the lock with an old now() brings it back.
DeadLoginStaysDead ==
  [][\A l \in Sessions : origin[l] # Null /\ ~Resumable(l) => ~Resumable(l)']_vars

\* When revoke_all_user_sessions commits, every session its snapshot found
\* is revoked or gone, although rotations, touches and purges of these rows
\* ran while it waited for their locks.
RevokeAllCovers ==
  [][\A b \in Backends : RevokeAllCommit(b) =>
       \A s \in call[b].seen : ~Live(s)']_vars

\* The purge never takes a session some client could still use or rotate: a
\* row that disappears was revoked, or past its absolute expiry.
PurgeTakesOnlyDead ==
  [][\A s \in Sessions : Stored(s) /\ ~Stored(s)' =>
       row[s].revoked # Null \/ row[s].absolute <= clock]_vars

\* Every call comes to an end, with a result or an error: no call waits for
\* ever for rows held by others, in whatever order revoke_all calls, purges
\* and rotations lock them.
EveryCallReturns ==
  \A b \in Backends : call[b].at # "none" ~> call[b].at = "none"

\* The call in flight gets the lock its next statement needs, if it needs one.
CanGoOn(b) == call[b].at # "none" /\ \A s \in Wanted(b) : Free(b, s)

\* The store never hangs: while calls are in flight, one of them has the lock
\* it needs, or some wait for each other in a circle and the detector has a
\* victim.  No crowd of waiting calls is without either, whatever rows the
\* revoke_all and purge calls among them hold while they wait.
NeverStuck ==
  \A b \in Backends :
    call[b].at # "none" => \E c \in Backends : CanGoOn(c) \/ Deadlocked(c)

\* What revoke_all_user_sessions.sql:2 says: "log out everywhere" revokes
\* every active session of the user in the tenant.  When it commits, no login
\* whose session its snapshot found still has an active session.
RevokeAllEndsLogins ==
  [][\A b \in Backends : RevokeAllCommit(b) =>
       \A s \in call[b].seen, r \in Sessions :
         origin[r] = origin[s] => ~Live(r)']_vars

-----------------------------------------------------------------------------
(* The inductive invariants behind them                                    *)

\* A stored token belongs to a login, and a login's name was a stored token.
OriginsKnown ==
  \A s \in Sessions :
    /\ Stored(s) => origin[s] # Null
    /\ origin[s] # Null => origin[origin[s]] # Null

\* The foreign key holds, and what a row was rotated from is revoked.
PredecessorsRevoked ==
  \A s, p \in Sessions :
    Stored(s) /\ row[s].rotated_from = p => Stored(p) /\ row[p].revoked # Null

\* Each call in flight has the arguments its next statement uses, holds only
\* the locks that statement needs, and is no older than the command timeout.
Formed(c) ==
  /\ c.at \in {"create", "rotate", "rotate_commit"} => c.new # Null
  /\ c.at = "create" => c.owner # Null
  /\ c.at \in {"touch", "touch_write", "rotate", "rotate_commit", "revoke"} =>
       c.token # Null /\ origin[c.token] # Null
  /\ c.at = "rotate_commit" => c.locked = {c.token}
  /\ c.at \notin {"rotate_commit"} \cup RowByRow => c.locked = {}
  /\ c.at \notin RowByRow => c.targets = {}
  /\ c.at \in RowByRow => c.token \in Ahead(c.targets)
  /\ c.at # "none" => c.now <= clock /\ clock <= c.now + CallTimeout

CallsFormed == \A b \in Backends : Formed(call[b])

\* A token generated for a call in flight names no session and no other call.
NewTokensFresh ==
  \A b \in Backends :
    call[b].new # Null =>
      /\ origin[call[b].new] = Null
      /\ \A c \in Backends \ {b} : call[c].new # call[b].new

\* The rows a purge has deleted, not yet committed.
Deleted(c) ==
  CASE c.at = "purge_rows" -> c.locked
    [] c.at = "purge_cut" -> c.seen
    [] OTHER -> {}

\* Row locks are exclusive, and a locked row stays what its holder found it to
\* be until the holder commits: stored, and unrevoked for a rotation or a
\* revoke_all, past the grace window for the DELETE of a purge.
LocksHeld ==
  \A b \in Backends :
    /\ Deleted(call[b]) \subseteq call[b].locked
    /\ \A s \in call[b].locked :
         /\ Free(b, s)
         /\ Stored(s)
         /\ call[b].at \in {"rotate_commit", "revoke_all_rows"} => Live(s)
         /\ s \in Deleted(call[b]) => Purgeable(s, call[b].now)

\* A purge misses no row that points at one it deletes: a rotation that adds
\* one would need the lock of the deleted row.
PurgesCover ==
  \A b \in Backends : call[b].at = "purge_cut" =>
    \A s \in Sessions :
      PointsInto(s, call[b].seen) => s \in call[b].targets \cup call[b].locked

\* The rows a call has found active and may still write.
Claims(c) ==
  CASE c.at = "touch_write" -> {c.token}
    [] c.at \in {"rotate_commit", "revoke_all_rows"} -> c.targets \cup c.locked
    [] OTHER -> {}

\* What a call decided on holds until it writes: the row was revoked or purged
\* meanwhile, or it is still unexpired at the call's now().
ClaimsHold(c) ==
  \A s \in Claims(c) : origin[s] # Null /\ (Live(s) => Active(s, c.now))

\* revoke_all has dealt with every row of its snapshot it no longer visits.
ScanCovered(c) ==
  c.at = "revoke_all_rows" =>
    /\ c.targets \subseteq c.seen
    /\ \A s \in c.seen :
         /\ origin[s] # Null
         /\ Live(s) => row[s].owner = c.owner /\ s \in c.targets \cup c.locked

ClaimsInvariant ==
  \A b \in Backends : ClaimsHold(call[b]) /\ ScanCovered(call[b])

RowInvariant ==
  /\ OriginsKnown
  /\ PredecessorsRevoked
  /\ OneLivePerLogin
  /\ RotatedOnce
  /\ LoginTermsFixed

\* Why no interleaving breaks the properties above: a call's decision about a
\* row cannot be overtaken while it waits for or holds the row's lock.
StoreInvariant ==
  /\ TypeOK
  /\ RowInvariant
  /\ CallsFormed
  /\ NewTokensFresh
  /\ LocksHeld
  /\ PurgesCover

\* With calls shorter than the idle window (30 s against 1800 s by default).
ShortCalls == CallTimeout < IdleTtl

=============================================================================
