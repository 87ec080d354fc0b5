---------------------------- MODULE RequestPool ----------------------------
(***************************************************************************)
(* A request and its database connections: DBTransactionMiddleware takes   *)
(* one connection from the pool for as long as the request runs, with a    *)
(* transaction around mutating verbs, and every repository call takes a    *)
(* second one for itself, on which it commits at once.                     *)
(*                                                                         *)
(* pool.acquire has no timeout: a request waits until a connection is      *)
(* free.  What the handlers do in between is any sequence of statements on *)
(* the request's connection and calls to repositories; it ends with a      *)
(* response, an exception, or the cancellation of the request.             *)
(***************************************************************************)
EXTENDS FiniteSets, Naturals

CONSTANTS
  Requests,     \* requests that can be served at once
  Connections,  \* the pool at its max_size
  Kinds,        \* kinds of requests that arrive
  Null

ASSUME PoolAssumption ==
  /\ Kinds \subseteq {"probe", "read", "mutating"}
  /\ IsFiniteSet(Requests)
  /\ IsFiniteSet(Connections)
  /\ Null \notin Connections

VARIABLES
  free,  \* connections in the pool
  req    \* per request slot, the request and what it holds

vars == <<free, req>>

Steps == {"idle", "acquire", "begin", "handler", "repo_wait", "repo", "closing", "answered"}

\* The steps at which a request has its connection.
Occupied == {"begin", "handler", "repo_wait", "repo", "closing"}

Outcomes == {"none", "ok", "redirect", "error"}

(***************************************************************************)
(* `conn' is request.state.db_connection, `repo' the connection of the     *)
(* repository call that runs; `own' says what became of statements on the  *)
(* former; `response' is the handler's, `sent' what the client gets.  What *)
(* a repository call writes is durable whatever becomes of the request.    *)
(***************************************************************************)
Request == [kind: Kinds \cup {"none"}, at: Steps,
            conn: Connections \cup {Null}, repo: Connections \cup {Null},
            own: {"none", "pending", "durable", "lost"},
            response: Outcomes, sent: Outcomes]

NoRequest == [kind |-> "none", at |-> "idle", conn |-> Null, repo |-> Null,
              own |-> "none", response |-> "none", sent |-> "none"]

TypeOK ==
  /\ free \subseteq Connections
  /\ req \in [Requests -> Request]

Init ==
  /\ free = Connections
  /\ req = [r \in Requests |-> NoRequest]

Held(q) == {q.conn, q.repo} \ {Null}

Mutating(r) == req[r].kind = "mutating"

-----------------------------------------------------------------------------

Arrive(r, kind) ==
  /\ req[r].at \in {"idle", "answered"}
  /\ req' = [req EXCEPT ![r] = [NoRequest EXCEPT !.kind = kind, !.at = "acquire"]]
  /\ UNCHANGED free

\* Every request goes through the middleware, the liveness probe included.
Acquire(r) ==
  /\ req[r].at = "acquire"
  /\ \E c \in free :
       /\ free' = free \ {c}
       /\ req' = [req EXCEPT ![r].conn = c, ![r].at = IF Mutating(r) THEN "begin" ELSE "handler"]

\* BEGIN, on the connection just taken.
Start(r) ==
  /\ req[r].at = "begin"
  /\ req' = [req EXCEPT ![r].at = "handler"]
  /\ UNCHANGED free

\* A statement on the request's connection; a read request has no transaction.
UseConnection(r) ==
  /\ req[r].at = "handler"
  /\ req[r].kind # "probe"
  /\ req' = [req EXCEPT ![r].own = IF Mutating(r) THEN "pending" ELSE "durable"]
  /\ UNCHANGED free

CallRepository(r) ==
  /\ req[r].at = "handler"
  /\ req[r].kind # "probe"
  /\ req' = [req EXCEPT ![r].at = "repo_wait"]
  /\ UNCHANGED free

RepoAcquire(r) ==
  /\ req[r].at = "repo_wait"
  /\ \E c \in free :
       /\ free' = free \ {c}
       /\ req' = [req EXCEPT ![r].repo = c, ![r].at = "repo"]

\* pool.fetchval has committed when it returns, and gives its connection back.
RepoReturn(r) ==
  /\ req[r].at = "repo"
  /\ free' = free \cup {req[r].repo}
  /\ req' = [req EXCEPT ![r].repo = Null, ![r].at = "handler"]

\* Mutant: the connection of a failed call is not given back.
RepoRaiseLeaks(r) ==
  /\ req[r].at = "repo"
  /\ req' = [req EXCEPT ![r].repo = Null, ![r].at = "closing", ![r].response = "error"]
  /\ UNCHANGED free

\* The call raises, on an error envelope or a lost reply, and the handler with it.
RepoRaise(r) ==
  /\ req[r].at = "repo"
  /\ free' = free \cup {req[r].repo}
  /\ req' = [req EXCEPT ![r].repo = Null, ![r].at = "closing", ![r].response = "error"]

\* call_next returns a response, or raises.
Respond(r) ==
  /\ req[r].at = "handler"
  /\ \E status \in {"ok", "redirect", "error"} :
       req' = [req EXCEPT ![r].at = "closing", ![r].response = status]
  /\ UNCHANGED free

Settle(r, own, sent) ==
  /\ free' = free \cup Held(req[r])
  /\ req' = [req EXCEPT ![r].at = "answered", ![r].conn = Null, ![r].repo = Null,
                        ![r].own = own, ![r].sent = sent]

\* What a rollback leaves of the statements on the request's connection.
RolledBack(own) == IF own = "pending" THEN "lost" ELSE own

Committed(own) == IF own = "pending" THEN "durable" ELSE own

\* Mutant: redirects commit.
CloseCommitsRedirects(r) ==
  /\ req[r].at = "closing"
  /\ Settle(r, IF req[r].response = "error" THEN RolledBack(req[r].own)
                                            ELSE Committed(req[r].own), req[r].response)

\* The transaction is committed for a 2xx and rolled back for anything else;
\* a commit that fails is a 500, although it may have taken effect, and so is a
\* rollback that fails.
Close(r) ==
  /\ req[r].at = "closing"
  /\ \/ /\ Mutating(r) => req[r].response = "ok"
        /\ Settle(r, Committed(req[r].own), req[r].response)
     \/ /\ Mutating(r)
        /\ req[r].response = "ok"
        /\ \E own \in {Committed(req[r].own), RolledBack(req[r].own)} : Settle(r, own, "error")
     \/ /\ Mutating(r)
        /\ req[r].response # "ok"
        /\ \E sent \in {req[r].response, "error"} : Settle(r, RolledBack(req[r].own), sent)

\* Mutant: the connection on which BEGIN failed is not given back.
StartFailsLeaks(r) ==
  /\ req[r].at = "begin"
  /\ req' = [req EXCEPT ![r].at = "answered", ![r].conn = Null, ![r].sent = "error"]
  /\ UNCHANGED free

\* The connection is broken: the transaction does not start, no handler runs.
StartFails(r) ==
  /\ req[r].at = "begin"
  /\ Settle(r, req[r].own, "error")

\* The server gives the request up; the context managers unwind.
Cancel(r) ==
  /\ req[r].at \in {"acquire", "begin", "handler", "repo_wait", "repo"}
  /\ Settle(r, RolledBack(req[r].own), "error")

-----------------------------------------------------------------------------

Handle(r) ==
  \/ Start(r)
  \/ StartFails(r)
  \/ UseConnection(r)
  \/ CallRepository(r)
  \/ RepoReturn(r)
  \/ RepoRaise(r)
  \/ Respond(r)
  \/ Close(r)

Next ==
  \E r \in Requests :
    \/ \E kind \in Kinds : Arrive(r, kind)
    \/ Acquire(r)
    \/ RepoAcquire(r)
    \/ Handle(r)
    \/ Cancel(r)

(***************************************************************************)
(* A handler comes to an end, and so does a statement (command_timeout).   *)
(* A waiter is served if connections keep coming back: asyncio wakes the   *)
(* waiters of a queue in the order of their arrival.                       *)
(***************************************************************************)
Fairness ==
  \A r \in Requests :
    /\ SF_vars(Acquire(r))
    /\ SF_vars(RepoAcquire(r))
    /\ WF_vars(Start(r) \/ StartFails(r))
    /\ WF_vars(RepoReturn(r) \/ RepoRaise(r))
    /\ SF_vars(Respond(r))
    /\ WF_vars(Close(r))

Spec == Init /\ [][Next]_vars

FairSpec == Spec /\ Fairness

-----------------------------------------------------------------------------
(* Properties                                                              *)

\* No connection is lost and none has two users, however calls fail and
\* requests are cancelled: each is in the pool or is one thing's of one request.
ConnectionsAccounted ==
  /\ \A c \in Connections :
       c \in free <=> \A r \in Requests : c \notin Held(req[r])
  /\ \A r, s \in Requests : r # s => Held(req[r]) \cap Held(req[s]) = {}
  /\ \A r \in Requests : req[r].repo # Null => req[r].repo # req[r].conn

\* What a request holds follows from the step it is at.
HoldsByStep ==
  \A r \in Requests :
    /\ req[r].conn # Null <=> req[r].at \in Occupied
    /\ req[r].repo # Null <=> req[r].at = "repo"

\* Until a mutating request is answered, its transaction is open.
OpenUntilAnswered ==
  \A r \in Requests : Mutating(r) =>
    /\ req[r].at # "answered" =>
         req[r].own \in {"none", "pending"} /\ req[r].sent = "none"
    /\ req[r].own = "pending" => req[r].at \notin {"acquire", "begin", "answered"}

\* On the request's own connection the transaction is what the middleware
\* promises: its writes stay only if the handler answered 2xx, and a client
\* that is told 2xx finds them.
OwnWritesFollowStatus ==
  \A r \in Requests : Mutating(r) /\ req[r].at = "answered" =>
    /\ req[r].own = "durable" => req[r].response = "ok"
    /\ req[r].sent = "ok" => req[r].own # "lost"

\* The inductive invariant of RequestPoolProofs.
PoolInvariant ==
  TypeOK /\ HoldsByStep /\ ConnectionsAccounted /\ OpenUntilAnswered /\ OwnWritesFollowStatus

\* Some request can go on without waiting for the pool.
Running(r) == req[r].at \in Occupied \ {"repo_wait"}

\* With fewer requests than connections, the pool is never drained by requests
\* that hold one connection each and all wait for another.
PoolNeverStuck ==
  Cardinality(Requests) < Cardinality(Connections) =>
    (free # {} \/ \E r \in Requests : Running(r))

\* Every request is answered; it needs more connections than requests.
EveryRequestAnswered ==
  \A r \in Requests : req[r].at = "acquire" ~> req[r].at = "answered"

\* health/routes.py:90: liveness has no dependencies of any kind.  A liveness
\* probe is answered.
LiveProbeAnswered ==
  \A r \in Requests :
    req[r].at = "acquire" /\ req[r].kind = "probe" ~> req[r].at = "answered"

=============================================================================
