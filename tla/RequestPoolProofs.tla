------------------------- MODULE RequestPoolProofs -------------------------
(***************************************************************************)
(* The pool of RequestPool, for any number of requests and connections: no *)
(* connection leaks or is shared, the transaction of a request follows its *)
(* response, and fewer requests than connections cannot drain the pool for *)
(* good.                                                                   *)
(***************************************************************************)
EXTENDS RequestPool, FiniteSetTheorems, TLAPS

USE DEF Steps, Occupied, Outcomes

\* The invariant relates a request only to the connections, so that a step of
\* one request has to be looked at for that request alone.
LEMMA PoolInvariantInit == Init => PoolInvariant
BY PoolAssumption DEF Init, PoolInvariant, TypeOK, HoldsByStep, ConnectionsAccounted,
  OpenUntilAnswered, OwnWritesFollowStatus, NoRequest, Request, Held, Mutating

\* What a step has to establish about the one request it changes.
Formed(q) ==
  /\ q \in Request
  /\ q.conn # Null <=> q.at \in Occupied
  /\ q.repo # Null <=> q.at = "repo"
  /\ q.kind = "mutating" =>
       /\ q.at # "answered" => q.own \in {"none", "pending"} /\ q.sent = "none"
       /\ q.own = "pending" => q.at \notin {"acquire", "begin", "answered"}
       /\ q.at = "answered" =>
            /\ q.own = "durable" => q.response = "ok"
            /\ q.sent = "ok" => q.own # "lost"

\* A step of one request keeps the invariant if it leaves the request well
\* formed and moves connections only between the request and the pool.
LEMMA OneRequest ==
  ASSUME PoolInvariant, NEW r \in Requests, NEW q,
         req' = [req EXCEPT ![r] = q], Formed(q),
         Held(q) \subseteq Held(req[r]) \cup free,
         q.repo # Null => q.repo # q.conn,
         free' = (free \cup Held(req[r])) \ Held(q)
  PROVE  PoolInvariant'
<1>1. /\ req \in [Requests -> Request]
      /\ free \subseteq Connections
      /\ req'[r] = q
      /\ \A s \in Requests : s # r => req'[s] = req[s]
  BY DEF PoolInvariant, TypeOK
<1>2. Held(q) \subseteq Connections /\ Held(req[r]) \subseteq Connections
  BY <1>1 DEF Formed, Held, Request
<1>3. TypeOK'
  BY <1>1, <1>2 DEF TypeOK, Formed
<1>4. HoldsByStep'
  BY <1>1 DEF PoolInvariant, HoldsByStep, Formed
<1>5. OpenUntilAnswered' /\ OwnWritesFollowStatus'
  BY <1>1 DEF PoolInvariant, OpenUntilAnswered, OwnWritesFollowStatus, Mutating, Formed
<1>6. ConnectionsAccounted'
  <2>1. /\ \A c \in Connections :
             c \in free <=> \A s \in Requests : c \notin Held(req[s])
        /\ \A s, t \in Requests : s # t => Held(req[s]) \cap Held(req[t]) = {}
        /\ \A s \in Requests : req[s].repo # Null => req[s].repo # req[s].conn
    BY DEF PoolInvariant, ConnectionsAccounted
  <2>2. Held(req'[r]) = Held(q) /\ \A s \in Requests : s # r => Held(req'[s]) = Held(req[s])
    BY <1>1
  <2>3. \A s \in Requests : Held(req[s]) \subseteq Connections \ free
    BY <1>1, <2>1 DEF Held, Request
  <2>4. \A c \in Connections : c \in free' <=> \A s \in Requests : c \notin Held(req'[s])
    <3> SUFFICES ASSUME NEW c \in Connections
                 PROVE  c \in free' <=> \A s \in Requests : c \notin Held(req'[s])
      OBVIOUS
    <3>1. CASE c \in Held(q)
      BY <3>1, <2>2
    <3>2. CASE c \notin Held(q) /\ c \in Held(req[r])
      BY <3>2, <2>1, <2>2
    <3>3. CASE c \notin Held(q) /\ c \notin Held(req[r])
      BY <3>3, <2>1, <2>2
    <3> QED
      BY <3>1, <3>2, <3>3
  <2>5. \A s, t \in Requests : s # t => Held(req'[s]) \cap Held(req'[t]) = {}
    BY <2>1, <2>2, <2>3
  <2>6. \A s \in Requests : req'[s].repo # Null => req'[s].repo # req'[s].conn
    BY <1>1, <2>1
  <2> QED
    BY <2>4, <2>5, <2>6 DEF ConnectionsAccounted
<1> QED
  BY <1>3, <1>4, <1>5, <1>6 DEF PoolInvariant

\* Releasing everything a request holds, with what became of its writes.
LEMMA SettleStep ==
  ASSUME PoolInvariant, NEW r \in Requests,
         NEW own \in {"none", "pending", "durable", "lost"}, NEW sent \in Outcomes,
         Settle(r, own, sent),
         Mutating(r) =>
           /\ own # "pending"
           /\ own = "durable" => req[r].response = "ok"
           /\ sent = "ok" => own # "lost"
  PROVE  PoolInvariant'
<1> DEFINE q == [req[r] EXCEPT !.at = "answered", !.conn = Null, !.repo = Null,
                               !.own = own, !.sent = sent]
<1>0. req[r] \in Request
  BY DEF PoolInvariant, TypeOK
<1>1. req[r] \in Request /\ req' = [req EXCEPT ![r] = q]
  BY <1>0 DEF Settle
<1>2. Held(q) = {}
  BY <1>1 DEF Held, Request
<1>3. Formed(q)
  <2>1. /\ q.at = "answered" /\ q.conn = Null /\ q.repo = Null /\ q.own = own /\ q.sent = sent
        /\ q.kind = req[r].kind /\ q.response = req[r].response
    BY <1>0 DEF Request
  <2>2. q \in Request
    BY <1>0 DEF Request, Steps
  <2> HIDE DEF q
  <2> QED  BY <2>1, <2>2 DEF Formed, Mutating
<1>4. free' = (free \cup Held(req[r])) \ Held(q)
  BY <1>2 DEF Settle
<1>5. q.repo = Null
  BY <1>1 DEF Request
<1> HIDE DEF q
<1> QED
  BY <1>1, <1>2, <1>3, <1>4, <1>5, OneRequest

\* Every step keeps the invariant.
LEMMA PoolInvariantStep == PoolInvariant /\ [Next]_vars => PoolInvariant'
<1> SUFFICES ASSUME PoolInvariant, [Next]_vars PROVE PoolInvariant'
  OBVIOUS
<1>1. CASE UNCHANGED vars
  BY <1>1 DEF vars, PoolInvariant, TypeOK, HoldsByStep, ConnectionsAccounted,
    OpenUntilAnswered, OwnWritesFollowStatus, Mutating
<1>2. CASE Next
  <2> PICK r \in Requests :
        \/ \E kind \in Kinds : Arrive(r, kind)
        \/ Acquire(r)
        \/ RepoAcquire(r)
        \/ Handle(r)
        \/ Cancel(r)
    BY <1>2 DEF Next
  <2>1. /\ req[r] \in Request
        /\ free \subseteq Connections
        /\ Formed(req[r])
        /\ Held(req[r]) \cap free = {}
        /\ req[r].repo # Null => req[r].repo # req[r].conn
    <3>1. req[r] \in Request /\ free \subseteq Connections
      BY DEF PoolInvariant, TypeOK
    <3>2. Held(req[r]) \subseteq Connections
      BY <3>1 DEF Held, Request
    <3> QED
      BY <3>1, <3>2 DEF PoolInvariant, HoldsByStep, ConnectionsAccounted, OpenUntilAnswered,
        OwnWritesFollowStatus, Mutating, Formed
  <2>2. ASSUME NEW kind \in Kinds, Arrive(r, kind) PROVE PoolInvariant'
    <3> DEFINE q == [NoRequest EXCEPT !.kind = kind, !.at = "acquire"]
    <3>1. Formed(q) /\ q.repo = Null /\ Held(q) = {}
      BY <2>2 DEF NoRequest, Formed, Request, Held
    <3>2. req' = [req EXCEPT ![r] = q] /\ Held(req[r]) = {} /\ free' = free
      BY <2>1, <2>2 DEF Arrive, Formed, Held
    <3> HIDE DEF q
    <3> QED
      BY <3>1, <3>2, OneRequest
  <2>3. CASE Acquire(r)
    <3> DEFINE next == IF Mutating(r) THEN "begin" ELSE "handler"
    <3> PICK c \in free :
          /\ free' = free \ {c}
          /\ req' = [req EXCEPT ![r].conn = c, ![r].at = next]
      BY <2>3 DEF Acquire
    <3> DEFINE q == [req[r] EXCEPT !.conn = c, !.at = next]
    <3>1. req[r].at = "acquire" /\ c # Null /\ c \in Connections
      BY <2>1, <2>3, PoolAssumption DEF Acquire
    <3>2. Formed(q) /\ q.repo = Null /\ Held(q) = {c} /\ Held(req[r]) = {}
      BY <2>1, <3>1 DEF Formed, Request, Held, Mutating
    <3>3. req' = [req EXCEPT ![r] = q]
      BY DEF PoolInvariant, TypeOK
    <3> HIDE DEF q
    <3> QED
      BY <3>2, <3>3, OneRequest
  <2>4. CASE RepoAcquire(r)
    <3> PICK c \in free :
          /\ free' = free \ {c}
          /\ req' = [req EXCEPT ![r].repo = c, ![r].at = "repo"]
      BY <2>4 DEF RepoAcquire
    <3> DEFINE q == [req[r] EXCEPT !.repo = c, !.at = "repo"]
    <3>1. req[r].at = "repo_wait" /\ c # Null /\ c \in Connections
      BY <2>1, <2>4, PoolAssumption DEF RepoAcquire
    <3>2. /\ Formed(q)
          /\ Held(q) = {c} \cup Held(req[r])
          /\ q.repo # q.conn
      BY <2>1, <3>1 DEF Formed, Request, Held
    <3>3. req' = [req EXCEPT ![r] = q]
      BY DEF PoolInvariant, TypeOK
    <3>4. free' = (free \cup Held(req[r])) \ Held(q)
      BY <2>1, <3>2
    <3> HIDE DEF q
    <3> QED
      BY <3>2, <3>3, <3>4, OneRequest
  <2>5. CASE StartFails(r)
    <3>1. Settle(r, req[r].own, "error") /\ req[r].at = "begin"
      BY <2>5 DEF StartFails
    <3>2. /\ req[r].own \in {"none", "pending", "durable", "lost"}
          /\ Mutating(r) => req[r].own = "none"
      BY <2>1, <3>1 DEF Formed, Mutating, Request
    <3> QED
      BY <3>1, <3>2, SettleStep
  <2>6. CASE Start(r) \/ UseConnection(r) \/ CallRepository(r) \/ Respond(r)
    <3>1. PICK q : /\ req' = [req EXCEPT ![r] = q]
                   /\ Formed(q)
                   /\ q.conn = req[r].conn
                   /\ q.repo = req[r].repo
      <4>1. CASE UseConnection(r)
        <5> DEFINE q == [req[r] EXCEPT !.own = IF Mutating(r) THEN "pending" ELSE "durable"]
        <5>1. req' = [req EXCEPT ![r] = q]
          BY <4>1 DEF UseConnection, PoolInvariant, TypeOK
        <5>2. Formed(q) /\ q.conn = req[r].conn /\ q.repo = req[r].repo
          BY <2>1, <4>1 DEF UseConnection, Formed, Request, Mutating
        <5> HIDE DEF q
        <5> QED
          BY <5>1, <5>2
      <4>2. CASE CallRepository(r)
        <5> DEFINE q == [req[r] EXCEPT !.at = "repo_wait"]
        <5>1. req' = [req EXCEPT ![r] = q]
          BY <4>2 DEF CallRepository, PoolInvariant, TypeOK
        <5>2. Formed(q) /\ q.conn = req[r].conn /\ q.repo = req[r].repo
          BY <2>1, <4>2 DEF CallRepository, Formed, Request
        <5> HIDE DEF q
        <5> QED
          BY <5>1, <5>2
      <4>3. CASE Respond(r)
        <5> PICK status \in {"ok", "redirect", "error"} :
              req' = [req EXCEPT ![r].at = "closing", ![r].response = status]
          BY <4>3 DEF Respond
        <5> DEFINE q == [req[r] EXCEPT !.at = "closing", !.response = status]
        <5>1. req' = [req EXCEPT ![r] = q]
          BY DEF PoolInvariant, TypeOK
        <5>2. Formed(q) /\ q.conn = req[r].conn /\ q.repo = req[r].repo
          BY <2>1, <4>3 DEF Respond, Formed, Request
        <5> HIDE DEF q
        <5> QED
          BY <5>1, <5>2
      <4>4. CASE Start(r)
        <5> DEFINE q == [req[r] EXCEPT !.at = "handler"]
        <5>1. req' = [req EXCEPT ![r] = q]
          BY <4>4 DEF Start, PoolInvariant, TypeOK
        <5>2. Formed(q) /\ q.conn = req[r].conn /\ q.repo = req[r].repo
          BY <2>1, <4>4 DEF Start, Formed, Request
        <5> HIDE DEF q
        <5> QED
          BY <5>1, <5>2
      <4> QED
        BY <2>6, <4>1, <4>2, <4>3, <4>4
    <3>2. Held(q) = Held(req[r]) /\ free' = free
      BY <2>6, <3>1 DEF Held, Start, UseConnection, CallRepository, Respond
    <3>3. free' = (free \cup Held(req[r])) \ Held(q)
      BY <2>1, <3>2
    <3> QED
      BY <2>1, <3>1, <3>2, <3>3, OneRequest
  <2>7. CASE RepoReturn(r) \/ RepoRaise(r)
    <3>1. PICK q : /\ req' = [req EXCEPT ![r] = q]
                   /\ Formed(q)
                   /\ q.conn = req[r].conn
                   /\ q.repo = Null
      <4>1. CASE RepoReturn(r)
        <5> DEFINE q == [req[r] EXCEPT !.repo = Null, !.at = "handler"]
        <5>1. req' = [req EXCEPT ![r] = q]
          BY <4>1 DEF RepoReturn, PoolInvariant, TypeOK
        <5>2. Formed(q) /\ q.conn = req[r].conn /\ q.repo = Null
          BY <2>1, <4>1 DEF RepoReturn, Formed, Request
        <5> HIDE DEF q
        <5> QED
          BY <5>1, <5>2
      <4>2. CASE RepoRaise(r)
        <5> DEFINE q == [req[r] EXCEPT !.repo = Null, !.at = "closing", !.response = "error"]
        <5>1. req' = [req EXCEPT ![r] = q]
          BY <4>2 DEF RepoRaise, PoolInvariant, TypeOK
        <5>2. Formed(q) /\ q.conn = req[r].conn /\ q.repo = Null
          BY <2>1, <4>2 DEF RepoRaise, Formed, Request
        <5> HIDE DEF q
        <5> QED
          BY <5>1, <5>2
      <4> QED
        BY <2>7, <4>1, <4>2
    <3>2. /\ free' = free \cup {req[r].repo}
          /\ req[r].conn # Null
          /\ req[r].repo # Null
      BY <2>1, <2>7 DEF RepoReturn, RepoRaise, Formed
    <3>3. Held(q) = {req[r].conn} /\ Held(req[r]) = {req[r].conn, req[r].repo}
      BY <3>1, <3>2 DEF Held
    <3>4. free' = (free \cup Held(req[r])) \ Held(q)
      BY <2>1, <3>2, <3>3
    <3> QED
      BY <3>1, <3>3, <3>4, OneRequest
  <2>8. CASE Close(r)
    <3>1. req[r].at = "closing"
      BY <2>8 DEF Close
    <3>2. PICK own \in {"none", "pending", "durable", "lost"}, sent \in Outcomes :
            /\ Settle(r, own, sent)
            /\ Mutating(r) =>
                 /\ own # "pending"
                 /\ own = "durable" => req[r].response = "ok"
                 /\ sent = "ok" => own # "lost"
      BY <2>1, <2>8, <3>1 DEF Close, Committed, RolledBack, Formed, Mutating, Request
    <3> QED
      BY <3>2, SettleStep
  <2>9. CASE Cancel(r)
    <3>1. Settle(r, RolledBack(req[r].own), "error") /\ req[r].at # "answered"
      BY <2>9 DEF Cancel
    <3>2. /\ RolledBack(req[r].own) \in {"none", "pending", "durable", "lost"}
          /\ Mutating(r) => RolledBack(req[r].own) \in {"none", "lost"}
      BY <2>1, <3>1 DEF RolledBack, Formed, Mutating, Request
    <3> QED
      BY <3>1, <3>2, SettleStep
  <2> QED
    BY <2>2, <2>3, <2>4, <2>5, <2>6, <2>7, <2>8, <2>9 DEF Handle
<1> QED
  BY <1>1, <1>2 DEF Next

\* The pool's inductive invariant: what each request of DBTransactionMiddleware
\* holds, and what became of its transaction, at every step.
THEOREM PoolInvariance == Spec => []PoolInvariant
BY PoolInvariantInit, PoolInvariantStep, PTL DEF Spec

\* pool.acquire and its context managers lose no connection and share none.
THEOREM PoolConserved == Spec => []ConnectionsAccounted
<1>1. PoolInvariant => ConnectionsAccounted
  BY DEF PoolInvariant
<1> QED
  BY <1>1, PoolInvariance, PTL

\* db_transaction.py commits the request's own writes for a 2xx and for nothing
\* else, and never answers 2xx without them.
THEOREM TransactionFollowsResponse == Spec => []OwnWritesFollowStatus
<1>1. PoolInvariant => OwnWritesFollowStatus
  BY DEF PoolInvariant
<1> QED
  BY <1>1, PoolInvariance, PTL

\* A drained pool without a running request would be as many requests as
\* connections: each request that waits for the pool holds at most one.
LEMMA StuckNeedsManyRequests == PoolInvariant => PoolNeverStuck
<1> SUFFICES ASSUME PoolInvariant, free = {}, \A r \in Requests : ~Running(r)
             PROVE  Cardinality(Connections) <= Cardinality(Requests)
  <2>1. Cardinality(Requests) \in Nat /\ Cardinality(Connections) \in Nat
    BY PoolAssumption, FS_CardinalityType
  <2> QED
    BY <2>1 DEF PoolNeverStuck
<1> DEFINE Holder == [r \in Requests |-> req[r].conn]
           Taken == {req[r].conn : r \in Requests}
<1>1. Connections \subseteq Taken
  <2> SUFFICES ASSUME NEW c \in Connections PROVE c \in Taken
    OBVIOUS
  <2>1. PICK r \in Requests : c \in Held(req[r])
    BY DEF PoolInvariant, ConnectionsAccounted
  <2>2. req[r].repo = Null
    BY DEF PoolInvariant, HoldsByStep, Running
  <2> QED
    BY <2>1, <2>2 DEF Held
<1>2. IsFiniteSet(Taken) /\ Cardinality(Taken) <= Cardinality(Requests)
  <2>1. Holder \in Surjection(Requests, Taken)
    BY DEF Surjection
  <2> QED
    BY <2>1, PoolAssumption, FS_Surjection
<1>3. Cardinality(Connections) <= Cardinality(Taken)
  BY <1>1, <1>2, FS_Subset
<1> QED
  BY <1>2, <1>3, PoolAssumption, FS_CardinalityType

\* A pool larger than the number of concurrent requests never deadlocks on the
\* second connection that repository calls take (session_repository.py:216).
THEOREM PoolSuffices == Spec => []PoolNeverStuck
BY PoolInvariance, StuckNeedsManyRequests, PTL

=============================================================================
