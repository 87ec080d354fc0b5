-------------------------- MODULE JwksCacheProofs --------------------------
(***************************************************************************)
(* The JWKS cache of JwksCache for any number of callers and keys and any  *)
(* times: the age the cache claims is right up to one fetch, whatever the  *)
(* order in which concurrent fetches return, and what get_key answers is   *)
(* right up to the TTL, or the refresh interval, and one fetch.            *)
(***************************************************************************)
EXTENDS JwksCache, TLAPS

\* What the endpoint listed within an interval it listed within a longer one.
LEMMA Widen ==
  ASSUME TypeOK, NEW k \in Kids, NEW a \in Int, NEW b \in Int, NEW c \in Int, NEW d \in Int,
         c <= a, b <= d
  PROVE  /\ ListedWithin(k, a, b) => ListedWithin(k, c, d)
         /\ AbsentWithin(k, a, b) => AbsentWithin(k, c, d)
<1>1. /\ born[k] # Never => born[k] \in Int
      /\ died[k] # Never => died[k] \in Int
  BY DEF TypeOK, Times
<1> QED
  BY <1>1 DEF ListedWithin, AbsentWithin

\* Publishing or retiring a key now does not change what the endpoint listed
\* in an interval that has begun.
LEMMA HistoryStays ==
  ASSUME TypeOK, ClockInvariant,
         (\E j \in Kids : Publish(j) \/ Retire(j)),
         NEW k \in Kids, NEW a \in Int, NEW b \in Int, a <= now
  PROVE  /\ ListedWithin(k, a, b) => ListedWithin(k, a, b)'
         /\ AbsentWithin(k, a, b) => AbsentWithin(k, a, b)'
<1> PICK j \in Kids : Publish(j) \/ Retire(j)
  OBVIOUS
<1>1. /\ born[k] # Never => born[k] \in Int
      /\ died[k] # Never => died[k] \in Int
      /\ born \in [Kids -> Times] /\ died \in [Kids -> Times]
      /\ now \in Int /\ now # Never
  BY CacheAssumption DEF TypeOK, Times
<1>2. CASE Publish(j)
  <2>1. born'[k] = (IF k = j THEN now ELSE born[k]) /\ died' = died /\ born[j] = Never
    BY <1>1, <1>2 DEF Publish
  <2> QED
    BY <1>1, <2>1 DEF ListedWithin, AbsentWithin, ClockInvariant
<1>3. CASE Retire(j)
  <2>1. died'[k] = (IF k = j THEN now ELSE died[k]) /\ born' = born /\ died[j] = Never
    BY <1>1, <1>3 DEF Retire, Published
  <2> QED
    BY <1>1, <2>1 DEF ListedWithin, AbsentWithin
<1> QED
  BY <1>2, <1>3

\* A caller that sends a fetch, and one that is answered, is well formed.
LEMMA FetchingFormed ==
  ASSUME TypeOK, NEW kid \in Kids \cup {Never}, NEW why \in {"preload", "stale", "unknown"},
         kid \in Kids \/ why = "preload"
  PROVE  CallerFormed(Fetching(kid, why))
BY CacheAssumption DEF TypeOK, Fetching, CallerFormed, Caller

\* A caller that is answered with a verdict that is right is well formed.
LEMMA AnsweredFormed ==
  ASSUME TypeOK, NEW kid \in Kids \cup {Never}, NEW verdict \in {"key", "unknown", "failed"},
         verdict = "key" =>
           kid \in Kids /\ ListedWithin(kid, now - Ttl - FetchTimeout, now),
         verdict = "unknown" =>
           kid \in Kids /\ AbsentWithin(kid, now - MinInterval - FetchTimeout, now)
  PROVE  CallerFormed(Answered(kid, verdict))
<1> DEFINE q == Answered(kid, verdict)
<1>1. /\ q \in Caller
      /\ q.at = "answered" /\ q.kid = kid /\ q.why = "none" /\ q.since = now
      /\ q.verdict = verdict
  BY CacheAssumption DEF TypeOK, Answered, Caller
<1>2. now <= now
  BY CacheAssumption DEF TypeOK
<1> HIDE DEF q
<1> QED
  <2>1. CallerFormed(q)
    BY <1>1, <1>2 DEF CallerFormed
  <2> QED
    BY <2>1 DEF q

\* The second half of get_key answers rightly from a cache that is fresh.
LEMMA LookupIsRight ==
  ASSUME CacheInvariant, NEW kid \in Kids, NEW cache \in SUBSET Kids, NEW at \in Nat,
         at <= now, now - at <= Ttl,
         Answerable(cache, at - FetchTimeout, at)
  PROVE  CallerFormed(Lookup(kid, cache, at))
<1>1. /\ now \in Nat /\ Ttl \in Nat /\ MinInterval \in Nat /\ FetchTimeout \in Nat
      /\ TypeOK /\ at # Never
  BY CacheAssumption DEF CacheInvariant, TypeOK
<1>2. CASE kid \in cache
  <2>1. ListedWithin(kid, at - FetchTimeout, at)
    BY <1>2 DEF Answerable
  <2>2. now - Ttl - FetchTimeout <= at - FetchTimeout
    BY <1>1
  <2>3. ListedWithin(kid, now - Ttl - FetchTimeout, now)
    BY <1>1, <2>1, <2>2, Widen
  <2> QED
    BY <1>1, <1>2, <2>3, AnsweredFormed DEF Lookup
<1>3. CASE kid \notin cache /\ MayRefreshForUnknownKid(at)
  BY <1>1, <1>3, FetchingFormed DEF Lookup
<1>4. CASE kid \notin cache /\ ~MayRefreshForUnknownKid(at)
  <2>1. AbsentWithin(kid, at - FetchTimeout, at)
    BY <1>4 DEF Answerable
  <2>2. /\ now - MinInterval - FetchTimeout <= at - FetchTimeout
        /\ now - MinInterval - FetchTimeout \in Int
        /\ at - FetchTimeout \in Int /\ at \in Int /\ now \in Int /\ at <= now
    BY <1>1, <1>4 DEF MayRefreshForUnknownKid
  <2> DEFINE a == at - FetchTimeout
             c == now - MinInterval - FetchTimeout
  <2>3. AbsentWithin(kid, c, now)
    <3>1. AbsentWithin(kid, a, at) /\ c <= a /\ c \in Int /\ a \in Int
      BY <2>1, <2>2
    <3> HIDE DEF a, c
    <3> QED
      BY <1>1, <2>2, <3>1, Widen
  <2> QED
    BY <1>1, <1>4, <2>3, AnsweredFormed DEF Lookup
<1> QED
  BY <1>2, <1>3, <1>4

\* A step of one caller keeps the invariant if it leaves the caller well formed
\* and the cache recent.
LEMMA OneCaller ==
  ASSUME CacheInvariant, NEW c \in Callers, NEW q, Continue(c, q), CallerFormed(q),
         UNCHANGED <<now, born, died>>,
         keys' \subseteq Kids, fetchedAt' \in Times,
         fetchedAt' # Never => fetchedAt' <= now,
         CacheIsRecent'
  PROVE  CacheInvariant'
<1>1. /\ caller' \in [Callers -> Caller]
      /\ caller'[c] = q
      /\ \A d \in Callers : d # c => caller'[d] = caller[d]
  BY DEF CacheInvariant, TypeOK, Continue, CallerFormed
<1>2. TypeOK' /\ ClockInvariant'
  BY <1>1 DEF CacheInvariant, TypeOK, ClockInvariant
<1>3. \A d \in Callers : CallerFormed(caller'[d])
  BY <1>1 DEF CacheInvariant
<1>4. \A d \in Callers : CallerFormed(caller[d])'
  BY <1>3 DEF CallerFormed, Answerable, ListedWithin, AbsentWithin
<1> QED
  BY <1>2, <1>4 DEF CacheInvariant

\* The invariant holds of a client that was just constructed.
LEMMA CacheInvariantInit == Init => CacheInvariant
BY CacheAssumption DEF Init, CacheInvariant, TypeOK, Times, ClockInvariant,
  CacheIsRecent, CallerFormed, Idle, Caller

\* Every step keeps it.
LEMMA CacheInvariantStep == CacheInvariant /\ [Next]_vars => CacheInvariant'
<1> SUFFICES ASSUME CacheInvariant, [Next]_vars PROVE CacheInvariant'
  OBVIOUS
<1>1. /\ TypeOK /\ ClockInvariant /\ CacheIsRecent
      /\ \A c \in Callers : CallerFormed(caller[c])
      /\ now \in Nat /\ now # Never
      /\ Ttl \in Nat /\ MinInterval \in Nat /\ FetchTimeout \in Nat
  BY CacheAssumption DEF CacheInvariant, TypeOK
<1>2. fetchedAt # Never => fetchedAt \in Nat
  BY <1>1 DEF TypeOK, Times
<1>3. CASE UNCHANGED vars
  BY <1>3 DEF vars, CacheInvariant, TypeOK, ClockInvariant, CacheIsRecent, CallerFormed,
    Answerable, ListedWithin, AbsentWithin
<1>4. ASSUME NEW c \in Callers, Preload(c) PROVE CacheInvariant'
  <2>1. CallerFormed(Fetching(Never, "preload"))
    BY <1>1, FetchingFormed
  <2>2. CacheIsRecent'
    BY <1>4 DEF Preload, CacheIsRecent
  <2> QED
    BY <1>1, <1>4, <2>1, <2>2, OneCaller DEF Preload, TypeOK, ClockInvariant
<1>5. ASSUME NEW c \in Callers, NEW kid \in Kids, GetKey(c, kid) PROVE CacheInvariant'
  <2> DEFINE q == IF Stale(fetchedAt) THEN Fetching(kid, "stale")
                                      ELSE Lookup(kid, keys, fetchedAt)
  <2>1. ASSUME Stale(fetchedAt) PROVE CallerFormed(q)
    BY <1>1, <2>1, FetchingFormed
  <2>2. ASSUME ~Stale(fetchedAt) PROVE CallerFormed(q)
    <3>1. fetchedAt \in Nat /\ fetchedAt <= now /\ now - fetchedAt <= Ttl
      BY <1>1, <1>2, <2>2 DEF Stale, ClockInvariant
    <3>2. Answerable(keys, fetchedAt - FetchTimeout, fetchedAt) /\ keys \in SUBSET Kids
      BY <1>1, <1>2, <2>2 DEF Stale, CacheIsRecent, TypeOK
    <3>3. CallerFormed(Lookup(kid, keys, fetchedAt))
      BY <3>1, <3>2, LookupIsRight
    <3> QED
      BY <2>2, <3>3
  <2>3. CallerFormed(q)
    BY <2>1, <2>2
  <2>4. CacheIsRecent'
    BY <1>1, <1>5 DEF GetKey, CacheIsRecent, Answerable, ListedWithin, AbsentWithin
  <2>5. Continue(c, q) /\ UNCHANGED <<now, born, died, keys, fetchedAt>>
    BY <1>5 DEF GetKey
  <2> HIDE DEF q
  <2> QED
    BY <1>1, <2>3, <2>4, <2>5, OneCaller DEF TypeOK, ClockInvariant
<1>6. ASSUME NEW c \in Callers, Serve(c) PROVE CacheInvariant'
  <2> DEFINE q == [caller[c] EXCEPT !.at = "served", !.got = Published]
  <2>1. caller[c] \in Caller /\ caller[c].at = "sent" /\ CallerFormed(caller[c])
    BY <1>1, <1>6 DEF Serve, TypeOK
  <2>2. Continue(c, q) /\ UNCHANGED <<now, born, died, keys, fetchedAt>>
    BY <1>1, <1>6 DEF Serve, Continue, TypeOK
  <2>3. Answerable(Published, caller[c].since, now)
    <3> SUFFICES ASSUME NEW k \in Kids
                 PROVE  IF k \in Published THEN ListedWithin(k, caller[c].since, now)
                                           ELSE AbsentWithin(k, caller[c].since, now)
      BY DEF Answerable
    <3> QED
      BY <1>1 DEF Published, ListedWithin, AbsentWithin, ClockInvariant
  <2>4. CallerFormed(q)
    <3>1. /\ q \in Caller
          /\ q.at = "served" /\ q.got = Published
          /\ q.why = caller[c].why /\ q.kid = caller[c].kid
          /\ q.since = caller[c].since /\ q.verdict = caller[c].verdict
      BY <2>1 DEF Caller, Published
    <3>2. caller[c].why # "none"
      BY <2>1 DEF CallerFormed
    <3> HIDE DEF q
    <3> QED
      BY <2>1, <2>3, <3>1, <3>2 DEF CallerFormed
  <2>5. CacheIsRecent'
    BY <1>1, <2>2 DEF CacheIsRecent, Answerable, ListedWithin, AbsentWithin
  <2> HIDE DEF q
  <2> QED
    BY <1>1, <2>2, <2>4, <2>5, OneCaller DEF TypeOK, ClockInvariant
<1>7. ASSUME NEW c \in Callers, Arrive(c) PROVE CacheInvariant'
  <2> DEFINE p == caller[c]
             q == CASE p.why = "preload" -> Idle
                    [] p.why = "stale" -> Lookup(p.kid, p.got, now)
                    [] OTHER -> Answered(p.kid, IF p.kid \in p.got THEN "key" ELSE "unknown")
  <2>1. p \in Caller /\ p.at = "served" /\ CallerFormed(p)
    BY <1>1, <1>7 DEF Arrive, TypeOK
  <2>2. /\ Continue(c, q)
        /\ keys' = p.got /\ fetchedAt' = now
        /\ UNCHANGED <<now, born, died>>
    BY <1>7 DEF Arrive
  <2>3. Answerable(p.got, now - FetchTimeout, now)
    <3>1. /\ Answerable(p.got, p.since, now)
          /\ p.since \in Int /\ now - FetchTimeout <= p.since
      BY <1>1, <2>1 DEF CallerFormed, Caller
    <3> QED
      BY <1>1, <3>1, Widen DEF Answerable
  <2>4. CallerFormed(q)
    <3>1. CASE p.why = "preload"
      BY <1>1, <3>1 DEF Idle, CallerFormed, Caller
    <3>2. CASE p.why = "stale" /\ p.kid \in Kids
      <4>1. q = Lookup(p.kid, p.got, now)
        BY <3>2
      <4>2. p.got \in SUBSET Kids
        BY <2>1 DEF Caller
      <4>3. CallerFormed(Lookup(p.kid, p.got, now))
        BY <1>1, <2>3, <3>2, <4>2, LookupIsRight
      <4> QED
        BY <4>1, <4>3
    <3>3. CASE p.why = "unknown" /\ p.kid \in p.got
      <4>1. ListedWithin(p.kid, now - FetchTimeout, now) /\ p.kid \in Kids
        BY <2>1, <2>3, <3>3 DEF Answerable, Caller
      <4>2. ListedWithin(p.kid, now - Ttl - FetchTimeout, now)
        BY <1>1, <4>1, Widen
      <4> QED
        BY <1>1, <3>3, <4>1, <4>2, AnsweredFormed
    <3>4. CASE p.why = "unknown" /\ p.kid \in Kids \ p.got
      <4>1. AbsentWithin(p.kid, now - FetchTimeout, now)
        BY <2>1, <2>3, <3>4 DEF Answerable, Caller
      <4>2. AbsentWithin(p.kid, now - MinInterval - FetchTimeout, now)
        BY <1>1, <3>4, <4>1, Widen
      <4> QED
        BY <1>1, <3>4, <4>2, AnsweredFormed
    <3> QED
      BY <2>1, <3>1, <3>2, <3>3, <3>4 DEF CallerFormed, Caller
  <2>5. CacheIsRecent'
    BY <2>2, <2>3 DEF CacheIsRecent, Answerable, ListedWithin, AbsentWithin
  <2>6. keys' \subseteq Kids /\ fetchedAt' \in Times /\ fetchedAt' <= now
    BY <1>1, <2>1, <2>2 DEF Caller, Times
  <2> HIDE DEF p, q
  <2> QED
    BY <2>2, <2>4, <2>5, <2>6, OneCaller
<1>8. ASSUME NEW c \in Callers, FetchFails(c) PROVE CacheInvariant'
  <2>1. CallerFormed(Answered(caller[c].kid, "failed"))
    <3>1. caller[c].kid \in Kids \cup {Never}
      BY <1>1 DEF CallerFormed, Caller
    <3> QED
      BY <1>1, <3>1, AnsweredFormed
  <2>2. CacheIsRecent'
    BY <1>1, <1>8 DEF FetchFails, CacheIsRecent, Answerable, ListedWithin, AbsentWithin
  <2> QED
    BY <1>1, <1>8, <2>1, <2>2, OneCaller DEF FetchFails, TypeOK, ClockInvariant
<1>9. CASE \E k \in Kids : Publish(k) \/ Retire(k)
  <2>1. UNCHANGED <<now, keys, fetchedAt, caller>>
    BY <1>9 DEF Publish, Retire
  <2>2. TypeOK' /\ ClockInvariant'
    BY <1>1, <1>9, <2>1 DEF Publish, Retire, Published, TypeOK, Times, ClockInvariant
  <2>3. \A S \in SUBSET Kids, a, b \in Int :
          a <= now /\ Answerable(S, a, b) => Answerable(S, a, b)'
    BY <1>1, <1>9, HistoryStays DEF Answerable
  <2>4. CacheIsRecent'
    BY <1>1, <1>2, <2>1, <2>3 DEF CacheIsRecent, ClockInvariant, TypeOK
  <2>5. ASSUME NEW c \in Callers PROVE CallerFormed(caller[c])'
    <3>1. CallerFormed(caller[c]) /\ caller[c] \in Caller
      BY <1>1 DEF TypeOK
    <3>2. caller[c].at = "served" => Answerable(caller[c].got, caller[c].since, now)'
      BY <1>1, <2>1, <2>3, <3>1 DEF CallerFormed, Caller
    <3>3. \A k \in Kids, a, b \in Int : a <= now =>
            /\ ListedWithin(k, a, b) => ListedWithin(k, a, b)'
            /\ AbsentWithin(k, a, b) => AbsentWithin(k, a, b)'
      BY <1>1, <1>9, HistoryStays
    <3>4. /\ caller[c].since - Ttl - FetchTimeout \in Int
          /\ caller[c].since - Ttl - FetchTimeout <= now
          /\ caller[c].since - MinInterval - FetchTimeout \in Int
          /\ caller[c].since - MinInterval - FetchTimeout <= now
          /\ caller[c].since \in Int
      BY <1>1, <3>1 DEF CallerFormed, Caller
    <3> QED
      BY <2>1, <3>1, <3>2, <3>3, <3>4 DEF CallerFormed
  <2> QED
    BY <2>2, <2>4, <2>5 DEF CacheInvariant
<1>10. CASE Tick
  <2>1. /\ UNCHANGED <<born, died, keys, fetchedAt, caller>>
        /\ now' = now + 1 /\ now' \in 0..MaxTime
        /\ \A c \in Callers : ~Ready(c) => now < caller[c].since + FetchTimeout
    BY <1>1, <1>10, CacheAssumption DEF Tick, TypeOK
  <2>2. TypeOK' /\ ClockInvariant'
    BY <1>1, <1>2, <2>1 DEF TypeOK, Times, ClockInvariant
  <2>3. CacheIsRecent'
    BY <1>1, <2>1 DEF CacheIsRecent, Answerable, ListedWithin, AbsentWithin
  <2>4. ASSUME NEW c \in Callers PROVE CallerFormed(caller[c])'
    <3>1. CallerFormed(caller[c]) /\ caller[c] \in Caller
      BY <1>1 DEF TypeOK
    <3>2. /\ caller[c].since \in Nat
          /\ caller[c].since <= now + 1
          /\ caller[c].at \in {"sent", "served"} => now + 1 <= caller[c].since + FetchTimeout
      BY <1>1, <2>1, <3>1 DEF CallerFormed, Caller, Ready
    <3>3. caller[c].at = "served" => Answerable(caller[c].got, caller[c].since, now)'
      <4>1. caller[c].at = "served" => Answerable(caller[c].got, caller[c].since, now + 1)
        <5>1. caller[c].at = "served" => Answerable(caller[c].got, caller[c].since, now)
          BY <3>1 DEF CallerFormed
        <5>2. /\ caller[c].since \in Int /\ now \in Int /\ now + 1 \in Int
              /\ caller[c].since <= caller[c].since /\ now <= now + 1
          BY <1>1, <3>2
        <5> QED
          BY <1>1, <5>1, <5>2, Widen DEF Answerable
      <4> QED
        BY <2>1, <4>1 DEF Answerable, ListedWithin, AbsentWithin
    <3>4. \A k, a, b : /\ ListedWithin(k, a, b)' <=> ListedWithin(k, a, b)
                       /\ AbsentWithin(k, a, b)' <=> AbsentWithin(k, a, b)
      BY <2>1 DEF ListedWithin, AbsentWithin
    <3> QED
      BY <2>1, <3>1, <3>2, <3>3, <3>4 DEF CallerFormed
  <2> QED
    BY <2>2, <2>3, <2>4 DEF CacheInvariant
<1> QED
  BY <1>3, <1>4, <1>5, <1>6, <1>7, <1>8, <1>9, <1>10 DEF Next

\* The inductive invariant of the client: what it caches, and what each caller
\* of get_key has been answered, is recent.
THEOREM CacheInvariance == Spec => []CacheInvariant
BY CacheInvariantInit, CacheInvariantStep, PTL DEF Spec

\* _fetched_at never makes the cached keys younger than they are by more than
\* one fetch.
THEOREM CacheAgeIsHonest == Spec => []CacheIsRecent
<1>1. CacheInvariant => CacheIsRecent
  BY DEF CacheInvariant
<1> QED
  BY <1>1, CacheInvariance, PTL

\* get_key hands out no key that was retired more than a TTL and a fetch ago.
THEOREM RetiredKeysExpire == Spec => []RetiredKeyNotServed
<1>1. CacheInvariant => RetiredKeyNotServed
  BY DEF CacheInvariant, CallerFormed, RetiredKeyNotServed
<1> QED
  BY <1>1, CacheInvariance, PTL

\* get_key calls no key unknown that was published more than a refresh interval
\* and a fetch ago.
THEOREM NewKeysAreFound == Spec => []NewKeyRejectedBriefly
<1>1. CacheInvariant => NewKeyRejectedBriefly
  BY DEF CacheInvariant, CallerFormed, NewKeyRejectedBriefly
<1> QED
  BY <1>1, CacheInvariance, PTL

=============================================================================
