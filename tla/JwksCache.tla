----------------------------- MODULE JwksCache -----------------------------
(***************************************************************************)
(* The cached JWKS client (auth/jwks_client.py) that every verification of *)
(* a provider token asks for its signing key, while the provider publishes *)
(* and retires keys.                                                       *)
(*                                                                         *)
(* The client is one object of an asyncio process: a caller runs without   *)
(* interruption except while it awaits its fetch.  Nothing keeps two       *)
(* callers from fetching at once; the answer that arrives last becomes the *)
(* cache, also when it was taken from the endpoint before another one's.   *)
(***************************************************************************)
EXTENDS Integers

CONSTANTS
  Callers,       \* verifications that can run at once
  Kids,          \* key ids, published or made up
  Ttl,           \* cache_ttl_seconds
  MinInterval,   \* min_refresh_interval_seconds
  FetchTimeout,  \* within this time a fetch has succeeded or failed
  MaxTime,       \* bound: the clock
  Never

ASSUME CacheAssumption ==
  /\ Ttl \in Nat
  /\ MinInterval \in Nat
  /\ FetchTimeout \in Nat
  /\ MaxTime \in Nat
  /\ Never \notin Int

VARIABLES
  now,          \* the clock
  born, died,   \* per key, when the endpoint published and retired it
  keys,         \* _keys
  fetchedAt,    \* _fetched_at
  caller        \* per caller, its get_key or preload

vars == <<now, born, died, keys, fetchedAt, caller>>

Times == Nat \cup {Never}

(***************************************************************************)
(* `why' says which of the awaits of get_key or preload the caller is at,  *)
(* `got' whether the endpoint has answered yet, and with what; `since' is  *)
(* when the fetch was sent, or the verdict was given.                      *)
(***************************************************************************)
Caller == [at: {"idle", "sent", "served", "answered"}, kid: Kids \cup {Never},
           why: {"none", "preload", "stale", "unknown"}, got: SUBSET Kids,
           since: Nat, verdict: {"none", "key", "unknown", "failed"}]

TypeOK ==
  /\ now \in 0..MaxTime
  /\ born \in [Kids -> Times]
  /\ died \in [Kids -> Times]
  /\ keys \subseteq Kids
  /\ fetchedAt \in Times
  /\ caller \in [Callers -> Caller]

Idle == [at |-> "idle", kid |-> Never, why |-> "none", got |-> {},
         since |-> 0, verdict |-> "none"]

Fetching(kid, why) == [at |-> "sent", kid |-> kid, why |-> why, got |-> {},
                       since |-> now, verdict |-> "none"]

Answered(kid, verdict) == [at |-> "answered", kid |-> kid, why |-> "none",
                           got |-> {}, since |-> now, verdict |-> verdict]

Published == {k \in Kids : born[k] # Never /\ died[k] = Never}

Init ==
  /\ now = 0
  /\ born \in [Kids -> {0, Never}]
  /\ died = [k \in Kids |-> Never]
  /\ keys = {}
  /\ fetchedAt = Never
  /\ caller = [c \in Callers |-> Idle]

\* Mutant: the cache is filled once and never expires.
StaleOnce(at) == at = Never

Stale(at) == at = Never \/ now - at >= Ttl

MayRefreshForUnknownKid(at) == at = Never \/ now - at >= MinInterval

\* get_key from its second test on, with the cache as it is then.
Lookup(kid, cache, at) ==
  IF kid \in cache THEN Answered(kid, "key")
  ELSE IF MayRefreshForUnknownKid(at) THEN Fetching(kid, "unknown")
  ELSE Answered(kid, "unknown")

Continue(c, next) == caller' = [caller EXCEPT ![c] = next]

-----------------------------------------------------------------------------

Ready(c) == caller[c].at \in {"idle", "answered"}

\* container.startup with STARTUP_PRELOAD_JWKS.
Preload(c) ==
  /\ Ready(c)
  /\ fetchedAt = Never
  /\ Continue(c, Fetching(Never, "preload"))
  /\ UNCHANGED <<now, born, died, keys, fetchedAt>>

GetKey(c, kid) ==
  /\ Ready(c)
  /\ Continue(c, IF Stale(fetchedAt) THEN Fetching(kid, "stale")
                                     ELSE Lookup(kid, keys, fetchedAt))
  /\ UNCHANGED <<now, born, died, keys, fetchedAt>>

\* The endpoint answers with the keys it publishes at that moment.
Serve(c) ==
  /\ caller[c].at = "sent"
  /\ caller' = [caller EXCEPT ![c].at = "served", ![c].got = Published]
  /\ UNCHANGED <<now, born, died, keys, fetchedAt>>

\* Mutant: fetched keys are added to the cache instead of replacing it.
ArriveMerges(c) ==
  LET q == caller[c] IN
  /\ q.at = "served"
  /\ keys' = keys \cup q.got
  /\ fetchedAt' = now
  /\ Continue(c, CASE q.why = "preload" -> Idle
                   [] q.why = "stale" -> Lookup(q.kid, keys \cup q.got, now)
                   [] OTHER -> Answered(q.kid, IF q.kid \in keys \cup q.got
                                                 THEN "key" ELSE "unknown"))
  /\ UNCHANGED <<now, born, died>>

\* Mutant: a fetch for an unknown kid only renews the cache's age.
ArriveKeepsKeys(c) ==
  LET q == caller[c]
      cache == IF q.why = "unknown" THEN keys ELSE q.got IN
  /\ q.at = "served"
  /\ keys' = cache
  /\ fetchedAt' = now
  /\ Continue(c, CASE q.why = "preload" -> Idle
                   [] q.why = "stale" -> Lookup(q.kid, q.got, now)
                   [] OTHER -> Answered(q.kid, IF q.kid \in cache THEN "key" ELSE "unknown"))
  /\ UNCHANGED <<now, born, died>>

\* _refresh returns: the answer becomes the cache, and get_key goes on.
Arrive(c) ==
  LET q == caller[c] IN
  /\ q.at = "served"
  /\ keys' = q.got
  /\ fetchedAt' = now
  /\ Continue(c, CASE q.why = "preload" -> Idle
                   [] q.why = "stale" -> Lookup(q.kid, q.got, now)
                   [] OTHER -> Answered(q.kid, IF q.kid \in q.got THEN "key" ELSE "unknown"))
  /\ UNCHANGED <<now, born, died>>

\* _refresh raises, and get_key with it; the cache and its age stay.
FetchFails(c) ==
  /\ caller[c].at \in {"sent", "served"}
  /\ Continue(c, Answered(caller[c].kid, "failed"))
  /\ UNCHANGED <<now, born, died, keys, fetchedAt>>

\* The provider rotates its keys.
Publish(k) ==
  /\ born[k] = Never
  /\ born' = [born EXCEPT ![k] = now]
  /\ UNCHANGED <<now, died, keys, fetchedAt, caller>>

Retire(k) ==
  /\ k \in Published
  /\ died' = [died EXCEPT ![k] = now]
  /\ UNCHANGED <<now, born, keys, fetchedAt, caller>>

\* Time passes, no further than the timeout of a fetch under way.
Tick ==
  /\ now < MaxTime
  /\ \A c \in Callers : ~Ready(c) => now < caller[c].since + FetchTimeout
  /\ now' = now + 1
  /\ UNCHANGED <<born, died, keys, fetchedAt, caller>>

Next ==
  \/ \E c \in Callers :
       \/ Preload(c)
       \/ \E kid \in Kids : GetKey(c, kid)
       \/ Serve(c)
       \/ Arrive(c)
       \/ FetchFails(c)
  \/ \E k \in Kids : Publish(k) \/ Retire(k)
  \/ Tick

Spec == Init /\ [][Next]_vars

-----------------------------------------------------------------------------
(* Properties                                                              *)

\* k was among the endpoint's keys at some time from a to b on, or was not.
ListedWithin(k, a, b) == born[k] # Never /\ born[k] <= b /\ (died[k] = Never \/ died[k] >= a)

AbsentWithin(k, a, b) == born[k] = Never \/ born[k] >= a \/ (died[k] # Never /\ died[k] <= b)

\* A set of keys the endpoint could have answered with between a and b.
Answerable(S, a, b) ==
  \A k \in Kids : IF k \in S THEN ListedWithin(k, a, b) ELSE AbsentWithin(k, a, b)

\* The cache is never older than its age says by more than one fetch, also when
\* an answer overtakes another: _fetched_at is the time of arrival.
CacheIsRecent ==
  fetchedAt # Never => Answerable(keys, fetchedAt - FetchTimeout, fetchedAt)

\* A token signed with a key the provider has retired is not verified with it
\* once the TTL and one fetch have passed.
RetiredKeyNotServed ==
  \A c \in Callers : caller[c].verdict = "key" =>
    ListedWithin(caller[c].kid, caller[c].since - Ttl - FetchTimeout, caller[c].since)

\* A token signed with a key the provider has published for longer than the
\* refresh interval and one fetch is not rejected for an unknown key.
NewKeyRejectedBriefly ==
  \A c \in Callers : caller[c].verdict = "unknown" =>
    AbsentWithin(caller[c].kid, caller[c].since - MinInterval - FetchTimeout, caller[c].since)

ClockInvariant ==
  /\ fetchedAt # Never => fetchedAt <= now
  /\ \A k \in Kids :
       /\ born[k] # Never => born[k] <= now
       /\ died[k] # Never => born[k] # Never /\ died[k] <= now

\* While a caller awaits its fetch, no more than the timeout has passed, and the
\* answer, once it is taken, is one of the endpoint's from that time; what a
\* caller was answered is right in the sense of the two properties above.
CallerFormed(q) ==
  /\ q \in Caller
  /\ q.since <= now
  /\ q.at \in {"sent", "served"} => now <= q.since + FetchTimeout
  /\ q.at = "served" => Answerable(q.got, q.since, now)
  /\ q.at \in {"sent", "served"} => q.why # "none"
  /\ q.why \in {"stale", "unknown"} => q.kid \in Kids
  /\ q.verdict = "key" =>
       q.kid \in Kids /\ ListedWithin(q.kid, q.since - Ttl - FetchTimeout, q.since)
  /\ q.verdict = "unknown" =>
       q.kid \in Kids /\ AbsentWithin(q.kid, q.since - MinInterval - FetchTimeout, q.since)

\* The inductive invariant of JwksCacheProofs.
CacheInvariant ==
  /\ TypeOK
  /\ ClockInvariant
  /\ CacheIsRecent
  /\ \A c \in Callers : CallerFormed(caller[c])

=============================================================================
