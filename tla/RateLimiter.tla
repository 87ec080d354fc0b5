---------------------------- MODULE RateLimiter ----------------------------
(***************************************************************************)
(* The rate limiter: RateLimiter.check (rate_limiting/limiter.py) over the *)
(* fixed-window counter that Redis keeps for one key (backend.py), for     *)
(* concurrent requests of one identifier under one rule.                   *)
(*                                                                         *)
(* The Lua script is atomic; what surrounds it is not: the call may fail   *)
(* before the script ran or after it, Redis may restart empty, the key may *)
(* lose its expiry; and the request is let through when check() has the    *)
(* reply, later than the script counted it.  The clock is finer than the   *)
(* seconds in which Redis reports what is left of the window.              *)
(***************************************************************************)
EXTENDS Integers, FiniteSets

CONSTANTS
  Requests,  \* requests that can be checked at once
  Limit,     \* rule.limit
  Window,    \* rule.window_seconds
  Tps,       \* clock ticks per second
  Delay,     \* the longest a reply takes from the script to check(), in ticks
  FailOpen,  \* the effective fail mode of the rule
  MaxCount,  \* bound: the counter, and the requests a failing backend lets through
  MaxTime,   \* bound: the clock
  Never

ASSUME LimiterAssumption ==
  /\ IsFiniteSet(Requests)
  /\ Limit \in Nat \ {0}
  /\ Window \in Nat \ {0}
  /\ Tps \in Nat \ {0}
  /\ Delay \in Nat
  /\ FailOpen \in BOOLEAN
  /\ MaxCount \in Nat
  /\ MaxTime \in Nat
  /\ Never \notin Int

VARIABLES
  now,       \* the clock, in ticks
  counter,   \* the key in Redis: its count, 0 if it is not there, and expiry
  req,       \* per request, its check
  counted,   \* history: per tick, the scripts before it that counted a request
             \* within the limit, since the last restart of Redis
  admitted,  \* history: per tick, the requests let through before it, since then
  restarted  \* the tick of the last restart of Redis, or Never

vars == <<now, counter, req, counted, admitted, restarted>>

histories == <<counted, admitted, restarted>>

WindowTicks == Window * Tps

Ticks == 0..(MaxTime + 1)

(***************************************************************************)
(* `count' and `reset' are the backend's result for a request, `ran' the   *)
(* time of its script and `ends' that of the end of the window it met.     *)
(***************************************************************************)
Request == [at: {"idle", "sent", "replied", "allowed", "denied"},
            count: 0..MaxCount, reset: 0..Window,
            ran: 0..MaxTime, ends: 0..(MaxTime + WindowTicks)]

TypeOK ==
  /\ now \in 0..MaxTime
  /\ counter \in [count: 0..MaxCount, exp: (0..(MaxTime + WindowTicks)) \cup {Never}]
  /\ req \in [Requests -> Request]
  /\ counted \in [Ticks -> Nat]
  /\ admitted \in [Ticks -> Nat]
  /\ restarted \in (0..MaxTime) \cup {Never}

NoKey == [count |-> 0, exp |-> Never]

NoRequest == [at |-> "idle", count |-> 0, reset |-> 0, ran |-> 0, ends |-> 0]

Init ==
  /\ now = 0
  /\ counter = NoKey
  /\ req = [r \in Requests |-> NoRequest]
  /\ counted = [t \in Ticks |-> 0]
  /\ admitted = [t \in Ticks |-> 0]
  /\ restarted = Never

\* The key as Redis sees it now: an expired key is not there.
Key == IF counter.exp # Never /\ counter.exp <= now THEN NoKey ELSE counter

\* A history with one more event, now.
OneMore(history) == [t \in Ticks |-> IF now < t THEN history[t] + 1 ELSE history[t]]

\* All events of a history.
All(history) == history[MaxTime + 1]

\* Mutant: what is left is truncated to seconds.
SecondsLeftTruncated(ticks) == ticks \div Tps

\* TTL rounds what is left to the nearest second.
SecondsLeft(ticks) == (2 * ticks + Tps) \div (2 * Tps)

Max1(n) == IF n < 1 THEN 1 ELSE n

-----------------------------------------------------------------------------

Check(r) ==
  /\ req[r].at \in {"idle", "allowed", "denied"}
  /\ req' = [req EXCEPT ![r] = [NoRequest EXCEPT !.at = "sent"]]
  /\ UNCHANGED <<now, counter, histories>>

Result(r, count, exp) ==
  /\ counter' = [count |-> count, exp |-> exp]
  /\ counted' = IF count <= Limit THEN OneMore(counted) ELSE counted
  /\ req' = [req EXCEPT ![r] = [at |-> "replied", count |-> count,
       reset |-> Max1(SecondsLeft(exp - now)), ran |-> now, ends |-> exp]]
  /\ UNCHANGED <<now, admitted, restarted>>

\* Mutant: a window that has lost its expiry gets twice the time.
RunScriptDoubles(r) ==
  LET count == Key.count + 1
      exp == IF Key.exp = Never THEN now + 2 * WindowTicks ELSE Key.exp IN
  /\ req[r].at = "sent"
  /\ count <= MaxCount
  /\ Result(r, count, IF count = 1 THEN now + WindowTicks ELSE exp)

\* INCR; EXPIRE on the first hit, or when the key has no expiry; TTL.
RunScript(r) ==
  LET count == Key.count + 1
      exp == IF Key.exp = Never THEN now + WindowTicks ELSE Key.exp IN
  /\ req[r].at = "sent"
  /\ count <= MaxCount
  /\ Result(r, count, exp)

\* check() has the reply and compares the count with the limit; the middleware
\* or the dependency lets the request through at once, or denies it.
Decide(r) ==
  LET allowed == req[r].count <= Limit IN
  /\ req[r].at = "replied"
  /\ req' = [req EXCEPT ![r].at = IF allowed THEN "allowed" ELSE "denied"]
  /\ admitted' = IF allowed THEN OneMore(admitted) ELSE admitted
  /\ UNCHANGED <<now, counter, counted, restarted>>

\* The call fails, before the script ran or after it: the fail mode decides.
\* A request that failed closed is told to wait for a whole window.
Fail(r) ==
  /\ req[r].at \in {"sent", "replied"}
  /\ FailOpen => All(admitted) < MaxCount
  /\ req' = [req EXCEPT ![r] =
       IF FailOpen THEN [NoRequest EXCEPT !.at = "allowed"]
                   ELSE [at |-> "denied", count |-> 0, reset |-> Window, ran |-> now,
                         ends |-> now + WindowTicks]]
  /\ admitted' = IF FailOpen THEN OneMore(admitted) ELSE admitted
  /\ UNCHANGED <<now, counter, counted, restarted>>

\* Redis restarts without its data: the histories begin anew.
RestartEmpty ==
  /\ counter # NoKey
  /\ counter' = NoKey
  /\ counted' = [t \in Ticks |-> 0]
  /\ admitted' = [t \in Ticks |-> 0]
  /\ restarted' = now
  /\ UNCHANGED <<now, req>>

\* The key somehow loses its expiry.
LoseExpiry ==
  /\ Key # NoKey
  /\ counter' = [Key EXCEPT !.exp = Never]
  /\ UNCHANGED <<now, req, histories>>

\* Mutant: the client has no socket timeout, a reply may take as long as it likes.
TickWithoutTimeout ==
  /\ now < MaxTime
  /\ now' = now + 1
  /\ UNCHANGED <<counter, req, histories>>

\* Time passes; a reply that has not arrived within Delay is a failure of the
\* call by then, for its socket times out.
Tick ==
  /\ now < MaxTime
  /\ \A r \in Requests : req[r].at = "replied" => now < req[r].ran + Delay
  /\ now' = now + 1
  /\ UNCHANGED <<counter, req, histories>>

Next ==
  \/ \E r \in Requests : Check(r) \/ RunScript(r) \/ Decide(r) \/ Fail(r)
  \/ RestartEmpty
  \/ LoseExpiry
  \/ Tick

Spec == Init /\ [][Next]_vars

-----------------------------------------------------------------------------
(* Properties                                                              *)

\* The restart of Redis is long enough ago that every request let through from
\* tick s on was counted after it.
Settled(s) == restarted = Never \/ restarted + Delay < s

\* A fixed window admits a burst at its end and another at the start of the
\* next: under a rule that fails closed, fewer than twice the limit are let
\* through in a span that is shorter than the window by what a reply may take,
\* and fewer than three times the limit in a span of two windows less that
\* much, whatever replies are lost and wherever the windows begin.  (In a span
\* of a whole window late replies may let through more than twice the limit.)
BurstsBounded ==
  ~FailOpen => \A s, t \in Ticks : s <= t /\ Settled(s) =>
    /\ t + Delay <= s + WindowTicks => admitted[t] - admitted[s] < 2 * Limit
    /\ t + Delay <= s + 2 * WindowTicks => admitted[t] - admitted[s] < 3 * Limit

\* No block is for ever: a denied request knows of a window that ends at most
\* one window from its check, although the key may have lost its expiry.
DenialsEnd ==
  \A r \in Requests : req[r].at = "denied" =>
    req[r].ran < req[r].ends /\ req[r].ends <= req[r].ran + WindowTicks

\* What an answer says of the window was true when it was computed, and the
\* window of the key ends within one window from now, if it ends at all.
AnswersFormed ==
  /\ counter.exp # Never => counter.exp <= now + WindowTicks
  /\ \A r \in Requests : req[r].at \in {"replied", "denied"} =>
       /\ req[r].ran <= now
       /\ req[r].at = "replied" => now <= req[r].ran + Delay
       /\ req[r].ran < req[r].ends /\ req[r].ends <= req[r].ran + WindowTicks
       /\ 2 * (req[r].ends - (req[r].ran + req[r].reset * Tps)) <= Tps

\* A history only grows, and nothing in it is in the future.
Formed(history) ==
  /\ \A s, t \in Ticks : s <= t => history[s] <= history[t]
  /\ \A t \in Ticks : now < t => history[t] = All(history)

\* The key has counted every script within the limit since tick `began', when
\* the first of its window ran, and the windows before had at most the limit.
CountsSince(began) ==
  /\ All(counted) - counted[began] <= Limit
  /\ All(counted) - counted[began] <= counter.count
  /\ counter.count # 0 => counted[began] < counted[began + 1]
  /\ counter.exp # Never => began + WindowTicks <= counter.exp
  /\ \A s \in 0..began :
       /\ began < s + WindowTicks => counted[began] - counted[s] < Limit
       /\ began < s + 2 * WindowTicks => counted[began] - counted[s] < 2 * Limit

\* The key knows of every script within the limit in its window, and none ran
\* between a window and the next.
WindowsCounted ==
  /\ counter.count = 0 => counter = NoKey /\ All(counted) = 0
  /\ counter.exp # Never => \A t \in Ticks : counter.exp <= t => counted[t] = All(counted)
  /\ \E began \in 0..now : CountsSince(began)

\* What a span of scripts counts within the limit.
ScriptsBounded ==
  \A s, t \in Ticks : s <= t =>
    /\ t <= s + WindowTicks => counted[t] - counted[s] < 2 * Limit
    /\ t <= s + 2 * WindowTicks => counted[t] - counted[s] < 3 * Limit

\* The earliest tick at which a request let through at tick s was counted.
Back(s) == IF s < Delay THEN 0 ELSE s - Delay

\* The requests counted within the limit in a span, and not yet decided.
Undecided(s, t) ==
  {r \in Requests : /\ req[r].at = "replied" /\ req[r].count <= Limit
                    /\ s <= req[r].ran /\ req[r].ran < t}

\* Whatever is let through in a span, and what is still to be decided, was
\* counted in the span, or before it by no more than a reply takes.
DecisionsCounted ==
  \A s, t \in Ticks : s <= t /\ Settled(s) =>
    (admitted[t] - admitted[s]) + Cardinality(Undecided(Back(s), t))
      <= counted[t] - counted[Back(s)]

\* The inductive invariant of RateLimiterProofs: no key blocks its identifier
\* for longer than a window, a denial says when that ends, no window escapes
\* the count, and under a rule that fails closed nothing is let through that
\* was not counted, and no later than a reply takes.
LimiterInvariant ==
  /\ TypeOK
  /\ AnswersFormed
  /\ Formed(counted) /\ Formed(admitted)
  /\ WindowsCounted
  /\ ScriptsBounded
  /\ ~FailOpen => DecisionsCounted
  /\ BurstsBounded

\* Who waits for as long as the answer says finds at most half a second of the
\* window left: the rounding of TTL is all that is wrong with it.
RetryAfterAlmostSuffices ==
  \A r \in Requests : req[r].at = "denied" =>
    2 * (req[r].ends - (req[r].ran + req[r].reset * Tps)) <= Tps

=============================================================================
