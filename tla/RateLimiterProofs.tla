------------------------- MODULE RateLimiterProofs -------------------------
(***************************************************************************)
(* The inductive invariant of the rate limiter, for any limit, window,     *)
(* clock and number of requests, and what it says of denials and bursts.   *)
(***************************************************************************)
EXTENDS RateLimiter, FiniteSetTheorems, TLAPS

\* The division theorem, for the rounding of TTL (backend.py:62).
LEMMA Division ==
  ASSUME NEW n \in Nat, NEW d \in Nat \ {0}
  PROVE  /\ n \div d \in Nat
         /\ d * (n \div d) <= n
         /\ n < d * (n \div d) + d
OBVIOUS

\* A factor of two moves out of a product.
LEMMA DoubledFactor ==
  ASSUME NEW a \in Nat, NEW b \in Nat
  PROVE  (2 * a) * b = 2 * (a * b)
OBVIOUS

\* A window has at least one tick.
LEMMA WindowHasTicks == WindowTicks \in Nat \ {0} /\ WindowTicks >= Tps
BY LimiterAssumption DEF WindowTicks

\* Rounding what is left of a window loses at most half a second of it.
LEMMA Rounding ==
  ASSUME NEW left \in 1..WindowTicks
  PROVE  /\ Max1(SecondsLeft(left)) \in 0..Window
         /\ 2 * (left - Max1(SecondsLeft(left)) * Tps) <= Tps
<1> DEFINE n == 2 * left + Tps
           d == 2 * Tps
           q == n \div d
<1>1. n \in Nat /\ d \in Nat \ {0} /\ left \in Nat
  BY WindowHasTicks, LimiterAssumption
<1>2. q \in Nat /\ d * q <= n /\ n < d * q + d
  BY <1>1, Division
<1>3. d * q = 2 * (Tps * q)
  BY <1>1, <1>2, DoubledFactor, LimiterAssumption
<1>4. 2 * (left - q * Tps) <= Tps
  BY <1>1, <1>2, <1>3, LimiterAssumption
<1>5. q <= Window
  BY <1>1, <1>2, <1>3, LimiterAssumption DEF WindowTicks
<1> QED BY <1>2, <1>4, <1>5, LimiterAssumption DEF SecondsLeft, Max1

-----------------------------------------------------------------------------
(* The answers                                                             *)

Base == TypeOK /\ AnswersFormed

\* What is true of one request while it is under way.
AnswerFormed(q) ==
  /\ q \in Request
  /\ q.at \in {"replied", "denied"} =>
       /\ q.ran <= now
       /\ q.at = "replied" => now <= q.ran + Delay
       /\ q.ran < q.ends /\ q.ends <= q.ran + WindowTicks
       /\ 2 * (q.ends - (q.ran + q.reset * Tps)) <= Tps

LEMMA FormedAnswers ==
  ASSUME Base, NEW r \in Requests
  PROVE  AnswerFormed(req[r])
BY DEF Base, TypeOK, AnswersFormed, AnswerFormed

\* A step that replaces one request by a well-formed one, and leaves the clock.
LEMMA OneRequest ==
  ASSUME Base, NEW r \in Requests, NEW q, AnswerFormed(q),
         req' = [req EXCEPT ![r] = q], now' = now,
         counter' \in [count: 0..MaxCount, exp: (0..(MaxTime + WindowTicks)) \cup {Never}],
         counter'.exp # Never => counter'.exp <= now + WindowTicks,
         counted' \in [Ticks -> Nat], admitted' \in [Ticks -> Nat], restarted' = restarted
  PROVE  Base'
<1>1. \A s \in Requests : req'[s] = IF s = r THEN q ELSE req[s]
  BY DEF Base, TypeOK
<1>2. \A s \in Requests : AnswerFormed(req'[s])
  BY <1>1, FormedAnswers
<1>3. req' \in [Requests -> Request]
  BY <1>1, <1>2 DEF AnswerFormed, Base, TypeOK
<1>4. TypeOK'
  BY <1>3 DEF Base, TypeOK, Request, WindowTicks
<1>5. AnswersFormed'
  BY <1>2 DEF AnswersFormed, AnswerFormed, WindowTicks
<1> QED BY <1>4, <1>5 DEF Base

LEMMA InitInvariant == Init => Base
<1> SUFFICES ASSUME Init PROVE Base
  OBVIOUS
<1>1. NoRequest \in Request
  BY LimiterAssumption, WindowHasTicks DEF NoRequest, Request
<1> QED
  BY <1>1, LimiterAssumption
  DEF Init, Base, TypeOK, AnswersFormed, NoKey, NoRequest

\* A history with one more event is a history.
LEMMA OneMoreType ==
  ASSUME Base, NEW h \in [Ticks -> Nat]
  PROVE  OneMore(h) \in [Ticks -> Nat]
BY DEF Base, TypeOK, OneMore

LEMMA CheckKeeps ==
  ASSUME Base, NEW r \in Requests, Check(r)
  PROVE  Base'
<1> DEFINE q == [NoRequest EXCEPT !.at = "sent"]
<1>1. AnswerFormed(q)
  BY LimiterAssumption, WindowHasTicks DEF AnswerFormed, NoRequest, Request
<1> HIDE DEF q
<1> QED BY <1>1, OneRequest DEF Check, q, Base, TypeOK, AnswersFormed, histories

LEMMA RunScriptKeeps ==
  ASSUME Base, NEW r \in Requests, RunScript(r)
  PROVE  Base'
<1> DEFINE count == Key.count + 1
           exp == IF Key.exp = Never THEN now + WindowTicks ELSE Key.exp
           q == [at |-> "replied", count |-> count,
                 reset |-> Max1(SecondsLeft(exp - now)), ran |-> now, ends |-> exp]
<1>1. now \in 0..MaxTime /\ now \in Nat /\ MaxTime \in Nat
  BY LimiterAssumption DEF Base, TypeOK
<1>2. /\ Key.count \in 0..MaxCount
      /\ Key.exp # Never => /\ Key.exp \in 0..(MaxTime + WindowTicks)
                            /\ now < Key.exp /\ Key.exp <= now + WindowTicks
  <2>1. CASE Key = NoKey
    BY <2>1, LimiterAssumption DEF NoKey
  <2>2. CASE Key # NoKey
    BY <1>1, <2>2, WindowHasTicks DEF Key, Base, TypeOK, AnswersFormed
  <2> QED BY <2>1, <2>2
<1>3. count \in 0..MaxCount
  BY <1>2, LimiterAssumption DEF RunScript
<1>4. exp \in 0..(MaxTime + WindowTicks) /\ now < exp /\ exp <= now + WindowTicks
  BY <1>1, <1>2, WindowHasTicks
<1>5. exp - now \in 1..WindowTicks
  BY <1>1, <1>4, WindowHasTicks
<1>6. /\ q.reset \in 0..Window
      /\ 2 * ((exp - now) - q.reset * Tps) <= Tps
  BY <1>5, Rounding
<1>7. AnswerFormed(q)
  <2>1. q.reset * Tps \in Nat
    BY <1>6, LimiterAssumption
  <2>2. 2 * (exp - (now + q.reset * Tps)) <= Tps
    BY <1>1, <1>4, <1>6, <2>1, WindowHasTicks, LimiterAssumption
  <2>3. q \in Request
    BY <1>1, <1>3, <1>4, <1>6 DEF Request
  <2>4. q.ran = now /\ now <= now + Delay
    BY <1>1, LimiterAssumption
  <2> QED BY <1>1, <1>4, <2>2, <2>3, <2>4 DEF AnswerFormed
<1>8. /\ counter' = [count |-> count, exp |-> exp] /\ now' = now
      /\ req' = [req EXCEPT ![r] = q]
      /\ counted' = OneMore(counted) \/ counted' = counted
      /\ admitted' = admitted /\ restarted' = restarted
  BY DEF RunScript, Result
<1> HIDE DEF q, count, exp
<1>9. counted' \in [Ticks -> Nat] /\ admitted' \in [Ticks -> Nat]
  BY <1>8, OneMoreType DEF Base, TypeOK
<1> QED BY <1>3, <1>4, <1>7, <1>8, <1>9, OneRequest

LEMMA DecideKeeps ==
  ASSUME Base, NEW r \in Requests, Decide(r)
  PROVE  Base'
<1> DEFINE q == [req[r] EXCEPT !.at = IF req[r].count <= Limit THEN "allowed" ELSE "denied"]
<1>1. AnswerFormed(req[r]) /\ req[r].at = "replied"
  BY FormedAnswers DEF Decide
<1>2. AnswerFormed(q)
  BY <1>1 DEF AnswerFormed, Request
<1>3. req' = [req EXCEPT ![r] = q]
  BY DEF Decide, Base, TypeOK
<1>4. admitted' \in [Ticks -> Nat]
  BY OneMoreType DEF Decide, Base, TypeOK
<1> HIDE DEF q
<1> QED BY <1>2, <1>3, <1>4, OneRequest DEF Decide, Base, TypeOK, AnswersFormed

LEMMA FailKeeps ==
  ASSUME Base, NEW r \in Requests, Fail(r)
  PROVE  Base'
<1> DEFINE q == IF FailOpen THEN [NoRequest EXCEPT !.at = "allowed"]
                ELSE [at |-> "denied", count |-> 0, reset |-> Window, ran |-> now,
                      ends |-> now + WindowTicks]
<1>1. now \in 0..MaxTime /\ now \in Nat /\ MaxTime \in Nat /\ MaxCount \in Nat
  BY LimiterAssumption DEF Base, TypeOK
<1>2. q \in Request
  BY <1>1, WindowHasTicks, LimiterAssumption DEF Request, NoRequest
<1>3. 2 * ((now + WindowTicks) - (now + Window * Tps)) <= Tps
  BY <1>1, WindowHasTicks, LimiterAssumption DEF WindowTicks
<1>4. AnswerFormed(q)
  BY <1>1, <1>2, <1>3, WindowHasTicks DEF AnswerFormed, NoRequest
<1>5. req' = [req EXCEPT ![r] = q] /\ counter' = counter /\ now' = now
  BY DEF Fail
<1>6. admitted' \in [Ticks -> Nat]
  BY OneMoreType DEF Fail, Base, TypeOK
<1>7. counted' \in [Ticks -> Nat] /\ restarted' = restarted
  BY DEF Fail, Base, TypeOK
<1>8. /\ counter' \in [count: 0..MaxCount, exp: (0..(MaxTime + WindowTicks)) \cup {Never}]
      /\ counter'.exp # Never => counter'.exp <= now + WindowTicks
  BY <1>5 DEF Base, TypeOK, AnswersFormed
<1> HIDE DEF q
<1> QED BY <1>4, <1>5, <1>6, <1>7, <1>8, OneRequest

LEMMA RedisKeeps ==
  ASSUME Base, RestartEmpty \/ LoseExpiry
  PROVE  Base'
<1>1. counter' \in [count: 0..MaxCount, exp: {Never}] /\ now' = now /\ req' = req
  BY LimiterAssumption DEF RestartEmpty, LoseExpiry, NoKey, Key, Base, TypeOK
<1>2. /\ counted' \in [Ticks -> Nat] /\ admitted' \in [Ticks -> Nat]
      /\ restarted' \in (0..MaxTime) \cup {Never}
  BY LimiterAssumption DEF RestartEmpty, LoseExpiry, histories, Base, TypeOK
<1> QED BY <1>1, <1>2 DEF Base, TypeOK, AnswersFormed, WindowTicks, Request

LEMMA TickKeeps ==
  ASSUME Base, Tick
  PROVE  Base'
<1>1. now \in Nat /\ now' = now + 1 /\ now' \in 0..MaxTime
  BY LimiterAssumption DEF Tick, Base, TypeOK
<1>2. TypeOK'
  BY <1>1 DEF Tick, histories, Base, TypeOK, WindowTicks, Request
<1>3. AnswersFormed'
  <2>1. \A r \in Requests : req[r].ran \in Nat
    BY LimiterAssumption DEF Base, TypeOK, Request
  <2>2. counter.exp # Never => counter.exp \in Nat
    BY WindowHasTicks, LimiterAssumption DEF Base, TypeOK
  <2>3. /\ req' = req /\ counter' = counter /\ WindowTicks' = WindowTicks
    BY DEF Tick, WindowTicks
  <2>4. \A r \in Requests : req[r].at = "replied" => now' <= req[r].ran + Delay
    BY <1>1, <2>1, LimiterAssumption DEF Tick
  <2> QED BY <1>1, <2>1, <2>2, <2>3, <2>4, WindowHasTicks DEF Base, AnswersFormed
<1> QED BY <1>2, <1>3 DEF Base

LEMMA NextKeeps == Base /\ [Next]_vars => Base'
<1> SUFFICES ASSUME Base, [Next]_vars PROVE Base'
  OBVIOUS
<1>1. ASSUME NEW r \in Requests, Check(r) \/ RunScript(r) \/ Decide(r) \/ Fail(r)
      PROVE  Base'
  BY <1>1, CheckKeeps, RunScriptKeeps, DecideKeeps, FailKeeps
<1>2. CASE UNCHANGED vars
  BY <1>2 DEF vars, histories, Base, TypeOK, AnswersFormed, WindowTicks, Request
<1> QED BY <1>1, <1>2, RedisKeeps, TickKeeps DEF Next

-----------------------------------------------------------------------------
(* The scripts                                                             *)

Histories == Formed(counted) /\ Formed(admitted) /\ WindowsCounted

\* The ticks and the counts of the histories are numbers.
LEMMA HistoryFacts ==
  ASSUME Base
  PROVE  /\ now \in Nat /\ now \in Ticks /\ now + 1 \in Ticks /\ MaxTime + 1 \in Ticks
         /\ now < MaxTime + 1
         /\ Limit \in Nat /\ Limit >= 1 /\ Delay \in Nat
         /\ \A t \in Ticks : t \in Nat /\ t <= MaxTime + 1
         /\ \A t \in Ticks : counted[t] \in Nat /\ admitted[t] \in Nat
         /\ All(counted) \in Nat /\ All(admitted) \in Nat
         /\ 0..now \subseteq Ticks
         /\ WindowTicks \in Nat \ {0}
         /\ counter.count \in Nat
         /\ counter.exp # Never => counter.exp \in Nat
<1>1. MaxTime \in Nat /\ now \in 0..MaxTime
  BY LimiterAssumption DEF Base, TypeOK
<1>2. MaxTime + 1 \in Ticks /\ \A t \in Ticks : counted[t] \in Nat /\ admitted[t] \in Nat
  BY <1>1 DEF Base, TypeOK, Ticks
<1>3. counter.count \in Nat /\ (counter.exp # Never => counter.exp \in Nat)
  BY LimiterAssumption, WindowHasTicks DEF Base, TypeOK
<1> QED BY <1>1, <1>2, <1>3, LimiterAssumption, WindowHasTicks DEF Ticks, All

\* One more event now: the ticks after now see it, and all else is as it was.
LEMMA OneMoreEvent ==
  ASSUME Base, NEW h \in [Ticks -> Nat], Formed(h)
  PROVE  /\ \A t \in Ticks : OneMore(h)[t] = IF now < t THEN All(h) + 1 ELSE h[t]
         /\ All(OneMore(h)) = All(h) + 1
         /\ Formed(OneMore(h))
<1>1. \A t \in Ticks : OneMore(h)[t] = IF now < t THEN All(h) + 1 ELSE h[t]
  BY DEF OneMore, Formed
<1>2. All(OneMore(h)) = All(h) + 1
  BY <1>1, HistoryFacts DEF All
<1>3. All(h) \in Nat /\ \A t \in Ticks : h[t] \in Nat /\ h[t] <= All(h)
  BY HistoryFacts DEF Formed, All
<1>4. \A t \in Ticks : now < t => OneMore(h)[t] = All(OneMore(h))
  BY <1>1, <1>2
<1>5. ASSUME NEW s \in Ticks, NEW t \in Ticks, s <= t
      PROVE  OneMore(h)[s] <= OneMore(h)[t]
  <2>1. CASE now < t
    BY <1>1, <1>3, <2>1
  <2>2. CASE ~(now < t)
    <3>1. ~(now < s)
      BY <1>5, <2>2, HistoryFacts
    <3> QED BY <1>1, <1>5, <2>2, <3>1 DEF Formed
  <2> QED BY <2>1, <2>2
<1> QED BY <1>1, <1>2, <1>4, <1>5 DEF Formed

LEMMA InitHistories == Init => Histories
<1> SUFFICES ASSUME Init PROVE Histories
  OBVIOUS
<1>1. /\ now = 0 /\ counter = NoKey
      /\ \A t \in Ticks : counted[t] = 0 /\ admitted[t] = 0
      /\ MaxTime + 1 \in Ticks /\ 0 \in Ticks /\ Limit \in Nat \ {0}
  BY LimiterAssumption DEF Init, Ticks
<1>2. Formed(counted) /\ Formed(admitted)
  BY <1>1 DEF Formed, All
<1>3. CountsSince(0)
  BY <1>1 DEF CountsSince, All, NoKey
<1>4. WindowsCounted
  BY <1>1, <1>3 DEF WindowsCounted, All, NoKey
<1> QED BY <1>2, <1>4 DEF Histories

\* What the script within the limit does to the history of scripts.
LEMMA Counting ==
  ASSUME Base, Histories, counted' = OneMore(counted), now' = now
  PROVE  /\ \A t \in Ticks : counted'[t] = IF now < t THEN All(counted) + 1 ELSE counted[t]
         /\ All(counted)' = All(counted) + 1
         /\ Formed(counted)'
<1>1. counted \in [Ticks -> Nat] /\ Formed(counted)
  BY DEF Base, TypeOK, Histories
<1>2. Formed(OneMore(counted)) => Formed(counted)'
  BY DEF Formed, All, Ticks
<1>3. All(OneMore(counted)) = All(counted)'
  BY DEF All
<1> QED BY <1>1, <1>2, <1>3, OneMoreEvent

\* A script that meets the key of a window that runs counts into that window.
LEMMA WindowContinues ==
  ASSUME Base, Histories, NEW r \in Requests, RunScript(r), Key.count # 0
  PROVE  Formed(counted)' /\ WindowsCounted'
<1> DEFINE count == counter.count + 1
           exp == IF counter.exp = Never THEN now + WindowTicks ELSE counter.exp
<1>1. /\ Key = counter /\ counter.count # 0
      /\ counter.exp # Never => now < counter.exp
  BY HistoryFacts DEF Key, NoKey
<1>2. /\ counter' = [count |-> count, exp |-> exp] /\ now' = now
      /\ counted' = IF count <= Limit THEN OneMore(counted) ELSE counted
  BY <1>1 DEF RunScript, Result
<1>3. WindowsCounted /\ Formed(counted)
  BY DEF Histories
<1>4. PICK began \in 0..now : CountsSince(began)
  BY <1>3 DEF WindowsCounted
<1>5. /\ count \in Nat /\ count > 0 /\ exp \in Nat /\ now < exp /\ exp # Never
      /\ began \in Nat /\ began <= now /\ began + WindowTicks <= exp
  BY <1>1, <1>4, HistoryFacts, LimiterAssumption DEF CountsSince
<1>6. counter'.count = count /\ counter'.exp = exp
  BY <1>2
<1>7. began \in Ticks /\ began + 1 \in Ticks
  BY <1>5, HistoryFacts, LimiterAssumption DEF Ticks
<1>8. /\ All(counted) \in Nat /\ counted[began] \in Nat /\ counted[began + 1] \in Nat
      /\ All(counted) - counted[began] <= Limit
      /\ All(counted) - counted[began] <= counter.count
      /\ counted[began] < counted[began + 1]
      /\ counted[began] <= All(counted)
  BY <1>1, <1>3, <1>4, <1>7, HistoryFacts DEF CountsSince, Formed, All
<1>9. CASE count <= Limit
  <2>1. /\ \A t \in Ticks : counted'[t] = IF now < t THEN All(counted) + 1 ELSE counted[t]
        /\ All(counted)' = All(counted) + 1 /\ Formed(counted)'
    BY <1>2, <1>9, Counting
  <2>2. counted'[began] = counted[began]
        /\ \A s \in 0..began : counted'[s] = counted[s]
    BY <1>5, <1>7, <2>1, HistoryFacts
  <2>3. CountsSince(began)'
    <3>1. /\ All(counted)' - counted'[began] <= Limit
          /\ All(counted)' - counted'[began] <= counter'.count
      BY <1>6, <1>8, <1>9, <2>1, <2>2, HistoryFacts
    <3>2. counted'[began] < counted'[began + 1]
      BY <1>7, <1>8, <2>1, <2>2
    <3>3. counter'.exp # Never => began + WindowTicks <= counter'.exp
      BY <1>5, <1>6
    <3>4. \A s \in 0..began :
            /\ began < s + WindowTicks => counted'[began] - counted'[s] < Limit
            /\ began < s + 2 * WindowTicks => counted'[began] - counted'[s] < 2 * Limit
      BY <1>4, <2>2 DEF CountsSince
    <3> QED BY <3>1, <3>2, <3>3, <3>4 DEF CountsSince, WindowTicks
  <2>4. \A t \in Ticks : exp <= t => counted'[t] = All(counted)'
    BY <1>5, <2>1, HistoryFacts
  <2>5. WindowsCounted'
    BY <1>2, <1>5, <1>6, <2>3, <2>4 DEF WindowsCounted
  <2> QED BY <2>1, <2>5
<1>10. CASE ~(count <= Limit)
  <2>1. counted' = counted /\ All(counted)' = All(counted)
    BY <1>2, <1>10 DEF All
  <2>2. Formed(counted)'
    BY <1>2, <1>3, <2>1 DEF Formed, Ticks
  <2>3. CountsSince(began)'
    <3>1. /\ All(counted)' - counted'[began] <= Limit
          /\ All(counted)' - counted'[began] <= counter'.count
      BY <1>6, <1>8, <2>1, HistoryFacts
    <3>2. counted'[began] < counted'[began + 1]
      BY <1>8, <2>1
    <3>3. counter'.exp # Never => began + WindowTicks <= counter'.exp
      BY <1>5, <1>6
    <3>4. \A s \in 0..began :
            /\ began < s + WindowTicks => counted'[began] - counted'[s] < Limit
            /\ began < s + 2 * WindowTicks => counted'[began] - counted'[s] < 2 * Limit
      BY <1>4, <2>1 DEF CountsSince
    <3> QED BY <3>1, <3>2, <3>3, <3>4 DEF CountsSince, WindowTicks
  <2>4. \A t \in Ticks : exp <= t => counted'[t] = All(counted)'
    BY <1>3, <1>5, <2>1, HistoryFacts DEF Formed
  <2>5. WindowsCounted'
    BY <1>2, <1>5, <1>6, <2>3, <2>4 DEF WindowsCounted
  <2> QED BY <2>2, <2>5
<1> QED BY <1>9, <1>10

\* A script that meets no key begins a window: all were counted before now, and
\* of the window that ended at most the limit, the first one more than a
\* window ago.
LEMMA WindowBegins ==
  ASSUME Base, Histories, NEW r \in Requests, RunScript(r), Key.count = 0
  PROVE  Formed(counted)' /\ WindowsCounted'
<1> DEFINE exp == now + WindowTicks
<1>1. WindowsCounted /\ Formed(counted)
  BY DEF Histories
<1>2. Key = NoKey
  BY <1>1 DEF Key, WindowsCounted
<1>3. /\ counter' = [count |-> 1, exp |-> exp] /\ now' = now
      /\ counted' = OneMore(counted)
  BY <1>2, HistoryFacts DEF RunScript, Result, NoKey
<1>4. exp \in Nat /\ now < exp /\ exp # Never
  BY HistoryFacts, LimiterAssumption
<1>5. /\ counted[now] = All(counted)
      /\ \A s \in 0..now :
           /\ now < s + WindowTicks => counted[now] - counted[s] < Limit
           /\ now < s + 2 * WindowTicks => counted[now] - counted[s] < 2 * Limit
  <2>1. CASE counter.count = 0
    <3>1. All(counted) = 0
      BY <1>1, <2>1 DEF WindowsCounted
    <3>2. \A t \in Ticks : counted[t] = 0
      BY <1>1, <3>1, HistoryFacts DEF Formed, All
    <3> QED BY <3>1, <3>2, HistoryFacts
  <2>2. CASE counter.count # 0
    <3>1. counter.exp # Never /\ counter.exp <= now /\ counter.exp \in Nat
      BY <1>2, <2>2, HistoryFacts DEF Key, NoKey
    <3>2. counted[now] = All(counted)
      BY <1>1, <3>1, HistoryFacts DEF WindowsCounted
    <3>3. PICK began \in 0..now : CountsSince(began)
      BY <1>1 DEF WindowsCounted
    <3>4. /\ began \in Nat /\ began + WindowTicks <= now
          /\ All(counted) - counted[began] <= Limit
          /\ counted[began] < counted[began + 1]
      BY <2>2, <3>1, <3>3, HistoryFacts DEF CountsSince
    <3>5. /\ began \in Ticks /\ began + 1 \in Ticks
          /\ counted[began] \in Nat /\ counted[began + 1] \in Nat
      BY <3>4, HistoryFacts, LimiterAssumption DEF Ticks
    <3>6. ASSUME NEW s \in 0..now, began < s
          PROVE  counted[now] - counted[s] < Limit
      <4>1. s \in Ticks /\ began + 1 <= s /\ counted[s] \in Nat
        BY <3>4, <3>6, HistoryFacts
      <4>2. counted[began + 1] <= counted[s]
        BY <1>1, <3>5, <4>1 DEF Formed
      <4> QED BY <3>2, <3>4, <3>5, <4>1, <4>2, HistoryFacts
    <3>7. ASSUME NEW s \in 0..now, now < s + WindowTicks
          PROVE  counted[now] - counted[s] < Limit
      BY <3>4, <3>6, <3>7, HistoryFacts
    <3>8. ASSUME NEW s \in 0..now, now < s + 2 * WindowTicks
          PROVE  counted[now] - counted[s] < 2 * Limit
      <4>1. s \in Nat /\ s \in Ticks /\ counted[s] \in Nat /\ counted[now] \in Nat
        BY HistoryFacts
      <4>2. CASE began < s
        BY <3>6, <4>1, <4>2, HistoryFacts
      <4>3. CASE s <= began
        <5>1. began < s + WindowTicks
          BY <3>4, <3>8, <4>1, HistoryFacts
        <5>2. counted[began] - counted[s] < Limit
          BY <3>3, <3>4, <4>1, <4>3, <5>1 DEF CountsSince
        <5> QED BY <3>2, <3>4, <3>5, <4>1, <5>2, HistoryFacts
      <4> QED BY <3>4, <4>1, <4>2, <4>3
    <3> QED BY <3>2, <3>7, <3>8
  <2> QED BY <2>1, <2>2
<1>6. now \in Ticks /\ now + 1 \in Ticks /\ now \in Nat /\ now \in 0..now
  BY HistoryFacts
<1>7. /\ \A t \in Ticks : counted'[t] = IF now < t THEN All(counted) + 1 ELSE counted[t]
      /\ All(counted)' = All(counted) + 1 /\ Formed(counted)'
  BY <1>3, Counting
<1>8. \A s \in 0..now : counted'[s] = counted[s]
  BY <1>7, HistoryFacts
<1>9. All(counted)' - counted'[now] = 1 /\ counted'[now] < counted'[now + 1]
  BY <1>5, <1>6, <1>7, HistoryFacts
<1>10. \A s \in 0..now :
         /\ now < s + WindowTicks => counted'[now] - counted'[s] < Limit
         /\ now < s + 2 * WindowTicks => counted'[now] - counted'[s] < 2 * Limit
  BY <1>5, <1>6, <1>8
<1>11. CountsSince(now)'
  BY <1>3, <1>6, <1>9, <1>10, HistoryFacts DEF CountsSince, WindowTicks
<1>12. \A t \in Ticks : exp <= t => counted'[t] = All(counted)'
  BY <1>4, <1>7, HistoryFacts
<1>13. WindowsCounted'
  BY <1>3, <1>4, <1>6, <1>11, <1>12 DEF WindowsCounted
<1> QED BY <1>7, <1>13

LEMMA ScriptCounted ==
  ASSUME Base, Histories, NEW r \in Requests, RunScript(r)
  PROVE  Histories'
<1>1. Formed(counted)' /\ WindowsCounted'
  BY WindowContinues, WindowBegins
<1>2. Formed(admitted)'
  BY DEF RunScript, Result, Histories, Formed, All, Ticks
<1> QED BY <1>1, <1>2 DEF Histories

\* A step that leaves the clock, the key and the history of scripts.
LEMMA ScriptsUntouched ==
  ASSUME Base, Histories, UNCHANGED <<now, counter, counted>>
  PROVE  Formed(counted)' /\ WindowsCounted'
BY DEF Histories, Formed, WindowsCounted, CountsSince, All, Ticks, WindowTicks

\* A step that lets one more request through, or none.
LEMMA AdmissionCounted ==
  ASSUME Base, Histories, UNCHANGED <<now, counter, counted>>,
         admitted' = OneMore(admitted) \/ admitted' = admitted
  PROVE  Histories'
<1>1. Formed(counted)' /\ WindowsCounted'
  BY ScriptsUntouched
<1>2. Formed(OneMore(admitted))
  BY OneMoreEvent DEF Base, TypeOK, Histories
<1>3. Formed(admitted)'
  BY <1>2 DEF Histories, Formed, All, Ticks
<1> QED BY <1>1, <1>3 DEF Histories

LEMMA RestartCounted ==
  ASSUME Base, Histories, RestartEmpty
  PROVE  Histories'
<1>1. /\ now' = now /\ counter' = NoKey
      /\ \A t \in Ticks : counted'[t] = 0 /\ admitted'[t] = 0
      /\ MaxTime + 1 \in Ticks /\ 0 \in Ticks /\ 0 \in 0..now /\ Limit \in Nat /\ Limit >= 1
  BY HistoryFacts DEF RestartEmpty, Ticks
<1>2. Formed(counted)' /\ Formed(admitted)'
  BY <1>1 DEF Formed, All, Ticks
<1>3. CountsSince(0)'
  BY <1>1 DEF CountsSince, All, NoKey
<1>4. WindowsCounted'
  BY <1>1, <1>3 DEF WindowsCounted, All, NoKey
<1> QED BY <1>2, <1>4 DEF Histories

\* A key that lost its expiry counts on.
LEMMA LoseExpiryCounted ==
  ASSUME Base, Histories, LoseExpiry
  PROVE  Histories'
<1>1. /\ Key = counter /\ now' = now /\ counted' = counted /\ admitted' = admitted
      /\ counter' = [counter EXCEPT !.exp = Never]
  BY DEF LoseExpiry, Key, histories
<1>2. counter'.count = counter.count /\ counter'.exp = Never
  BY <1>1 DEF Base, TypeOK
<1>3. Formed(counted)' /\ Formed(admitted)'
  BY <1>1 DEF Histories, Formed, All, Ticks
<1>4. WindowsCounted'
  <2>1. WindowsCounted
    BY DEF Histories
  <2>2. PICK began \in 0..now : CountsSince(began)
    BY <2>1 DEF WindowsCounted
  <2>3. CountsSince(began)'
    BY <1>1, <1>2, <2>2 DEF CountsSince, All, WindowTicks
  <2>4. counter.count # 0
    BY <1>1, <2>1 DEF LoseExpiry, WindowsCounted
  <2> QED BY <1>1, <1>2, <2>3, <2>4 DEF WindowsCounted, All
<1> QED BY <1>3, <1>4 DEF Histories

LEMMA TickCounted ==
  ASSUME Base, Histories, Tick
  PROVE  Histories'
<1>1. now' = now + 1 /\ counter' = counter /\ counted' = counted /\ admitted' = admitted
  BY DEF Tick, histories
<1>2. Formed(counted)' /\ Formed(admitted)'
  BY <1>1, HistoryFacts DEF Histories, Formed, All, Ticks
<1>3. WindowsCounted'
  <2>1. PICK began \in 0..now : CountsSince(began)
    BY DEF Histories, WindowsCounted
  <2>2. CountsSince(began)' /\ began \in 0..now'
    BY <1>1, <2>1, HistoryFacts DEF CountsSince, All, WindowTicks
  <2> QED BY <1>1, <2>2 DEF Histories, WindowsCounted, All
<1> QED BY <1>2, <1>3 DEF Histories

LEMMA NextHistories == Base /\ Histories /\ [Next]_vars => Histories'
<1> SUFFICES ASSUME Base, Histories, [Next]_vars PROVE Histories'
  OBVIOUS
<1>1. ASSUME NEW r \in Requests, Decide(r) \/ Fail(r)
      PROVE  Histories'
  BY <1>1, AdmissionCounted DEF Decide, Fail
<1>2. ASSUME UNCHANGED <<now, counter, histories>>
      PROVE  Histories'
  BY <1>2, AdmissionCounted DEF histories
<1>3. ASSUME NEW r \in Requests, Check(r)
      PROVE  Histories'
  BY <1>2, <1>3 DEF Check
<1> QED BY <1>1, <1>2, <1>3, ScriptCounted, RestartCounted, LoseExpiryCounted, TickCounted
        DEF Next, vars, histories

\* What a step may do to the history of scripts.
LEMMA ScriptSteps ==
  ASSUME Base, [Next]_vars
  PROVE  \/ counted' = counted
         \/ counted' = OneMore(counted) /\ now' = now
         \/ \A u \in Ticks : counted'[u] = 0
<1>1. ASSUME NEW r \in Requests, RunScript(r)
      PROVE  now' = now /\ (counted' = OneMore(counted) \/ counted' = counted)
  BY <1>1 DEF RunScript, Result
<1>2. ASSUME NEW r \in Requests, Check(r) \/ Decide(r) \/ Fail(r)
      PROVE  counted' = counted
  BY <1>2 DEF Check, Decide, Fail, histories
<1>3. RestartEmpty => \A u \in Ticks : counted'[u] = 0
  BY DEF RestartEmpty
<1>4. LoseExpiry \/ Tick \/ UNCHANGED vars => counted' = counted
  BY DEF LoseExpiry, Tick, vars, histories
<1> QED BY <1>1, <1>2, <1>3, <1>4 DEF Next

\* A span that ends now meets the window of the key and what is left of one or
\* two before it, without the script that began the first of them.
LEMMA ScriptsKept ==
  ASSUME Base, Base', Histories, Histories', ScriptsBounded, [Next]_vars
  PROVE  ScriptsBounded'
<1> SUFFICES ASSUME NEW s \in Ticks, NEW t \in Ticks, s <= t
             PROVE  /\ t <= s + WindowTicks => counted'[t] - counted'[s] < 2 * Limit
                    /\ t <= s + 2 * WindowTicks => counted'[t] - counted'[s] < 3 * Limit
  BY DEF ScriptsBounded, WindowTicks, Ticks
<1>1. /\ s \in Nat /\ t \in Nat /\ Limit \in Nat /\ Limit >= 1
      /\ WindowTicks \in Nat /\ now \in Nat
  BY HistoryFacts
<1>2. \A u \in Ticks : counted[u] \in Nat /\ counted'[u] \in Nat
  BY DEF Base, TypeOK, Ticks
<1>3. /\ t <= s + WindowTicks => counted[t] - counted[s] < 2 * Limit
      /\ t <= s + 2 * WindowTicks => counted[t] - counted[s] < 3 * Limit
  BY DEF ScriptsBounded
<1>4. CASE counted' = counted
  BY <1>3, <1>4
<1>5. CASE counted' = OneMore(counted) /\ now' = now
  <2>1. CASE t <= now
    <3>1. counted'[t] = counted[t] /\ counted'[s] = counted[s]
      BY <1>1, <1>5, <2>1 DEF OneMore
    <3> QED BY <1>3, <3>1
  <2>2. CASE now < t
    <3>1. PICK began \in 0..now : CountsSince(began)'
      BY <1>5 DEF Histories, WindowsCounted
    <3>2. began \in Ticks /\ began \in Nat /\ began <= now
      BY <1>1, HistoryFacts
    <3>3. /\ counted'[t] = All(counted)' /\ All(counted)' - counted'[began] <= Limit
      BY <1>5, <2>2, <3>1 DEF Histories, Formed, CountsSince, Ticks
    <3>4. CASE began <= s
      <4>1. counted'[began] <= counted'[s]
        BY <3>2, <3>4 DEF Histories, Formed, Ticks
      <4>2. counted'[t] - counted'[s] <= Limit
        BY <1>2, <3>2, <3>3, <4>1, <1>1
      <4> QED BY <1>1, <1>2, <4>2
    <3>5. CASE s < began
      <4>1. s \in 0..began
        BY <1>1, <3>2, <3>5
      <4>2. /\ began < s + WindowTicks => counted'[began] - counted'[s] < Limit
            /\ began < s + 2 * WindowTicks => counted'[began] - counted'[s] < 2 * Limit
        BY <3>1, <4>1 DEF CountsSince, WindowTicks
      <4>3. began < t
        BY <1>1, <2>2, <3>2
      <4>4. counted'[t] - counted'[began] <= Limit
        BY <3>3
      <4>5. ASSUME t <= s + WindowTicks PROVE counted'[t] - counted'[s] < 2 * Limit
        BY <1>1, <1>2, <3>2, <4>2, <4>3, <4>4, <4>5
      <4>6. ASSUME t <= s + 2 * WindowTicks PROVE counted'[t] - counted'[s] < 3 * Limit
        BY <1>1, <1>2, <3>2, <4>2, <4>3, <4>4, <4>6
      <4> QED BY <4>5, <4>6
    <3> QED BY <1>1, <3>2, <3>4, <3>5
  <2> QED BY <1>1, <2>1, <2>2
<1>6. CASE \A u \in Ticks : counted'[u] = 0
  BY <1>1, <1>6
<1> QED BY <1>4, <1>5, <1>6, ScriptSteps

-----------------------------------------------------------------------------
(* The decisions                                                           *)

\* What is still to be decided is a finite set.
LEMMA UndecidedFinite ==
  ASSUME NEW s, NEW t
  PROVE  /\ IsFiniteSet(Undecided(s, t))
         /\ Cardinality(Undecided(s, t)) \in Nat
<1>1. Undecided(s, t) \subseteq Requests /\ IsFiniteSet(Requests)
  BY LimiterAssumption DEF Undecided
<1>2. IsFiniteSet(Undecided(s, t))
  BY <1>1, FS_Subset
<1> QED BY <1>2, FS_CardinalityType

\* One span and what it owes.
Owes(s, t) ==
  (admitted[t] - admitted[s]) + Cardinality(Undecided(Back(s), t))
    <= counted[t] - counted[Back(s)]

\* The tick a reply takes back is a tick, and no later.
LEMMA BackFacts ==
  ASSUME Base, NEW s \in Ticks
  PROVE  /\ Back(s) \in Ticks /\ Back(s) \in Nat
         /\ Back(s) <= s /\ s <= Back(s) + Delay
         /\ Back(s) = 0 \/ Back(s) + Delay = s
BY HistoryFacts, LimiterAssumption DEF Back, Ticks

\* A step that leaves fewer undecided and lets nothing through keeps the debt.
LEMMA FewerUndecided ==
  ASSUME Base, DecisionsCounted,
         UNCHANGED <<admitted, counted, restarted>>,
         \A s, t \in Ticks : Undecided(s, t)' \subseteq Undecided(s, t)
  PROVE  DecisionsCounted'
<1> SUFFICES ASSUME NEW s \in Ticks, NEW t \in Ticks, s <= t, Settled(s)
             PROVE  Owes(s, t)'
  BY DEF DecisionsCounted, Owes, Settled, Ticks, Back
<1>1. Owes(s, t)
  BY DEF DecisionsCounted, Owes
<1>2. Back(s)' = Back(s) /\ Back(s) \in Ticks
  BY BackFacts DEF Back
<1> DEFINE U == Undecided(Back(s), t)
           V == Undecided(Back(s), t)'
<1>3. Undecided(Back(s), t)' = V /\ V \subseteq U
  BY <1>2
<1>4. IsFiniteSet(U) /\ Cardinality(U) \in Nat
  BY UndecidedFinite
<1>5. Cardinality(V) <= Cardinality(U) /\ Cardinality(V) \in Nat
  BY <1>3, <1>4, FS_Subset, FS_CardinalityType
<1>6. /\ admitted[t] \in Nat /\ admitted[s] \in Nat
      /\ counted[t] \in Nat /\ counted[Back(s)] \in Nat
  BY <1>2, HistoryFacts
<1>7. (admitted[t] - admitted[s]) + Cardinality(V) <= counted[t] - counted[Back(s)]
  BY <1>1, <1>4, <1>5, <1>6 DEF Owes
<1> HIDE DEF U, V
<1> QED BY <1>2, <1>3, <1>7 DEF Owes, V

\* A request that is not left with a reply within the limit is not undecided.
LEMMA Settling ==
  ASSUME Base, NEW r \in Requests, NEW q, req' = [req EXCEPT ![r] = q],
         ~(q.at = "replied" /\ q.count <= Limit), NEW s, NEW t
  PROVE  Undecided(s, t)' = Undecided(s, t) \ {r}
<1>1. \A x \in Requests : req'[x] = IF x = r THEN q ELSE req[x]
  BY DEF Base, TypeOK
<1> QED BY <1>1 DEF Undecided

\* The script within the limit owes a decision, and is counted for it.
LEMMA ScriptOwes ==
  ASSUME Base, Histories, DecisionsCounted, NEW r \in Requests, RunScript(r)
  PROVE  DecisionsCounted'
<1> DEFINE count == Key.count + 1
           exp == IF Key.exp = Never THEN now + WindowTicks ELSE Key.exp
           q == [at |-> "replied", count |-> count,
                 reset |-> Max1(SecondsLeft(exp - now)), ran |-> now, ends |-> exp]
<1>1. /\ req' = [req EXCEPT ![r] = q] /\ req[r].at = "sent"
      /\ counted' = (IF count <= Limit THEN OneMore(counted) ELSE counted)
      /\ now' = now /\ admitted' = admitted /\ restarted' = restarted
      /\ q.at = "replied" /\ q.count = count /\ q.ran = now
  BY DEF RunScript, Result
<1> HIDE DEF q, count, exp
<1>2. CASE ~(count <= Limit)
  <2>1. ASSUME NEW s, NEW t PROVE Undecided(s, t)' = Undecided(s, t) \ {r}
    BY <1>1, <1>2, Settling
  <2>2. \A s, t \in Ticks : Undecided(s, t)' \subseteq Undecided(s, t)
    BY <2>1
  <2> QED BY <1>1, <1>2, <2>2, FewerUndecided
<1>3. CASE count <= Limit
  <2> SUFFICES ASSUME NEW s \in Ticks, NEW t \in Ticks, s <= t, Settled(s)
               PROVE  Owes(s, t)'
    BY <1>1 DEF DecisionsCounted, Owes, Settled, Ticks, Back
  <2>1. Owes(s, t)
    BY DEF DecisionsCounted, Owes
  <2>2. Back(s)' = Back(s) /\ Back(s) \in Ticks /\ Back(s) \in Nat /\ Back(s) <= s
    BY BackFacts DEF Back
  <2> DEFINE b == Back(s)
             U == Undecided(b, t)
  <2>3. /\ \A x \in Requests : req'[x] = IF x = r THEN q ELSE req[x]
        /\ r \notin U
    BY <1>1 DEF Base, TypeOK, Undecided
  <2>4. IsFiniteSet(U) /\ Cardinality(U) \in Nat
    BY UndecidedFinite
  <2>5. /\ admitted[t] \in Nat /\ admitted[s] \in Nat
        /\ counted[t] \in Nat /\ counted[b] \in Nat
        /\ now \in Nat /\ t \in Nat /\ s \in Nat
    BY <2>2, HistoryFacts
  <2>6. /\ counted'[t] = IF now < t THEN counted[t] + 1 ELSE counted[t]
        /\ counted'[b] = IF now < b THEN counted[b] + 1 ELSE counted[b]
    BY <1>1, <1>3, <2>2 DEF OneMore
  <2>7. (admitted[t] - admitted[s]) + Cardinality(U) <= counted[t] - counted[b]
    BY <2>1 DEF Owes
  <2>8. CASE b <= now /\ now < t
    <3>1. Undecided(b, t)' = U \cup {r}
      BY <1>1, <1>3, <2>2, <2>3, <2>8 DEF Undecided
    <3>2. Cardinality(U \cup {r}) = Cardinality(U) + 1
      BY <2>3, <2>4, FS_AddElement
    <3>3. counted'[t] = counted[t] + 1 /\ counted'[b] = counted[b]
      BY <2>2, <2>5, <2>6, <2>8
    <3> HIDE DEF U, b
    <3>4. (admitted[t] - admitted[s]) + Cardinality(U \cup {r}) <= counted'[t] - counted'[b]
      BY <2>4, <2>5, <2>7, <3>2, <3>3
    <3> QED BY <1>1, <2>2, <3>1, <3>4 DEF Owes, b
  <2>9. CASE ~(b <= now /\ now < t)
    <3>1. Undecided(b, t)' = U
      BY <1>1, <2>2, <2>3, <2>9 DEF Undecided
    <3>2. counted'[t] - counted'[b] = counted[t] - counted[b]
      BY <2>2, <2>5, <2>6, <2>9
    <3> HIDE DEF U, b
    <3>3. (admitted[t] - admitted[s]) + Cardinality(U) <= counted'[t] - counted'[b]
      BY <2>7, <3>2
    <3> QED BY <1>1, <2>2, <3>1, <3>3 DEF Owes, b
  <2> QED BY <2>8, <2>9
<1> QED BY <1>2, <1>3

\* Letting a request through pays one that was undecided, for its reply came in
\* time.
LEMMA DecisionPays ==
  ASSUME Base, DecisionsCounted, NEW r \in Requests, Decide(r)
  PROVE  DecisionsCounted'
<1> DEFINE q == [req[r] EXCEPT !.at = IF req[r].count <= Limit THEN "allowed" ELSE "denied"]
<1>1. /\ req' = [req EXCEPT ![r] = q] /\ req[r].at = "replied"
      /\ admitted' = (IF req[r].count <= Limit THEN OneMore(admitted) ELSE admitted)
      /\ now' = now /\ counted' = counted /\ restarted' = restarted
  BY DEF Decide, Base, TypeOK
<1>2. q.at # "replied"
  BY DEF Base, TypeOK, Request
<1> HIDE DEF q
<1>3. \A s, t : Undecided(s, t)' = Undecided(s, t) \ {r}
  BY <1>1, <1>2, Settling
<1>4. CASE ~(req[r].count <= Limit)
  BY <1>1, <1>3, <1>4, FewerUndecided
<1>5. CASE req[r].count <= Limit
  <2> SUFFICES ASSUME NEW s \in Ticks, NEW t \in Ticks, s <= t, Settled(s)
               PROVE  Owes(s, t)'
    BY <1>1 DEF DecisionsCounted, Owes, Settled, Ticks, Back
  <2>1. Owes(s, t)
    BY DEF DecisionsCounted, Owes
  <2>2. /\ Back(s)' = Back(s) /\ Back(s) \in Ticks /\ Back(s) \in Nat /\ Back(s) <= s
        /\ Back(s) = 0 \/ Back(s) + Delay = s
    BY BackFacts DEF Back
  <2> DEFINE b == Back(s)
             U == Undecided(b, t)
  <2>3. Undecided(b, t)' = U \ {r}
    BY <1>3
  <2>4. IsFiniteSet(U) /\ Cardinality(U) \in Nat
    BY UndecidedFinite
  <2>5. /\ admitted[t] \in Nat /\ admitted[s] \in Nat
        /\ counted[t] \in Nat /\ counted[b] \in Nat
        /\ now \in Nat /\ t \in Nat /\ s \in Nat /\ Delay \in Nat
    BY <2>2, HistoryFacts
  <2>6. /\ admitted'[t] = IF now < t THEN admitted[t] + 1 ELSE admitted[t]
        /\ admitted'[s] = IF now < s THEN admitted[s] + 1 ELSE admitted[s]
    BY <1>1, <1>5 DEF OneMore
  <2>7. (admitted[t] - admitted[s]) + Cardinality(U) <= counted[t] - counted[b]
    BY <2>1 DEF Owes
  <2>8. CASE s <= now /\ now < t
    <3>1. /\ req[r].ran \in Nat /\ req[r].ran <= now /\ now <= req[r].ran + Delay
      BY <1>1, LimiterAssumption DEF Base, TypeOK, AnswersFormed, Request
    <3>2. b <= req[r].ran /\ req[r].ran < t
      BY <2>2, <2>5, <2>8, <3>1
    <3>3. r \in U
      BY <1>1, <1>5, <3>2 DEF Undecided
    <3>4. Cardinality(U \ {r}) = Cardinality(U) - 1
      BY <2>4, <3>3, FS_RemoveElement
    <3>5. admitted'[t] = admitted[t] + 1 /\ admitted'[s] = admitted[s]
      BY <2>5, <2>6, <2>8
    <3> HIDE DEF U, b
    <3>6. (admitted'[t] - admitted'[s]) + Cardinality(U \ {r}) <= counted[t] - counted[b]
      BY <2>4, <2>5, <2>7, <3>4, <3>5
    <3> QED BY <1>1, <2>2, <2>3, <3>6 DEF Owes, b
  <2>9. CASE ~(s <= now /\ now < t)
    <3>1. admitted'[t] - admitted'[s] = admitted[t] - admitted[s]
      BY <2>5, <2>6, <2>9
    <3>2. Cardinality(U \ {r}) <= Cardinality(U) /\ Cardinality(U \ {r}) \in Nat
      BY <2>4, FS_Subset, FS_CardinalityType
    <3> HIDE DEF U, b
    <3>3. (admitted'[t] - admitted'[s]) + Cardinality(U \ {r}) <= counted[t] - counted[b]
      BY <2>4, <2>5, <2>7, <3>1, <3>2
    <3> QED BY <1>1, <2>2, <2>3, <3>3 DEF Owes, b
  <2> QED BY <2>8, <2>9
<1> QED BY <1>4, <1>5

\* After a restart nothing that was counted before it is let through in a
\* settled span.
LEMMA RestartOwesNothing ==
  ASSUME Base, RestartEmpty
  PROVE  DecisionsCounted'
<1>1. /\ restarted' = now /\ req' = req /\ now' = now
      /\ \A u \in Ticks : counted'[u] = 0 /\ admitted'[u] = 0
  BY DEF RestartEmpty
<1> SUFFICES ASSUME NEW s \in Ticks, NEW t \in Ticks, s <= t, now + Delay < s
             PROVE  Owes(s, t)'
  BY <1>1, HistoryFacts, LimiterAssumption DEF DecisionsCounted, Owes, Settled, Ticks, Back
<1>2. /\ Back(s)' = Back(s) /\ Back(s) \in Ticks /\ Back(s) \in Nat
      /\ s <= Back(s) + Delay
  BY BackFacts DEF Back
<1>3. now < Back(s)
  BY <1>2, HistoryFacts
<1>4. \A r \in Requests : req[r].at = "replied" => req[r].ran \in Nat /\ req[r].ran <= now
  BY LimiterAssumption DEF Base, TypeOK, AnswersFormed, Request
<1>5. Undecided(Back(s), t)' = {}
  BY <1>1, <1>2, <1>3, <1>4, HistoryFacts DEF Undecided
<1>6. Cardinality({}) = 0
  BY FS_EmptySet
<1> QED BY <1>1, <1>2, <1>5, <1>6 DEF Owes

LEMMA NextOwes ==
  ASSUME Base, Histories, ~FailOpen, DecisionsCounted, [Next]_vars
  PROVE  DecisionsCounted'
<1>1. ASSUME NEW r \in Requests, Check(r) \/ Fail(r)
      PROVE  DecisionsCounted'
  <2>1. UNCHANGED <<admitted, counted, restarted>>
    BY <1>1 DEF Check, Fail, histories
  <2>2. PICK q : req' = [req EXCEPT ![r] = q] /\ q.at # "replied"
    BY <1>1 DEF Check, Fail, NoRequest
  <2>3. ASSUME NEW s, NEW t PROVE Undecided(s, t)' = Undecided(s, t) \ {r}
    BY <2>2, Settling
  <2>4. \A s, t \in Ticks : Undecided(s, t)' \subseteq Undecided(s, t)
    BY <2>3
  <2> QED BY <2>1, <2>4, FewerUndecided
<1>2. ASSUME UNCHANGED <<req, histories>>
      PROVE  DecisionsCounted'
  BY <1>2, FewerUndecided DEF Undecided, histories
<1>3. LoseExpiry \/ Tick \/ UNCHANGED vars => DecisionsCounted'
  BY <1>2 DEF LoseExpiry, Tick, vars, histories
<1> QED BY <1>1, <1>3, ScriptOwes, DecisionPays, RestartOwesNothing DEF Next

\* What is decided in a span was counted in a span longer by what a reply takes.
LEMMA DecisionsFollowScripts ==
  ASSUME Base, ScriptsBounded, ~FailOpen => DecisionsCounted
  PROVE  BurstsBounded
<1> SUFFICES ASSUME ~FailOpen, NEW s \in Ticks, NEW t \in Ticks, s <= t, Settled(s)
             PROVE  /\ t + Delay <= s + WindowTicks => admitted[t] - admitted[s] < 2 * Limit
                    /\ t + Delay <= s + 2 * WindowTicks => admitted[t] - admitted[s] < 3 * Limit
  BY DEF BurstsBounded
<1> DEFINE b == Back(s)
<1>1. b \in Ticks /\ b \in Nat /\ b <= s /\ s <= b + Delay
  BY BackFacts
<1>2. /\ admitted[t] \in Nat /\ admitted[s] \in Nat
      /\ counted[t] \in Nat /\ counted[b] \in Nat
      /\ t \in Nat /\ s \in Nat /\ Delay \in Nat /\ Limit \in Nat /\ WindowTicks \in Nat
  BY <1>1, HistoryFacts
<1>3. admitted[t] - admitted[s] <= counted[t] - counted[b]
  <2>1. (admitted[t] - admitted[s]) + Cardinality(Undecided(b, t)) <= counted[t] - counted[b]
    BY DEF DecisionsCounted
  <2>2. Cardinality(Undecided(b, t)) \in Nat
    BY UndecidedFinite
  <2> HIDE DEF b
  <2> QED BY <1>2, <2>1, <2>2
<1>4. /\ t <= b + WindowTicks => counted[t] - counted[b] < 2 * Limit
      /\ t <= b + 2 * WindowTicks => counted[t] - counted[b] < 3 * Limit
  BY <1>1, <1>2 DEF ScriptsBounded
<1> HIDE DEF b
<1> QED BY <1>1, <1>2, <1>3, <1>4

LEMMA InitOwes == Init => DecisionsCounted /\ ScriptsBounded
<1> SUFFICES ASSUME Init PROVE DecisionsCounted /\ ScriptsBounded
  OBVIOUS
<1>1. Base /\ \A t \in Ticks : counted[t] = 0 /\ admitted[t] = 0
  BY InitInvariant DEF Init
<1>2. ScriptsBounded
  BY <1>1, HistoryFacts DEF ScriptsBounded
<1>3. \A s, t : Undecided(s, t) = {}
  BY DEF Init, Undecided, NoRequest
<1>4. Cardinality({}) = 0
  BY FS_EmptySet
<1>5. DecisionsCounted
  BY <1>1, <1>3, <1>4, BackFacts DEF DecisionsCounted
<1> QED BY <1>2, <1>5

\* The key of an identifier never outlives a window by more than its loss,
\* every denial knows of a window that ends, no window escapes the count, and
\* what is let through was counted no earlier than a reply takes
\* (backend.py:34-63, limiter.py:39-92).
THEOREM LimiterInvariance == Spec => []LimiterInvariant
<1> DEFINE IInv == Base /\ Histories /\ ScriptsBounded /\ (~FailOpen => DecisionsCounted)
<1>1. Init => IInv
  BY InitInvariant, InitHistories, InitOwes
<1>2. IInv /\ [Next]_vars => IInv'
  BY NextKeeps, NextHistories, ScriptsKept, NextOwes
<1>3. IInv => LimiterInvariant
  BY DecisionsFollowScripts DEF Base, Histories, LimiterInvariant
<1> QED BY <1>1, <1>2, <1>3, PTL DEF Spec

\* Under a rule that fails closed a span shorter than the window by what a reply
\* may take lets fewer than twice the limit through, and one of two windows less
\* that much fewer than three times, for any limit, window, delay and number of
\* requests (backend.py:34-47, limiter.py:58-74, redis_client.py:53-58).
THEOREM BurstsAreBounded == Spec => []BurstsBounded
<1>1. LimiterInvariant => BurstsBounded
  BY DEF LimiterInvariant
<1> QED BY <1>1, LimiterInvariance, PTL

\* No block is for ever, for any limit and window (backend.py:42-46).
THEOREM DenialsAreFinite == Spec => []DenialsEnd
<1>1. LimiterInvariant => DenialsEnd
  BY DEF LimiterInvariant, AnswersFormed, DenialsEnd
<1> QED BY <1>1, LimiterInvariance, PTL

\* Retry-After is short by half a second at most, for any window and any
\* resolution of the clock (backend.py:59-63).
THEOREM RetryAfterIsHonest == Spec => []RetryAfterAlmostSuffices
<1>1. LimiterInvariant => RetryAfterAlmostSuffices
  BY DEF LimiterInvariant, AnswersFormed, RetryAfterAlmostSuffices
<1> QED BY <1>1, LimiterInvariance, PTL
=============================================================================
