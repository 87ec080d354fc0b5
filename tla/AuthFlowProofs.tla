--------------------------- MODULE AuthFlowProofs ---------------------------
(***************************************************************************)
(* What the authentication routes keep, for any number of handlers,        *)
(* sessions, flows and provider refreshes.                                 *)
(*                                                                         *)
(* Most steps only move a handler on, or end a session: QuietStep.  The    *)
(* others have a lemma each: a handler leaves, a grant begins, a session   *)
(* begins, the provider refreshes, a session is rotated.                   *)
(***************************************************************************)
EXTENDS AuthFlow, TLAPS

-----------------------------------------------------------------------------
(* Sessions of one login                                                   *)

LEMMA Rows ==
  ASSUME TypeOK, NEW s \in Sessions, session[s] # Null
  PROVE  /\ session[s] \in SessionRow
         /\ session[s].held \in Nat /\ session[s].login \in Sessions
         /\ session[s].flow \in Flows
BY FlowAssumption DEF TypeOK, SessionRow

\* The newest session of a login is the only one that can be active.
LEMMA NewestIsActive ==
  ASSUME FlowInvariant, NEW n \in Sessions, NEW s \in Sessions,
         Newest(n), Active(s), Kin(n, s)
  PROVE  n = s
<1>1. session[n] # Null /\ session[s] # Null /\ Kin(s, n)
  BY DEF Kin
<1>2. Newest(s)
  BY <1>1 DEF FlowInvariant, SessionsFormed
<1>3. session[n].held <= session[s].held /\ session[s].held <= session[n].held
  BY <1>1, <1>2 DEF Newest
<1>4. session[n].held = session[s].held
  BY <1>1, <1>3, Rows DEF FlowInvariant
<1> QED BY <1>1, <1>4 DEF FlowInvariant, SessionsFormed

LEMMA OneActive ==
  ASSUME FlowInvariant, NEW n \in Sessions, NEW s \in Sessions,
         Active(n), Active(s), Kin(n, s)
  PROVE  n = s
<1>1. Newest(n)
  BY DEF Kin, FlowInvariant, SessionsFormed
<1> QED BY <1>1, NewestIsActive

LEMMA PendingIsNewest ==
  ASSUME FlowInvariant, NEW q \in Requests, NEW n \in Sessions, Pending(q, n)
  PROVE  session[n] # Null /\ Newest(n)
BY DEF FlowInvariant, Pending, HandlerFormed, AnswerFormed

-----------------------------------------------------------------------------
(* Quiet steps                                                             *)

\* The handler r moves on, without a session to bring.
Moved(r) ==
  /\ req[r].at # "answered"
  /\ \/ req'[r].cookie = req[r].cookie
     \/ req[r].cookie = Null /\ req'[r].cookie = jar.session
  /\ req'[r].at # "create"
  /\ req'[r].at = "answered" =>
       /\ req'[r].answer.session = Null
       /\ req'[r].answer.kind = "flow" => req'[r].answer.flow \notin started
  /\ At(r, "refresh", "rotate") => req[r].cookie \in stranded'

\* At most some sessions end, some logins are given up by the provider, and
\* some are stranded or lost.
Quiet ==
  /\ jar'.session = jar.session /\ code' = code /\ started \subseteq started'
  /\ \A f \in Flows : /\ grant'[f].held = grant[f].held
                      /\ grant'[f].alive => grant[f].alive
  /\ \A s \in Sessions :
       \/ session'[s] = session[s]
       \/ /\ session[s] # Null /\ session'[s] # Null
          /\ session'[s].status # "active"
          /\ session'[s].login = session[s].login
          /\ session'[s].flow = session[s].flow
          /\ session'[s].held = session[s].held
  /\ stranded \subseteq stranded' /\ lost \subseteq lost'
  /\ \A s \in stranded' : s \in Sessions /\ session[s] # Null

\* Who was active and is no more leaves a login that has ended.
LEMMA QuietSessions ==
  ASSUME FlowInvariant, Quiet
  PROVE  /\ \A s \in Sessions :
              /\ session'[s] = Null <=> session[s] = Null
              /\ Active(s)' => Active(s) /\ session'[s] = session[s]
              /\ Newest(s)' <=> Newest(s)
              /\ LoginIsDead(s) => LoginIsDead(s)'
              /\ Active(s) => Active(s)' \/ LoginIsDead(s)'
         /\ \A s, n \in Sessions : Kin(s, n)' <=> Kin(s, n)
<1>1. \A s \in Sessions :
        /\ session'[s] = Null <=> session[s] = Null
        /\ session[s] # Null => /\ session'[s].login = session[s].login
                                /\ session'[s].held = session[s].held
        /\ Active(s)' => Active(s) /\ session'[s] = session[s]
  BY DEF Quiet, Active
<1>2. \A s, n \in Sessions : Kin(s, n)' <=> Kin(s, n)
  BY <1>1 DEF Kin
<1>3. \A s \in Sessions : Newest(s)' <=> Newest(s)
  BY <1>1, <1>2 DEF Newest, Kin
<1>4. ASSUME NEW s \in Sessions, LoginIsDead(s) PROVE LoginIsDead(s)'
  <2> SUFFICES ASSUME NEW n \in Sessions, session'[n] # Null,
                      session'[n].login = session'[s].login, Active(n)'
               PROVE  FALSE
    BY DEF LoginIsDead
  <2>1. Active(n) /\ session[n] # Null /\ session'[n] = session[n]
    BY <1>1
  <2>2. session[s] # Null => FALSE
    BY <1>1, <1>4, <2>1 DEF LoginIsDead
  <2>3. session'[s] = session[s]
    BY <2>2 DEF Quiet
  <2> QED BY <1>4, <2>1, <2>3 DEF LoginIsDead
<1>5. ASSUME NEW s \in Sessions, Active(s), ~Active(s)' PROVE LoginIsDead(s)'
  <2> SUFFICES ASSUME NEW n \in Sessions, session'[n] # Null,
                      session'[n].login = session'[s].login, Active(n)'
               PROVE  FALSE
    BY DEF LoginIsDead
  <2>1. Active(n) /\ session[s] # Null /\ session[n] # Null /\ Kin(n, s)
    BY <1>1, <1>5 DEF Active, Kin
  <2>2. n = s
    BY <1>5, <2>1, OneActive
  <2> QED BY <1>5, <2>2
<1> QED BY <1>1, <1>2, <1>3, <1>4, <1>5

\* What a handler that does not move knows stays true.
LEMMA QuietHandler ==
  ASSUME FlowInvariant, Quiet, NEW q \in Request, HandlerFormed(q)
  PROVE  HandlerFormed(q)'
<1>1. q.cookie \in Sessions \cup {Null} /\ q.answer.session \in Sessions \cup {Null}
      /\ q.state \in Flows \cup {Null}
  BY DEF Request, Answers
<1>2. q.at = "answered" => AnswerFormed(q.answer)'
  <2> SUFFICES ASSUME q.at = "answered" PROVE AnswerFormed(q.answer)'
    OBVIOUS
  <2>1. AnswerFormed(q.answer)
    BY DEF HandlerFormed
  <2> QED BY <1>1, <2>1, QuietSessions, FlowAssumption DEF AnswerFormed, Quiet
<1>3. q.cookie # Null => session'[q.cookie] # Null
  BY <1>1, QuietSessions DEF HandlerFormed
<1>4. q.route = "callback" => q.state \in Flows /\ code'[q.state] # "none"
  BY DEF HandlerFormed, Quiet
<1>5. q.at = "create" =>
       /\ q.route = "callback"
       /\ code'[q.state] = "used" /\ grant'[q.state].held = 0
       /\ \A s \in Sessions : session'[s] # Null => session'[s].flow # q.state
  BY DEF HandlerFormed, Quiet
<1>6. q.at \in {"load", "provider", "rotate", "revoke"} =>
       /\ q.cookie # Null
       /\ q.raced \/ Active(q.cookie)' \/ LoginIsDead(q.cookie)'
  BY <1>1, QuietSessions DEF HandlerFormed
<1>7. q.route = "refresh" /\ q.at = "provider" => q.held = session'[q.cookie].held
  BY <1>1, QuietSessions DEF HandlerFormed, Quiet
<1>8. q.at = "rotate" =>
       /\ q.route = "refresh"
       /\ Active(q.cookie)' =>
            /\ q.held = grant'[session'[q.cookie].flow].held
            /\ \A n \in Sessions : Kin(n, q.cookie)' => session'[n].held < q.held
  <2> SUFFICES ASSUME q.at = "rotate", Active(q.cookie)'
               PROVE  /\ q.held = grant'[session'[q.cookie].flow].held
                      /\ \A n \in Sessions : Kin(n, q.cookie)' => session'[n].held < q.held
    BY DEF HandlerFormed
  <2>1. q.cookie \in Sessions /\ Active(q.cookie) /\ session'[q.cookie] = session[q.cookie]
    BY <1>1, <1>6, QuietSessions
  <2>2. session[q.cookie].flow \in Flows
    BY <2>1, Rows DEF Active, FlowInvariant
  <2>3. \A n \in Sessions : session[n] # Null => session'[n].held = session[n].held
    BY DEF Quiet
  <2> QED BY <2>1, <2>2, <2>3, QuietSessions DEF HandlerFormed, Quiet, Kin
<1> QED BY <1>2, <1>3, <1>4, <1>5, <1>6, <1>7, <1>8 DEF HandlerFormed

\* At most one handler moves, and knows what it should where it gets to.
Steady ==
  /\ \A r \in Requests :
       \/ req'[r] = req[r]
       \/ Moved(r) /\ \E q \in Request : q = req'[r] /\ HandlerFormed(q)'
  /\ \A q, r \in Requests : q # r => req'[q] = req[q] \/ req'[r] = req[r]

LEMMA QuietSessionsFormed ==
  ASSUME FlowInvariant, Quiet
  PROVE  SessionsFormed'
<1>1. SessionsFormed /\ TypeOK
  BY DEF FlowInvariant
<1>2. \A s \in Sessions : session'[s] # Null =>
        /\ session[s] # Null
        /\ session'[s].login = session[s].login
        /\ session'[s].flow = session[s].flow
        /\ session'[s].held = session[s].held
        /\ session[s].login \in Sessions /\ session[s].flow \in Flows
  BY <1>1, QuietSessions, Rows DEF Quiet
<1>3. \A s \in Sessions : session'[s] # Null =>
       /\ code'[session'[s].flow] = "used"
       /\ session'[session'[s].login] # Null
       /\ session'[s].held <= grant'[session'[s].flow].held
       /\ Active(s)' => Newest(s)'
  BY <1>1, <1>2, QuietSessions DEF SessionsFormed, Quiet
<1>4. \A s, n \in Sessions : session'[s] # Null /\ session'[n] # Null =>
       /\ Kin(s, n)' <=> session'[s].flow = session'[n].flow
       /\ Kin(s, n)' /\ session'[s].held = session'[n].held => s = n
  BY <1>1, <1>2, QuietSessions DEF SessionsFormed
<1>5. \A s \in stranded' : session'[s] # Null
  BY QuietSessions DEF Quiet
<1>6. jar'.session # Null => session'[jar'.session] # Null
  BY <1>1, QuietSessions DEF SessionsFormed, Quiet, TypeOK
<1>7. \A f \in Flows : code'[f] # "none" => f \in started'
  BY <1>1 DEF SessionsFormed, Quiet
<1> QED BY <1>3, <1>4, <1>5, <1>6, <1>7 DEF SessionsFormed

LEMMA QuietStep ==
  ASSUME FlowInvariant, TypeOK', Quiet, Steady
  PROVE  FlowInvariant'
<1>1. \A r \in Requests : HandlerFormed(req[r])'
  <2> SUFFICES ASSUME NEW r \in Requests PROVE HandlerFormed(req[r])'
    OBVIOUS
  <2>1. PICK q \in Request : q = req'[r]
    BY DEF TypeOK
  <2>2. CASE req'[r] = req[r]
    <3>1. HandlerFormed(q)
      BY <2>1, <2>2 DEF FlowInvariant
    <3>2. HandlerFormed(q)'
      BY <3>1, QuietHandler
    <3> QED BY <2>1, <3>2
  <2>3. CASE \E p \in Request : p = req'[r] /\ HandlerFormed(p)'
    BY <2>3
  <2> QED BY <2>2, <2>3 DEF Steady
<1>2. \A q \in Requests, s \in Sessions : Pending(q, s)' => Pending(q, s) /\ req'[q] = req[q]
  <2> SUFFICES ASSUME NEW q \in Requests, NEW s \in Sessions, Pending(q, s)'
               PROVE  req'[q] = req[q]
    BY DEF Pending
  <2> QED BY DEF Steady, Moved, Pending
<1>3. \A q \in Requests, s \in Sessions : Pending(q, s) => Pending(q, s)'
  BY DEF Steady, Moved, Pending
<1>4. \A s \in Sessions : Known(s)' <=> Known(s)
  BY FlowAssumption DEF Steady, Moved, Known, Quiet
<1>5. HandlersApart'
  <2>1. ASSUME NEW q \in Requests, NEW r \in Requests, q # r
        PROVE  /\ ~(req'[q].at = "create" /\ req'[r].at = "create" /\ req'[q].state = req'[r].state)
               /\ \A f \in Flows :
                    ~(/\ req'[q].at = "answered" /\ req'[q].answer.kind = "flow"
                      /\ req'[q].answer.flow = f
                      /\ req'[r].at = "answered" /\ req'[r].answer.kind = "flow"
                      /\ req'[r].answer.flow = f)
               /\ \A s \in Sessions : ~(Pending(q, s)' /\ Pending(r, s)')
    <3>1. \A w \in Requests : req'[w] = req[w] \/
            /\ req'[w].at # "create"
            /\ req'[w].at = "answered" /\ req'[w].answer.kind = "flow" =>
                 req'[w].answer.flow \notin started
      BY DEF Steady, Moved
    <3>2. \A w \in Requests :
            req[w].at = "answered" /\ req[w].answer.kind = "flow" =>
              req[w].answer.flow \in started
      BY DEF FlowInvariant, HandlerFormed, AnswerFormed
    <3>3. req'[q] = req[q] \/ req'[r] = req[r]
      BY <2>1 DEF Steady
    <3> QED BY <1>2, <2>1, <3>1, <3>2, <3>3 DEF FlowInvariant, HandlersApart
  <2>2. \A q \in Requests, s \in Sessions : Pending(q, s)' => ~Known(s)'
    BY <1>2, <1>4 DEF FlowInvariant, HandlersApart
  <2> QED BY <2>1, <2>2 DEF HandlersApart
<1>6. CookiesAhead'
  <2>1. ASSUME jar'.session # Null, NEW r \in Requests, req'[r].cookie # Null,
               Kin(req[r].cookie, jar.session)'
        PROVE  session'[req'[r].cookie].held <= session'[jar'.session].held
    <3>1. jar'.session = jar.session /\ jar.session \in Sessions /\ req'[r].cookie \in Sessions
      BY <2>1 DEF Quiet, FlowInvariant, TypeOK, Request
    <3>2. Kin(req'[r].cookie, jar.session)
      BY <2>1, <3>1, QuietSessions
    <3>3. session[req'[r].cookie].held <= session[jar.session].held
      <4>1. CASE req'[r].cookie = req[r].cookie
        BY <2>1, <3>1, <3>2, <4>1 DEF FlowInvariant, CookiesAhead
      <4>2. CASE req'[r].cookie = jar.session
        BY <3>1, <3>2, <4>2, Rows DEF Kin, FlowInvariant
      <4> QED BY <4>1, <4>2 DEF Steady, Moved
    <3> QED BY <3>1, <3>2, <3>3 DEF Quiet, Kin
  <2>2. ASSUME NEW s \in Sessions, Active(s)', session'[s].login \notin lost'
        PROVE  \/ Known(s)'
               \/ \E q \in Requests : Pending(q, s)'
               \/ /\ jar'.session # Null => ~Kin(jar.session, s)'
                  /\ \A q \in Requests, n \in Sessions : Pending(q, n)' => ~Kin(n, s)'
    <3>1. Active(s) /\ session[s].login \notin lost
      BY <2>2, QuietSessions DEF Quiet
    <3>2. jar'.session # Null => (Kin(jar.session, s)' <=> Kin(jar.session, s))
      BY QuietSessions DEF Quiet, FlowInvariant, TypeOK
    <3> QED BY <1>2, <1>3, <1>4, <3>1, <3>2, QuietSessions DEF Quiet, FlowInvariant, CookiesAhead
  <2> QED BY <2>1, <2>2 DEF CookiesAhead
<1>7. RefreshableUnlessStranded'
  <2> SUFFICES ASSUME NEW s \in Sessions, Active(s)', grant'[session'[s].flow].alive,
                      s \notin stranded'
               PROVE  \/ session'[s].held = grant'[session'[s].flow].held
                      \/ \E r \in Requests :
                           /\ At(r, "refresh", "rotate")' /\ req'[r].cookie = s
                           /\ req'[r].held = grant'[session'[s].flow].held
    BY DEF RefreshableUnlessStranded
  <2>1. Active(s) /\ session'[s] = session[s] /\ session[s].flow \in Flows
    BY QuietSessions, Rows DEF Active, FlowInvariant
  <2>2. /\ grant[session[s].flow].alive /\ s \notin stranded
        /\ grant'[session[s].flow].held = grant[session[s].flow].held
    BY <2>1 DEF Quiet
  <2>3. \/ session[s].held = grant[session[s].flow].held
        \/ \E r \in Requests :
             At(r, "refresh", "rotate") /\ req[r].cookie = s
             /\ req[r].held = grant[session[s].flow].held
    BY <2>1, <2>2 DEF FlowInvariant, RefreshableUnlessStranded
  <2>4. ASSUME NEW r \in Requests, At(r, "refresh", "rotate"), req[r].cookie = s
        PROVE  req'[r] = req[r]
    BY <2>4 DEF Steady, Moved
  <2> QED BY <2>1, <2>2, <2>3, <2>4 DEF At
<1> QED BY <1>1, <1>5, <1>6, <1>7, QuietSessionsFormed DEF FlowInvariant

-----------------------------------------------------------------------------
(* A handler leaves                                                        *)

\* The answer of r is delivered, or r dies: what r knew and brought is stored by
\* the browser or given up.
Leaves(r) ==
  /\ req' = [req EXCEPT ![r] = NoRequest]
  /\ session' = session /\ grant' = grant /\ started' = started
  /\ \A f \in Flows :
       \/ code'[f] = code[f]
       \/ /\ code[f] = "none" /\ code'[f] = "issued"
          /\ req[r].at = "answered" /\ req[r].answer.kind = "flow" /\ req[r].answer.flow = f
  /\ jar'.session = jar.session \/ jar'.session = Null \/ Pending(r, jar'.session)
  /\ \A s \in Sessions : Pending(r, s) => session[s].login \in lost' \/ jar'.session = s
  /\ lost \subseteq lost' /\ stranded \subseteq stranded'
  /\ At(r, "refresh", "rotate") => req[r].cookie \in stranded'
  /\ \A s \in stranded' : session[s] # Null

\* What a handler knows does not depend on the cookies, and it does not work on
\* the flow whose code is issued.
LEMMA LeavesHandler ==
  ASSUME FlowInvariant, NEW r \in Requests, Leaves(r), NEW w \in Requests, w # r
  PROVE  HandlerFormed(req[w])'
<1>1. req'[w] = req[w] /\ req[w] \in Request /\ HandlerFormed(req[w])
  BY DEF Leaves, FlowInvariant, TypeOK
<1>2. \A s \in Sessions : /\ Newest(s)' <=> Newest(s)
                          /\ Active(s)' <=> Active(s)
                          /\ LoginIsDead(s)' <=> LoginIsDead(s)
  BY DEF Leaves, Newest, Kin, Active, LoginIsDead
<1>3. \A s, n \in Sessions : Kin(s, n)' <=> Kin(s, n)
  BY DEF Leaves, Kin
<1>4. \A f \in Flows : /\ code[f] # "none" => code'[f] = code[f]
                       /\ code'[f] = "used" <=> code[f] = "used"
  BY DEF Leaves
<1>5. req[w].cookie \in Sessions \cup {Null} /\ req[w].answer.session \in Sessions \cup {Null}
      /\ req[w].answer.flow \in Flows \cup {Null}
  BY <1>1 DEF Request, Answers
<1>6. ASSUME req[w].at = "answered" PROVE AnswerFormed(req[w].answer)'
  <2>1. AnswerFormed(req[w].answer)
    BY <1>1, <1>6 DEF HandlerFormed
  <2>2. /\ req[w].answer.session # Null => session'[req[w].answer.session] # Null
                                           /\ Newest(req[w].answer.session)'
        /\ req[w].answer.kind = "signed_in" =>
             \A n \in Sessions : Kin(n, req[w].answer.session)' => n = req[w].answer.session
    BY <1>2, <1>3, <1>5, <2>1 DEF AnswerFormed, Leaves
  <2>3. req[w].answer.kind = "flow" =>
          req[w].answer.flow \in started /\ code'[req[w].answer.flow] = "none"
    BY <1>6, <2>1 DEF AnswerFormed, Leaves, FlowInvariant, HandlersApart, SessionsFormed, TypeOK
  <2> QED BY <1>1, <2>1, <2>2, <2>3 DEF AnswerFormed, Leaves
<1>7. IF req[w].at = "answered" THEN AnswerFormed(req[w].answer)' ELSE req[w].answer = Error
  BY <1>1, <1>6 DEF HandlerFormed
<1>8. /\ req[w].at = "create" =>
           /\ req[w].route = "callback"
           /\ code'[req[w].state] = "used" /\ grant'[req[w].state].held = 0
           /\ \A s \in Sessions : session'[s] # Null => session'[s].flow # req[w].state
      /\ req[w].route = "callback" => req[w].state \in Flows /\ code'[req[w].state] # "none"
  BY <1>1, <1>4 DEF HandlerFormed, Leaves
<1>9. req[w].at \in {"load", "provider", "rotate", "revoke"} =>
        /\ req[w].cookie # Null
        /\ req[w].raced \/ Active(req[w].cookie)' \/ LoginIsDead(req[w].cookie)'
  BY <1>1, <1>2, <1>5 DEF HandlerFormed
<1>10. req[w].at = "rotate" =>
         /\ req[w].route = "refresh"
         /\ Active(req[w].cookie)' =>
              /\ req[w].held = grant'[session'[req[w].cookie].flow].held
              /\ \A n \in Sessions : Kin(n, req[w].cookie)' => session'[n].held < req[w].held
  BY <1>1, <1>2, <1>3, <1>5 DEF HandlerFormed, Leaves, Active
<1>11. /\ req[w].cookie # Null => session'[req[w].cookie] # Null
       /\ req[w].route = "refresh" /\ req[w].at = "provider" =>
            req[w].held = session'[req[w].cookie].held
  BY <1>1 DEF HandlerFormed, Leaves
<1> QED BY <1>1, <1>7, <1>8, <1>9, <1>10, <1>11 DEF HandlerFormed

LEMMA IdleFormed ==
  ASSUME FlowAssumption, NEW r \in Requests, req'[r] = NoRequest
  PROVE  HandlerFormed(req[r])'
BY DEF HandlerFormed, NoRequest, FlowAssumption

LEMMA HandlerLeaves ==
  ASSUME FlowInvariant, TypeOK', NEW r \in Requests, Leaves(r)
  PROVE  FlowInvariant'
<1> USE DEF FlowInvariant
<1>1. /\ req'[r] = NoRequest
      /\ \A w \in Requests : w # r => req'[w] = req[w]
  BY DEF Leaves, TypeOK
<1>2. \A w \in Requests : HandlerFormed(req[w])'
  BY <1>1, LeavesHandler, IdleFormed, FlowAssumption
<1>3. \A s, n \in Sessions : /\ Kin(s, n)' <=> Kin(s, n)
                             /\ Active(s)' <=> Active(s)
                             /\ Newest(s)' <=> Newest(s)
  BY DEF Leaves, Kin, Active, Newest
<1>4. \A q \in Requests, s \in Sessions : Pending(q, s)' <=> q # r /\ Pending(q, s)
  BY <1>1 DEF Pending, NoRequest
<1>5. \A s \in Sessions : Pending(r, s) => session[s] # Null /\ Newest(s) /\ ~Known(s)
  BY PendingIsNewest DEF HandlersApart
<1>6. SessionsFormed'
  <2>1. jar'.session # Null => jar'.session \in Sessions /\ session[jar'.session] # Null
    BY <1>5 DEF Leaves, SessionsFormed, TypeOK
  <2>2. \A f \in Flows : /\ code'[f] = "used" <=> code[f] = "used"
                         /\ code'[f] # "none" => f \in started
    BY DEF Leaves, SessionsFormed, HandlerFormed, AnswerFormed
  <2>3. \A s \in Sessions : session[s] # Null => session[s].flow \in Flows
    BY Rows
  <2>4. \A s \in Sessions : session'[s] # Null =>
         /\ code'[session'[s].flow] = "used"
         /\ session'[session'[s].login] # Null
         /\ session'[s].held <= grant'[session'[s].flow].held
         /\ Active(s)' => Newest(s)'
    BY <1>3, <2>2, <2>3 DEF SessionsFormed, Leaves
  <2>5. \A s, n \in Sessions : session'[s] # Null /\ session'[n] # Null =>
         /\ Kin(s, n)' <=> session'[s].flow = session'[n].flow
         /\ Kin(s, n)' /\ session'[s].held = session'[n].held => s = n
    BY <1>3 DEF SessionsFormed, Leaves
  <2>6. started' = started /\ session' = session /\ \A s \in stranded' : session[s] # Null
    BY DEF Leaves
  <2> QED BY <2>1, <2>2, <2>4, <2>5, <2>6 DEF SessionsFormed
<1>7. HandlersApart'
  <2>1. \A s \in Sessions : Known(s)' => Known(s) \/ Pending(r, s)
    BY <1>1, FlowAssumption DEF Known, Leaves, NoRequest
  <2>2. \A q \in Requests, s \in Sessions : Pending(q, s)' => ~Known(s)'
    BY <1>4, <2>1 DEF HandlersApart
  <2>3. req'[r].at = "idle"
    BY <1>1 DEF NoRequest
  <2>4. \A w \in Requests : req'[w] = req[w] \/ req'[w].at = "idle"
    BY <1>1, <2>3
  <2>5. \A q, w \in Requests : q # w =>
          /\ req'[q].at = "create" /\ req'[w].at = "create" => req'[q].state # req'[w].state
          /\ \A f \in Flows :
               ~(/\ req'[q].at = "answered" /\ req'[q].answer.kind = "flow"
                 /\ req'[q].answer.flow = f
                 /\ req'[w].at = "answered" /\ req'[w].answer.kind = "flow"
                 /\ req'[w].answer.flow = f)
          /\ \A s \in Sessions : ~(Pending(q, s)' /\ Pending(w, s)')
    BY <1>4, <2>4 DEF HandlersApart
  <2> QED BY <2>2, <2>5 DEF HandlersApart
<1>8. CookiesAhead'
  <2>1. ASSUME jar'.session # Null, NEW w \in Requests, req'[w].cookie # Null,
               Kin(req[w].cookie, jar.session)'
        PROVE  session'[req'[w].cookie].held <= session'[jar'.session].held
    <3>1. w # r /\ req'[w] = req[w] /\ req[w].cookie \in Sessions /\ jar'.session \in Sessions
      BY <1>1, <2>1 DEF NoRequest, TypeOK, Request
    <3>2. Kin(req[w].cookie, jar'.session) /\ session' = session
      BY <2>1, <3>1 DEF Kin, Leaves
    <3>3. CASE jar'.session = jar.session
      BY <2>1, <3>1, <3>2, <3>3 DEF CookiesAhead
    <3>4. CASE Pending(r, jar'.session)
      BY <1>5, <3>1, <3>2, <3>4 DEF Newest
    <3> QED BY <2>1, <3>3, <3>4 DEF Leaves
  <2>2. ASSUME NEW s \in Sessions, Active(s), session[s].login \notin lost',
               ~Known(s)', \A q \in Requests : ~Pending(q, s)'
        PROVE  /\ jar'.session # Null => ~Kin(jar'.session, s)
               /\ \A q \in Requests, n \in Sessions : Pending(q, n)' => ~Kin(n, s)
    <3>1. ASSUME NEW q \in Requests, NEW n \in Sessions, Pending(q, n), Kin(n, s)
          PROVE  n = s
      BY <2>2, <3>1, PendingIsNewest, NewestIsActive
    <3>2. ASSUME jar'.session # Null, Kin(jar'.session, s) PROVE FALSE
      <4>1. jar'.session \in Sessions
        BY <3>2 DEF TypeOK
      <4>2. jar'.session # s
        BY <2>2 DEF Known
      <4>3. jar'.session = jar.session
        BY <3>1, <3>2, <4>1, <4>2 DEF Leaves
      <4>4. ~\E q \in Requests : Pending(q, s)
        BY <1>4, <2>2, <4>2 DEF Leaves
      <4>5. Known(s)
        BY <2>2, <3>2, <4>3, <4>4 DEF CookiesAhead, Leaves
      <4>6. PICK w \in Requests : req[w].cookie = s
        BY <4>2, <4>3, <4>5 DEF Known
      <4>7. s # Null /\ Kin(s, jar.session)
        BY <3>2, <4>3, FlowAssumption DEF Kin
      <4>8. session[s].held <= session[jar.session].held
        BY <3>2, <4>3, <4>6, <4>7 DEF CookiesAhead
      <4>9. \A n \in Sessions : Kin(n, jar.session) => session[n].held <= session[jar.session].held
        BY <2>2, <3>2, <4>1, <4>3, <4>8, Rows DEF SessionsFormed, Newest, Kin
      <4>10. Newest(jar.session)
        BY <4>9 DEF Newest
      <4> QED BY <2>2, <3>2, <4>1, <4>2, <4>3, <4>10, NewestIsActive
    <3> QED BY <1>4, <2>2, <3>1, <3>2
  <2>3. ASSUME NEW s \in Sessions, Active(s)', session'[s].login \notin lost'
        PROVE  \/ Known(s)'
               \/ \E q \in Requests : Pending(q, s)'
               \/ /\ jar'.session # Null => ~Kin(jar.session, s)'
                  /\ \A q \in Requests, n \in Sessions : Pending(q, n)' => ~Kin(n, s)'
    <3>1. session' = session
      BY DEF Leaves
    <3>2. Active(s) /\ session[s].login \notin lost'
      BY <1>3, <2>3, <3>1
    <3> QED BY <1>3, <2>2, <3>1, <3>2 DEF Kin
  <2> QED BY <2>1, <2>3 DEF CookiesAhead
<1>9. RefreshableUnlessStranded'
  BY <1>1, <1>3 DEF RefreshableUnlessStranded, Leaves, At
<1> QED BY <1>2, <1>6, <1>7, <1>8, <1>9

-----------------------------------------------------------------------------
(* The provider begins or renews a grant                                   *)

\* The handler r has the provider's answer, and brings no cookie yet.
Granted(r) ==
  /\ req[r].at # "answered" /\ req'[r].cookie = req[r].cookie
  /\ \A w \in Requests : w # r => req'[w] = req[w]
  /\ req'[r].answer = Error
  /\ session' = session /\ jar' = jar /\ started' = started /\ lost' = lost
  /\ stranded \subseteq stranded' /\ \A s \in stranded' : session[s] # Null

LEMMA SameSessions ==
  ASSUME session' = session
  PROVE  /\ \A s, n \in Sessions : Kin(s, n)' <=> Kin(s, n)
         /\ \A s \in Sessions : /\ Newest(s)' <=> Newest(s)
                                /\ Active(s)' <=> Active(s)
                                /\ LoginIsDead(s)' <=> LoginIsDead(s)
BY DEF Newest, Kin, Active, LoginIsDead

LEMMA GrantedCookies ==
  ASSUME FlowInvariant, TypeOK', NEW r \in Requests, Granted(r),
         \A w \in Requests : w # r /\ req'[r].at = "create" /\ req[w].at = "create"
           => req'[r].state # req[w].state
  PROVE  HandlersApart' /\ CookiesAhead'
<1> USE DEF FlowInvariant
<1>1. \A q \in Requests, s \in Sessions : Pending(q, s)' <=> Pending(q, s)
  BY FlowAssumption DEF Pending, Granted, Error, Answer
<1>2. \A s \in Sessions : Known(s)' <=> Known(s)
  BY DEF Known, Granted
<1>3. HandlersApart'
  <2>1. \A q \in Requests, s \in Sessions : Pending(q, s)' => ~Known(s)'
    BY <1>1, <1>2 DEF HandlersApart
  <2>2. req'[r].answer.kind # "flow" /\ \A w \in Requests : w # r => req'[w] = req[w]
    BY DEF Granted, Error, Answer
  <2>3. \A q, w \in Requests : q # w =>
          /\ req'[q].at = "create" /\ req'[w].at = "create" => req'[q].state # req'[w].state
          /\ \A f \in Flows :
               ~(/\ req'[q].at = "answered" /\ req'[q].answer.kind = "flow"
                 /\ req'[q].answer.flow = f
                 /\ req'[w].at = "answered" /\ req'[w].answer.kind = "flow"
                 /\ req'[w].answer.flow = f)
          /\ \A s \in Sessions : ~(Pending(q, s)' /\ Pending(w, s)')
    BY <1>1, <2>2 DEF HandlersApart
  <2> QED BY <2>1, <2>3 DEF HandlersApart
<1>4. CookiesAhead'
  <2>1. session' = session /\ jar' = jar /\ lost' = lost
        /\ \A w \in Requests : req'[w].cookie = req[w].cookie
    BY DEF Granted
  <2>2. \A w \in Requests : req[w].cookie \in Sessions \cup {Null}
    BY DEF TypeOK, Request
  <2>3. jar.session \in Sessions \cup {Null}
    BY DEF TypeOK
  <2>4. ASSUME jar'.session # Null, NEW w \in Requests, req'[w].cookie # Null,
               Kin(req[w].cookie, jar.session)'
        PROVE  session'[req'[w].cookie].held <= session'[jar'.session].held
    BY <2>1, <2>2, <2>3, <2>4, SameSessions DEF CookiesAhead
  <2>5. ASSUME NEW s \in Sessions, Active(s)', session'[s].login \notin lost'
        PROVE  \/ Known(s)'
               \/ \E q \in Requests : Pending(q, s)'
               \/ /\ jar'.session # Null => ~Kin(jar.session, s)'
                  /\ \A q \in Requests, n \in Sessions : Pending(q, n)' => ~Kin(n, s)'
    <3>1. Active(s) /\ session[s].login \notin lost
      BY <2>1, <2>5, SameSessions
    <3>2. jar'.session # Null => (Kin(jar.session, s)' <=> Kin(jar.session, s))
      BY <2>1, <2>3, SameSessions
    <3> QED BY <1>1, <1>2, <2>1, <3>1, <3>2, SameSessions DEF CookiesAhead
  <2> QED BY <2>4, <2>5 DEF CookiesAhead
<1> QED BY <1>3, <1>4

\* What another handler knows, when its code and its grant are as they were.
LEMMA GrantedOthers ==
  ASSUME FlowInvariant, NEW r \in Requests, Granted(r), NEW q \in Request, HandlerFormed(q),
         q.route = "callback" => code'[q.state] # "none",
         q.at = "answered" /\ q.answer.kind = "flow" => code'[q.answer.flow] = "none",
         q.at = "create" => code'[q.state] = "used" /\ grant'[q.state].held = 0,
         q.at = "rotate" /\ Active(q.cookie) =>
           grant'[session[q.cookie].flow].held = grant[session[q.cookie].flow].held
  PROVE  HandlerFormed(q)'
<1>1. q.cookie \in Sessions \cup {Null} /\ q.answer.session \in Sessions \cup {Null}
  BY DEF Request, Answers
<1>2. session' = session /\ started' = started
  BY DEF Granted
<1>3. IF q.at = "answered" THEN AnswerFormed(q.answer)' ELSE q.answer = Error
  <2>1. q.at = "answered" => AnswerFormed(q.answer)
    BY DEF HandlerFormed
  <2>2. q.at = "answered" => AnswerFormed(q.answer)'
    BY <1>1, <1>2, <2>1, SameSessions DEF AnswerFormed
  <2> QED BY <2>2 DEF HandlerFormed
<1>4. q.at \in {"load", "provider", "rotate", "revoke"} =>
       /\ q.cookie # Null
       /\ q.raced \/ Active(q.cookie)' \/ LoginIsDead(q.cookie)'
  BY <1>1, <1>2, SameSessions DEF HandlerFormed
<1>5. q.at = "rotate" =>
       /\ q.route = "refresh"
       /\ Active(q.cookie)' =>
            /\ q.held = grant'[session'[q.cookie].flow].held
            /\ \A n \in Sessions : Kin(n, q.cookie)' => session'[n].held < q.held
  BY <1>1, <1>2, SameSessions DEF HandlerFormed, Active
<1>6. /\ q.cookie # Null => session'[q.cookie] # Null
      /\ q.route = "callback" => q.state \in Flows /\ code'[q.state] # "none"
      /\ q.at = "create" =>
           /\ q.route = "callback"
           /\ code'[q.state] = "used" /\ grant'[q.state].held = 0
           /\ \A s \in Sessions : session'[s] # Null => session'[s].flow # q.state
      /\ q.route = "refresh" /\ q.at = "provider" => q.held = session'[q.cookie].held
  BY <1>2 DEF HandlerFormed
<1> QED BY <1>3, <1>4, <1>5, <1>6 DEF HandlerFormed

\* The code of flow f is used.
LEMMA GrantBegins ==
  ASSUME FlowInvariant, TypeOK', NEW r \in Requests, Granted(r),
         NEW f \in Flows, code[f] = "issued",
         code' = [code EXCEPT ![f] = "used"],
         grant' = [grant EXCEPT ![f] = [held |-> 0, alive |-> TRUE]],
         At(r, "callback", "exchange"), req'[r].state = f,
         req'[r].route = "callback", req'[r].at \in {"create", "answered"}
  PROVE  FlowInvariant'
<1> USE DEF FlowInvariant
<1>1. /\ session' = session /\ jar' = jar /\ started' = started /\ stranded \subseteq stranded'
      /\ \A w \in Requests : w # r => req'[w] = req[w]
  BY DEF Granted
<1>2. /\ code'[f] = "used" /\ \A g \in Flows : g # f => code'[g] = code[g]
      /\ grant'[f].held = 0 /\ \A g \in Flows : g # f => grant'[g] = grant[g]
  BY DEF TypeOK
<1>3. \A s \in Sessions : session[s] # Null => session[s].flow \in Flows /\ session[s].flow # f
  BY Rows DEF SessionsFormed
<1>4. \A w \in Requests : req[w].at = "create" => req[w].state # f /\ req[w].state \in Flows
  BY DEF HandlerFormed
<1>5. HandlersApart' /\ CookiesAhead'
  BY <1>4, GrantedCookies
<1>6. \A w \in Requests : HandlerFormed(req[w])'
  <2>1. ASSUME NEW w \in Requests, w # r PROVE HandlerFormed(req[w])'
    <3>1. PICK q \in Request : q = req[w]
      BY DEF TypeOK
    <3>2. HandlerFormed(q) /\ q.answer.flow \in Flows \cup {Null}
          /\ q.cookie \in Sessions \cup {Null}
      BY <3>1 DEF Request, Answers
    <3>3. /\ q.route = "callback" => code'[q.state] # "none"
          /\ q.at = "create" => code'[q.state] = "used" /\ grant'[q.state].held = 0
      BY <1>2, <1>4, <3>1, <3>2 DEF HandlerFormed
    <3>4. q.at = "answered" /\ q.answer.kind = "flow" => code'[q.answer.flow] = "none"
      BY <1>2, <3>2 DEF HandlerFormed, AnswerFormed, SessionsFormed, TypeOK
    <3>5. q.at = "rotate" /\ Active(q.cookie) =>
            grant'[session[q.cookie].flow].held = grant[session[q.cookie].flow].held
      BY <1>2, <1>3, <3>2 DEF Active
    <3>6. HandlerFormed(q)'
      BY <3>2, <3>3, <3>4, <3>5, GrantedOthers
    <3> QED BY <1>1, <2>1, <3>1, <3>6
  <2>2. HandlerFormed(req[r])'
    <3>1. req'[r].answer = Error /\ req'[r].cookie = req[r].cookie
      BY DEF Granted
    <3>2. AnswerFormed(req[r].answer)'
      BY <3>1, FlowAssumption DEF AnswerFormed, Error, Answer
    <3>3. req[r].cookie # Null => session[req[r].cookie] # Null
      BY DEF HandlerFormed
    <3> QED BY <1>1, <1>2, <1>3, <3>1, <3>2, <3>3 DEF HandlerFormed
  <2> QED BY <2>1, <2>2
<1>7. SessionsFormed'
  <2>1. \A s \in Sessions : session'[s] # Null =>
         /\ code'[session'[s].flow] = "used"
         /\ session'[session'[s].login] # Null
         /\ session'[s].held <= grant'[session'[s].flow].held
         /\ Active(s)' => Newest(s)'
    BY <1>1, <1>2, <1>3, SameSessions DEF SessionsFormed
  <2>2. \A s, n \in Sessions : session'[s] # Null /\ session'[n] # Null =>
         /\ Kin(s, n)' <=> session'[s].flow = session'[n].flow
         /\ Kin(s, n)' /\ session'[s].held = session'[n].held => s = n
    BY <1>1, SameSessions DEF SessionsFormed
  <2>3. /\ \A s \in stranded' : session'[s] # Null
        /\ jar'.session # Null => session'[jar'.session] # Null
        /\ \A g \in Flows : code'[g] # "none" => g \in started'
    BY <1>1, <1>2 DEF SessionsFormed, Granted
  <2> QED BY <2>1, <2>2, <2>3 DEF SessionsFormed
<1>8. RefreshableUnlessStranded'
  <2> SUFFICES ASSUME NEW s \in Sessions, Active(s), grant'[session[s].flow].alive,
                      s \notin stranded'
               PROVE  \/ session[s].held = grant'[session[s].flow].held
                      \/ \E w \in Requests :
                           /\ At(w, "refresh", "rotate")' /\ req'[w].cookie = s
                           /\ req'[w].held = grant'[session[s].flow].held
    BY <1>1, SameSessions DEF RefreshableUnlessStranded
  <2>1. grant'[session[s].flow] = grant[session[s].flow] /\ s \notin stranded
    BY <1>1, <1>2, <1>3 DEF Active
  <2>2. \A w \in Requests : At(w, "refresh", "rotate") => req'[w] = req[w]
    BY <1>1 DEF At
  <2> QED BY <2>1, <2>2 DEF RefreshableUnlessStranded, At
<1> QED BY <1>5, <1>6, <1>7, <1>8

\* The provider's tokens of session s are replaced: the session is about to be
\* rotated, or it is stranded.
LEMMA GrantRenewed ==
  ASSUME FlowInvariant, TypeOK', NEW r \in Requests, Granted(r), code' = code,
         NEW s \in Sessions, s = req[r].cookie, At(r, "refresh", "provider"),
         NEW f \in Flows, f = session[s].flow, grant[f].held = req[r].held,
         grant'[f].held = grant[f].held + 1, grant'[f].alive = grant[f].alive,
         \A g \in Flows : g # f => grant'[g] = grant[g],
         req'[r].route = "refresh", req'[r].raced = req[r].raced,
         \/ req'[r].at = "rotate" /\ req'[r].held = req[r].held + 1
         \/ req'[r].at = "answered" /\ s \in stranded'
  PROVE  FlowInvariant'
<1> USE DEF FlowInvariant
<1>1. /\ session' = session /\ jar' = jar /\ started' = started /\ stranded \subseteq stranded'
      /\ \A w \in Requests : w # r => req'[w] = req[w]
  BY DEF Granted
<1>2. \A g \in Flows : grant[g].held \in Nat
  BY FlowAssumption DEF TypeOK
<1>3. session[s] # Null /\ session[s].held = grant[f].held
  BY DEF HandlerFormed, At
<1>4. \A t \in Sessions : session[t] # Null =>
        /\ session[t].flow \in Flows /\ session[t].held \in Nat
        /\ session[t].held <= grant[session[t].flow].held
        /\ session[t].flow = f => Kin(s, t) /\ Kin(t, s)
  BY <1>3, Rows DEF SessionsFormed
<1>5. HandlersApart' /\ CookiesAhead'
  BY GrantedCookies
<1>6. \A w \in Requests : HandlerFormed(req[w])'
  <2>1. ASSUME NEW w \in Requests, w # r PROVE HandlerFormed(req[w])'
    <3>1. PICK q \in Request : q = req[w]
      BY DEF TypeOK
    <3>2. HandlerFormed(q) /\ q.cookie \in Sessions \cup {Null}
      BY <3>1 DEF Request
    <3>3. q.at = "create" => q.state \in Flows /\ q.state # f
      BY <1>3, <3>2 DEF HandlerFormed
    <3>4. ASSUME q.at = "rotate", Active(q.cookie)
          PROVE  grant'[session[q.cookie].flow].held = grant[session[q.cookie].flow].held
      <4>1. q.cookie \in Sessions /\ session[q.cookie] # Null
        BY <3>2, <3>4 DEF Active
      <4>2. session[q.cookie].flow # f
        <5> SUFFICES ASSUME session[q.cookie].flow = f PROVE FALSE
          OBVIOUS
        <5>1. Kin(s, q.cookie)
          BY <1>4, <4>1
        <5>2. session[s].held < q.held /\ q.held = grant[f].held
          BY <3>2, <3>4, <5>1 DEF HandlerFormed
        <5> QED BY <1>2, <1>3, <5>2
      <4> QED BY <1>2, <1>4, <4>1, <4>2
    <3>5. /\ q.route = "callback" => code'[q.state] # "none"
          /\ q.at = "create" => code'[q.state] = "used" /\ grant'[q.state].held = 0
      BY <3>2, <3>3 DEF HandlerFormed
    <3>6. q.at = "answered" /\ q.answer.kind = "flow" => code'[q.answer.flow] = "none"
      BY <3>2 DEF HandlerFormed, AnswerFormed
    <3>7. HandlerFormed(q)'
      BY <3>2, <3>4, <3>5, <3>6, GrantedOthers
    <3> QED BY <1>1, <2>1, <3>1, <3>7
  <2>2. HandlerFormed(req[r])'
    <3>1. req'[r].answer = Error /\ req'[r].cookie = s
      BY DEF Granted
    <3>2. AnswerFormed(req[r].answer)'
      BY <3>1, FlowAssumption DEF AnswerFormed, Error, Answer
    <3>3. req[r].raced \/ Active(s) \/ LoginIsDead(s)
      BY DEF HandlerFormed, At
    <3>4. req'[r].raced \/ Active(s)' \/ LoginIsDead(s)'
      BY <1>1, <3>3, SameSessions
    <3>5. req'[r].at = "rotate" =>
            /\ req'[r].held = grant'[session'[s].flow].held
            /\ \A n \in Sessions : Kin(n, s)' => session'[n].held < req'[r].held
      <4> SUFFICES ASSUME req'[r].at = "rotate"
                   PROVE  /\ req'[r].held = grant'[session'[s].flow].held
                          /\ \A n \in Sessions : Kin(n, s)' => session'[n].held < req'[r].held
        OBVIOUS
      <4>1. req'[r].held = grant[f].held + 1
        OBVIOUS
      <4>2. \A n \in Sessions : Kin(n, s) => session[n].held <= grant[f].held
                                             /\ session[n].held \in Nat
        BY <1>3, <1>4 DEF SessionsFormed, Kin
      <4>3. \A n \in Sessions : Kin(n, s)' => Kin(n, s)
        BY <1>1, SameSessions
      <4> QED BY <1>1, <1>2, <4>1, <4>2, <4>3
    <3>6. s # Null
      BY FlowAssumption
    <3> QED BY <1>1, <1>3, <3>1, <3>2, <3>4, <3>5, <3>6 DEF HandlerFormed
  <2> QED BY <2>1, <2>2
<1>7. SessionsFormed'
  <2>1. \A t \in Sessions : session'[t] # Null =>
         /\ code'[session'[t].flow] = "used"
         /\ session'[session'[t].login] # Null
         /\ session'[t].held <= grant'[session'[t].flow].held
         /\ Active(t)' => Newest(t)'
    <3>1. \A t \in Sessions : session[t] # Null =>
            session[t].held <= grant'[session[t].flow].held
      BY <1>2, <1>4
    <3> QED BY <1>1, <3>1, SameSessions DEF SessionsFormed
  <2>2. \A t, n \in Sessions : session'[t] # Null /\ session'[n] # Null =>
         /\ Kin(t, n)' <=> session'[t].flow = session'[n].flow
         /\ Kin(t, n)' /\ session'[t].held = session'[n].held => t = n
    BY <1>1, SameSessions DEF SessionsFormed
  <2>3. /\ \A t \in stranded' : session'[t] # Null
        /\ jar'.session # Null => session'[jar'.session] # Null
        /\ \A g \in Flows : code'[g] # "none" => g \in started'
    BY <1>1, <1>2 DEF SessionsFormed, Granted
  <2> QED BY <2>1, <2>2, <2>3 DEF SessionsFormed
<1>8. RefreshableUnlessStranded'
  <2>a. session' = session /\ \A t \in Sessions : Active(t)' => Active(t)
    BY <1>1, SameSessions
  <2> HIDE DEF FlowInvariant
  <2> SUFFICES ASSUME NEW t \in Sessions, Active(t), grant'[session[t].flow].alive,
                      t \notin stranded'
               PROVE  \/ session[t].held = grant'[session[t].flow].held
                      \/ \E w \in Requests :
                           /\ At(w, "refresh", "rotate")' /\ req'[w].cookie = t
                           /\ req'[w].held = grant'[session[t].flow].held
    BY <2>a DEF RefreshableUnlessStranded
  <2> USE DEF FlowInvariant
  <2>1. session[t] # Null /\ session[t].flow \in Flows
    BY <1>4 DEF Active
  <2>2. CASE session[t].flow # f
    <3>1. grant'[session[t].flow] = grant[session[t].flow] /\ t \notin stranded
      BY <1>1, <2>1, <2>2
    <3>2. \A w \in Requests : At(w, "refresh", "rotate") => req'[w] = req[w]
      BY <1>1 DEF At
    <3>3. \/ session[t].held = grant[session[t].flow].held
          \/ \E w \in Requests :
               /\ At(w, "refresh", "rotate") /\ req[w].cookie = t
               /\ req[w].held = grant[session[t].flow].held
      BY <3>1 DEF RefreshableUnlessStranded
    <3> QED BY <3>1, <3>2, <3>3 DEF At
  <2>3. CASE session[t].flow = f
    <3>1. Kin(s, t) /\ Newest(t)
      BY <1>4, <2>1, <2>3 DEF SessionsFormed
    <3>2. session[s].held <= session[t].held /\ session[t].held <= grant[f].held
      BY <1>4, <2>1, <2>3, <3>1 DEF Newest
    <3>3. session[s].held = session[t].held
      BY <1>2, <1>3, <1>4, <2>1, <3>2
    <3>4. s = t
      BY <1>3, <2>1, <3>1, <3>3 DEF SessionsFormed
    <3>5. req'[r].at = "rotate" /\ req'[r].held = grant'[f].held /\ req'[r].cookie = t
      BY <1>2, <3>4 DEF Granted
    <3> QED BY <2>3, <3>5 DEF At
  <2> QED BY <2>2, <2>3
<1> QED BY <1>5, <1>6, <1>7, <1>8

-----------------------------------------------------------------------------
(* A session begins                                                        *)

\* The first session of a login, under a token nobody has seen.
Begins(r, n) ==
  /\ At(r, "callback", "create") /\ session[n] = Null
  /\ session'[n] = [status |-> "active", login |-> n, flow |-> req[r].state, held |-> 0]
  /\ \A s \in Sessions : s # n => session'[s] = session[s]
  /\ jar' = jar /\ started' = started /\ code' = code /\ grant' = grant /\ stranded' = stranded
  /\ \A w \in Requests : w # r => req'[w] = req[w]
  /\ req'[r].at = "answered" /\ req'[r].route = "callback"
  /\ req'[r].cookie = req[r].cookie /\ req'[r].state = req[r].state
  /\ \/ req'[r].answer = Answer("signed_in", n, Null) /\ lost' = lost
     \/ req'[r].answer = Error /\ lost' = lost \cup {n}

\* The new session is of no older login, and the older ones are as they were.
LEMMA BeginsSessions ==
  ASSUME FlowInvariant, NEW r \in Requests, NEW n \in Sessions, Begins(r, n)
  PROVE  /\ \A s \in Sessions : s # n =>
              /\ session'[s] = session[s]
              /\ session[s] # Null => session[s].flow # req[r].state
              /\ ~Kin(s, n)' /\ ~Kin(n, s)'
              /\ Active(s)' <=> Active(s)
              /\ Newest(s)' <=> Newest(s)
              /\ session[s] # Null => (LoginIsDead(s)' <=> LoginIsDead(s))
              /\ \A t \in Sessions : t # n => (Kin(s, t)' <=> Kin(s, t))
         /\ session'[n] # Null /\ session'[n].login = n /\ session'[n].held = 0
         /\ session'[n].flow = req[r].state /\ req[r].state \in Flows
         /\ Active(n)' /\ Newest(n)'
<1> USE DEF FlowInvariant
<1>1. \A s \in Sessions : s # n => session'[s] = session[s]
  BY DEF Begins
<1>2. \A s \in Sessions : session[s] # Null =>
        /\ session[s].flow # req[r].state /\ session[s].login # n
        /\ session[s].login \in Sessions
  BY Rows DEF Begins, HandlerFormed, At, SessionsFormed
<1>3. /\ session'[n].login = n /\ session'[n].held = 0 /\ session'[n].status = "active"
      /\ session'[n].flow = req[r].state /\ req[r].state \in Flows
  BY DEF Begins, HandlerFormed, At
<1>4. session'[n] \in SessionRow
  <2>1. 0 \in 0..MaxRefreshes
    BY FlowAssumption
  <2> QED BY <1>3, <2>1 DEF Begins, SessionRow
<1>5. session'[n] # Null
  BY <1>4, FlowAssumption
<1>6. ASSUME NEW s \in Sessions, s # n
      PROVE  /\ ~Kin(s, n)' /\ ~Kin(n, s)'
             /\ Active(s)' <=> Active(s)
             /\ \A t \in Sessions : t # n => (Kin(s, t)' <=> Kin(s, t))
             /\ session[s] # Null => (LoginIsDead(s)' <=> LoginIsDead(s))
  BY <1>1, <1>2, <1>3, <1>6 DEF Kin, Active, LoginIsDead, Begins
<1>7. ASSUME NEW s \in Sessions, s # n PROVE Newest(s)' <=> Newest(s)
  <2>1. ~Kin(n, s) /\ ~Kin(n, s)'
    BY <1>6, <1>7 DEF Kin, Begins
  <2>2. \A t \in Sessions : t # n =>
          /\ Kin(t, s)' <=> Kin(t, s)
          /\ session'[t] = session[t]
    BY <1>1, <1>6, <1>7
  <2> QED BY <1>1, <1>7, <2>1, <2>2 DEF Newest
<1>8. Newest(n)'
  <2>1. \A t \in Sessions : Kin(t, n)' => t = n
    BY <1>6
  <2> QED BY <1>3, <2>1 DEF Newest
<1>9. Active(n)'
  BY <1>3, <1>5, FlowAssumption DEF Active
<1> QED BY <1>1, <1>2, <1>3, <1>5, <1>6, <1>7, <1>8, <1>9

LEMMA BeginsHandlers ==
  ASSUME FlowInvariant, TypeOK', NEW r \in Requests, NEW n \in Sessions, Begins(r, n),
         NEW w \in Requests
  PROVE  HandlerFormed(req[w])'
<1> USE DEF FlowInvariant
<1>1. /\ jar' = jar /\ started' = started /\ code' = code /\ grant' = grant
      /\ \A q \in Requests : q # r => req'[q] = req[q]
  BY DEF Begins
<1>2. session[n] = Null
  BY DEF Begins
<1>3. CASE w = r
  <2>1. AnswerFormed(req[r].answer)'
    BY BeginsSessions, FlowAssumption DEF Begins, AnswerFormed, Answer, Error
  <2>2. req[r].cookie \in Sessions \cup {Null}
        /\ (req[r].cookie # Null => session[req[r].cookie] # Null)
    BY DEF TypeOK, Request, HandlerFormed
  <2>3. req'[r].cookie # Null => session'[req'[r].cookie] # Null
    BY <1>2, <2>2, BeginsSessions DEF Begins
  <2>4. /\ req'[r].at = "answered" /\ req'[r].route = "callback"
        /\ req'[r].state \in Flows /\ code[req'[r].state] # "none"
    BY DEF Begins, At, HandlerFormed
  <2> QED BY <1>1, <1>3, <2>1, <2>3, <2>4 DEF HandlerFormed
<1>4. CASE w # r
  <2>1. PICK q \in Request : q = req[w]
    BY DEF TypeOK
  <2>2. /\ HandlerFormed(q) /\ req'[w] = q
        /\ q.cookie \in Sessions \cup {Null} /\ q.answer.session \in Sessions \cup {Null}
    BY <1>1, <1>4, <2>1 DEF Request, Answers
  <2>3. q.cookie # Null => q.cookie \in Sessions /\ q.cookie # n /\ session[q.cookie] # Null
    BY <1>2, <2>2 DEF HandlerFormed
  <2>4. q.at = "answered" => AnswerFormed(q.answer)'
    <3> SUFFICES ASSUME q.at = "answered" PROVE AnswerFormed(q.answer)'
      OBVIOUS
    <3>1. AnswerFormed(q.answer)
      BY <2>2 DEF HandlerFormed
    <3>2. q.answer.session # Null => q.answer.session \in Sessions /\ q.answer.session # n
      BY <1>2, <2>2, <3>1 DEF AnswerFormed
    <3>3. q.answer.session # Null => session'[q.answer.session] # Null /\ Newest(q.answer.session)'
      BY <3>1, <3>2, BeginsSessions DEF AnswerFormed
    <3>4. q.answer.kind = "signed_in" =>
            \A s \in Sessions : Kin(s, q.answer.session)' => s = q.answer.session
      BY <3>1, <3>2, BeginsSessions DEF AnswerFormed
    <3> QED BY <1>1, <3>1, <3>3, <3>4 DEF AnswerFormed
  <2>5. q.at = "create" =>
          /\ q.route = "callback"
          /\ code'[q.state] = "used" /\ grant'[q.state].held = 0
          /\ \A s \in Sessions : session'[s] # Null => session'[s].flow # q.state
    <3>1. q.at = "create" => q.state # req[r].state
      BY <1>4, <2>1 DEF HandlersApart, Begins, At
    <3> QED BY <1>1, <2>2, <3>1, BeginsSessions DEF HandlerFormed
  <2>6. q.at \in {"load", "provider", "rotate", "revoke"} =>
          /\ q.cookie # Null
          /\ q.raced \/ Active(q.cookie)' \/ LoginIsDead(q.cookie)'
    BY <2>2, <2>3, BeginsSessions DEF HandlerFormed
  <2>7. q.at = "rotate" =>
          /\ q.route = "refresh"
          /\ Active(q.cookie)' =>
               /\ q.held = grant'[session'[q.cookie].flow].held
               /\ \A s \in Sessions : Kin(s, q.cookie)' => session'[s].held < q.held
    <3> SUFFICES ASSUME q.at = "rotate", Active(q.cookie)'
                 PROVE  /\ q.held = grant'[session'[q.cookie].flow].held
                        /\ \A s \in Sessions : Kin(s, q.cookie)' => session'[s].held < q.held
      BY <2>2 DEF HandlerFormed
    <3>1. q.cookie \in Sessions /\ q.cookie # n /\ Active(q.cookie)
          /\ session'[q.cookie] = session[q.cookie]
      BY <2>2, <2>3, BeginsSessions DEF HandlerFormed
    <3>2. \A s \in Sessions : Kin(s, q.cookie)' =>
            s # n /\ Kin(s, q.cookie) /\ session'[s] = session[s]
      BY <3>1, BeginsSessions
    <3> QED BY <1>1, <2>2, <3>1, <3>2 DEF HandlerFormed
  <2>8. /\ q.route = "refresh" /\ q.at = "provider" => q.held = session'[q.cookie].held
        /\ q.cookie # Null => session'[q.cookie] # Null
        /\ q.route = "callback" => q.state \in Flows /\ code'[q.state] # "none"
    BY <1>1, <2>2, <2>3, BeginsSessions DEF HandlerFormed
  <2> QED BY <2>2, <2>4, <2>5, <2>6, <2>7, <2>8 DEF HandlerFormed
<1> QED BY <1>3, <1>4

LEMMA SessionBegins ==
  ASSUME FlowInvariant, TypeOK', NEW r \in Requests, NEW n \in Sessions, Begins(r, n)
  PROVE  FlowInvariant'
<1> USE DEF FlowInvariant
<1>1. /\ jar' = jar /\ started' = started /\ code' = code /\ grant' = grant
      /\ stranded' = stranded /\ lost \subseteq lost' /\ session[n] = Null
      /\ \A q \in Requests : q # r => req'[q] = req[q]
      /\ req[r].at = "create" /\ req'[r].at = "answered" /\ req'[r].cookie = req[r].cookie
  BY DEF Begins, At
<1>2. \A w \in Requests : HandlerFormed(req[w])'
  BY BeginsHandlers
<1>3. \A s \in Sessions : Known(s)' <=> Known(s)
  BY <1>1 DEF Known
<1>4. ~Known(n)
  BY <1>1, FlowAssumption DEF Known, SessionsFormed, HandlerFormed
<1>5. \A q \in Requests, s \in Sessions :
        /\ s # n => (Pending(q, s)' <=> Pending(q, s))
        /\ Pending(q, s) => s # n
        /\ Pending(q, n)' => q = r
  <2>1. \A q \in Requests, s \in Sessions : Pending(q, s) => s # n
    BY <1>1, PendingIsNewest
  <2>2. req'[r].answer.session \in {n, Null}
    BY DEF Begins, Answer, Error
  <2> QED BY <1>1, <2>1, <2>2 DEF Pending
<1>6. Pending(r, n)' \/ n \in lost'
  <2>1. n # Null
    BY FlowAssumption
  <2>2. req'[r].answer.session = n \/ n \in lost'
    BY DEF Begins, Answer
  <2> QED BY <1>1, <2>1, <2>2 DEF Pending
<1>7. SessionsFormed'
  <2>1. \A s \in Sessions : session'[s] # Null =>
         /\ code'[session'[s].flow] = "used"
         /\ session'[session'[s].login] # Null
         /\ session'[s].held <= grant'[session'[s].flow].held
         /\ Active(s)' => Newest(s)'
    <3>1. ASSUME NEW s \in Sessions, s # n, session'[s] # Null
          PROVE  /\ code'[session'[s].flow] = "used"
                 /\ session'[session'[s].login] # Null
                 /\ session'[s].held <= grant'[session'[s].flow].held
                 /\ Active(s)' => Newest(s)'
      <4>1. session'[s] = session[s] /\ session[s] # Null /\ session[s].login \in Sessions
            /\ session[session[s].login] # Null
        BY <3>1, BeginsSessions, Rows DEF SessionsFormed
      <4>2. session'[session[s].login] # Null
        BY <1>1, <4>1, BeginsSessions
      <4> QED BY <1>1, <3>1, <4>1, <4>2, BeginsSessions DEF SessionsFormed
    <3>2. /\ code[req[r].state] = "used" /\ grant[req[r].state].held = 0
      BY <1>1 DEF HandlerFormed
    <3> QED BY <1>1, <3>1, <3>2, BeginsSessions
  <2>2. \A s, t \in Sessions : session'[s] # Null /\ session'[t] # Null =>
         /\ Kin(s, t)' <=> session'[s].flow = session'[t].flow
         /\ Kin(s, t)' /\ session'[s].held = session'[t].held => s = t
    <3>1. ASSUME NEW s \in Sessions, NEW t \in Sessions, s # n, t # n,
                 session'[s] # Null, session'[t] # Null
          PROVE  /\ Kin(s, t)' <=> session'[s].flow = session'[t].flow
                 /\ Kin(s, t)' /\ session'[s].held = session'[t].held => s = t
      BY <3>1, BeginsSessions DEF SessionsFormed
    <3>2. \A s \in Sessions : s # n /\ session'[s] # Null =>
            session'[s].flow # session'[n].flow /\ ~Kin(s, n)' /\ ~Kin(n, s)'
      BY BeginsSessions
    <3>3. Kin(n, n)'
      BY BeginsSessions DEF Kin
    <3> QED BY <3>1, <3>2, <3>3
  <2>3. /\ \A s \in stranded' : session'[s] # Null
        /\ jar'.session # Null => session'[jar'.session] # Null
        /\ \A f \in Flows : code'[f] # "none" => f \in started'
    BY <1>1, BeginsSessions DEF SessionsFormed, TypeOK
  <2> QED BY <2>1, <2>2, <2>3 DEF SessionsFormed
<1>8. HandlersApart'
  <2>1. req'[r].answer.kind # "flow"
    BY DEF Begins, Answer, Error
  <2>2. \A q, w \in Requests : q # w =>
          /\ req'[q].at = "create" /\ req'[w].at = "create" => req'[q].state # req'[w].state
          /\ \A f \in Flows :
               ~(/\ req'[q].at = "answered" /\ req'[q].answer.kind = "flow"
                 /\ req'[q].answer.flow = f
                 /\ req'[w].at = "answered" /\ req'[w].answer.kind = "flow"
                 /\ req'[w].answer.flow = f)
    BY <1>1, <2>1 DEF HandlersApart
  <2>3. \A q, w \in Requests : q # w =>
          \A s \in Sessions : ~(Pending(q, s)' /\ Pending(w, s)')
    BY <1>5 DEF HandlersApart
  <2>4. \A q \in Requests, s \in Sessions : Pending(q, s)' => ~Known(s)'
    BY <1>3, <1>4, <1>5 DEF HandlersApart
  <2> QED BY <2>2, <2>3, <2>4 DEF HandlersApart
<1>9. CookiesAhead'
  <2>1. ASSUME jar'.session # Null, NEW w \in Requests, req'[w].cookie # Null,
               Kin(req[w].cookie, jar.session)'
        PROVE  session'[req'[w].cookie].held <= session'[jar'.session].held
    <3>1. /\ req'[w].cookie = req[w].cookie /\ req[w].cookie \in Sessions
          /\ jar.session \in Sessions
      BY <1>1, <2>1 DEF TypeOK, Request
    <3>2. req[w].cookie # n /\ jar.session # n
      BY <1>4, <2>1, <3>1 DEF Known
    <3>3. Kin(req[w].cookie, jar.session)
      BY <1>1, <2>1, <3>1, <3>2, BeginsSessions
    <3> QED BY <1>1, <2>1, <3>1, <3>2, <3>3, BeginsSessions DEF CookiesAhead
  <2>2. ASSUME NEW s \in Sessions, Active(s)', session'[s].login \notin lost'
        PROVE  \/ Known(s)'
               \/ \E q \in Requests : Pending(q, s)'
               \/ /\ jar'.session # Null => ~Kin(jar.session, s)'
                  /\ \A q \in Requests, t \in Sessions : Pending(q, t)' => ~Kin(t, s)'
    <3>1. CASE s = n
      BY <1>6, <2>2, <3>1, BeginsSessions
    <3>2. CASE s # n
      <4>1. Active(s) /\ session'[s] = session[s] /\ session[s].login \notin lost
        BY <1>1, <2>2, <3>2, BeginsSessions
      <4>2. jar.session # Null => jar.session \in Sessions /\ jar.session # n
        BY <1>4 DEF TypeOK, Known
      <4>3. jar.session # Null => (Kin(jar.session, s)' <=> Kin(jar.session, s))
        BY <1>1, <3>2, <4>2, BeginsSessions
      <4>4. \A q \in Requests, t \in Sessions : Pending(q, t)' /\ Kin(t, s)' =>
              Pending(q, t) /\ Kin(t, s)
        BY <1>5, <3>2, BeginsSessions
      <4>5. \A q \in Requests : Pending(q, s) => Pending(q, s)'
        BY <1>5, <3>2
      <4> QED BY <1>1, <1>3, <4>1, <4>3, <4>4, <4>5 DEF CookiesAhead
    <3> QED BY <3>1, <3>2
  <2> QED BY <2>1, <2>2 DEF CookiesAhead
<1>10. RefreshableUnlessStranded'
  <2> SUFFICES ASSUME NEW s \in Sessions, Active(s)', grant[session'[s].flow].alive,
                      s \notin stranded
               PROVE  \/ session'[s].held = grant[session'[s].flow].held
                      \/ \E w \in Requests :
                           /\ At(w, "refresh", "rotate")' /\ req'[w].cookie = s
                           /\ req'[w].held = grant[session'[s].flow].held
    BY <1>1 DEF RefreshableUnlessStranded
  <2>1. CASE s = n
    <3>1. grant[req[r].state].held = 0
      BY <1>1 DEF HandlerFormed
    <3> QED BY <2>1, <3>1, BeginsSessions
  <2>2. CASE s # n
    <3>1. Active(s) /\ session'[s] = session[s]
      BY <2>2, BeginsSessions
    <3>2. \A w \in Requests : At(w, "refresh", "rotate") => req'[w] = req[w]
      BY <1>1 DEF At
    <3>3. \/ session[s].held = grant[session[s].flow].held
          \/ \E w \in Requests :
               /\ At(w, "refresh", "rotate") /\ req[w].cookie = s
               /\ req[w].held = grant[session[s].flow].held
      BY <3>1 DEF RefreshableUnlessStranded
    <3> QED BY <3>1, <3>2, <3>3 DEF At
  <2> QED BY <2>1, <2>2
<1> QED BY <1>2, <1>7, <1>8, <1>9, <1>10

-----------------------------------------------------------------------------
(* A session is rotated                                                    *)

\* The session s is revoked and its login goes on as n, with the provider's new
\* tokens; every handler that came with s is raced.
Rotates(r, s, n) ==
  /\ At(r, "refresh", "rotate") /\ s = req[r].cookie /\ Active(s) /\ session[n] = Null
  /\ session'[n] = [session[s] EXCEPT !.held = req[r].held]
  /\ session'[s] = [session[s] EXCEPT !.status = "revoked"]
  /\ \A t \in Sessions : t # s /\ t # n => session'[t] = session[t]
  /\ jar' = jar /\ started' = started /\ code' = code /\ grant' = grant /\ stranded' = stranded
  /\ \A w \in Requests :
       /\ req'[w].route = req[w].route /\ req'[w].cookie = req[w].cookie
       /\ req'[w].state = req[w].state /\ req'[w].held = req[w].held
       /\ req'[w].raced <=> req[w].raced \/ req[w].cookie = s
       /\ w # r => req'[w].at = req[w].at /\ req'[w].answer = req[w].answer
  /\ req'[r].at = "answered"
  /\ \/ req'[r].answer = Answer("rotated", n, Null) /\ lost' = lost
     \/ req'[r].answer = Error /\ lost' = lost \cup {session[s].login}

LEMMA RotatesRows ==
  ASSUME FlowInvariant, NEW r \in Requests, NEW s \in Sessions, NEW n \in Sessions,
         Rotates(r, s, n)
  PROVE  /\ s # n /\ session[s] # Null /\ session[s] \in SessionRow
         /\ session'[n] # Null /\ session'[n].status = "active"
         /\ session'[n].login = session[s].login /\ session'[n].flow = session[s].flow
         /\ session'[n].held = req[r].held
         /\ req[r].held = grant[session[s].flow].held /\ req[r].held \in Nat
         /\ \A t \in Sessions : Kin(t, s) => session[t].held < req[r].held
         /\ session'[s].status = "revoked"
         /\ \A t \in Sessions : t # n =>
              /\ session'[t] = Null <=> session[t] = Null
              /\ session[t] # Null =>
                   /\ session'[t].login = session[t].login
                   /\ session'[t].flow = session[t].flow
                   /\ session'[t].held = session[t].held
                   /\ t # s => session'[t] = session[t]
<1> USE DEF FlowInvariant
<1>1. s # n /\ session[s] # Null
  BY DEF Rotates, Active
<1>2. session[s] \in SessionRow
  BY <1>1, Rows
<1>3. req[r].held \in 0..MaxRefreshes
  BY DEF TypeOK, Request
<1>4. session'[n] \in SessionRow /\ session'[s] \in SessionRow
  BY <1>2, <1>3 DEF Rotates, SessionRow
<1>5. session'[n] # Null /\ session'[s] # Null
  BY <1>4, FlowAssumption
<1>6. /\ session'[n].status = "active"
      /\ session'[n].login = session[s].login /\ session'[n].flow = session[s].flow
      /\ session'[n].held = req[r].held
      /\ session'[s].status = "revoked" /\ session'[s].login = session[s].login
      /\ session'[s].flow = session[s].flow /\ session'[s].held = session[s].held
  BY <1>2 DEF Rotates, Active, SessionRow
<1>7. /\ req[r].held = grant[session[s].flow].held
      /\ \A t \in Sessions : Kin(t, s) => session[t].held < req[r].held
  BY DEF Rotates, At, HandlerFormed
<1>8. \A t \in Sessions : t # s /\ t # n => session'[t] = session[t]
  BY DEF Rotates
<1>9. req[r].held \in Nat
  BY <1>3, FlowAssumption
<1> QED BY <1>1, <1>2, <1>5, <1>6, <1>7, <1>8, <1>9

\* The new session is the last of the login, and the only active one.
LEMMA RotatesSessions ==
  ASSUME FlowInvariant, NEW r \in Requests, NEW s \in Sessions, NEW n \in Sessions,
         Rotates(r, s, n)
  PROVE  /\ Active(n)' /\ Newest(n)' /\ ~Active(s)'
         /\ \A t \in Sessions : t # n =>
              /\ \A u \in Sessions : u # n => (Kin(t, u)' <=> Kin(t, u))
              /\ Kin(t, n)' <=> Kin(t, s)
              /\ Kin(n, t)' <=> Kin(s, t)
              /\ t # s => (Active(t)' <=> Active(t))
              /\ Newest(t) /\ ~Kin(t, s) => Newest(t)'
              /\ session[t] # Null /\ LoginIsDead(t) => LoginIsDead(t)'
<1> USE DEF FlowInvariant
<1>1. ASSUME NEW t \in Sessions, t # n
      PROVE  /\ \A u \in Sessions : u # n => (Kin(t, u)' <=> Kin(t, u))
             /\ Kin(t, n)' <=> Kin(t, s)
             /\ Kin(n, t)' <=> Kin(s, t)
  BY <1>1, RotatesRows DEF Kin
<1>2. Active(n)' /\ ~Active(s)'
  BY RotatesRows, FlowAssumption DEF Active
<1>3. \A t \in Sessions : t # n /\ t # s => (Active(t)' <=> Active(t))
  BY DEF Rotates, Active
<1>4. Newest(n)'
  <2>1. \A t \in Sessions : t # n /\ Kin(t, s) =>
          /\ session'[t].held = session[t].held /\ session[t].held < req[r].held
          /\ session[t].held \in Nat
    BY RotatesRows, Rows DEF Kin
  <2> QED BY <1>1, <2>1, RotatesRows DEF Newest
<1>5. ASSUME NEW t \in Sessions, t # n, Newest(t), ~Kin(t, s) PROVE Newest(t)'
  <2>1. ~Kin(n, t)'
    BY <1>1, <1>5 DEF Kin
  <2>2. \A u \in Sessions : u # n /\ Kin(u, t)' => Kin(u, t) /\ session[u] # Null
                                                   /\ session[t] # Null
    BY <1>1, <1>5 DEF Kin
  <2>3. \A u \in Sessions : u # n /\ Kin(u, t)' =>
          session'[u].held = session[u].held /\ session'[t].held = session[t].held
    BY <1>5, <2>2, RotatesRows
  <2> QED BY <1>5, <2>1, <2>2, <2>3 DEF Newest
<1>6. ASSUME NEW t \in Sessions, t # n, session[t] # Null, LoginIsDead(t)
      PROVE  LoginIsDead(t)'
  <2>1. session[s].login # session[t].login /\ session'[t].login = session[t].login
    BY <1>6, RotatesRows DEF LoginIsDead, Rotates
  <2> SUFFICES ASSUME NEW u \in Sessions, session'[u] # Null,
                      session'[u].login = session'[t].login, Active(u)'
               PROVE  FALSE
    BY DEF LoginIsDead
  <2>2. u # n /\ u # s
    BY <1>2, <2>1, RotatesRows
  <2>3. Active(u) /\ session[u] # Null /\ session[u].login = session[t].login
    BY <1>3, <2>1, <2>2, RotatesRows
  <2> QED BY <1>6, <2>3 DEF LoginIsDead
<1> QED BY <1>1, <1>2, <1>3, <1>4, <1>5, <1>6

\* Nobody is about to bring a session of the rotated login.
LEMMA RotatesUnpending ==
  ASSUME FlowInvariant, NEW r \in Requests, NEW s \in Sessions, NEW n \in Sessions,
         Rotates(r, s, n), NEW q \in Requests, NEW a \in Sessions, Pending(q, a)
  PROVE  a # n /\ ~Kin(a, s) /\ ~Kin(s, a)
<1>1. session[a] # Null /\ Newest(a) /\ session[n] = Null /\ Active(s)
  BY PendingIsNewest DEF Rotates
<1>2. Kin(a, s) => a = s
  BY <1>1, NewestIsActive
<1>3. Known(s)
  BY DEF Known, Rotates
<1>4. a # s
  BY <1>3 DEF FlowInvariant, HandlersApart
<1> QED BY <1>1, <1>2, <1>4 DEF Kin

LEMMA RotatesHandlers ==
  ASSUME FlowInvariant, TypeOK', NEW r \in Requests, NEW s \in Sessions, NEW n \in Sessions,
         Rotates(r, s, n), NEW w \in Requests
  PROVE  HandlerFormed(req[w])'
<1> USE DEF FlowInvariant
<1>1. /\ started' = started /\ code' = code /\ grant' = grant /\ session[n] = Null
      /\ req'[w].route = req[w].route /\ req'[w].cookie = req[w].cookie
      /\ req'[w].state = req[w].state /\ req'[w].held = req[w].held
      /\ req'[w].raced <=> req[w].raced \/ req[w].cookie = s
      /\ w # r => req'[w].at = req[w].at /\ req'[w].answer = req[w].answer
      /\ req[r].route = "refresh"
  BY DEF Rotates, At
<1>2. HandlerFormed(req[w]) /\ req[w].cookie \in Sessions \cup {Null}
  BY DEF TypeOK, Request
<1>3. req[w].cookie # Null =>
        /\ req[w].cookie \in Sessions /\ req[w].cookie # n /\ session[req[w].cookie] # Null
        /\ session'[req[w].cookie] # Null
  BY <1>1, <1>2, RotatesRows DEF HandlerFormed
<1>4. CASE w = r
  <2>1. AnswerFormed(req[r].answer)'
    BY RotatesRows, RotatesSessions, FlowAssumption DEF Rotates, AnswerFormed, Answer, Error
  <2> QED BY <1>1, <1>2, <1>3, <1>4, <2>1 DEF HandlerFormed, Rotates
<1>5. CASE w # r
  <2>1. req[w].at = "answered" => AnswerFormed(req[w].answer)'
    <3> SUFFICES ASSUME req[w].at = "answered" PROVE AnswerFormed(req[w].answer)'
      OBVIOUS
    <3>a. PICK a \in Sessions \cup {Null} : a = req[w].answer.session
      BY DEF TypeOK, Request, Answers
    <3>1. AnswerFormed(req[w].answer) /\ req'[w].answer = req[w].answer
      BY <1>1, <1>2, <1>5 DEF HandlerFormed
    <3>3. a # Null => /\ a \in Sessions /\ a # n /\ ~Kin(a, s) /\ ~Kin(s, a)
                      /\ session[a] # Null /\ Newest(a)
      BY <3>a, <3>1, RotatesUnpending DEF Pending, AnswerFormed
    <3>4. a # Null => session'[a] # Null /\ Newest(a)'
      BY <3>3, RotatesRows, RotatesSessions
    <3>5. req[w].answer.kind = "signed_in" => \A t \in Sessions : Kin(t, a)' => t = a
      BY <3>a, <3>1, <3>3, RotatesSessions DEF AnswerFormed
    <3> QED BY <1>1, <3>a, <3>1, <3>4, <3>5 DEF AnswerFormed
  <2>2. req[w].at = "create" =>
          /\ req[w].route = "callback"
          /\ code'[req[w].state] = "used" /\ grant'[req[w].state].held = 0
          /\ \A t \in Sessions : session'[t] # Null => session'[t].flow # req[w].state
    <3> SUFFICES ASSUME req[w].at = "create"
                 PROVE  \A t \in Sessions : session'[t] # Null => session'[t].flow # req[w].state
      BY <1>1, <1>2 DEF HandlerFormed
    <3>1. \A t \in Sessions : session[t] # Null => session[t].flow # req[w].state
      BY <1>2 DEF HandlerFormed
    <3> QED BY <3>1, RotatesRows
  <2>3. req[w].at \in {"load", "provider", "rotate", "revoke"} =>
          /\ req[w].cookie # Null
          /\ req'[w].raced \/ Active(req[w].cookie)' \/ LoginIsDead(req[w].cookie)'
    BY <1>1, <1>2, <1>3, RotatesSessions DEF HandlerFormed
  <2>4. req[w].at = "rotate" =>
          /\ req[w].route = "refresh"
          /\ Active(req[w].cookie)' =>
               /\ req[w].held = grant'[session'[req[w].cookie].flow].held
               /\ \A t \in Sessions : Kin(t, req[w].cookie)' => session'[t].held < req[w].held
    <3> SUFFICES ASSUME req[w].at = "rotate", Active(req[w].cookie)'
                 PROVE  /\ req[w].held = grant'[session'[req[w].cookie].flow].held
                        /\ \A t \in Sessions :
                             Kin(t, req[w].cookie)' => session'[t].held < req[w].held
      BY <1>2 DEF HandlerFormed
    <3>a. PICK c \in Sessions \cup {Null} : c = req[w].cookie
      BY <1>2
    <3>1. c \in Sessions /\ c # n /\ session[c] # Null
      BY <1>2, <1>3, <3>a DEF HandlerFormed
    <3>2. c # s /\ Active(c) /\ session'[c] = session[c] /\ Active(s)
      BY <1>1, <3>a, <3>1, RotatesRows, RotatesSessions DEF Rotates
    <3>3. ~Kin(s, c)
      BY <3>1, <3>2, OneActive
    <3>4. ~Kin(n, c)'
      BY <3>1, <3>3, RotatesSessions
    <3>5. \A t \in Sessions : Kin(t, c)' =>
            t # n /\ Kin(t, c) /\ session[t] # Null
      BY <3>1, <3>4, RotatesSessions DEF Kin
    <3>6. \A t \in Sessions : Kin(t, c)' => session'[t].held = session[t].held
      BY <3>5, RotatesRows
    <3>7. /\ req[w].held = grant[session[c].flow].held
          /\ \A t \in Sessions : Kin(t, c) => session[t].held < req[w].held
      BY <1>2, <3>a, <3>2 DEF HandlerFormed
    <3> QED BY <1>1, <3>a, <3>2, <3>5, <3>6, <3>7
  <2>5. req[w].route = "refresh" /\ req[w].at = "provider" =>
          req[w].held = session'[req[w].cookie].held
    <3> SUFFICES ASSUME req[w].route = "refresh", req[w].at = "provider"
                 PROVE  req[w].held = session'[req[w].cookie].held
      OBVIOUS
    <3>1. req[w].cookie # Null /\ req[w].held = session[req[w].cookie].held
      BY <1>2 DEF HandlerFormed
    <3> QED BY <1>3, <3>1, RotatesRows
  <2>6. req[w].at # "answered" => req[w].answer = Error
    BY <1>2 DEF HandlerFormed
  <2>7. req[w].route = "callback" => req[w].state \in Flows /\ code'[req[w].state] # "none"
    BY <1>1, <1>2 DEF HandlerFormed
  <2>8. req'[w].at = req[w].at /\ req'[w].answer = req[w].answer
    BY <1>1, <1>5
  <2>9. IF req'[w].at = "answered" THEN AnswerFormed(req[w].answer)' ELSE req'[w].answer = Error
    BY <2>1, <2>6, <2>8
  <2>10. req'[w].cookie # Null => session'[req'[w].cookie] # Null
    BY <1>1, <1>3
  <2> HIDE DEF FlowInvariant
  <2> QED BY <1>1, <2>2, <2>3, <2>4, <2>5, <2>7, <2>8, <2>9, <2>10 DEF HandlerFormed
<1> QED BY <1>4, <1>5

LEMMA SessionRotates ==
  ASSUME FlowInvariant, TypeOK', NEW r \in Requests, NEW s \in Sessions, NEW n \in Sessions,
         Rotates(r, s, n)
  PROVE  FlowInvariant'
<1> USE DEF FlowInvariant
<1>1. /\ jar' = jar /\ started' = started /\ code' = code /\ grant' = grant
      /\ stranded' = stranded /\ lost \subseteq lost' /\ session[n] = Null /\ Active(s)
      /\ \A w \in Requests :
           /\ req'[w].cookie = req[w].cookie /\ req'[w].state = req[w].state
           /\ w # r => req'[w].at = req[w].at /\ req'[w].answer = req[w].answer
      /\ req[r].at = "rotate" /\ req'[r].at = "answered" /\ req[r].cookie = s
  BY DEF Rotates, At
<1>2. \A w \in Requests : HandlerFormed(req[w])'
  BY RotatesHandlers
<1>3. \A t \in Sessions : Known(t)' <=> Known(t)
  BY <1>1 DEF Known
<1>4. ~Known(n)
  BY <1>1, FlowAssumption DEF Known, SessionsFormed, HandlerFormed
<1>5. \A q \in Requests, t \in Sessions :
        /\ t # n => (Pending(q, t)' <=> Pending(q, t))
        /\ Pending(q, t) => t # n
        /\ Pending(q, n)' => q = r
  <2>1. \A q \in Requests, t \in Sessions : Pending(q, t) => t # n
    BY <1>1, PendingIsNewest
  <2>2. req'[r].answer.session \in {n, Null}
    BY DEF Rotates, Answer, Error
  <2> QED BY <1>1, <2>1, <2>2 DEF Pending
<1>6. Pending(r, n)' \/ session[s].login \in lost'
  <2>1. n # Null
    BY FlowAssumption
  <2>2. req'[r].answer.session = n \/ session[s].login \in lost'
    BY DEF Rotates, Answer
  <2> QED BY <1>1, <2>1, <2>2 DEF Pending
<1>7. SessionsFormed'
  <2>1. \A t \in Sessions : session'[t] # Null =>
         /\ code'[session'[t].flow] = "used"
         /\ session'[session'[t].login] # Null
         /\ session'[t].held <= grant'[session'[t].flow].held
         /\ Active(t)' => Newest(t)'
    <3>1. \A t \in Sessions : session[t] # Null =>
            session[t].login \in Sessions /\ session'[session[t].login] # Null
      BY <1>1, Rows, RotatesRows DEF SessionsFormed
    <3>2. ASSUME NEW t \in Sessions, t # n, session'[t] # Null
          PROVE  /\ code'[session'[t].flow] = "used"
                 /\ session'[session'[t].login] # Null
                 /\ session'[t].held <= grant'[session'[t].flow].held
                 /\ Active(t)' => Newest(t)'
      <4>1. /\ session[t] # Null /\ session'[t].login = session[t].login
            /\ session'[t].flow = session[t].flow /\ session'[t].held = session[t].held
        BY <3>2, RotatesRows
      <4>2. ASSUME Active(t)' PROVE Newest(t)'
        <5>1. t # s /\ Active(t)
          BY <3>2, <4>2, RotatesSessions
        <5>2. ~Kin(t, s)
          BY <1>1, <5>1, OneActive
        <5>3. Newest(t)
          BY <4>1, <5>1 DEF SessionsFormed
        <5> QED BY <3>2, <5>2, <5>3, RotatesSessions
      <4> QED BY <1>1, <3>1, <4>1, <4>2 DEF SessionsFormed
    <3>3. /\ code'[session'[n].flow] = "used"
          /\ session'[session'[n].login] # Null
          /\ session'[n].held <= grant'[session'[n].flow].held
          /\ Newest(n)'
      BY <1>1, <3>1, RotatesRows, RotatesSessions DEF SessionsFormed
    <3> QED BY <3>2, <3>3
  <2>2. \A t, u \in Sessions : session'[t] # Null /\ session'[u] # Null =>
         /\ Kin(t, u)' <=> session'[t].flow = session'[u].flow
         /\ Kin(t, u)' /\ session'[t].held = session'[u].held => t = u
    <3>1. ASSUME NEW t \in Sessions, NEW u \in Sessions, t # n, u # n,
                 session'[t] # Null, session'[u] # Null
          PROVE  /\ Kin(t, u)' <=> session'[t].flow = session'[u].flow
                 /\ Kin(t, u)' /\ session'[t].held = session'[u].held => t = u
      <4>1. /\ session[t] # Null /\ session[u] # Null
            /\ session'[t].flow = session[t].flow /\ session'[t].held = session[t].held
            /\ session'[u].flow = session[u].flow /\ session'[u].held = session[u].held
            /\ Kin(t, u)' <=> Kin(t, u)
        BY <3>1, RotatesRows, RotatesSessions
      <4> QED BY <4>1 DEF SessionsFormed
    <3>2. ASSUME NEW t \in Sessions, t # n, session'[t] # Null
          PROVE  /\ Kin(t, n)' <=> session'[t].flow = session'[n].flow
                 /\ Kin(n, t)' <=> session'[n].flow = session'[t].flow
                 /\ Kin(t, n)' => session'[t].held # session'[n].held
                 /\ Kin(n, t)' => session'[t].held # session'[n].held
      <4>1. /\ session[t] # Null /\ session[s] # Null
            /\ session'[t].flow = session[t].flow /\ session'[t].held = session[t].held
            /\ session'[n].flow = session[s].flow /\ session'[n].held = req[r].held
            /\ Kin(t, n)' <=> Kin(t, s)
            /\ Kin(n, t)' <=> Kin(s, t)
        BY <3>2, RotatesRows, RotatesSessions
      <4>2. Kin(s, t) <=> Kin(t, s)
        BY DEF Kin
      <4>3. Kin(t, s) => session[t].held < req[r].held /\ session[t].held \in Nat
        BY <4>1, RotatesRows, Rows
      <4>4. req[r].held \in Nat
        BY RotatesRows
      <4>5. Kin(t, s) => session'[t].held # session'[n].held
        BY <4>1, <4>3, <4>4
      <4> QED BY <4>1, <4>2, <4>5 DEF SessionsFormed
    <3>3. Kin(n, n)'
      BY RotatesRows DEF Kin
    <3> QED BY <3>1, <3>2, <3>3
  <2>3. /\ \A t \in stranded' : session'[t] # Null
        /\ jar'.session # Null => session'[jar'.session] # Null
        /\ \A f \in Flows : code'[f] # "none" => f \in started'
    BY <1>1, RotatesRows DEF SessionsFormed, TypeOK
  <2> QED BY <2>1, <2>2, <2>3 DEF SessionsFormed
<1>8. HandlersApart'
  <2>1. req'[r].answer.kind # "flow"
    BY DEF Rotates, Answer, Error
  <2>2. \A q, w \in Requests : q # w =>
          /\ req'[q].at = "create" /\ req'[w].at = "create" => req'[q].state # req'[w].state
          /\ \A f \in Flows :
               ~(/\ req'[q].at = "answered" /\ req'[q].answer.kind = "flow"
                 /\ req'[q].answer.flow = f
                 /\ req'[w].at = "answered" /\ req'[w].answer.kind = "flow"
                 /\ req'[w].answer.flow = f)
    BY <1>1, <2>1 DEF HandlersApart
  <2>3. \A q, w \in Requests : q # w =>
          \A t \in Sessions : ~(Pending(q, t)' /\ Pending(w, t)')
    BY <1>5 DEF HandlersApart
  <2>4. \A q \in Requests, t \in Sessions : Pending(q, t)' => ~Known(t)'
    BY <1>3, <1>4, <1>5 DEF HandlersApart
  <2> QED BY <2>2, <2>3, <2>4 DEF HandlersApart
<1>9. CookiesAhead'
  <2>1. ASSUME jar'.session # Null, NEW w \in Requests, req'[w].cookie # Null,
               Kin(req[w].cookie, jar.session)'
        PROVE  session'[req'[w].cookie].held <= session'[jar'.session].held
    <3>1. /\ req'[w].cookie = req[w].cookie /\ req[w].cookie \in Sessions
          /\ jar.session \in Sessions
      BY <1>1, <2>1 DEF TypeOK, Request
    <3>2. req[w].cookie # n /\ jar.session # n
      BY <1>4, <2>1, <3>1 DEF Known
    <3>3. Kin(req[w].cookie, jar.session)
      BY <1>1, <2>1, <3>1, <3>2, RotatesSessions
    <3>4. session[req[w].cookie].held <= session[jar.session].held
      BY <1>1, <2>1, <3>1, <3>3 DEF CookiesAhead
    <3>5. /\ session'[req[w].cookie].held = session[req[w].cookie].held
          /\ session'[jar.session].held = session[jar.session].held
      BY <3>1, <3>2, <3>3, RotatesRows DEF Kin
    <3> QED BY <1>1, <3>1, <3>4, <3>5
  <2>2. ASSUME NEW t \in Sessions, Active(t)', session'[t].login \notin lost'
        PROVE  \/ Known(t)'
               \/ \E q \in Requests : Pending(q, t)'
               \/ /\ jar'.session # Null => ~Kin(jar.session, t)'
                  /\ \A q \in Requests, u \in Sessions : Pending(q, u)' => ~Kin(u, t)'
    <3>1. CASE t = n
      BY <1>6, <2>2, <3>1, RotatesRows
    <3>2. CASE t # n
      <4>1. t # s /\ Active(t) /\ session'[t] = session[t] /\ session[t].login \notin lost
        BY <1>1, <2>2, <3>2, RotatesRows, RotatesSessions
      <4>2. ~Kin(s, t)
        BY <1>1, <4>1, OneActive
      <4>3. jar.session # Null => jar.session \in Sessions /\ jar.session # n
        BY <1>4 DEF TypeOK, Known
      <4>4. jar.session # Null => (Kin(jar.session, t)' <=> Kin(jar.session, t))
        BY <1>1, <3>2, <4>3, RotatesSessions
      <4>5. \A q \in Requests, u \in Sessions : Pending(q, u)' /\ Kin(u, t)' =>
              Pending(q, u) /\ Kin(u, t)
        BY <1>5, <3>2, <4>2, RotatesSessions
      <4>6. \A q \in Requests : Pending(q, t) => Pending(q, t)'
        BY <1>5, <3>2
      <4> QED BY <1>1, <1>3, <4>1, <4>4, <4>5, <4>6 DEF CookiesAhead
    <3> QED BY <3>1, <3>2
  <2> QED BY <2>1, <2>2 DEF CookiesAhead
<1>10. RefreshableUnlessStranded'
  <2> SUFFICES ASSUME NEW t \in Sessions, Active(t)', grant[session'[t].flow].alive,
                      t \notin stranded
               PROVE  \/ session'[t].held = grant[session'[t].flow].held
                      \/ \E w \in Requests :
                           /\ At(w, "refresh", "rotate")' /\ req'[w].cookie = t
                           /\ req'[w].held = grant[session'[t].flow].held
    BY <1>1 DEF RefreshableUnlessStranded
  <2>1. CASE t = n
    BY <2>1, RotatesRows
  <2>2. CASE t # n
    <3>1. t # s /\ Active(t) /\ session'[t] = session[t]
      BY <2>2, RotatesRows, RotatesSessions
    <3>2. \A w \in Requests : At(w, "refresh", "rotate") /\ req[w].cookie = t =>
            /\ At(w, "refresh", "rotate")' /\ req'[w].cookie = t
            /\ req'[w].held = req[w].held
      BY <1>1, <3>1 DEF At, Rotates
    <3>3. \/ session[t].held = grant[session[t].flow].held
          \/ \E w \in Requests :
               /\ At(w, "refresh", "rotate") /\ req[w].cookie = t
               /\ req[w].held = grant[session[t].flow].held
      BY <3>1 DEF RefreshableUnlessStranded
    <3> QED BY <3>1, <3>2, <3>3
  <2> QED BY <2>1, <2>2
<1> QED BY <1>2, <1>7, <1>8, <1>9, <1>10

-----------------------------------------------------------------------------
(* The steps of a handler                                                  *)

\* The types of everything but the handlers.
RestTyped ==
  /\ jar \in [session: Sessions \cup {Null}, pkce: Flows \cup {Null}]
  /\ started \subseteq Flows
  /\ code \in [Flows -> {"none", "issued", "used"}]
  /\ grant \in [Flows -> [held: 0..MaxRefreshes, alive: BOOLEAN]]
  /\ session \in [Sessions -> SessionRow \cup {Null}]
  /\ stranded \subseteq Sessions
  /\ lost \subseteq Sessions

LEMMA UntouchedIsQuiet ==
  ASSUME FlowInvariant, UNCHANGED <<jar, started, code, grant, session, stranded, lost>>
  PROVE  Quiet /\ RestTyped'
BY DEF Quiet, RestTyped, FlowInvariant, TypeOK, SessionsFormed

LEMMA GotoFacts ==
  ASSUME TypeOK, NEW r \in Requests, NEW step \in Steps, Goto(r, step)
  PROVE  /\ req' \in [Requests -> Request]
         /\ \A w \in Requests : w # r => req'[w] = req[w]
         /\ req'[r] \in Request /\ req'[r].at = step
         /\ req'[r].route = req[r].route /\ req'[r].cookie = req[r].cookie
         /\ req'[r].state = req[r].state /\ req'[r].held = req[r].held
         /\ req'[r].raced = req[r].raced /\ req'[r].answer = req[r].answer
<1>1. req[r] \in Request
  BY DEF TypeOK
<1>2. [req[r] EXCEPT !.at = step] \in Request
  BY <1>1 DEF Request
<1>3. req' = [req EXCEPT ![r] = [req[r] EXCEPT !.at = step]]
  BY DEF Goto
<1>4. /\ [req[r] EXCEPT !.at = step].at = step
      /\ [req[r] EXCEPT !.at = step].route = req[r].route
      /\ [req[r] EXCEPT !.at = step].cookie = req[r].cookie
      /\ [req[r] EXCEPT !.at = step].state = req[r].state
      /\ [req[r] EXCEPT !.at = step].held = req[r].held
      /\ [req[r] EXCEPT !.at = step].raced = req[r].raced
      /\ [req[r] EXCEPT !.at = step].answer = req[r].answer
  BY <1>1 DEF Request
<1> QED BY <1>2, <1>3, <1>4 DEF TypeOK

LEMMA AnsweredFacts ==
  ASSUME NEW q \in Request, NEW a \in Answers
  PROVE  /\ Answered(q, a) \in Request
         /\ Answered(q, a).route = q.route /\ Answered(q, a).cookie = q.cookie
         /\ Answered(q, a).state = q.state /\ Answered(q, a).held = q.held
         /\ Answered(q, a).at = "answered" /\ Answered(q, a).answer = a
         /\ Answered(q, a).raced = q.raced
BY DEF Answered, Request, Steps

LEMMA ReplyFacts ==
  ASSUME TypeOK, NEW r \in Requests, NEW a \in Answers, Reply(r, a)
  PROVE  /\ req' \in [Requests -> Request]
         /\ \A w \in Requests : w # r => req'[w] = req[w]
         /\ req'[r] \in Request /\ req'[r].at = "answered" /\ req'[r].answer = a
         /\ req'[r].route = req[r].route /\ req'[r].cookie = req[r].cookie
         /\ req'[r].state = req[r].state /\ req'[r].held = req[r].held
         /\ req'[r].raced = req[r].raced
<1>1. req[r] \in Request /\ req' = [req EXCEPT ![r] = Answered(req[r], a)]
  BY DEF TypeOK, Reply
<1> QED BY <1>1, AnsweredFacts DEF TypeOK

\* One handler moves quietly to where it knows what it should.
LEMMA QuietMove ==
  ASSUME FlowInvariant, Quiet, RestTyped', NEW r \in Requests, Moved(r),
         req' \in [Requests -> Request],
         \A w \in Requests : w # r => req'[w] = req[w],
         NEW q \in Request, q = req'[r], HandlerFormed(q)'
  PROVE  FlowInvariant'
<1>1. TypeOK'
  BY DEF TypeOK, RestTyped
<1>2. Steady
  BY DEF Steady
<1> QED BY <1>1, <1>2, QuietStep

LEMMA QuietGoto ==
  ASSUME FlowInvariant, Quiet, RestTyped', NEW r \in Requests, NEW step \in Steps,
         Goto(r, step), req[r].at \notin {"answered", "rotate"}, step \notin {"answered", "create"},
         NEW q \in Request, q = req'[r], HandlerFormed(q)
  PROVE  FlowInvariant'
<1>1. Moved(r)
  BY GotoFacts DEF FlowInvariant, Moved, At
<1>2. HandlerFormed(q)'
  BY QuietHandler
<1> QED BY <1>1, <1>2, GotoFacts, QuietMove DEF FlowInvariant

\* An answer that brings nothing.
LEMMA QuietReply ==
  ASSUME FlowInvariant, Quiet, RestTyped', NEW r \in Requests, req[r].at # "answered",
         NEW a \in {Error, Answer("signed_out", Null, Null)}, Reply(r, a),
         At(r, "refresh", "rotate") => req[r].cookie \in stranded'
  PROVE  FlowInvariant'
<1>1. a \in Answers /\ a.session = Null /\ a.kind \in {"error", "signed_out"}
  BY DEF Error, Answer, Answers
<1>2. PICK q \in Request : q = req'[r]
  BY <1>1, ReplyFacts DEF FlowInvariant
<1>3. AnswerFormed(a)
  BY <1>1 DEF AnswerFormed
<1>4. HandlerFormed(req[r])
  BY DEF FlowInvariant
<1>5. HandlerFormed(q)
  BY <1>1, <1>2, <1>3, <1>4, ReplyFacts DEF HandlerFormed, FlowInvariant
<1>6. Moved(r)
  BY <1>1, ReplyFacts DEF Moved, FlowInvariant
<1> QED BY <1>1, <1>2, <1>5, <1>6, QuietHandler, QuietMove, ReplyFacts DEF FlowInvariant

LEMMA SendStep ==
  ASSUME FlowInvariant, NEW r \in Requests, NEW route \in Routes,
         NEW state \in Flows \cup {Null}, Send(r, route, state),
         route = "callback" => state \in Flows /\ code[state] # "none"
  PROVE  FlowInvariant'
<1>1. Quiet /\ RestTyped'
  BY UntouchedIsQuiet DEF Send
<1>2. PICK q : q = [NoRequest EXCEPT
         !.route = route, !.at = "received", !.cookie = jar.session,
         !.pkce = jar.pkce, !.state = state]
  OBVIOUS
<1>3. NoRequest \in Request
  BY FlowAssumption DEF NoRequest, Request, Error, Answer, Answers, Routes, Steps
<1>4. jar.session \in Sessions \cup {Null} /\ jar.pkce \in Flows \cup {Null}
  BY DEF FlowInvariant, TypeOK
<1>5. q \in Request
  BY <1>2, <1>3, <1>4 DEF Request, Steps
<1>6. /\ q.route = route /\ q.at = "received" /\ q.cookie = jar.session /\ q.state = state
      /\ q.answer = Error
  BY <1>2 DEF NoRequest
<1>7. req' = [req EXCEPT ![r] = q] /\ req[r] = NoRequest
  BY <1>2 DEF Send
<1>8. req' \in [Requests -> Request] /\ req'[r] = q
      /\ \A w \in Requests : w # r => req'[w] = req[w]
  BY <1>5, <1>7 DEF FlowInvariant, TypeOK
<1>9. HandlerFormed(q)
  BY <1>6 DEF HandlerFormed, FlowInvariant, SessionsFormed
<1>10. Moved(r)
  BY <1>6, <1>7, <1>8 DEF Moved, NoRequest, At
<1> QED BY <1>1, <1>5, <1>8, <1>9, <1>10, QuietHandler, QuietMove

LEMMA LoginStep ==
  ASSUME FlowInvariant, NEW r \in Requests, Login(r)
  PROVE  FlowInvariant'
<1>1. PICK f \in Flows \ started :
        started' = started \cup {f} /\ Reply(r, Answer("flow", Null, f))
  BY DEF Login
<1>2. UNCHANGED <<jar, code, grant, session, stranded, lost>> /\ At(r, "login", "received")
  BY DEF Login
<1>3. Quiet /\ RestTyped'
  BY <1>1, <1>2 DEF Quiet, RestTyped, FlowInvariant, TypeOK, SessionsFormed
<1>4. PICK a \in Answers : a = Answer("flow", Null, f)
  BY <1>1 DEF Answer, Answers
<1>5. a.session = Null /\ a.kind = "flow" /\ a.flow = f
  BY <1>4 DEF Answer
<1>6. PICK q \in Request : q = req'[r]
  BY <1>1, <1>4, ReplyFacts DEF FlowInvariant
<1>7. /\ q.at = "answered" /\ q.answer = a /\ q.route = "login"
      /\ q.cookie = req[r].cookie
  BY <1>1, <1>2, <1>4, <1>6, ReplyFacts DEF FlowInvariant, At
<1>8. code'[f] = "none" /\ f \in started'
  BY <1>1, <1>2 DEF FlowInvariant, SessionsFormed, TypeOK
<1>9. AnswerFormed(q.answer)'
  BY <1>5, <1>7, <1>8 DEF AnswerFormed
<1>10. q.cookie # Null => session'[q.cookie] # Null
  BY <1>2, <1>7 DEF FlowInvariant, HandlerFormed
<1>11. HandlerFormed(q)'
  BY <1>7, <1>9, <1>10 DEF HandlerFormed
<1>12. Moved(r)
  BY <1>1, <1>2, <1>5, <1>6, <1>7 DEF Moved, At
<1>13. req' \in [Requests -> Request] /\ \A w \in Requests : w # r => req'[w] = req[w]
  BY <1>1, <1>4, ReplyFacts DEF FlowInvariant
<1> QED BY <1>3, <1>6, <1>11, <1>12, <1>13, QuietMove

LEMMA CheckStateStep ==
  ASSUME FlowInvariant, NEW r \in Requests, CheckState(r)
  PROVE  FlowInvariant'
<1>1. Quiet /\ RestTyped'
  BY UntouchedIsQuiet DEF CheckState
<1>2. At(r, "callback", "received")
  BY DEF CheckState
<1>3. CASE Reply(r, Error)
  BY <1>1, <1>2, <1>3, QuietReply DEF At
<1>4. CASE Goto(r, "exchange")
  <2>1. "exchange" \in Steps /\ HandlerFormed(req[r]) /\ TypeOK
    BY DEF Steps, FlowInvariant
  <2>2. PICK q \in Request : q = req'[r]
    BY <1>4, <2>1, GotoFacts
  <2>3. HandlerFormed(q)
    BY <1>2, <1>4, <2>1, <2>2, GotoFacts DEF HandlerFormed, At
  <2> QED BY <1>1, <1>2, <1>4, <2>1, <2>2, <2>3, QuietGoto DEF At
<1> QED BY <1>3, <1>4 DEF CheckState

LEMMA AuthenticateStep ==
  ASSUME FlowInvariant, NEW r \in Requests, Authenticate(r)
  PROVE  FlowInvariant'
<1>1. Quiet /\ RestTyped'
  BY UntouchedIsQuiet DEF Authenticate
<1>2. req[r].at = "received" /\ req[r].route \in {"refresh", "logout"}
  BY DEF Authenticate
<1>3. CASE Reply(r, Error)
  BY <1>1, <1>2, <1>3, QuietReply DEF At
<1>4. CASE Active(req[r].cookie) /\ Goto(r, "load")
  <2>1. "load" \in Steps /\ HandlerFormed(req[r]) /\ TypeOK
    BY DEF Steps, FlowInvariant
  <2>2. PICK q \in Request : q = req'[r]
    BY <1>4, <2>1, GotoFacts
  <2>3. HandlerFormed(q)
    BY <1>2, <1>4, <2>1, <2>2, GotoFacts DEF HandlerFormed, Active
  <2> QED BY <1>1, <1>2, <1>4, <2>1, <2>2, <2>3, QuietGoto
<1> QED BY <1>3, <1>4 DEF Authenticate

LEMMA LoadForRefreshStep ==
  ASSUME FlowInvariant, NEW r \in Requests, LoadForRefresh(r)
  PROVE  FlowInvariant'
<1>1. Quiet /\ RestTyped'
  BY UntouchedIsQuiet DEF LoadForRefresh
<1>2. At(r, "refresh", "load")
  BY DEF LoadForRefresh
<1>3. CASE Reply(r, Error)
  BY <1>1, <1>2, <1>3, QuietReply DEF At
<1>4. CASE /\ Active(req[r].cookie)
           /\ req' = [req EXCEPT ![r].at = "provider", ![r].held = session[req[r].cookie].held]
  <2>1. HandlerFormed(req[r]) /\ TypeOK /\ req[r] \in Request
    BY DEF FlowInvariant, TypeOK
  <2>2. req[r].cookie \in Sessions /\ session[req[r].cookie] \in SessionRow
    BY <1>4, <2>1, Rows DEF Active, Request
  <2>3. session[req[r].cookie].held \in 0..MaxRefreshes
    BY <2>2 DEF SessionRow
  <2>4. PICK q : q = [req[r] EXCEPT !.at = "provider", !.held = session[req[r].cookie].held]
    OBVIOUS
  <2>5. q \in Request
    BY <2>1, <2>3, <2>4 DEF Request, Steps
  <2>6. /\ q.at = "provider" /\ q.held = session[req[r].cookie].held
        /\ q.route = "refresh" /\ q.cookie = req[r].cookie /\ q.raced = req[r].raced
        /\ q.answer = req[r].answer
    BY <1>2, <2>1, <2>4 DEF Request, At
  <2>7. req' = [req EXCEPT ![r] = q]
    BY <1>4, <2>4
  <2>8. req' \in [Requests -> Request] /\ req'[r] = q
        /\ \A w \in Requests : w # r => req'[w] = req[w]
    BY <2>1, <2>5, <2>7 DEF TypeOK
  <2>9. HandlerFormed(q)
    BY <1>2, <1>4, <2>1, <2>6 DEF HandlerFormed, Active, At
  <2>10. Moved(r)
    BY <1>2, <2>6, <2>8 DEF Moved, At
  <2> QED BY <1>1, <2>5, <2>8, <2>9, <2>10, QuietHandler, QuietMove
<1> QED BY <1>3, <1>4 DEF LoadForRefresh

LEMMA LoadForLogoutStep ==
  ASSUME FlowInvariant, NEW r \in Requests, LoadForLogout(r)
  PROVE  FlowInvariant'
<1>1. Quiet /\ RestTyped'
  BY UntouchedIsQuiet DEF LoadForLogout
<1>2. At(r, "logout", "load")
  BY DEF LoadForLogout
<1>3. CASE Reply(r, Error)
  BY <1>1, <1>2, <1>3, QuietReply DEF At
<1>4. ASSUME NEW step \in {"provider", "revoke"}, Goto(r, step) PROVE FlowInvariant'
  <2>1. step \in Steps /\ HandlerFormed(req[r]) /\ TypeOK
    BY DEF Steps, FlowInvariant
  <2>2. PICK q \in Request : q = req'[r]
    BY <1>4, <2>1, GotoFacts
  <2>3. HandlerFormed(q)
    BY <1>2, <1>4, <2>1, <2>2, GotoFacts DEF HandlerFormed, At
  <2> QED BY <1>1, <1>2, <1>4, <2>1, <2>2, <2>3, QuietGoto DEF At
<1> QED BY <1>3, <1>4 DEF LoadForLogout

LEMMA ProviderLogoutStep ==
  ASSUME FlowInvariant, NEW r \in Requests, ProviderLogout(r)
  PROVE  FlowInvariant'
<1> USE DEF FlowInvariant
<1>1. /\ At(r, "logout", "provider") /\ Goto(r, "revoke")
      /\ UNCHANGED <<jar, started, code, session, stranded, lost>>
      /\ grant' \in {grant, [grant EXCEPT ![session[req[r].cookie].flow].alive = FALSE]}
  BY DEF ProviderLogout
<1>2. /\ grant' \in [Flows -> [held: 0..MaxRefreshes, alive: BOOLEAN]]
      /\ \A f \in Flows : grant'[f].held = grant[f].held /\ (grant'[f].alive => grant[f].alive)
  <2>1. PICK f : f = session[req[r].cookie].flow
    OBVIOUS
  <2>2. PICK g : g = [grant[f] EXCEPT !.alive = FALSE]
    OBVIOUS
  <2>3. grant' \in {grant, [grant EXCEPT ![f] = g]}
    BY <1>1, <2>1, <2>2
  <2>4. f \in Flows => grant[f] \in [held: 0..MaxRefreshes, alive: BOOLEAN]
    BY DEF TypeOK
  <2>5. f \in Flows => /\ g \in [held: 0..MaxRefreshes, alive: BOOLEAN]
                       /\ g.held = grant[f].held /\ g.alive = FALSE
    BY <2>2, <2>4
  <2> QED BY <2>3, <2>5 DEF TypeOK
<1>3. Quiet /\ RestTyped'
  BY <1>1, <1>2 DEF Quiet, RestTyped, TypeOK, SessionsFormed
<1>4. "revoke" \in Steps /\ HandlerFormed(req[r])
  BY DEF Steps
<1>5. PICK q \in Request : q = req'[r]
  BY <1>1, <1>4, GotoFacts
<1>6. HandlerFormed(q)
  BY <1>1, <1>4, <1>5, GotoFacts DEF HandlerFormed, At
<1> QED BY <1>1, <1>3, <1>4, <1>5, <1>6, QuietGoto DEF At

\* The session s ends.
LEMMA EndsQuietly ==
  ASSUME FlowInvariant, NEW s \in Sessions, Active(s), NEW status \in {"revoked", "expired"},
         session' = [session EXCEPT ![s].status = status],
         UNCHANGED <<jar, started, code, grant, stranded, lost>>
  PROVE  Quiet /\ RestTyped'
<1> USE DEF FlowInvariant
<1>1. session[s] # Null /\ session[s] \in SessionRow
  BY Rows DEF Active
<1>2. PICK row : row = [session[s] EXCEPT !.status = status]
  OBVIOUS
<1>3. /\ row \in SessionRow /\ row.status = status
      /\ row.login = session[s].login /\ row.flow = session[s].flow
      /\ row.held = session[s].held
  BY <1>1, <1>2 DEF SessionRow
<1>4. session' = [session EXCEPT ![s] = row]
  BY <1>2
<1>5. session'[s] = row /\ \A t \in Sessions : t # s => session'[t] = session[t]
  BY <1>4 DEF TypeOK
<1>6. row # Null /\ row.status # "active"
  BY <1>3, FlowAssumption
<1>7. Quiet
  BY <1>1, <1>3, <1>5, <1>6 DEF Quiet, TypeOK, SessionsFormed
<1>8. RestTyped'
  BY <1>3, <1>4 DEF RestTyped, TypeOK
<1> QED BY <1>7, <1>8

LEMMA RevokeStep ==
  ASSUME FlowInvariant, NEW r \in Requests, Revoke(r)
  PROVE  FlowInvariant' /\ Quiet
<1>1. /\ At(r, "logout", "revoke")
      /\ UNCHANGED <<jar, started, code, grant, stranded, lost>>
      /\ \/ session' = session
         \/ /\ Active(req[r].cookie)
            /\ session' = [session EXCEPT ![req[r].cookie].status = "revoked"]
      /\ \E a \in {Error, Answer("signed_out", Null, Null)} : Reply(r, a)
  BY DEF Revoke
<1>2. Quiet /\ RestTyped'
  <2>1. CASE session' = session
    BY <1>1, <2>1, UntouchedIsQuiet
  <2>2. CASE /\ Active(req[r].cookie)
             /\ session' = [session EXCEPT ![req[r].cookie].status = "revoked"]
    <3>1. req[r].cookie \in Sessions
      BY <2>2 DEF FlowInvariant, TypeOK, Request, Active
    <3> QED BY <1>1, <2>2, <3>1, EndsQuietly
  <2> QED BY <1>1, <2>1, <2>2
<1> QED BY <1>1, <1>2, QuietReply DEF At

\* Nobody is served; a session may end, or the browser may forget its flow.
LEMMA ElsewhereStep ==
  ASSUME FlowInvariant, ForgetFlow \/ \E s \in Sessions : Expire(s)
  PROVE  FlowInvariant' /\ Quiet
<1>1. Quiet /\ RestTyped' /\ req' = req
  <2>1. CASE ForgetFlow
    <3>1. jar' \in [session: Sessions \cup {Null}, pkce: Flows \cup {Null}]
          /\ jar'.session = jar.session
      BY <2>1 DEF ForgetFlow, FlowInvariant, TypeOK
    <3> QED BY <2>1, <3>1 DEF ForgetFlow, Quiet, RestTyped, FlowInvariant, TypeOK, SessionsFormed
  <2>2. CASE \E s \in Sessions : Expire(s)
    BY <2>2, EndsQuietly DEF Expire
  <2> QED BY <2>1, <2>2
<1>2. TypeOK'
  BY <1>1 DEF TypeOK, RestTyped, FlowInvariant
<1>3. Steady
  BY <1>1 DEF Steady
<1> QED BY <1>1, <1>2, <1>3, QuietStep

\* An answer is delivered or lost, or the handler dies.
LEMMA LeaveStep ==
  ASSUME FlowInvariant, NEW r \in Requests, Deliver(r) \/ Die(r)
  PROVE  FlowInvariant'
<1> USE DEF FlowInvariant
<1>1. /\ req[r] \in Request /\ HandlerFormed(req[r])
      /\ req[r].answer.session \in Sessions \cup {Null}
      /\ req[r].answer.flow \in Flows \cup {Null}
      /\ req[r].cookie \in Sessions \cup {Null}
  BY DEF TypeOK, Request, Answers
<1>2. NoRequest \in Request
  BY FlowAssumption DEF NoRequest, Request, Error, Answer, Answers, Routes, Steps
<1>3. /\ req' = [req EXCEPT ![r] = NoRequest]
      /\ UNCHANGED <<session, grant, started>>
      /\ req' \in [Requests -> Request]
  BY <1>2 DEF Deliver, Die, TypeOK
<1>4. CASE Deliver(r)
  <2> DEFINE a == req[r].answer
  <2>1. AnswerFormed(a) /\ req[r].at = "answered" /\ lost' = lost /\ stranded' = stranded
    BY <1>1, <1>4 DEF HandlerFormed, Deliver
  <2>2. code' \in [Flows -> {"none", "issued", "used"}]
        /\ \A f \in Flows :
             \/ code'[f] = code[f]
             \/ code[f] = "none" /\ code'[f] = "issued" /\ a.kind = "flow" /\ a.flow = f
    BY <1>4, <2>1 DEF Deliver, AnswerFormed, TypeOK, SessionsFormed
  <2>3. /\ jar' \in [session: Sessions \cup {Null}, pkce: Flows \cup {Null}]
        /\ a.kind \in {"signed_in", "rotated"} => jar'.session = a.session
        /\ \/ jar'.session = jar.session \/ jar'.session = Null
           \/ a.kind \in {"signed_in", "rotated"}
    <3>1. CASE a.kind = "flow"
      <4>1. jar' = [jar EXCEPT !.pkce = a.flow]
        BY <1>4, <3>1 DEF Deliver
      <4> QED BY <1>1, <3>1, <4>1 DEF TypeOK
    <3>2. CASE a.kind = "signed_in"
      <4>1. jar' = [session |-> a.session, pkce |-> Null]
        BY <1>4, <3>2 DEF Deliver
      <4> QED BY <1>1, <3>2, <4>1 DEF TypeOK
    <3>3. CASE a.kind = "rotated"
      <4>1. jar' = [jar EXCEPT !.session = a.session]
        BY <1>4, <3>3 DEF Deliver
      <4> QED BY <1>1, <3>3, <4>1 DEF TypeOK
    <3>4. CASE a.kind = "signed_out"
      <4>1. jar' = [jar EXCEPT !.session = Null]
        BY <1>4, <3>4 DEF Deliver
      <4> QED BY <3>4, <4>1 DEF TypeOK
    <3>5. CASE a.kind = "error"
      <4>1. jar' = jar
        BY <1>4, <3>5 DEF Deliver
      <4> QED BY <3>5, <4>1 DEF TypeOK
    <3> QED BY <1>1, <3>1, <3>2, <3>3, <3>4, <3>5 DEF Request, Answers
  <2>4. TypeOK'
    BY <1>3, <2>1, <2>2, <2>3 DEF TypeOK
  <2>5. jar'.session = jar.session \/ jar'.session = Null \/ Pending(r, jar'.session)
    BY <2>1, <2>3 DEF Pending
  <2>6. \A s \in Sessions : Pending(r, s) => jar'.session = s
    BY <2>1, <2>3 DEF Pending, AnswerFormed
  <2>7. \A s \in stranded' : session[s] # Null
    BY <2>1 DEF SessionsFormed
  <2>8. Leaves(r)
    BY <1>3, <2>1, <2>2, <2>5, <2>6, <2>7 DEF Leaves, At
  <2> QED BY <2>4, <2>8, HandlerLeaves
<1>5. CASE Die(r)
  <2>1. /\ stranded' = stranded \cup Stranding(r) /\ lost' = lost \cup Losing(r)
        /\ UNCHANGED <<jar, code>>
    BY <1>5 DEF Die
  <2>2. \A s \in Stranding(r) : s \in Sessions /\ session[s] # Null
    BY <1>1 DEF Stranding, HandlerFormed, At
  <2>3. \A l \in Losing(r) : l \in Sessions
    BY <1>1, Rows DEF Losing, HandlerFormed, AnswerFormed
  <2>4. TypeOK'
    BY <1>3, <2>1, <2>2, <2>3 DEF TypeOK
  <2>5. \A s \in Sessions : Pending(r, s) => session[s].login \in lost'
    BY <2>1 DEF Pending, Losing
  <2>6. At(r, "refresh", "rotate") => req[r].cookie \in stranded'
    BY <2>1 DEF Stranding
  <2>7. \A s \in stranded' : session[s] # Null
    BY <2>1, <2>2 DEF SessionsFormed
  <2>8. Leaves(r)
    BY <1>3, <2>1, <2>5, <2>6, <2>7 DEF Leaves
  <2> QED BY <2>4, <2>8, HandlerLeaves
<1> QED BY <1>4, <1>5

LEMMA ExchangeCodeStep ==
  ASSUME FlowInvariant, NEW r \in Requests, ExchangeCode(r)
  PROVE  FlowInvariant'
<1> USE DEF FlowInvariant
<1>1. /\ At(r, "callback", "exchange") /\ HandlerFormed(req[r])
      /\ UNCHANGED <<jar, started, session, stranded, lost>>
  BY DEF ExchangeCode
<1>2. PICK f \in Flows : f = req[r].state
  BY <1>1 DEF HandlerFormed, At
<1>3. CASE Reply(r, Error) /\ UNCHANGED <<code, grant>>
  <2>1. Quiet /\ RestTyped'
    BY <1>1, <1>3, UntouchedIsQuiet
  <2> QED BY <1>1, <1>3, <2>1, QuietReply DEF At
<1>4. CASE /\ code[f] = "issued"
           /\ code' = [code EXCEPT ![f] = "used"]
           /\ grant' = [grant EXCEPT ![f] = [held |-> 0, alive |-> TRUE]]
           /\ Goto(r, "create") \/ Reply(r, Error)
  <2>1. Error \in Answers /\ "create" \in Steps
    BY DEF Error, Answer, Answers, Steps
  <2>2. /\ req' \in [Requests -> Request]
        /\ \A w \in Requests : w # r => req'[w] = req[w]
        /\ req'[r].at \in {"create", "answered"} /\ req'[r].answer = Error
        /\ req'[r].route = "callback" /\ req'[r].state = f /\ req'[r].cookie = req[r].cookie
    BY <1>1, <1>2, <1>4, <2>1, GotoFacts, ReplyFacts DEF HandlerFormed, At
  <2>3. [held |-> 0, alive |-> TRUE] \in [held: 0..MaxRefreshes, alive: BOOLEAN]
    BY FlowAssumption
  <2>4. TypeOK'
    BY <1>1, <1>4, <2>2, <2>3 DEF TypeOK
  <2>5. Granted(r)
    BY <1>1, <2>2 DEF Granted, At, SessionsFormed
  <2> QED BY <1>1, <1>4, <2>2, <2>4, <2>5, GrantBegins
<1> QED BY <1>2, <1>3, <1>4 DEF ExchangeCode

LEMMA CreateSessionStep ==
  ASSUME FlowInvariant, NEW r \in Requests, CreateSession(r)
  PROVE  /\ FlowInvariant'
         /\ session' = session \/ \E n \in Sessions : Begins(r, n)
<1> USE DEF FlowInvariant
<1>1. /\ At(r, "callback", "create") /\ HandlerFormed(req[r])
      /\ UNCHANGED <<jar, started, code, grant, stranded>>
  BY DEF CreateSession
<1>2. CASE Reply(r, Error) /\ UNCHANGED <<session, lost>>
  <2>1. Quiet /\ RestTyped'
    BY <1>1, <1>2, UntouchedIsQuiet
  <2> QED BY <1>1, <1>2, <2>1, QuietReply DEF At
<1>3. ASSUME NEW s \in Sessions, Fresh(s),
             session' = [session EXCEPT ![s] =
               [status |-> "active", login |-> s, flow |-> req[r].state, held |-> 0]],
             \/ Reply(r, Answer("signed_in", s, Null)) /\ UNCHANGED lost
             \/ Reply(r, Error) /\ lost' = lost \cup {s}
      PROVE  FlowInvariant' /\ Begins(r, s)
  <2>1. /\ [status |-> "active", login |-> s, flow |-> req[r].state, held |-> 0] \in SessionRow
    BY <1>1, FlowAssumption DEF SessionRow, HandlerFormed, At
  <2>2. PICK a \in Answers :
          /\ Reply(r, a)
          /\ \/ a = Answer("signed_in", s, Null) /\ lost' = lost
             \/ a = Error /\ lost' = lost \cup {s}
    BY <1>3 DEF Error, Answer, Answers
  <2>3. TypeOK'
    BY <1>1, <1>3, <2>1, <2>2, ReplyFacts DEF TypeOK
  <2>4. Begins(r, s)
    BY <1>1, <1>3, <2>2, ReplyFacts DEF Begins, Fresh, TypeOK, At
  <2> QED BY <2>3, <2>4, SessionBegins
<1> QED
  <2> HIDE DEF FlowInvariant
  <2> QED BY <1>2, <1>3 DEF CreateSession

LEMMA ProviderRefreshStep ==
  ASSUME FlowInvariant, NEW r \in Requests, ProviderRefresh(r)
  PROVE  FlowInvariant'
<1> USE DEF FlowInvariant
<1>1. /\ At(r, "refresh", "provider") /\ HandlerFormed(req[r]) /\ req[r] \in Request
      /\ UNCHANGED <<jar, started, code, session, lost>>
  BY DEF ProviderRefresh, TypeOK
<1>2. PICK s \in Sessions : s = req[r].cookie /\ session[s] # Null
  BY <1>1 DEF HandlerFormed, At, Request
<1>3. PICK f \in Flows : f = session[s].flow
  BY <1>2, Rows
<1>4. CASE Reply(r, Error) /\ UNCHANGED <<grant, stranded>>
  <2>1. Quiet /\ RestTyped'
    BY <1>1, <1>4, UntouchedIsQuiet
  <2> QED BY <1>1, <1>4, <2>1, QuietReply DEF At
<1>5. CASE /\ grant[f].held = req[r].held /\ req[r].held < MaxRefreshes
           /\ grant' = [grant EXCEPT ![f].held = @ + 1]
           /\ \/ /\ req' = [req EXCEPT ![r].at = "rotate", ![r].held = @ + 1]
                 /\ UNCHANGED stranded
              \/ /\ Reply(r, Error)
                 /\ stranded' = stranded \cup {s}
  <2>1. grant[f] \in [held: 0..MaxRefreshes, alive: BOOLEAN] /\ grant[f].held + 1 \in 0..MaxRefreshes
    BY <1>5, FlowAssumption DEF TypeOK
  <2>2. PICK g : g = [grant[f] EXCEPT !.held = @ + 1]
    OBVIOUS
  <2>3. /\ g \in [held: 0..MaxRefreshes, alive: BOOLEAN]
        /\ g.held = grant[f].held + 1 /\ g.alive = grant[f].alive
    BY <2>1, <2>2
  <2>4. grant' = [grant EXCEPT ![f] = g]
    BY <1>5, <2>2
  <2>5. /\ grant' \in [Flows -> [held: 0..MaxRefreshes, alive: BOOLEAN]]
        /\ grant'[f].held = grant[f].held + 1 /\ grant'[f].alive = grant[f].alive
        /\ \A h \in Flows : h # f => grant'[h] = grant[h]
    BY <2>3, <2>4 DEF TypeOK
  <2>6. /\ req' \in [Requests -> Request]
        /\ \A w \in Requests : w # r => req'[w] = req[w]
        /\ \/ /\ req'[r].at = "rotate" /\ req'[r].held = req[r].held + 1
              /\ stranded' = stranded
           \/ req'[r].at = "answered" /\ stranded' = stranded \cup {s}
        /\ req'[r].answer = Error /\ req'[r].raced = req[r].raced
        /\ req'[r].route = "refresh" /\ req'[r].cookie = req[r].cookie
    <3>1. CASE Reply(r, Error) /\ stranded' = stranded \cup {s}
      <4>1. Error \in Answers
        BY DEF Error, Answer, Answers
      <4> QED BY <1>1, <3>1, <4>1, ReplyFacts DEF At
    <3>2. CASE /\ req' = [req EXCEPT ![r].at = "rotate", ![r].held = @ + 1]
               /\ UNCHANGED stranded
      <4>1. PICK h \in 0..MaxRefreshes : h = req[r].held + 1
        BY <1>5, <2>1
      <4>2. PICK q : q = [req[r] EXCEPT !.at = "rotate", !.held = h]
        OBVIOUS
      <4>3. /\ q \in Request /\ q.at = "rotate" /\ q.held = h
            /\ q.answer = req[r].answer /\ q.raced = req[r].raced
            /\ q.route = req[r].route /\ q.cookie = req[r].cookie
        BY <1>1, <4>2 DEF Request, Steps
      <4>4. req' = [req EXCEPT ![r] = q]
        BY <3>2, <4>1, <4>2
      <4>5. req[r].answer = Error /\ req[r].route = "refresh"
        BY <1>1 DEF HandlerFormed, At
      <4> QED BY <3>2, <4>1, <4>3, <4>4, <4>5 DEF TypeOK
    <3> QED BY <1>5, <3>1, <3>2
  <2>7. TypeOK'
    BY <1>1, <2>5, <2>6 DEF TypeOK
  <2>8. Granted(r)
    BY <1>1, <1>2, <2>6 DEF Granted, At, SessionsFormed
  <2>9. /\ code' = code /\ grant[f].held = req[r].held
        /\ \/ req'[r].at = "rotate" /\ req'[r].held = req[r].held + 1
           \/ req'[r].at = "answered" /\ s \in stranded'
    BY <1>1, <1>5, <2>6
  <2>10. req'[r].route = "refresh" /\ req'[r].raced = req[r].raced
    BY <2>6
  <2>11. s = req[r].cookie /\ f = session[s].flow /\ At(r, "refresh", "provider")
    BY <1>1, <1>2, <1>3
  <2> HIDE DEF FlowInvariant
  <2> QED BY <2>5, <2>7, <2>8, <2>9, <2>10, <2>11, GrantRenewed
<1> QED BY <1>2, <1>3, <1>4, <1>5 DEF ProviderRefresh

LEMMA RacedFacts ==
  ASSUME NEW q \in Request, NEW s \in Sessions
  PROVE  /\ Raced(q, s) \in Request
         /\ Raced(q, s).route = q.route /\ Raced(q, s).cookie = q.cookie
         /\ Raced(q, s).state = q.state /\ Raced(q, s).held = q.held
         /\ Raced(q, s).at = q.at /\ Raced(q, s).answer = q.answer
         /\ Raced(q, s).raced <=> q.raced \/ q.cookie = s
<1>1. PICK b \in BOOLEAN : b = (q.raced \/ q.cookie = s)
  OBVIOUS
<1>2. Raced(q, s) = [q EXCEPT !.raced = b]
  BY <1>1 DEF Raced
<1>3. PICK p : p = [q EXCEPT !.raced = b]
  OBVIOUS
<1>4. /\ p \in Request
      /\ p.route = q.route /\ p.cookie = q.cookie /\ p.state = q.state /\ p.held = q.held
      /\ p.at = q.at /\ p.answer = q.answer /\ p.raced = b
  BY <1>3 DEF Request
<1> QED BY <1>1, <1>2, <1>3, <1>4

LEMMA RotateStep ==
  ASSUME FlowInvariant, NEW r \in Requests, Rotate(r)
  PROVE  /\ FlowInvariant'
         /\ session' = session \/ \E s, n \in Sessions : Rotates(r, s, n)
<1> USE DEF FlowInvariant
<1>1. /\ At(r, "refresh", "rotate") /\ HandlerFormed(req[r]) /\ req[r] \in Request
      /\ UNCHANGED <<jar, started, code, grant>>
  BY DEF Rotate, TypeOK
<1>2. PICK s \in Sessions : s = req[r].cookie /\ session[s] # Null
  BY <1>1 DEF HandlerFormed, At, Request
<1>3. CASE /\ Reply(r, Error)
           /\ stranded' = stranded \cup {s}
           /\ UNCHANGED <<session, lost>>
  <2>1. Quiet /\ RestTyped'
    BY <1>1, <1>2, <1>3 DEF Quiet, RestTyped, TypeOK, SessionsFormed
  <2> QED BY <1>1, <1>2, <1>3, <2>1, QuietReply DEF At
<1>4. ASSUME NEW n \in Sessions, Active(s), Fresh(n),
             session' = [session EXCEPT
               ![n] = [session[s] EXCEPT !.held = req[r].held],
               ![s].status = "revoked"],
             UNCHANGED stranded,
             NEW a \in Answers,
             \/ a = Answer("rotated", n, Null) /\ UNCHANGED lost
             \/ a = Error /\ lost' = lost \cup {session[s].login},
             req' = [q \in Requests |->
               Raced(IF q = r THEN Answered(req[r], a) ELSE req[q], s)]
      PROVE  FlowInvariant' /\ Rotates(r, s, n)
  <2>1. session[s] \in SessionRow /\ session[s].login \in Sessions /\ s # n
    BY <1>2, <1>4, Rows DEF Fresh
  <2>2. PICK new : new = [session[s] EXCEPT !.held = req[r].held]
    OBVIOUS
  <2>3. PICK old : old = [session[s] EXCEPT !.status = "revoked"]
    OBVIOUS
  <2>4. new \in SessionRow /\ old \in SessionRow
    BY <1>1, <2>1, <2>2, <2>3 DEF SessionRow, Request
  <2>5. session' = [session EXCEPT ![n] = new, ![s] = old]
    BY <1>4, <2>1, <2>2, <2>3 DEF TypeOK
  <2>6. /\ session' \in [Sessions -> SessionRow \cup {Null}]
        /\ session'[n] = new /\ session'[s] = old
        /\ \A t \in Sessions : t # s /\ t # n => session'[t] = session[t]
    BY <2>1, <2>4, <2>5 DEF TypeOK
  <2>7. /\ Answered(req[r], a) \in Request
        /\ Answered(req[r], a).route = req[r].route
        /\ Answered(req[r], a).cookie = req[r].cookie
        /\ Answered(req[r], a).state = req[r].state
        /\ Answered(req[r], a).held = req[r].held
        /\ Answered(req[r], a).at = "answered" /\ Answered(req[r], a).answer = a
        /\ Answered(req[r], a).raced = req[r].raced
    BY <1>1, AnsweredFacts
  <2>8. /\ req'[r] = Raced(Answered(req[r], a), s)
        /\ \A w \in Requests : w # r => req'[w] = Raced(req[w], s)
        /\ req' = [w \in Requests |-> req'[w]]
    BY <1>4
  <2>9. /\ req'[r] \in Request
        /\ req'[r].route = req[r].route /\ req'[r].cookie = req[r].cookie
        /\ req'[r].state = req[r].state /\ req'[r].held = req[r].held
        /\ req'[r].raced <=> req[r].raced \/ req[r].cookie = s
        /\ req'[r].at = "answered" /\ req'[r].answer = a
    BY <2>7, <2>8, RacedFacts
  <2>10. ASSUME NEW w \in Requests, w # r
         PROVE  /\ req'[w] \in Request
                /\ req'[w].route = req[w].route /\ req'[w].cookie = req[w].cookie
                /\ req'[w].state = req[w].state /\ req'[w].held = req[w].held
                /\ req'[w].raced <=> req[w].raced \/ req[w].cookie = s
                /\ req'[w].at = req[w].at /\ req'[w].answer = req[w].answer
    <3>1. req[w] \in Request /\ req'[w] = Raced(req[w], s)
      BY <2>8, <2>10 DEF TypeOK
    <3> QED BY <3>1, RacedFacts
  <2>11. req' \in [Requests -> Request]
    BY <2>8, <2>9, <2>10
  <2>12. TypeOK'
    BY <1>1, <1>4, <2>1, <2>6, <2>11 DEF TypeOK
  <2>13. /\ session[n] = Null /\ session'[n] = [session[s] EXCEPT !.held = req[r].held]
         /\ session'[s] = [session[s] EXCEPT !.status = "revoked"]
    BY <1>4, <2>2, <2>3, <2>6 DEF Fresh
  <2>14. \A w \in Requests :
           /\ req'[w].route = req[w].route /\ req'[w].cookie = req[w].cookie
           /\ req'[w].state = req[w].state /\ req'[w].held = req[w].held
           /\ req'[w].raced <=> req[w].raced \/ req[w].cookie = s
           /\ w # r => req'[w].at = req[w].at /\ req'[w].answer = req[w].answer
    BY <2>9, <2>10
  <2>15. \/ req'[r].answer = Answer("rotated", n, Null) /\ lost' = lost
         \/ req'[r].answer = Error /\ lost' = lost \cup {session[s].login}
    BY <1>4, <2>9
  <2>16. jar' = jar /\ started' = started /\ code' = code /\ grant' = grant /\ stranded' = stranded
    BY <1>1, <1>4
  <2>17. At(r, "refresh", "rotate") /\ s = req[r].cookie /\ Active(s)
    BY <1>1, <1>2, <1>4
  <2>18. Rotates(r, s, n)
    BY <2>6, <2>9, <2>13, <2>14, <2>15, <2>16, <2>17 DEF Rotates
  <2> QED BY <2>12, <2>18, SessionRotates
<1>5. \/ \E n \in Sessions, a \in Answers :
           /\ Active(s) /\ Fresh(n)
           /\ session' = [session EXCEPT
                ![n] = [session[s] EXCEPT !.held = req[r].held],
                ![s].status = "revoked"]
           /\ UNCHANGED stranded
           /\ \/ a = Answer("rotated", n, Null) /\ UNCHANGED lost
              \/ a = Error /\ lost' = lost \cup {session[s].login}
           /\ req' = [q \in Requests |->
                Raced(IF q = r THEN Answered(req[r], a) ELSE req[q], s)]
      \/ /\ Reply(r, Error)
         /\ stranded' = stranded \cup {s}
         /\ UNCHANGED <<session, lost>>
  <2> HIDE DEF FlowInvariant
  <2>1. Error \in Answers /\ \A n \in Sessions : Answer("rotated", n, Null) \in Answers
    BY DEF Answers, Answer, Error
  <2> QED BY <1>2, <2>1 DEF Rotate
<1> HIDE DEF FlowInvariant
<1> QED BY <1>3, <1>4, <1>5

-----------------------------------------------------------------------------
(* The invariant and what follows from it                                  *)

LEMMA FlowInit == Init => FlowInvariant
<1> SUFFICES ASSUME Init PROVE FlowInvariant
  OBVIOUS
<1>1. NoRequest \in Request
  BY FlowAssumption DEF NoRequest, Request, Error, Answer, Answers, Routes, Steps
<1>2. TypeOK
  BY <1>1, FlowAssumption DEF Init, TypeOK
<1>3. SessionsFormed
  BY FlowAssumption DEF Init, SessionsFormed
<1>4. \A r \in Requests : HandlerFormed(req[r])
  BY FlowAssumption DEF Init, HandlerFormed, NoRequest
<1>5. HandlersApart /\ CookiesAhead /\ RefreshableUnlessStranded
  BY FlowAssumption DEF Init, HandlersApart, CookiesAhead, RefreshableUnlessStranded,
                        Pending, Active, NoRequest
<1> QED BY <1>2, <1>3, <1>4, <1>5 DEF FlowInvariant

LEMMA FlowNext ==
  ASSUME FlowInvariant, [Next]_vars
  PROVE  FlowInvariant'
<1>1. CASE UNCHANGED vars
  <2>1. /\ UNCHANGED <<jar, started, code, grant, session, stranded, lost>>
        /\ req' = req
    BY <1>1 DEF vars
  <2>2. TypeOK' /\ Quiet
    BY <2>1, UntouchedIsQuiet DEF FlowInvariant, TypeOK
  <2>3. Steady
    BY <2>1 DEF Steady
  <2> QED BY <2>2, <2>3, QuietStep
<1>2. ASSUME NEW r \in Requests, SendCallback(r) \/ SendOther(r) PROVE FlowInvariant'
  BY <1>2, SendStep DEF SendCallback, SendOther, Routes
<1>3. ASSUME NEW r \in Requests, Handle(r) PROVE FlowInvariant'
  BY <1>3, LoginStep, CheckStateStep, ExchangeCodeStep, CreateSessionStep, AuthenticateStep,
     LoadForRefreshStep, ProviderRefreshStep, RotateStep, LoadForLogoutStep,
     ProviderLogoutStep, RevokeStep DEF Handle
<1>4. ASSUME NEW r \in Requests, Deliver(r) \/ Die(r) PROVE FlowInvariant'
  BY <1>4, LeaveStep
<1>5. CASE ForgetFlow \/ \E s \in Sessions : Expire(s)
  BY <1>5, ElsewhereStep
<1> QED BY <1>1, <1>2, <1>3, <1>4, <1>5 DEF Next

\* What every handler knows, and how the sessions, the provider's grants and the
\* cookies fit together, at every step of any number of overlapping requests.
THEOREM FlowInvariance == Spec => []FlowInvariant
BY FlowInit, FlowNext, PTL DEF Spec

\* A session that is active can be refreshed, unless a handler died, or failed,
\* between the provider's answer and the rotation.
THEOREM SessionsRefreshable == Spec => []RefreshableUnlessStranded
<1>1. FlowInvariant => RefreshableUnlessStranded
  BY DEF FlowInvariant
<1> QED BY <1>1, FlowInvariance, PTL

\* However requests and answers overlap, the browser ends up with the only
\* active session of its login, unless it lost an answer with a cookie.
THEOREM BrowserHasNewest == Spec => []CookieIsNewest
<1>1. ASSUME FlowInvariant PROVE CookieIsNewest
  <2> SUFFICES ASSUME jar.session # Null, session[jar.session].login \notin lost,
                      \A r \in Requests :
                        req[r].at = "answered" /\ req[r].answer.kind = "rotated" =>
                          session[req[r].answer.session].login # session[jar.session].login,
                      NEW s \in Sessions, Active(s),
                      session[s].login = session[jar.session].login
               PROVE  s = jar.session
    BY DEF CookieIsNewest
  <2>1. jar.session \in Sessions /\ session[jar.session] # Null /\ session[s] # Null
    BY <1>1 DEF FlowInvariant, TypeOK, SessionsFormed, Active
  <2>2. Kin(jar.session, s) /\ Kin(s, jar.session) /\ Newest(s)
    BY <1>1, <2>1 DEF Kin, FlowInvariant, SessionsFormed
  <2>3. CASE Known(s)
    <3>1. session[s].held <= session[jar.session].held
      BY <1>1, <2>1, <2>2, <2>3, FlowAssumption, Rows DEF Known, FlowInvariant, CookiesAhead
    <3>2. session[jar.session].held <= session[s].held
      BY <2>1, <2>2 DEF Newest
    <3>3. session[s].held = session[jar.session].held
      BY <1>1, <2>1, <3>1, <3>2, Rows DEF FlowInvariant
    <3> QED BY <1>1, <2>1, <2>2, <3>3 DEF FlowInvariant, SessionsFormed
  <2>4. ASSUME NEW q \in Requests, Pending(q, s) PROVE FALSE
    <3>1. AnswerFormed(req[q].answer) /\ req[q].at = "answered" /\ req[q].answer.session = s
          /\ s # Null
      BY <1>1, <2>4 DEF FlowInvariant, HandlerFormed, Pending
    <3>2. req[q].answer.kind = "signed_in"
      BY <3>1 DEF AnswerFormed
    <3>3. jar.session = s
      BY <2>1, <2>2, <3>1, <3>2 DEF AnswerFormed
    <3> QED BY <1>1, <2>4, <3>3 DEF FlowInvariant, HandlersApart, Known
  <2> QED BY <1>1, <2>2, <2>3, <2>4 DEF FlowInvariant, CookiesAhead
<1> QED BY <1>1, FlowInvariance, PTL

-----------------------------------------------------------------------------
(* What a logout leaves                                                    *)

\* Nobody answers for another handler.
LEMMA AnswersApart ==
  ASSUME FlowInvariant, NEW r \in Requests, NEW w \in Requests, w # r,
         SendCallback(w) \/ SendOther(w) \/ Handle(w) \/ Deliver(w) \/ Die(w)
  PROVE  req'[r].answer = req[r].answer
<1>1. CASE Rotate(w)
  <2>1. req[r] \in Request /\ TypeOK
    BY DEF FlowInvariant, TypeOK
  <2>2. CASE Reply(w, Error)
    BY <2>1, <2>2 DEF Reply, TypeOK
  <2>3. CASE Active(req[w].cookie) /\ req'[r] = Raced(req[r], req[w].cookie)
    <3>1. req[w].cookie \in Sessions
      BY <2>1, <2>3 DEF Active, TypeOK, Request
    <3> QED BY <2>1, <2>3, <3>1, RacedFacts
  <2> QED BY <1>1, <2>2, <2>3 DEF Rotate
<1>2. CASE ~Rotate(w)
  <2>1. \E q : req' = [req EXCEPT ![w] = q]
    BY <1>2 DEF SendCallback, SendOther, Send, Handle, Deliver, Die, Login, CheckState,
       ExchangeCode, CreateSession, Authenticate, LoadForRefresh, ProviderRefresh,
       LoadForLogout, ProviderLogout, Revoke, Goto, Reply
  <2> QED BY <2>1 DEF FlowInvariant, TypeOK
<1> QED BY <1>1, <1>2

LEMMA SigningOut ==
  ASSUME FlowInvariant, Next, NEW r \in Requests, SignsOut(r)
  PROVE  Revoke(r)
<1>1. /\ req[r].route = "logout" /\ req[r].at = "revoke" /\ req[r].answer = Error
      /\ req'[r].answer.kind = "signed_out"
  BY DEF SignsOut, At, FlowInvariant, HandlerFormed
<1>2. req'[r].answer # req[r].answer
  BY <1>1 DEF Error, Answer
<1>3. req' # req
  BY <1>2
<1>4. \E w \in Requests :
        SendCallback(w) \/ SendOther(w) \/ Handle(w) \/ Deliver(w) \/ Die(w)
  BY <1>3 DEF Next, Expire, ForgetFlow
<1>5. SendCallback(r) \/ SendOther(r) \/ Handle(r) \/ Deliver(r) \/ Die(r)
  BY <1>2, <1>4, AnswersApart
<1>6. ~Die(r)
  BY <1>1, <1>2 DEF Die, FlowInvariant, TypeOK, NoRequest
<1>7. ~SendCallback(r) /\ ~SendOther(r) /\ ~Deliver(r)
  <2>1. req[r] # NoRequest
    BY <1>1 DEF NoRequest
  <2> QED BY <1>1, <2>1 DEF SendCallback, SendOther, Send, Deliver
<1>8. Handle(r) => Revoke(r)
  BY <1>1 DEF Handle, Login, CheckState, ExchangeCode, CreateSession, Authenticate,
     LoadForRefresh, ProviderRefresh, Rotate, LoadForLogout, ProviderLogout, At
<1> QED BY <1>5, <1>6, <1>7, <1>8

\* When a logout answers, every session of the login has ended, for any number of
\* refreshes that ran meanwhile, if none of them rotated the session it serves.
THEOREM LogoutEnds == Spec => LogoutEndsUnracedLogin
<1>1. ASSUME FlowInvariant, Next, NEW r \in Requests, SignsOut(r), ~req[r].raced
      PROVE  LoginIsDead(req[r].cookie)'
  <2>1. Revoke(r) /\ TypeOK /\ HandlerFormed(req[r])
    BY <1>1, SigningOut DEF FlowInvariant
  <2>2. /\ req[r].at = "revoke" /\ req'[r].cookie = req[r].cookie
        /\ req'[r].raced = req[r].raced
        /\ \/ session' = session /\ ~Active(req[r].cookie)
           \/ Active(req[r].cookie)
              /\ session' = [session EXCEPT ![req[r].cookie].status = "revoked"]
    <3>1. PICK a \in {Error, Answer("signed_out", Null, Null)} : Reply(r, a)
      BY <2>1 DEF Revoke
    <3>2. a \in Answers
      BY DEF Answers, Answer, Error
    <3>3. a.kind = "signed_out"
      BY <1>1, <2>1, <3>1, <3>2, ReplyFacts DEF SignsOut
    <3>4. ~Reply(r, Error)
      BY <1>1, <2>1, ReplyFacts DEF SignsOut, Answers, Answer, Error
    <3> QED BY <2>1, <3>1, <3>2, <3>4, ReplyFacts DEF Revoke, At
  <2>3. PICK s \in Sessions : s = req[r].cookie
    BY <2>1, <2>2 DEF HandlerFormed, TypeOK, Request
  <2>4. Active(s) \/ LoginIsDead(s)
    BY <1>1, <2>1, <2>2, <2>3 DEF HandlerFormed
  <2>5. Quiet
    BY <1>1, <2>1, RevokeStep
  <2>6. ASSUME Active(s) PROVE ~Active(s)'
    <3>1. PICK row : row = [session[s] EXCEPT !.status = "revoked"]
      OBVIOUS
    <3>2. row.status = "revoked"
      BY <2>1, <2>6, <3>1, Rows DEF Active, SessionRow
    <3>3. session'[s] = row
      BY <2>1, <2>2, <2>3, <2>6, <3>1 DEF TypeOK
    <3> QED BY <3>2, <3>3 DEF Active
  <2>7. LoginIsDead(s)'
    BY <1>1, <2>3, <2>4, <2>5, <2>6, QuietSessions
  <2> QED BY <2>2, <2>3, <2>7
<1>2. FlowInvariant /\ [Next]_vars =>
        [\A r \in Requests : SignsOut(r) /\ ~req[r].raced => LoginIsDead(req[r].cookie)']_vars
  BY <1>1
<1> QED BY <1>2, FlowInvariance, PTL DEF Spec, LogoutEndsUnracedLogin

-----------------------------------------------------------------------------
(* The routes implement LoginLineage                                       *)

LEMMA SessionChanges ==
  ASSUME FlowInvariant, [Next]_vars
  PROVE  \/ session' = session
         \/ Quiet
         \/ \E r \in Requests, n \in Sessions : Begins(r, n)
         \/ \E r \in Requests, s, n \in Sessions : Rotates(r, s, n)
<1>1. CASE UNCHANGED vars
  BY <1>1 DEF vars
<1>2. ASSUME NEW r \in Requests, Handle(r), ~Revoke(r), ~CreateSession(r), ~Rotate(r)
      PROVE  session' = session
  BY <1>2 DEF Handle, Login, CheckState, ExchangeCode, Authenticate, LoadForRefresh,
     ProviderRefresh, LoadForLogout, ProviderLogout
<1>3. ASSUME NEW r \in Requests, SendCallback(r) \/ SendOther(r) \/ Deliver(r) \/ Die(r)
      PROVE  session' = session
  BY <1>3 DEF SendCallback, SendOther, Send, Deliver, Die
<1> QED BY <1>1, <1>2, <1>3, RevokeStep, ElsewhereStep, CreateSessionStep, RotateStep DEF Next

LEMMA QuietEnds ==
  ASSUME FlowInvariant, Quiet
  PROVE  \E ended \in SUBSET Sessions : Lineage!End(ended)
<1> DEFINE ended == {l \in Sessions : Carriers'[l] = {}}
<1>1. {s \in Sessions : session'[s] # Null} = {s \in Sessions : session[s] # Null}
  BY QuietSessions
<1>2. ASSUME NEW l \in Sessions, NEW t \in Sessions, Active(t)', session'[t].login = l
      PROVE  Carriers'[l] = Carriers[l]
  <2>1. Active(t) /\ session[t].login = l /\ session[t] # Null
    BY <1>2, QuietSessions DEF Active
  <2>2. \A s \in Sessions : Active(s) /\ session[s].login = l => s = t
    BY <2>1, OneActive DEF Kin, Active
  <2>3. \A s \in Sessions : Active(s)' /\ session'[s].login = l => s = t
    BY <2>2, QuietSessions
  <2>4. Carriers[l] = {t}
    BY <2>1, <2>2 DEF Carriers
  <2>5. Carriers'[l] = {t}
    BY <1>2, <2>3 DEF Carriers
  <2> QED BY <2>4, <2>5
<1>3. \A l \in Sessions : Carriers'[l] = IF l \in ended THEN {} ELSE Carriers[l]
  <2> SUFFICES ASSUME NEW l \in Sessions, Carriers'[l] # {} PROVE Carriers'[l] = Carriers[l]
    OBVIOUS
  <2>1. PICK t \in Sessions : Active(t)' /\ session'[t].login = l
    BY DEF Carriers
  <2> QED BY <1>2, <2>1
<1>4. Carriers' = [l \in Sessions |-> IF l \in ended THEN {} ELSE Carriers[l]]
  BY <1>3 DEF Carriers
<1>5. Lineage!End(ended)
  BY <1>1, <1>4 DEF Lineage!End
<1> QED BY <1>5

LEMMA BeginsLogin ==
  ASSUME FlowInvariant, NEW r \in Requests, NEW n \in Sessions, Begins(r, n)
  PROVE  Lineage!Login(n)
<1>1. session[n] = Null /\ \A s \in Sessions : s # n => session'[s] = session[s]
  BY DEF Begins
<1>2. {s \in Sessions : session'[s] # Null} = {s \in Sessions : session[s] # Null} \cup {n}
  BY <1>1, BeginsSessions
<1>3. \A s \in Sessions : session[s] # Null => session[s].login # n
  BY <1>1, Rows DEF FlowInvariant, SessionsFormed
<1>4. Carriers'[n] = {n}
  BY <1>1, <1>3, BeginsSessions DEF Carriers, Active
<1>5. ASSUME NEW l \in Sessions, l # n PROVE Carriers'[l] = Carriers[l]
  BY <1>1, <1>5, BeginsSessions DEF Carriers, Active
<1>6. Carriers' = [Carriers EXCEPT ![n] = {n}]
  BY <1>4, <1>5 DEF Carriers
<1> QED BY <1>1, <1>2, <1>6 DEF Lineage!Login

LEMMA RotatesLogin ==
  ASSUME FlowInvariant, NEW r \in Requests, NEW s \in Sessions, NEW n \in Sessions,
         Rotates(r, s, n)
  PROVE  Lineage!Rotate(session[s].login, s, n) /\ session[s].login \in Sessions
<1>1. PICK l \in Sessions : l = session[s].login
  BY RotatesRows, Rows DEF FlowInvariant
<1>2. Active(s) /\ session[n] = Null
  BY DEF Rotates
<1>3. {t \in Sessions : session'[t] # Null} = {t \in Sessions : session[t] # Null} \cup {n}
  BY RotatesRows
<1>4. \A t \in Sessions : Active(t) /\ session[t].login = l => t = s
  BY <1>1, <1>2, OneActive DEF Kin, Active
<1>5. Carriers[l] = {s}
  BY <1>1, <1>2, <1>4 DEF Carriers
<1>6. \A t \in Sessions : t # n /\ t # s =>
        (Active(t)' <=> Active(t)) /\ session'[t] = session[t]
  BY RotatesRows, RotatesSessions
<1>7. Active(n)' /\ ~Active(s)' /\ session'[n].login = l
  BY <1>1, RotatesRows, RotatesSessions
<1>8. Carriers'[l] = {n}
  BY <1>4, <1>6, <1>7 DEF Carriers
<1>9. ASSUME NEW k \in Sessions, k # l PROVE Carriers'[k] = Carriers[k]
  BY <1>1, <1>2, <1>6, <1>7, <1>9 DEF Carriers, Active
<1>10. Carriers' = [Carriers EXCEPT ![l] = {n}]
  BY <1>8, <1>9 DEF Carriers
<1> QED BY <1>1, <1>2, <1>3, <1>5, <1>10 DEF Lineage!Rotate

\* The routes implement the life of a login that the store promises: whatever
\* overlaps, a login is carried by one session at most and never resumed.
THEOREM RoutesImplementLineage == Spec => LineageSpec
<1>1. Init => Lineage!Init
  BY DEF Init, Lineage!Init, Carriers, Active
<1>2. ASSUME FlowInvariant, [Next]_vars PROVE [Lineage!Next]_(Lineage!vars)
  <2>1. CASE session' = session
    BY <2>1 DEF Lineage!vars, Carriers, Active
  <2>2. CASE session' # session
    BY <1>2, <2>2, SessionChanges, QuietEnds, BeginsLogin, RotatesLogin DEF Lineage!Next
  <2> QED BY <2>1, <2>2
<1> QED BY <1>1, <1>2, FlowInvariance, PTL DEF Spec, LineageSpec, Lineage!Spec

=============================================================================
