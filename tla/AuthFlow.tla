------------------------------ MODULE AuthFlow ------------------------------
(***************************************************************************)
(* The authentication routes of auth/routes.py: login and callback (PKCE), *)
(* refresh and logout, as concurrent request handlers between one browser, *)
(* the session store and the identity provider (GoTrue).                   *)
(*                                                                         *)
(* A handler is interrupted at every await: the provider is called and the *)
(* session read several steps before the session is rotated or revoked.    *)
(* Its answer may be delayed or lost, the handler may die at any step, and *)
(* a call may take effect although its reply is lost.                      *)
(*                                                                         *)
(* The store's operations are atomic here: SessionStore shows that each    *)
(* takes effect as one step of LoginLineage, and so must these.  Expiry is *)
(* an event that may hit a session at any time and is never undone         *)
(* (SessionStore!DeadLoginStaysDead).                                      *)
(***************************************************************************)
EXTENDS Naturals

CONSTANTS
  Requests,      \* handlers that can run at once
  Sessions,      \* session tokens that can be generated
  Flows,         \* PKCE flows (state and verifier) that can be generated
  MaxRefreshes,  \* bound: provider refreshes per grant
  Null

SessionRow == [status: {"active", "revoked", "expired"}, login: Sessions,
               flow: Flows, held: 0..MaxRefreshes]

ASSUME FlowAssumption ==
  /\ MaxRefreshes \in Nat
  /\ Null \notin Sessions
  /\ Null \notin Flows
  /\ Null \notin SessionRow

VARIABLES
  jar,       \* the browser's cookies: the session token and the PKCE flow
  started,   \* flows whose authorize redirect was issued
  code,      \* per flow, its authorization code: none, issued, used
  grant,     \* per flow, the provider's session for it
  session,   \* app.user_sessions, as the routes see it
  req,       \* per handler, the request it serves
  stranded,  \* history: sessions whose provider tokens were replaced and lost
  lost       \* history: logins of which an answer with a new cookie was lost

vars == <<jar, started, code, grant, session, req, stranded, lost>>

Routes == {"none", "login", "callback", "refresh", "logout"}

Steps == {"idle", "received", "exchange", "create", "load", "provider",
          "rotate", "revoke", "answered"}

\* What an answer does to the cookies.
Answers == [kind: {"error", "flow", "signed_in", "rotated", "signed_out"},
            session: Sessions \cup {Null}, flow: Flows \cup {Null}]

(***************************************************************************)
(* `cookie' and `pkce' are the cookies the request came with, `state' the  *)
(* callback's query parameter, `held' the generation of provider tokens    *)
(* the handler has in memory; `raced' records a rotation of the session    *)
(* while the request was served.                                           *)
(***************************************************************************)
Request == [route: Routes, at: Steps, cookie: Sessions \cup {Null},
            pkce: Flows \cup {Null}, state: Flows \cup {Null},
            held: 0..MaxRefreshes, raced: BOOLEAN, answer: Answers]

Answer(kind, s, f) == [kind |-> kind, session |-> s, flow |-> f]

Error == Answer("error", Null, Null)

NoRequest == [route |-> "none", at |-> "idle", cookie |-> Null, pkce |-> Null,
              state |-> Null, held |-> 0, raced |-> FALSE, answer |-> Error]

TypeOK ==
  /\ jar \in [session: Sessions \cup {Null}, pkce: Flows \cup {Null}]
  /\ started \subseteq Flows
  /\ code \in [Flows -> {"none", "issued", "used"}]
  /\ grant \in [Flows -> [held: 0..MaxRefreshes, alive: BOOLEAN]]
  /\ session \in [Sessions -> SessionRow \cup {Null}]
  /\ req \in [Requests -> Request]
  /\ stranded \subseteq Sessions
  /\ lost \subseteq Sessions

Active(s) == s # Null /\ session[s] # Null /\ session[s].status = "active"

\* The token generator never repeats itself.
Fresh(s) == session[s] = Null

Init ==
  /\ jar = [session |-> Null, pkce |-> Null]
  /\ started = {}
  /\ code = [f \in Flows |-> "none"]
  /\ grant = [f \in Flows |-> [held |-> 0, alive |-> FALSE]]
  /\ session = [s \in Sessions |-> Null]
  /\ req = [r \in Requests |-> NoRequest]
  /\ stranded = {}
  /\ lost = {}

At(r, route, step) == req[r].route = route /\ req[r].at = step

\* The handler of r moves on; what it awaited is in its local variables now.
Goto(r, step) == req' = [req EXCEPT ![r].at = step]

Answered(q, answer) == [q EXCEPT !.at = "answered", !.answer = answer]

Reply(r, answer) == req' = [req EXCEPT ![r] = Answered(@, answer)]

\* The session s is rotated while the request q is served.
Raced(q, s) == [q EXCEPT !.raced = @ \/ q.cookie = s]

-----------------------------------------------------------------------------
(* The browser sends a request with the cookies it holds.                  *)

Send(r, route, state) ==
  /\ req[r] = NoRequest
  /\ req' = [req EXCEPT ![r] = [NoRequest EXCEPT
       !.route = route, !.at = "received", !.cookie = jar.session,
       !.pkce = jar.pkce, !.state = state]]
  /\ UNCHANGED <<jar, started, code, grant, session, stranded, lost>>

\* The provider redirects back with the code; a page can be loaded again.
SendCallback(r) == \E f \in Flows : code[f] # "none" /\ Send(r, "callback", f)

SendOther(r) ==
  \E route \in {"login", "refresh", "logout"} : Send(r, route, Null)

\* Mutant: the cleared cookie is stored as an empty one.
DeliverEmptyCookie(r) ==
  LET a == req[r].answer IN
  /\ req[r].at = "answered"
  /\ jar' = CASE a.kind = "flow" -> [jar EXCEPT !.pkce = a.flow]
              [] a.kind = "signed_in" -> [session |-> a.session, pkce |-> Null]
              [] a.kind = "rotated" -> [jar EXCEPT !.session = a.session]
              [] a.kind = "signed_out" -> [jar EXCEPT !.session = "empty"]
              [] OTHER -> jar
  /\ code' = IF a.kind = "flow" THEN [code EXCEPT ![a.flow] = "issued"] ELSE code
  /\ req' = [req EXCEPT ![r] = NoRequest]
  /\ UNCHANGED <<started, grant, session, stranded, lost>>

\* Mutant: the answer to a refresh does not set the new session cookie.
DeliverOldCookie(r) ==
  LET a == req[r].answer IN
  /\ req[r].at = "answered"
  /\ jar' = CASE a.kind = "flow" -> [jar EXCEPT !.pkce = a.flow]
              [] a.kind = "signed_in" -> [session |-> a.session, pkce |-> Null]
              [] a.kind = "signed_out" -> [jar EXCEPT !.session = Null]
              [] OTHER -> jar
  /\ code' = IF a.kind = "flow" THEN [code EXCEPT ![a.flow] = "issued"] ELSE code
  /\ req' = [req EXCEPT ![r] = NoRequest]
  /\ UNCHANGED <<started, grant, session, stranded, lost>>

\* Deliver: the browser stores the cookies of the answer.  After a login
\* redirect the user signs in with the provider, which issues the code.
Deliver(r) ==
  LET a == req[r].answer IN
  /\ req[r].at = "answered"
  /\ jar' = CASE a.kind = "flow" -> [jar EXCEPT !.pkce = a.flow]
              [] a.kind = "signed_in" -> [session |-> a.session, pkce |-> Null]
              [] a.kind = "rotated" -> [jar EXCEPT !.session = a.session]
              [] a.kind = "signed_out" -> [jar EXCEPT !.session = Null]
              [] OTHER -> jar
  /\ code' = IF a.kind = "flow" THEN [code EXCEPT ![a.flow] = "issued"] ELSE code
  /\ req' = [req EXCEPT ![r] = NoRequest]
  /\ UNCHANGED <<started, grant, session, stranded, lost>>

\* The sessions a dying handler leaves with provider tokens nobody has, and
\* the logins whose new cookie no browser will ever get.
Stranding(r) == IF At(r, "refresh", "rotate") THEN {req[r].cookie} ELSE {}

Losing(r) ==
  IF req[r].at = "answered" /\ req[r].answer.session # Null
    THEN {session[req[r].answer.session].login} ELSE {}

\* The handler dies (a restart, an unhandled error), or its answer is lost.
Die(r) ==
  /\ req[r].at # "idle"
  /\ stranded' = stranded \cup Stranding(r)
  /\ lost' = lost \cup Losing(r)
  /\ req' = [req EXCEPT ![r] = NoRequest]
  /\ UNCHANGED <<jar, started, code, grant, session>>

\* Idle or absolute expiry.
Expire(s) ==
  /\ Active(s)
  /\ session' = [session EXCEPT ![s].status = "expired"]
  /\ UNCHANGED <<jar, started, code, grant, req, stranded, lost>>

\* The PKCE state cookie has a short life of its own.
ForgetFlow ==
  /\ jar.pkce # Null
  /\ jar' = [jar EXCEPT !.pkce = Null]
  /\ UNCHANGED <<started, code, grant, session, req, stranded, lost>>

-----------------------------------------------------------------------------
(* login and callback                                                      *)

Login(r) ==
  /\ At(r, "login", "received")
  /\ \E f \in Flows \ started :
       /\ started' = started \cup {f}
       /\ Reply(r, Answer("flow", Null, f))
  /\ UNCHANGED <<jar, code, grant, session, stranded, lost>>

CheckState(r) ==
  /\ At(r, "callback", "received")
  /\ \/ req[r].pkce = req[r].state /\ Goto(r, "exchange")
     \/ req[r].pkce # req[r].state /\ Reply(r, Error)
  /\ UNCHANGED <<jar, started, code, grant, session, stranded, lost>>

\* The code and the verifier buy the provider's tokens, once; then the user
\* is read and mapped to an identity, each of which can fail.
ExchangeCode(r) ==
  LET f == req[r].state IN
  /\ At(r, "callback", "exchange")
  /\ \/ /\ code[f] = "issued"
        /\ code' = [code EXCEPT ![f] = "used"]
        /\ grant' = [grant EXCEPT ![f] = [held |-> 0, alive |-> TRUE]]
        /\ Goto(r, "create") \/ Reply(r, Error)
     \/ /\ Reply(r, Error)
        /\ UNCHANGED <<code, grant>>
  /\ UNCHANGED <<jar, started, session, stranded, lost>>

\* The session is stored; the reply of the database may be lost even so.
CreateSession(r) ==
  /\ At(r, "callback", "create")
  /\ \/ \E s \in Sessions :
          /\ Fresh(s)
          /\ session' = [session EXCEPT ![s] =
               [status |-> "active", login |-> s, flow |-> req[r].state, held |-> 0]]
          /\ \/ Reply(r, Answer("signed_in", s, Null)) /\ UNCHANGED lost
             \/ Reply(r, Error) /\ lost' = lost \cup {s}
     \/ /\ Reply(r, Error)
        /\ UNCHANGED <<session, lost>>
  /\ UNCHANGED <<jar, started, code, grant, stranded>>

-----------------------------------------------------------------------------
(* refresh and logout: CSRF and the session are checked first.  The CSRF   *)
(* cookie comes and goes with the session cookie.                          *)

Authenticate(r) ==
  /\ req[r].route \in {"refresh", "logout"}
  /\ req[r].at = "received"
  /\ \/ Active(req[r].cookie) /\ Goto(r, "load")
     \/ Reply(r, Error)
  /\ UNCHANGED <<jar, started, code, grant, session, stranded, lost>>

\* The handler reads the session again, for the provider's tokens.
LoadForRefresh(r) ==
  LET s == req[r].cookie IN
  /\ At(r, "refresh", "load")
  /\ \/ /\ Active(s)
        /\ req' = [req EXCEPT ![r].at = "provider", ![r].held = session[s].held]
     \/ Reply(r, Error)
  /\ UNCHANGED <<jar, started, code, grant, session, stranded, lost>>

\* A refresh token is good once: the provider replaces it when it is used,
\* whether or not the handler gets to know.
ProviderRefresh(r) ==
  LET s == req[r].cookie
      f == session[s].flow IN
  /\ At(r, "refresh", "provider")
  /\ \/ /\ grant[f].alive
        /\ grant[f].held = req[r].held
        /\ req[r].held < MaxRefreshes
        /\ grant' = [grant EXCEPT ![f].held = @ + 1]
        /\ \/ /\ req' = [req EXCEPT ![r].at = "rotate", ![r].held = @ + 1]
              /\ UNCHANGED stranded
           \/ /\ Reply(r, Error)
              /\ stranded' = stranded \cup {s}
     \/ /\ Reply(r, Error)
        /\ UNCHANGED <<grant, stranded>>
  /\ UNCHANGED <<jar, started, code, session, lost>>

\* Mutant: the session's state is trusted from when it was loaded.
RotateUnchecked(r) ==
  LET s == req[r].cookie IN
  /\ At(r, "refresh", "rotate")
  /\ \E n \in Sessions :
       /\ Fresh(n)
       /\ session' = [session EXCEPT
            ![n] = [session[s] EXCEPT !.held = req[r].held, !.status = "active"],
            ![s].status = "revoked"]
       /\ Reply(r, Answer("rotated", n, Null))
  /\ UNCHANGED <<jar, started, code, grant, stranded, lost>>

\* Mutant: the new session row keeps the old provider tokens.
RotateKeepsTokens(r) ==
  LET s == req[r].cookie IN
  /\ At(r, "refresh", "rotate")
  /\ \E n \in Sessions :
       /\ Active(s)
       /\ Fresh(n)
       /\ session' = [session EXCEPT ![n] = session[s], ![s].status = "revoked"]
       /\ Reply(r, Answer("rotated", n, Null))
  /\ UNCHANGED <<jar, started, code, grant, stranded, lost>>

\* rotate_user_session under the handler of r, from which the database's
\* answer may be lost, before or after the commit.
Rotate(r) ==
  LET s == req[r].cookie
      Served(a) == req' = [q \in Requests |->
        Raced(IF q = r THEN Answered(req[r], a) ELSE req[q], s)] IN
  /\ At(r, "refresh", "rotate")
  /\ \/ \E n \in Sessions :
          /\ Active(s)
          /\ Fresh(n)
          /\ session' = [session EXCEPT
               ![n] = [session[s] EXCEPT !.held = req[r].held],
               ![s].status = "revoked"]
          /\ UNCHANGED stranded
          /\ \/ Served(Answer("rotated", n, Null)) /\ UNCHANGED lost
             \/ Served(Error) /\ lost' = lost \cup {session[s].login}
     \/ /\ Reply(r, Error)
        /\ stranded' = stranded \cup {s}
        /\ UNCHANGED <<session, lost>>
  /\ UNCHANGED <<jar, started, code, grant>>

\* Logout forgives a session that has ended since it was authenticated.
LoadForLogout(r) ==
  /\ At(r, "logout", "load")
  /\ \/ Active(req[r].cookie) /\ Goto(r, "provider")
     \/ ~Active(req[r].cookie) /\ Goto(r, "revoke")
     \/ Reply(r, Error)
  /\ UNCHANGED <<jar, started, code, grant, session, stranded, lost>>

\* Best effort: whatever the provider says, the session is revoked here.
ProviderLogout(r) ==
  LET f == session[req[r].cookie].flow IN
  /\ At(r, "logout", "provider")
  /\ Goto(r, "revoke")
  /\ grant' \in {grant, [grant EXCEPT ![f].alive = FALSE]}
  /\ UNCHANGED <<jar, started, code, session, stranded, lost>>

\* Mutant: the session is revoked only if the provider has logged out.
RevokeIfProviderDid(r) ==
  LET s == req[r].cookie IN
  /\ At(r, "logout", "revoke")
  /\ session' = IF Active(s) /\ ~grant[session[s].flow].alive
                  THEN [session EXCEPT ![s].status = "revoked"] ELSE session
  /\ Reply(r, Answer("signed_out", Null, Null))
  /\ UNCHANGED <<jar, started, code, grant, stranded, lost>>

\* revoke_user_session is idempotent: no session to revoke is success too.
Revoke(r) ==
  LET s == req[r].cookie IN
  /\ At(r, "logout", "revoke")
  /\ \/ /\ session' = IF Active(s) THEN [session EXCEPT ![s].status = "revoked"] ELSE session
        /\ Reply(r, Answer("signed_out", Null, Null)) \/ Reply(r, Error)
     \/ /\ Reply(r, Error)
        /\ UNCHANGED session
  /\ UNCHANGED <<jar, started, code, grant, stranded, lost>>

-----------------------------------------------------------------------------

Handle(r) ==
  \/ Login(r)
  \/ CheckState(r)
  \/ ExchangeCode(r)
  \/ CreateSession(r)
  \/ Authenticate(r)
  \/ LoadForRefresh(r)
  \/ ProviderRefresh(r)
  \/ Rotate(r)
  \/ LoadForLogout(r)
  \/ ProviderLogout(r)
  \/ Revoke(r)

Next ==
  \/ \E r \in Requests :
       SendCallback(r) \/ SendOther(r) \/ Handle(r) \/ Deliver(r) \/ Die(r)
  \/ \E s \in Sessions : Expire(s)
  \/ ForgetFlow

Spec == Init /\ [][Next]_vars

-----------------------------------------------------------------------------
(* Properties                                                              *)

Carriers == [l \in Sessions |-> {s \in Sessions : Active(s) /\ session[s].login = l}]

Lineage == INSTANCE LoginLineage WITH
  issued <- {s \in Sessions : session[s] # Null},
  live <- Carriers

\* The routes implement the abstract life of a login that the store promises:
\* two refreshes that both passed the checks and both called the provider
\* never mint two live sessions, and a login that ended while a refresh was
\* waiting for the provider is not resumed by it.
LineageSpec == Lineage!Spec

\* The provider tokens stored with an active session are the ones the provider
\* takes next, or the refresh that replaced them is about to rotate the
\* session.  Only a handler that dies, or fails, between the provider's answer
\* and the rotation leaves a session that cannot be refreshed any more.
RefreshableUnlessStranded ==
  \A s \in Sessions :
    LET g == grant[session[s].flow] IN
    Active(s) /\ g.alive /\ s \notin stranded =>
      \/ session[s].held = g.held
      \/ \E r \in Requests :
           At(r, "refresh", "rotate") /\ req[r].cookie = s /\ req[r].held = g.held

\* However refreshes, logouts and new logins overlap and in whatever order the
\* browser gets their answers, once they are delivered and none with a cookie
\* was lost, no session but the browser's own is active for its login.
CookieIsNewest ==
  LET mine == session[jar.session].login IN
  /\ jar.session # Null
  /\ mine \notin lost
  /\ \A r \in Requests :
       req[r].at = "answered" /\ req[r].answer.kind = "rotated" =>
         session[req[r].answer.session].login # mine
  => \A s \in Sessions : Active(s) /\ session[s].login = mine => s = jar.session

SignsOut(r) ==
  At(r, "logout", "revoke") /\ req'[r].answer.kind = "signed_out"

LoginIsDead(s) ==
  \A n \in Sessions :
    session[n] # Null /\ session[n].login = session[s].login => ~Active(n)

\* When logout answers, no session of the login is active, whether or not the
\* provider answered, unless a refresh rotated the session while logout ran.
LogoutEndsUnracedLogin ==
  [][\A r \in Requests :
       SignsOut(r) /\ ~req[r].raced => LoginIsDead(req[r].cookie)']_vars

-----------------------------------------------------------------------------
(* The inductive invariant                                                 *)

Kin(s, n) == session[s] # Null /\ session[n] # Null /\ session[s].login = session[n].login

\* No session of its login was rotated later than s.
Newest(s) == \A n \in Sessions : Kin(n, s) => session[n].held <= session[s].held

\* The sessions of a login share its grant, each has provider tokens of its own,
\* and only the last can be active.
SessionsFormed ==
  /\ \A s \in Sessions : session[s] # Null =>
       /\ code[session[s].flow] = "used"
       /\ session[session[s].login] # Null
       /\ session[s].held <= grant[session[s].flow].held
       /\ Active(s) => Newest(s)
  /\ \A s, n \in Sessions : session[s] # Null /\ session[n] # Null =>
       /\ Kin(s, n) <=> session[s].flow = session[n].flow
       /\ Kin(s, n) /\ session[s].held = session[n].held => s = n
  /\ \A s \in stranded : session[s] # Null
  /\ jar.session # Null => session[jar.session] # Null
  /\ \A f \in Flows : code[f] # "none" => f \in started

\* What a handler that is about to answer with a new cookie, or a new flow,
\* can rely on.
AnswerFormed(a) ==
  /\ a.session # Null <=> a.kind \in {"signed_in", "rotated"}
  /\ a.session # Null => session[a.session] # Null /\ Newest(a.session)
  /\ a.kind = "signed_in" => \A n \in Sessions : Kin(n, a.session) => n = a.session
  /\ a.kind = "flow" => a.flow \in started /\ code[a.flow] = "none"

\* What a handler knows at the await it is at.
HandlerFormed(q) ==
  /\ IF q.at = "answered" THEN AnswerFormed(q.answer) ELSE q.answer = Error
  /\ q.cookie # Null => session[q.cookie] # Null
  /\ q.route = "callback" => q.state \in Flows /\ code[q.state] # "none"
  /\ q.at = "create" =>
       /\ q.route = "callback"
       /\ code[q.state] = "used" /\ grant[q.state].held = 0
       /\ \A s \in Sessions : session[s] # Null => session[s].flow # q.state
  /\ q.at \in {"load", "provider", "rotate", "revoke"} =>
       /\ q.cookie # Null
       /\ q.raced \/ Active(q.cookie) \/ LoginIsDead(q.cookie)
  /\ q.route = "refresh" /\ q.at = "provider" => q.held = session[q.cookie].held
  /\ q.at = "rotate" =>
       /\ q.route = "refresh"
       /\ Active(q.cookie) =>
            /\ q.held = grant[session[q.cookie].flow].held
            /\ \A n \in Sessions : Kin(n, q.cookie) => session[n].held < q.held

Pending(q, s) == s # Null /\ req[q].at = "answered" /\ req[q].answer.session = s

Known(s) == s = jar.session \/ \E r \in Requests : req[r].cookie = s

\* Two handlers never work on one flow, or bring the same session, and nobody
\* knows a session before its cookie is delivered.
HandlersApart ==
  /\ \A q, r \in Requests : q # r =>
       /\ req[q].at = "create" /\ req[r].at = "create" => req[q].state # req[r].state
       /\ \A f \in Flows :
            ~(/\ req[q].at = "answered" /\ req[q].answer.kind = "flow" /\ req[q].answer.flow = f
              /\ req[r].at = "answered" /\ req[r].answer.kind = "flow" /\ req[r].answer.flow = f)
       /\ \A s \in Sessions : ~(Pending(q, s) /\ Pending(r, s))
  /\ \A q \in Requests, s \in Sessions : Pending(q, s) => ~Known(s)

\* The browser's cookie is not older than those its requests came with, and an
\* active session is known, on its way, or its login was given up by the browser.
CookiesAhead ==
  /\ jar.session # Null =>
       \A r \in Requests : req[r].cookie # Null /\ Kin(req[r].cookie, jar.session)
         => session[req[r].cookie].held <= session[jar.session].held
  /\ \A s \in Sessions : Active(s) /\ session[s].login \notin lost =>
       \/ Known(s)
       \/ \E q \in Requests : Pending(q, s)
       \/ /\ jar.session # Null => ~Kin(jar.session, s)
          /\ \A q \in Requests, n \in Sessions : Pending(q, n) => ~Kin(n, s)

FlowInvariant ==
  /\ TypeOK
  /\ SessionsFormed
  /\ \A r \in Requests : HandlerFormed(req[r])
  /\ HandlersApart
  /\ CookiesAhead
  /\ RefreshableUnlessStranded

=============================================================================
