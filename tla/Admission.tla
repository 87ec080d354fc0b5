----------------------------- MODULE Admission -----------------------------
(***************************************************************************)
(* What a request passes before a handler answers it: the per-address      *)
(* ceiling of the rate-limit middleware, then the dependencies of its      *)
(* route (the CSRF check, the principal, the per-user limit, the scope     *)
(* gate, the authorization service), then the handler of the _authz_demo   *)
(* route, and the exception boundary that turns errors into answers.       *)
(*                                                                         *)
(* A request is interrupted where the code awaits: at the two calls of the *)
(* limiter's backend, at the session store, and at the provider of the     *)
(* authorization service, which FastAPI runs in a thread.                  *)
(*                                                                         *)
(* Principals come from outside: the ones resolved from sessions have no   *)
(* roles and no scopes yet, the tests inject others.                       *)
(***************************************************************************)
EXTENDS Authorization, Integers, Sequences

CONSTANTS
  Requests,
  Principals,     \* what get_current_principal may return
  Addresses,      \* IP addresses
  Trusted,        \* those of settings.trusted_proxies
  Origins,        \* how requests come in: see Origin
  Limits,         \* per rule, its limit: "tunable at runtime"
  DefaultOpen,    \* settings.rate_limit_fail_open
  LimiterBuilt,   \* rate limiting is enabled and a limiter was built
  Policies,       \* the contents the policy file takes, one after another
  Startup,        \* names the service that container.startup() builds
  MaxCount        \* bound: the counters

(***************************************************************************)
(* An origin is a client, the X-Forwarded-For header it wrote itself and   *)
(* the trusted proxies on the way, each of which appends the address it    *)
(* was called from.                                                        *)
(***************************************************************************)
Origin == [client: Addresses, wrote: Seq(Addresses), via: Seq(Trusted)]

\* The registry of rules: scope and fail mode ("default": the setting's).
Rules ==
  [globalIp       |-> [scope |-> "ip",   failOpen |-> "default"],
   authLogin      |-> [scope |-> "ip",   failOpen |-> "closed"],
   bookingCreate  |-> [scope |-> "user", failOpen |-> "default"],
   bookingApprove |-> [scope |-> "user", failOpen |-> "default"],
   profileUpdate  |-> [scope |-> "user", failOpen |-> "default"],
   eventsRead     |-> [scope |-> "user", failOpen |-> "default"],
   paymentRefund  |-> [scope |-> "user", failOpen |-> "closed"],
   webhookPayment |-> [scope |-> "ip",   failOpen |-> "default"]]

\* The error families and their statuses.
Statuses ==
  [AuthenticationRequired |-> 401, InvalidSession |-> 401, SessionExpired |-> 401,
   TokenVerification |-> 401, CsrfValidation |-> 403, Forbidden |-> 403,
   NotFound |-> 404, Conflict |-> 409, RateLimitExceeded |-> 429, DatabaseError |-> 500,
   IdentityMapping |-> 500, ExternalService |-> 502, OAuthExchange |-> 502]

\* DEMO_ITEMS.
DemoItems ==
  [owned   |-> [owner |-> "user-owner", tenant |-> "tenant-1"],
   other   |-> [owner |-> "someone-else", tenant |-> "tenant-1"],
   foreign |-> [owner |-> "user-owner", tenant |-> "tenant-2"]]

Items == DOMAIN DemoItems \cup {"missing"}

Routes == {"approve", "limited", "edit", "health"}

PolicyRule ==
  [role: RoleCodes \cup {"*"}, type: ResourceTypes \cup {"*"},
   act: (UNION {ActionsByResource[t] : t \in ResourceTypes}) \cup {"*"},
   cond: {"none", "assigned", "owner", "not_finance"}, eft: {"allow", "deny"}]

ASSUME AdmissionAssumption ==
  /\ Trusted \subseteq Addresses
  /\ Origins \subseteq Origin
  /\ DefaultOpen \in BOOLEAN
  /\ LimiterBuilt \in BOOLEAN
  /\ Limits \in [DOMAIN Rules -> Nat]
  /\ Policies \in Seq(SUBSET PolicyRule)
  /\ Policies # <<>>
  /\ MaxCount \in Nat
  /\ Startup \notin Requests
  /\ Null \notin Requests \cup {Startup}
  /\ Null \notin Principals /\ Null \notin Addresses /\ Null \notin Items
  /\ Null \notin {DemoItems[i].tenant : i \in DOMAIN DemoItems}

VARIABLES
  req,       \* per request, see Request
  counter,   \* per limiter key, its count in the current window
  file,      \* which of Policies the policy file holds
  enforcer,  \* per service object, the policy it has loaded, 0 if not built
  service    \* app.state.authorization_service

vars == <<req, counter, file, enforcer, service>>

Versions == DOMAIN Policies
Services == Requests \cup {Startup}

NoAnswer == [status |-> 0, error |-> "none", details |-> "none"]

Done == [status |-> 200, error |-> "none", details |-> "none"]

Details == {"none", "cross_tenant", "denied", "missing_scope", "rule", "unavailable"}

Answers == [status: {0, 200, 500} \cup {Statuses[e] : e \in DOMAIN Statuses},
            error: DOMAIN Statuses \cup {"none", "Internal"},
            details: Details]

Keys == ({"globalIp"} \X Addresses)
          \cup ({"bookingCreate"} \X {p.user : p \in Principals})

-----------------------------------------------------------------------------
(* Client addresses (rate_limiting/client_ip.py)                           *)

\* Mutant: the leftmost entry is believed.
ResolveLeftmost(peer, hops) ==
  IF peer \notin Trusted \/ hops = <<>> THEN peer ELSE hops[1]

\* resolve_client_ip() of the socket peer and the hops of the header.
ResolveClientIp(peer, hops) ==
  LET untrusted == {i \in DOMAIN hops : hops[i] \notin Trusted} IN
  IF peer \notin Trusted \/ hops = <<>> THEN peer
  ELSE IF untrusted = {} THEN hops[1]
  ELSE hops[CHOOSE i \in untrusted : \A j \in untrusted : j <= i]

\* What the server sees of a request's way: the peer and the header's hops.
SeenFrom(origin) == <<origin.client>> \o origin.via

Peer(origin) == SeenFrom(origin)[Len(origin.via) + 1]

Hops(origin) == origin.wrote \o SubSeq(SeenFrom(origin), 1, Len(origin.via))

-----------------------------------------------------------------------------
(* Requests and their answers                                              *)

(***************************************************************************)
(* `bucket' is the address a request is about to be counted under,         *)
(* `verdict' whether the limiter last let it pass, `charged' whether it    *)
(* was counted for its user, `service' the authorization service it got,   *)
(* `since' the policy in force when it came in and `version' the one that  *)
(* decided about `item'.  A request with a principal has slid the idle     *)
(* deadline of that principal's session.                                   *)
(***************************************************************************)
Request == [at: {"idle", "ceiling", "router", "principal", "quota", "provider",
                 "building", "built", "handler", "answered"},
            route: Routes, csrf: BOOLEAN, client: Addresses,
            bucket: Addresses \cup {Null}, principal: Principals \cup {Null},
            verdict: {"none", "passed", "denied"},
            charged: BOOLEAN,
            service: Services \cup {Null}, since: {0} \cup Versions,
            version: {0} \cup Versions, item: Items \cup {Null}, answer: Answers]

TypeOK ==
  /\ req \in [Requests -> Request]
  /\ counter \in [Keys -> 0..MaxCount]
  /\ file \in Versions
  /\ enforcer \in [Services -> {0} \cup Versions]
  /\ service \in Services \cup {Null}

\* The policy that a check made now would use; 0 while there is no service.
InForce == IF service = Null THEN 0 ELSE enforcer[service]

Blank(at, route, csrf, client) ==
  [at |-> at, route |-> route, csrf |-> csrf, client |-> client, bucket |-> Null,
   principal |-> Null, verdict |-> "none", charged |-> FALSE,
   service |-> Null, since |-> IF route = "edit" THEN InForce ELSE 0, version |-> 0,
   item |-> Null, answer |-> NoAnswer]

\* STARTUP_LOAD_CASBIN is on, or the service is built when first asked for.
Init ==
  /\ \E client \in {origin.client : origin \in Origins} :
       req = [r \in Requests |-> Blank("idle", "health", FALSE, client)]
  /\ counter = [k \in Keys |-> 0]
  /\ file = 1
  /\ \E loads \in BOOLEAN :
       /\ service = IF loads THEN Startup ELSE Null
       /\ enforcer = [s \in Services |-> IF loads /\ s = Startup THEN 1 ELSE 0]

\* An error below the exception boundary is answered by its handler.
Failed(error, details) ==
  [status |-> Statuses[error], error |-> error, details |-> details]

\* One that passes it, or is raised outside, is answered by the catch-all.
Uncaught(error, details) == [status |-> 500, error |-> "Internal", details |-> "none"]

\* The middleware is outside the boundary and builds its 429 itself.
InlineDenial(error, details) == Failed(error, details)

Answer(r, answer) == [req[r] EXCEPT !.at = "answered", !.service = Null, !.answer = answer]

\* An answer to which the limiter had something to say.
LimiterAnswer(r, answer, verdict, charged) ==
  [req[r] EXCEPT !.at = "answered", !.bucket = Null, !.answer = answer,
     !.verdict = verdict, !.charged = charged]

\* An answer about an item, from a version of the policy.
ItemAnswer(r, answer, item, version) ==
  [req[r] EXCEPT !.at = "answered", !.service = Null, !.answer = answer,
     !.item = item, !.version = version]

Becomes(r, next) == req' = [req EXCEPT ![r] = next]

-----------------------------------------------------------------------------
(* The limiter, as the middleware and the dependency call it               *)

FailsOpen(rule) == Rules[rule].failOpen = "default" /\ DefaultOpen

\* Mutant: health probes are counted and limited as well.
LimitsEveryPath(route) == LimiterBuilt

\* Nothing is limited without a limiter; health probes are exempt.
Limited(route) == LimiterBuilt /\ route # "health"

\* The script counts a request under a key, in one step.
Count(k) == counter' = [counter EXCEPT ![k] = @ + 1]

\* The call of the backend fails, with the request counted or not.
MayCount(k) == counter' = counter \/ (counter[k] < MaxCount /\ Count(k))

WithinLimit(k) == counter[k] + 1 <= Limits[k[1]]

CeilingKey(r) == <<"globalIp", req[r].bucket>>

UserKey(r) == <<"bookingCreate", req[r].principal.user>>

\* A request comes in; the middleware takes the address it is counted under.
Arrive(r) ==
  /\ req[r].at \in {"idle", "answered"}
  /\ \E route \in Routes, csrf \in BOOLEAN, origin \in Origins :
       LET fresh == Blank("router", route, csrf, origin.client) IN
       Becomes(r, IF Limited(route)
                    THEN [fresh EXCEPT !.at = "ceiling",
                            !.bucket = ResolveClientIp(Peer(origin), Hops(origin))]
                    ELSE fresh)
  /\ UNCHANGED <<counter, file, enforcer, service>>

Ceiling(r) ==
  /\ req[r].at = "ceiling"
  /\ counter[CeilingKey(r)] < MaxCount
  /\ Count(CeilingKey(r))
  /\ Becomes(r, IF WithinLimit(CeilingKey(r))
       THEN [req[r] EXCEPT !.at = "router", !.bucket = Null, !.verdict = "passed"]
       ELSE LimiterAnswer(r, InlineDenial("RateLimitExceeded", "rule"), "denied", FALSE))
  /\ UNCHANGED <<file, enforcer, service>>

CeilingFails(r) ==
  /\ req[r].at = "ceiling"
  /\ MayCount(CeilingKey(r))
  /\ Becomes(r, IF FailsOpen("globalIp")
       THEN [req[r] EXCEPT !.at = "router", !.bucket = Null, !.verdict = "passed"]
       ELSE LimiterAnswer(r, InlineDenial("RateLimitExceeded", "unavailable"),
                          "denied", FALSE))
  /\ UNCHANGED <<file, enforcer, service>>

\* The dependency counts under the user; past it is the handler of /limited.
Quota(r) ==
  /\ req[r].at = "quota"
  /\ counter[UserKey(r)] < MaxCount
  /\ Count(UserKey(r))
  /\ Becomes(r, IF WithinLimit(UserKey(r))
       THEN LimiterAnswer(r, Done, "passed", TRUE)
       ELSE LimiterAnswer(r, Failed("RateLimitExceeded", "rule"), "denied", TRUE))
  /\ UNCHANGED <<file, enforcer, service>>

QuotaFails(r) ==
  /\ req[r].at = "quota"
  /\ MayCount(UserKey(r))
  /\ LET charged == counter' # counter IN
     Becomes(r, IF FailsOpen("bookingCreate")
       THEN LimiterAnswer(r, Done, "passed", charged)
       ELSE LimiterAnswer(r, Failed("RateLimitExceeded", "unavailable"), "denied", charged))
  /\ UNCHANGED <<file, enforcer, service>>

\* A window ends.
EndWindow(k) ==
  /\ counter[k] > 0
  /\ counter' = [counter EXCEPT ![k] = 0]
  /\ UNCHANGED <<req, file, enforcer, service>>

-----------------------------------------------------------------------------
(* The dependencies and handlers of the routes                             *)

\* A probe needs no dependency.
Probe(r) ==
  /\ req[r].at = "router"
  /\ req[r].route = "health"
  /\ Becomes(r, Answer(r, Done))
  /\ UNCHANGED <<counter, file, enforcer, service>>

\* Mutant: the principal is resolved although the header does not match.
VerifyCsrfLate(r) ==
  /\ req[r].at = "router"
  /\ req[r].route # "health"
  /\ Becomes(r, [req[r] EXCEPT !.at = "principal"])
  /\ UNCHANGED <<counter, file, enforcer, service>>

\* The first dependency of every route that changes something.
VerifyCsrf(r) ==
  /\ req[r].at = "router"
  /\ req[r].route # "health"
  /\ Becomes(r, IF req[r].csrf THEN [req[r] EXCEPT !.at = "principal"]
                               ELSE Answer(r, Failed("CsrfValidation", "none")))
  /\ UNCHANGED <<counter, file, enforcer, service>>

\* What follows the principal: /limited asks the limiter if there is one, the
\* other two routes ask for the authorization service.
AfterPrincipal(r, p) ==
  LET next == IF req[r].route # "limited" THEN "provider"
              ELSE IF Limited("limited") THEN "quota" ELSE "answered"
  IN [req[r] EXCEPT !.at = next, !.principal = p,
                    !.answer = IF next = "answered" THEN Done ELSE NoAnswer]

\* get_current_principal: the session is active and was touched.
Authenticate(r) ==
  /\ req[r].at = "principal"
  /\ \E p \in Principals : Becomes(r, AfterPrincipal(r, p))
  /\ UNCHANGED <<counter, file, enforcer, service>>

\* No cookie, no active session, the database refuses, or its pool is gone.
AuthenticateFails(r) ==
  /\ req[r].at = "principal"
  /\ \E answer \in {Uncaught("InterfaceError", "none")} \cup
         {Failed(error, "none") : error \in {"AuthenticationRequired", "InvalidSession",
                                            "SessionExpired", "DatabaseError"}} :
       Becomes(r, Answer(r, answer))
  /\ UNCHANGED <<counter, file, enforcer, service>>

\* Mutant: a service is built for every request, whatever app.state holds.
ProvideAlwaysBuilds(r) ==
  /\ req[r].at = "provider"
  /\ Becomes(r, [req[r] EXCEPT !.at = "building"])
  /\ UNCHANGED <<counter, file, enforcer, service>>

\* The provider looks at app.state and builds a service if there is none.
Provide(r) ==
  /\ req[r].at = "provider"
  /\ Becomes(r, IF service # Null
       THEN [req[r] EXCEPT !.at = "handler", !.service = service]
       ELSE [req[r] EXCEPT !.at = "building"])
  /\ UNCHANGED <<counter, file, enforcer, service>>

\* The enforcer reads the policy file.
LoadPolicy(r) ==
  /\ req[r].at = "building"
  /\ enforcer' = [enforcer EXCEPT ![r] = file]
  /\ Becomes(r, [req[r] EXCEPT !.at = "built"])
  /\ UNCHANGED <<counter, file, service>>

\* The file is missing or broken; nothing is kept, and the next request tries again.
LoadPolicyFails(r) ==
  /\ req[r].at = "building"
  /\ Becomes(r, Answer(r, Uncaught("PolicyError", "none")))
  /\ UNCHANGED <<counter, file, enforcer, service>>

\* Whoever is last stays on app.state.
KeepService(r) ==
  /\ req[r].at = "built"
  /\ service' = r
  /\ Becomes(r, [req[r] EXCEPT !.at = "handler", !.service = r])
  /\ UNCHANGED <<counter, file, enforcer>>

\* The gate of /approve looks at the principal's scopes, nothing else.
Gate(r) ==
  /\ req[r].at = "handler"
  /\ req[r].route = "approve"
  /\ Becomes(r, Answer(r,
       IF HasScope(req[r].principal.scopes, ScopeFor("booking", "approve")) THEN Done
       ELSE Failed("Forbidden", "missing_scope")))
  /\ UNCHANGED <<counter, file, enforcer, service>>

ItemContext(p, item) ==
  Context(p.user, p.tenant, p.roles, "update", "profile",
          DemoItems[item].owner, {}, DemoItems[item].tenant)

\* Mutant: the reason of the refusal is passed on.
EditAnswerReveals(policy, p, item) ==
  IF item = "missing" THEN Failed("NotFound", "none")
  ELSE LET outcome == Enforce(policy, ItemContext(p, item)) IN
       IF outcome = "allowed" THEN Done ELSE Failed("Forbidden", outcome)

\* A foreign item is answered like one that does not exist.
EditAnswer(policy, p, item) ==
  IF item = "missing" THEN Failed("NotFound", "none")
  ELSE LET outcome == Enforce(policy, ItemContext(p, item)) IN
       IF outcome = "allowed" THEN Done
       ELSE IF outcome = "cross_tenant" THEN Failed("NotFound", "none")
       ELSE Failed("Forbidden", "denied")

Edit(r) ==
  /\ req[r].at = "handler"
  /\ req[r].route = "edit"
  /\ \E item \in Items :
       LET version == enforcer[req[r].service] IN
       Becomes(r, ItemAnswer(r, EditAnswer(Policies[version], req[r].principal, item),
                             item, version))
  /\ UNCHANGED <<counter, file, enforcer, service>>

-----------------------------------------------------------------------------
(* The operator                                                            *)

ChangePolicy ==
  /\ file < Len(Policies)
  /\ file' = file + 1
  /\ UNCHANGED <<req, counter, enforcer, service>>

\* Mutant: the file is read before the lock is taken.
ReloadUnlocked ==
  /\ service # Null
  /\ \E v \in 1..file : enforcer' = [enforcer EXCEPT ![service] = v]
  /\ UNCHANGED <<req, counter, file, service>>

\* reload() of the service's enforcer, serialised with its decisions.
Reload ==
  /\ service # Null
  /\ enforcer' = [enforcer EXCEPT ![service] = file]
  /\ UNCHANGED <<req, counter, file, service>>

Next ==
  \/ \E r \in Requests :
       \/ Arrive(r) \/ Ceiling(r) \/ CeilingFails(r) \/ Quota(r) \/ QuotaFails(r)
       \/ Probe(r) \/ VerifyCsrf(r) \/ Authenticate(r) \/ AuthenticateFails(r)
       \/ Provide(r) \/ LoadPolicy(r) \/ LoadPolicyFails(r) \/ KeepService(r)
       \/ Gate(r) \/ Edit(r)
  \/ \E k \in Keys : EndWindow(k)
  \/ ChangePolicy
  \/ Reload

Spec == Init /\ [][Next]_vars

-----------------------------------------------------------------------------
(* Properties                                                              *)

Answered(r) == req[r].at = "answered"

\* A service that can be found has its policy, the one that startup built is
\* never replaced, and no enforcer is ahead of the file.
ServicesLoaded ==
  /\ service # Null => enforcer[service] # 0
  /\ enforcer[Startup] # 0 => service = Startup
  /\ \A s \in Services : enforcer[s] <= file

\* What a request carries at each stage: past the session store a principal and
\* a matching CSRF header, at the handler a loaded service, at an answer about
\* an item the policy it follows from.
Formed(r, q) ==
  /\ q.bucket # Null <=> q.at = "ceiling"
  /\ q.at = "ceiling" => Limited(q.route)
  /\ q.at = "quota" => q.route = "limited"
  /\ q.at \in {"quota", "provider", "building", "built", "handler"}
       => q.principal # Null
  /\ q.at = "principal" => q.csrf /\ q.route # "health"
  /\ q.at \in {"building", "built"} => enforcer[Startup] = 0
  /\ q.at = "built" => enforcer[r] # 0
  /\ q.service # Null <=> q.at = "handler"
  /\ q.service # Null =>
       /\ enforcer[q.service] # 0
       /\ enforcer[Startup] # 0 => q.service = Startup
  /\ q.at # "answered" =>
       q.verdict # "denied" /\ ~q.charged /\ q.item = Null /\ q.version = 0
  /\ enforcer[Startup] # 0 => q.since <= enforcer[Startup]
  /\ q.item # Null =>
       /\ q.version # 0 /\ q.principal # Null
       /\ q.answer = EditAnswer(Policies[q.version], q.principal, q.item)

StagesInvariant ==
  /\ TypeOK
  /\ ServicesLoaded
  /\ \A r \in Requests : Formed(r, req[r])

\* The gate is never finer than the service: under whatever policy an enforcer
\* has loaded, a principal whose roles let it do something to some resource
\* gets the scope for it from the same policy.
PoliciesCovered ==
  {v \in Versions : \A p \in Principals, type \in ResourceTypes :
     \A act \in ActionsByResource[type], owner \in {p.user, Null},
        assigned \in {{}, {p.user}}, tenant \in {p.tenant, Null} :
       Enforce(Policies[v], Context(p.user, p.tenant, p.roles, act, type,
                                    owner, assigned, tenant)) = "allowed"
         => HasScope(ComputeScopes(Policies[v], p.roles), ScopeFor(type, act))}

GateCoversService ==
  \A s \in Services : enforcer[s] # 0 => enforcer[s] \in PoliciesCovered

\* Requests are counted under the address their client really has, whatever it
\* wrote into the header, as long as it is not itself one of the proxies.
BucketIsTheClient ==
  \A r \in Requests :
    req[r].bucket # Null /\ req[r].client \notin Trusted
      => req[r].bucket = req[r].client

\* Nobody learns from an answer whether an item of another tenant exists.
ForeignLikeMissing ==
  \A r, q \in Requests :
    /\ Answered(r) /\ req[r].item \in DOMAIN DemoItems
    /\ DemoItems[req[r].item].tenant # req[r].principal.tenant
    /\ Answered(q) /\ req[q].item = "missing"
    => req[r].answer = req[q].answer

\* A client is told to slow down exactly when the limiter refused it, at the
\* middleware or at the route, with the backend up or down; probes never are.
DeniedIffTold ==
  \A r \in Requests : Answered(r) =>
    /\ req[r].answer.status = 429 <=> req[r].verdict = "denied"
    /\ req[r].answer.status = 429 => req[r].route # "health"

\* A request without the CSRF header, which another site can make a browser
\* send, keeps no session alive and uses up nothing of its user's quota.
ForgedLeavesNoTrace ==
  \A r \in Requests : ~req[r].csrf => req[r].principal = Null /\ ~req[r].charged

\* If the service was built at startup, no request is decided on an older policy
\* than the one in force when it came in: what reload() did stays done.
ReloadHolds ==
  enforcer[Startup] # 0 =>
    \A r \in Requests : req[r].version # 0 => req[r].version >= req[r].since

=============================================================================
