-------------------------- MODULE AdmissionProofs --------------------------
(***************************************************************************)
(* The invariant of Admission and the properties that follow from it, for  *)
(* any number of requests, any principals, proxies, limits and policies.   *)
(*                                                                         *)
(* Every action but the operator's replaces one request's record, so that  *)
(* a step is shown to keep the invariant by showing that the new record    *)
(* is well formed (OneRequestMoves).                                       *)
(***************************************************************************)
EXTENDS Admission, TLAPS, SequenceTheorems, WellFoundedInduction

-----------------------------------------------------------------------------
(* Authorization: what its two layers promise each other, for every        *)
(* policy, every actor and every resource                                  *)

\* An allowing rule that matches grants, on the type and for the action it is
\* asked about, a scope to the roles it matches with.
LEMMA MatchGrantsScope ==
  ASSUME NEW policy, NEW ctx, NEW rule \in policy,
         rule.eft = "allow", Matches(rule, ctx),
         ctx.type \in ResourceTypes, ctx.act \in ActionsByResource[ctx.type]
  PROVE  ScopeFor(ctx.type, ctx.act) \in ComputeScopes(policy, ctx.roles)
<1>1. ctx.type \in TypesOf(rule) /\ ctx.act \in ActionsOf(rule, ctx.type)
  BY DEF Matches, TypesOf, ActionsOf
<1>2. ScopeFor(ctx.type, ctx.act)
        \in {ScopeFor(ctx.type, act) : act \in ActionsOf(rule, ctx.type)}
  BY <1>1
<1>3. ScopeFor(ctx.type, ctx.act) \in RuleScopes(rule)
  BY <1>1, <1>2 DEF RuleScopes
<1>4. rule.role \in ctx.roles \cup {"*"}
  BY DEF Matches
<1> QED BY <1>3, <1>4 DEF ComputeScopes

\* The gate is never finer than the service (authorization_service.py:9-11):
\* what enforce() lets through is among the scopes that compute_scopes() gives
\* the same roles under the same policy, whatever the policy.
THEOREM GateCovers ==
  ASSUME NEW policy, NEW ctx,
         ctx.type \in ResourceTypes, ctx.act \in ActionsByResource[ctx.type],
         Enforce(policy, ctx) = "allowed"
  PROVE  HasScope(ComputeScopes(policy, ctx.roles), ScopeFor(ctx.type, ctx.act))
<1>1. Allowed(policy, ctx)
  BY DEF Enforce
<1>2. PICK rule \in policy : rule.eft = "allow" /\ Matches(rule, ctx)
  BY <1>1 DEF Allowed
<1> QED BY <1>2, MatchGrantsScope DEF HasScope

\* The matcher refuses a foreign resource by itself (casbin_model.conf:25-26),
\* so that enforce() answers "cross_tenant" hides no permission.
THEOREM BackstopAgrees ==
  ASSUME NEW policy, NEW ctx, CrossTenant(ctx)
  PROVE  ~Allowed(policy, ctx) /\ Enforce(policy, ctx) = "cross_tenant"
BY DEF CrossTenant, Allowed, Matches, Enforce

\* A policy with the deny rule of policy.csv:6 lets nobody refund a payment
\* without the finance role, whatever rules are added to it.
THEOREM RefundNeedsFinance ==
  ASSUME NEW policy, NEW ctx, RefundDenied \in policy,
         ctx.type = "payment", ctx.act = "refund",
         Enforce(policy, ctx) = "allowed"
  PROVE  "finance" \in ctx.roles
<1> SUFFICES ASSUME "finance" \notin ctx.roles PROVE FALSE
  OBVIOUS
<1>1. ~CrossTenant(ctx) /\ Allowed(policy, ctx)
  BY DEF Enforce
<1>2. Matches(RefundDenied, ctx)
  BY <1>1 DEF Matches, RefundDenied, Rule, CondHolds, CrossTenant
<1>3. RefundDenied.eft = "deny"
  BY DEF RefundDenied, Rule
<1> QED BY <1>1, <1>2, <1>3 DEF Allowed

\* Under the shipped policy a role never takes anything away: who may do a
\* thing may still do it with more roles.
THEOREM RolesOnlyAdd ==
  ASSUME NEW actor, NEW tenant, NEW act, NEW type, NEW owner, NEW assigned,
         NEW resourceTenant, NEW roles, NEW more, roles \subseteq more,
         Enforce(ShippedPolicy,
           Context(actor, tenant, roles, act, type, owner, assigned, resourceTenant)) = "allowed"
  PROVE  Enforce(ShippedPolicy,
           Context(actor, tenant, more, act, type, owner, assigned, resourceTenant)) = "allowed"
<1> DEFINE before == Context(actor, tenant, roles, act, type, owner, assigned, resourceTenant)
           after == Context(actor, tenant, more, act, type, owner, assigned, resourceTenant)
<1>1. /\ before.roles \subseteq after.roles
      /\ after.actor = before.actor /\ after.tenant = before.tenant
      /\ after.act = before.act /\ after.type = before.type /\ after.owner = before.owner
      /\ after.assigned = before.assigned /\ after.resourceTenant = before.resourceTenant
  BY DEF Context
<1> HIDE DEF before, after
<1>2. ~CrossTenant(before) /\ Allowed(ShippedPolicy, before)
  BY DEF Enforce, before
<1>3. ~CrossTenant(after)
  BY <1>1, <1>2 DEF CrossTenant
<1>4. \A rule \in ShippedPolicy :
        /\ rule.eft = "allow" => rule.cond # "not_finance"
        /\ rule.eft = "deny" => rule.role = "*" /\ rule.cond = "not_finance"
  BY DEF ShippedPolicy, RefundDenied, Rule
<1>5. ASSUME NEW rule \in ShippedPolicy, rule.eft = "allow", Matches(rule, before)
      PROVE  Matches(rule, after)
  BY <1>1, <1>4, <1>5 DEF Matches, CondHolds
<1>6. ASSUME NEW rule \in ShippedPolicy, rule.eft = "deny", Matches(rule, after)
      PROVE  Matches(rule, before)
  BY <1>1, <1>4, <1>6 DEF Matches, CondHolds
<1>7. Allowed(ShippedPolicy, after)
  BY <1>2, <1>5, <1>6 DEF Allowed
<1> QED BY <1>3, <1>7 DEF Enforce, after

-----------------------------------------------------------------------------
(* The invariant                                                           *)

\* What is kept of each request, beside its form: see the properties.
Kept(r, q) ==
  /\ Formed(r, q)
  /\ q.at = "answered" =>
       /\ q.answer.status = 429 <=> q.verdict = "denied"
       /\ q.answer.status = 429 => q.route # "health"
  /\ q.bucket # Null /\ q.client \notin Trusted => q.bucket = q.client
  /\ ~q.csrf => q.principal = Null /\ ~q.charged
  /\ enforcer[Startup] # 0 /\ q.version # 0 => q.version >= q.since

AdmissionInvariant ==
  /\ TypeOK
  /\ ServicesLoaded
  /\ \A r \in Requests : Kept(r, req[r])

-----------------------------------------------------------------------------
(* Client addresses                                                        *)

\* A client c that wrote w reaches the server through the proxies v: in what
\* the last one reports, c comes after w and only proxies come after c.
LEMMA ReportedHops ==
  ASSUME NEW T, NEW S, T \subseteq S, NEW c \in S, NEW w \in Seq(S), NEW v \in Seq(T), Len(v) > 0
  PROVE  LET hops == w \o SubSeq(<<c>> \o v, 1, Len(v))
             n == Len(w) + 1
         IN  /\ hops \in Seq(S) /\ n \in DOMAIN hops /\ hops[n] = c
             /\ \A i \in DOMAIN hops : i > n => hops[i] \in T
             /\ (<<c>> \o v)[Len(v) + 1] \in T
<1> DEFINE one == <<c>>
           seen == one \o v
           part == SubSeq(seen, 1, Len(v))
           hops == w \o part
<1>1. /\ Len(v) \in Nat /\ Len(w) \in Nat /\ v \in Seq(S)
      /\ \A i \in 1..Len(v) : v[i] \in T
  OBVIOUS
<1>2. one \in Seq(S) /\ Len(one) = 1 /\ one[1] = c
  OBVIOUS
<1> HIDE DEF one
<1>3. /\ seen \in Seq(S) /\ Len(seen) = 1 + Len(v)
      /\ \A i \in 1..(1 + Len(v)) : seen[i] = IF i <= 1 THEN one[i] ELSE v[i - 1]
  <2>1. /\ one \o v \in Seq(S) /\ Len(one \o v) = Len(one) + Len(v)
        /\ \A i \in 1..(Len(one) + Len(v)) :
             (one \o v)[i] = IF i <= Len(one) THEN one[i] ELSE v[i - Len(one)]
    BY <1>1, <1>2, ConcatProperties, Zenon
  <2> QED BY <1>2, <2>1
<1> HIDE DEF seen
<1>4. seen[1] = c /\ \A i \in 2..(Len(v) + 1) : seen[i] \in T
  <2>1. seen[1] = one[1]
    BY <1>1, <1>3
  <2>2. ASSUME NEW i \in 2..(Len(v) + 1) PROVE seen[i] \in T
    <3>1. i \in 1..(1 + Len(v)) /\ ~(i <= 1) /\ i - 1 \in 1..Len(v)
      BY <1>1
    <3> QED BY <1>1, <1>3, <3>1
  <2> QED BY <1>2, <2>1, <2>2
<1>5. \A i \in 1..Len(v) : seen[i] \in S
  BY <1>1, <1>3
<1>6. /\ part \in Seq(S) /\ Len(part) = Len(v)
      /\ \A i \in 1..Len(v) : part[i] = seen[i]
  <2>1. /\ part \in Seq(S) /\ Len(part) = IF 1 <= Len(v) THEN Len(v) - 1 + 1 ELSE 0
        /\ \A i \in 1..(Len(v) - 1 + 1) : part[i] = seen[1 + i - 1]
    BY <1>1, <1>5, SubSeqProperties
  <2>2. Len(v) - 1 + 1 = Len(v) /\ \A i \in 1..Len(v) : 1 + i - 1 = i
    BY <1>1
  <2> HIDE DEF part
  <2> QED BY <1>1, <2>1, <2>2
<1> HIDE DEF part
<1>7. /\ hops \in Seq(S) /\ Len(hops) = Len(w) + Len(v)
      /\ \A i \in 1..(Len(w) + Len(v)) :
           hops[i] = IF i <= Len(w) THEN w[i] ELSE part[i - Len(w)]
  <2>1. /\ w \o part \in Seq(S) /\ Len(w \o part) = Len(w) + Len(part)
        /\ \A i \in 1..(Len(w) + Len(part)) :
             (w \o part)[i] = IF i <= Len(w) THEN w[i] ELSE part[i - Len(w)]
    BY <1>6, ConcatProperties, Zenon
  <2> QED BY <1>6, <2>1
<1> HIDE DEF hops
<1>8. DOMAIN hops = 1..(Len(w) + Len(v))
  BY <1>7
<1>9. Len(w) + 1 \in DOMAIN hops /\ hops[Len(w) + 1] = c
  BY <1>1, <1>4, <1>6, <1>7, <1>8
<1>10. ASSUME NEW i \in DOMAIN hops, i > Len(w) + 1
       PROVE  hops[i] \in T
  <2>1. /\ i \in 1..(Len(w) + Len(v)) /\ ~(i <= Len(w))
        /\ i - Len(w) \in 1..Len(v) /\ i - Len(w) \in 2..(Len(v) + 1)
    BY <1>1, <1>8, <1>10
  <2> QED BY <1>4, <1>6, <1>7, <2>1
<1>11. seen[Len(v) + 1] \in T
  BY <1>1, <1>4
<1> QED BY <1>7, <1>9, <1>10, <1>11 DEF hops, part, seen, one

\* A set of numbers with a bound has a greatest element.
LEMMA Greatest ==
  ASSUME NEW n \in Nat, NEW T, T \subseteq 0..n, T # {}
  PROVE  \E i \in T : \A j \in T : j <= i
<1> DEFINE less == {p \in Nat \X Nat : p[1] < p[2]}
           from == {n - i : i \in T}
<1>1. IsWellFoundedOn(less, Nat)
  BY NatLessThanWellFounded DEF OpToRel
<1>2. from \subseteq Nat /\ from # {}
  <2>1. \A i \in T : n - i \in Nat
    OBVIOUS
  <2>2. PICK i \in T : TRUE
    OBVIOUS
  <2>3. n - i \in from
    OBVIOUS
  <2> QED BY <2>1, <2>3
<1> HIDE DEF less
<1>3. PICK m \in from : \A k \in from : ~(<<k, m>> \in less)
  <2> HIDE DEF from
  <2> QED BY <1>1, <1>2, WFMin, Zenon
<1>4. ASSUME NEW k \in from PROVE m <= k
  <2>1. k \in Nat /\ m \in Nat
    BY <1>2
  <2>2. ~(<<k, m>> \in less)
    BY <1>3
  <2> HIDE DEF from
  <2>3. ~(k < m)
    BY <2>1, <2>2 DEF less
  <2> QED BY <2>1, <2>3
<1>5. PICK i \in T : m = n - i
  BY <1>3
<1>6. ASSUME NEW j \in T PROVE j <= i
  <2>1. n - j \in from
    OBVIOUS
  <2>2. n - i <= n - j /\ i \in Int /\ j \in Int
    BY <1>4, <1>5, <2>1
  <2> QED BY <2>2
<1> QED BY <1>6

\* resolve_client_ip() answers with the peer or with an entry of the header.
LEMMA ResolvedFrom ==
  ASSUME NEW S, NEW peer \in S, NEW hops \in Seq(S)
  PROVE  ResolveClientIp(peer, hops) \in S
<1> DEFINE untrusted == {i \in DOMAIN hops : hops[i] \notin Trusted}
<1>1. hops # <<>> => hops[1] \in S
  OBVIOUS
<1>2. ASSUME untrusted # {}
      PROVE  \E i \in untrusted : \A j \in untrusted : j <= i
  <2>1. untrusted \subseteq 1..Len(hops) /\ Len(hops) \in Nat
    OBVIOUS
  <2> HIDE DEF untrusted
  <2>2. untrusted \subseteq 0..Len(hops)
    BY <2>1
  <2> QED BY <1>2, <2>1, <2>2, Greatest
<1> QED BY <1>1, <1>2 DEF ResolveClientIp

\* The address a request is counted under is one of those it passed.
LEMMA AddressResolved ==
  ASSUME NEW origin \in Origin
  PROVE  ResolveClientIp(Peer(origin), Hops(origin)) \in Addresses
<1> DEFINE c == origin.client
           v == origin.via
           w == origin.wrote
           peer == Peer(origin)
           hops == Hops(origin)
<1>1. Trusted \subseteq Addresses /\ c \in Addresses
  BY AdmissionAssumption DEF Origin
<1>2. w \in Seq(Addresses) /\ v \in Seq(Trusted) /\ Len(v) \in Nat
  BY DEF Origin
<1>3. CASE Len(v) > 0
  <2>1. hops \in Seq(Addresses) /\ peer \in Trusted
    BY <1>1, <1>2, <1>3, ReportedHops DEF Peer, Hops, SeenFrom
  <2> QED BY <1>1, <2>1, ResolvedFrom
<1>4. CASE Len(v) = 0
  <2>1. v = <<>>
    BY <1>2, <1>4
  <2>2. SeenFrom(origin) = <<c>>
    BY <1>1, <2>1 DEF SeenFrom
  <2>3. peer = c /\ hops = w \o <<>>
    <3>1. SubSeq(<<c>>, 1, 0) = <<>>
      BY SubSeqEmpty
    <3>2. hops = w \o SubSeq(<<c>>, 1, 0)
      BY <1>4, <2>2 DEF Hops
    <3>3. peer = <<c>>[1]
      BY <1>4, <2>2 DEF Peer
    <3> QED BY <3>1, <3>2, <3>3
  <2>4. hops \in Seq(Addresses)
    BY <1>2, <2>3
  <2> QED BY <1>1, <2>3, <2>4, ResolvedFrom
<1> QED BY <1>2, <1>3, <1>4

\* resolve_client_ip() finds the client of an origin (client_ip.py:41-43),
\* unless it is a proxy itself, whatever it wrote into the header.
THEOREM ClientIsFound ==
  ASSUME NEW origin \in Origin, origin.client \notin Trusted
  PROVE  ResolveClientIp(Peer(origin), Hops(origin)) = origin.client
<1> DEFINE v == origin.via
           n == Len(origin.wrote) + 1
           hops == Hops(origin)
           untrusted == {i \in DOMAIN hops : hops[i] \notin Trusted}
<1>1. /\ v \in Seq(Trusted) /\ origin.client \in Addresses /\ Len(v) \in Nat
      /\ origin.wrote \in Seq(Addresses) /\ Trusted \subseteq Addresses
  <2>1. Trusted \subseteq Addresses /\ v \in Seq(Trusted)
    BY AdmissionAssumption DEF Origin
  <2>2. origin.client \in Addresses /\ origin.wrote \in Seq(Addresses)
    BY DEF Origin
  <2>3. Len(v) \in Nat
    <3> HIDE DEF v
    <3> QED BY <2>1
  <2> QED BY <2>1, <2>2, <2>3
<1>2. CASE Len(v) = 0
  <2>1. Peer(origin) = origin.client
    BY <1>1, <1>2 DEF Peer, SeenFrom
  <2> QED BY <2>1 DEF ResolveClientIp
<1>3. CASE Len(v) > 0
  <2>1. /\ hops \in Seq(Addresses) /\ n \in DOMAIN hops /\ hops[n] = origin.client
        /\ \A i \in DOMAIN hops : i > n => hops[i] \in Trusted
        /\ Peer(origin) \in Trusted
    BY <1>1, <1>3, ReportedHops DEF Peer, Hops, SeenFrom
  <2> HIDE DEF hops, n
  <2>2. n \in untrusted /\ DOMAIN hops \subseteq Nat /\ hops # <<>>
    BY <2>1
  <2>3. ASSUME NEW i \in untrusted PROVE i \in Nat /\ i <= n
    <3>1. i \in DOMAIN hops /\ i \in Nat /\ hops[i] \notin Trusted
      BY <2>2
    <3>2. n \in Nat
      BY <2>1, <2>2
    <3>3. ~(i > n)
      BY <2>1, <3>1
    <3> QED BY <3>1, <3>2, <3>3
  <2>4. \A i \in untrusted : (\A j \in untrusted : j <= i) <=> i = n
    BY <2>2, <2>3
  <2>5. (CHOOSE i \in untrusted : \A j \in untrusted : j <= i) = n
    <3> HIDE DEF untrusted
    <3> QED BY <2>2, <2>4
  <2>6. ResolveClientIp(Peer(origin), hops)
          = hops[CHOOSE i \in untrusted : \A j \in untrusted : j <= i]
    BY <2>1, <2>2 DEF ResolveClientIp
  <2> QED BY <2>1, <2>5, <2>6 DEF hops
<1> QED BY <1>1, <1>2, <1>3

-----------------------------------------------------------------------------
(* Answers                                                                 *)

LEMMA ErrorFacts ==
  /\ {"AuthenticationRequired", "InvalidSession", "SessionExpired", "CsrfValidation",
      "Forbidden", "NotFound", "DatabaseError", "RateLimitExceeded"} \subseteq DOMAIN Statuses
  /\ Statuses["RateLimitExceeded"] = 429
  /\ \A e \in {"AuthenticationRequired", "InvalidSession", "SessionExpired", "CsrfValidation",
               "Forbidden", "NotFound", "DatabaseError"} : Statuses[e] # 429
BY DEF Statuses

LEMMA AnswerFacts ==
  /\ NoAnswer \in Answers /\ NoAnswer.status # 429
  /\ Done \in Answers /\ Done.status # 429
  /\ Uncaught("InterfaceError", "none") \in Answers
  /\ Uncaught("InterfaceError", "none").status # 429
  /\ \A e \in DOMAIN Statuses, d \in Details :
       Failed(e, d) \in Answers /\ Failed(e, d).status = Statuses[e]
<1>1. NoAnswer \in Answers /\ NoAnswer.status # 429 /\ Done \in Answers /\ Done.status # 429
  BY DEF NoAnswer, Done, Answers, Details
<1>2. /\ Uncaught("InterfaceError", "none") \in Answers
      /\ Uncaught("InterfaceError", "none").status # 429
  BY DEF Uncaught, Answers, Details
<1>3. ASSUME NEW e \in DOMAIN Statuses, NEW d \in Details
      PROVE  Failed(e, d) \in Answers /\ Failed(e, d).status = Statuses[e]
  BY <1>3 DEF Failed, Answers
<1> QED BY <1>1, <1>2, <1>3

\* The limiter's answers, at the middleware and at the route, are 429s.
LEMMA DenialFacts ==
  ASSUME NEW d \in Details
  PROVE  /\ InlineDenial("RateLimitExceeded", d) \in Answers
         /\ InlineDenial("RateLimitExceeded", d).status = 429
         /\ Failed("RateLimitExceeded", d) \in Answers
         /\ Failed("RateLimitExceeded", d).status = 429
BY ErrorFacts, AnswerFacts DEF InlineDenial

LEMMA EditFacts ==
  ASSUME NEW policy, NEW p, NEW item
  PROVE  EditAnswer(policy, p, item) \in Answers /\ EditAnswer(policy, p, item).status # 429
<1>1. {"none", "denied"} \subseteq Details
  BY DEF Details
<1> QED BY <1>1, ErrorFacts, AnswerFacts DEF EditAnswer

\* An item of another tenant is answered like a missing one, whatever the
\* policy allows.
LEMMA ForeignAnswer ==
  ASSUME NEW policy, NEW p, NEW item \in DOMAIN DemoItems,
         DemoItems[item].tenant # p.tenant
  PROVE  EditAnswer(policy, p, item) = Failed("NotFound", "none")
<1>1. DemoItems[item].tenant # Null
  BY AdmissionAssumption
<1>2. CrossTenant(ItemContext(p, item))
  BY <1>1 DEF CrossTenant, ItemContext, Context
<1>3. Enforce(policy, ItemContext(p, item)) = "cross_tenant"
  BY <1>2 DEF Enforce
<1> QED BY <1>3 DEF EditAnswer

-----------------------------------------------------------------------------
(* The invariant                                                           *)

LEMMA VersionFacts == Versions \subseteq Nat /\ 1 \in Versions /\ 0 \notin Versions
<1>1. Policies \in Seq(SUBSET PolicyRule) /\ Policies # <<>>
  BY AdmissionAssumption
<1>2. Versions = 1..Len(Policies) /\ Len(Policies) \in Nat /\ Len(Policies) # 0
  BY <1>1 DEF Versions
<1> QED BY <1>2

LEMMA ServiceFacts ==
  ASSUME TypeOK
  PROVE  /\ Startup \in Services /\ Null \notin Services /\ Requests \subseteq Services
         /\ Startup \notin Requests
         /\ \A s \in Services : enforcer[s] \in Nat /\ enforcer[s] \in {0} \cup Versions
         /\ file \in Nat /\ file # 0 /\ file \in Versions
<1>1. Startup \notin Requests /\ Null \notin Requests \cup {Startup}
  BY AdmissionAssumption
<1>2. /\ Startup \in Services /\ Null \notin Services /\ Requests \subseteq Services
      /\ Startup \notin Requests
  BY <1>1 DEF Services
<1>3. \A s \in Services : enforcer[s] \in {0} \cup Versions
  BY DEF TypeOK
<1>4. file \in Versions
  BY DEF TypeOK
<1>5. Versions \subseteq Nat /\ 0 \notin Versions
  BY VersionFacts
<1>6. {0} \cup Versions \subseteq Nat
  BY <1>5
<1>7. \A s \in Services : enforcer[s] \in Nat
  BY <1>3, <1>6
<1>8. file \in Nat /\ file # 0
  BY <1>4, <1>5
<1> QED BY <1>2, <1>3, <1>4, <1>7, <1>8

LEMMA CountFacts == MaxCount \in Nat /\ 0 \in 0..MaxCount
<1>1. MaxCount \in Nat
  BY AdmissionAssumption
<1> QED BY <1>1

LEMMA InitAdmission == Init => AdmissionInvariant
<1> SUFFICES ASSUME Init PROVE AdmissionInvariant
  OBVIOUS
<1>1. PICK origin \in Origins :
        req = [r \in Requests |-> Blank("idle", "health", FALSE, origin.client)]
  BY DEF Init
<1>2. origin.client \in Addresses
  BY <1>1, AdmissionAssumption DEF Origin
<1>3. Blank("idle", "health", FALSE, origin.client) \in Request
  BY <1>2, AnswerFacts DEF Blank, Request, Routes
<1>4. 1 \in Versions /\ 0 \in 0..MaxCount
  BY CountFacts, VersionFacts
<1>5. service \in Services \cup {Null} /\ enforcer \in [Services -> {0} \cup Versions]
  BY <1>4 DEF Init, Services
<1>6. TypeOK
  BY <1>1, <1>3, <1>4, <1>5 DEF Init, TypeOK
<1>7. ServicesLoaded
  BY <1>6, ServiceFacts DEF Init, ServicesLoaded
<1>8. ASSUME NEW r \in Requests PROVE Kept(r, req[r])
  <2>1. /\ req[r].at = "idle" /\ req[r].bucket = Null /\ req[r].principal = Null
        /\ req[r].service = Null /\ req[r].verdict = "none" /\ req[r].item = Null
        /\ ~req[r].charged /\ req[r].since = 0 /\ req[r].version = 0
    BY <1>1 DEF Blank
  <2>2. Startup \in Services /\ enforcer[Startup] \in Nat
    BY <1>6, ServiceFacts
  <2> QED BY <2>1, <2>2 DEF Kept, Formed
<1> QED BY <1>6, <1>7, <1>8 DEF AdmissionInvariant

\* A step that only replaces the record of one request by a well-formed one.
LEMMA OneRequestMoves ==
  ASSUME AdmissionInvariant, NEW r \in Requests, NEW q \in Request, Becomes(r, q), Kept(r, q),
         counter' \in [Keys -> 0..MaxCount],
         file' = file, enforcer' = enforcer, service' = service
  PROVE  AdmissionInvariant'
<1>1. TypeOK' /\ ServicesLoaded'
  BY DEF AdmissionInvariant, TypeOK, ServicesLoaded, Becomes
<1>2. req' = [req EXCEPT ![r] = q] /\ req \in [Requests -> Request]
  BY DEF AdmissionInvariant, TypeOK, Becomes
<1>3. ASSUME NEW s \in Requests PROVE Kept(s, req[s])'
  <2>1. Kept(s, req'[s])
    BY <1>2 DEF AdmissionInvariant
  <2> QED BY <2>1 DEF Kept, Formed
<1> QED BY <1>1, <1>3 DEF AdmissionInvariant

\* The counters stay within their bound.
LEMMA CountersBounded ==
  ASSUME TypeOK, NEW k \in Keys
  PROVE  /\ counter[k] < MaxCount /\ Count(k) => counter' \in [Keys -> 0..MaxCount]
         /\ MayCount(k) => counter' \in [Keys -> 0..MaxCount]
<1>1. /\ counter \in [Keys -> 0..MaxCount] /\ MaxCount \in Nat
  BY CountFacts DEF TypeOK
<1>2. counter[k] < MaxCount => counter[k] + 1 \in 0..MaxCount
  BY <1>1
<1> QED BY <1>1, <1>2 DEF Count, MayCount

LEMMA ArriveKeeps ==
  ASSUME AdmissionInvariant, NEW r \in Requests, Arrive(r)
  PROVE  AdmissionInvariant'
<1>1. PICK route \in Routes, csrf \in BOOLEAN, origin \in Origins :
        LET fresh == Blank("router", route, csrf, origin.client) IN
        Becomes(r, IF Limited(route)
                     THEN [fresh EXCEPT !.at = "ceiling",
                             !.bucket = ResolveClientIp(Peer(origin), Hops(origin))]
                     ELSE fresh)
  BY DEF Arrive
<1> DEFINE fresh == Blank("router", route, csrf, origin.client)
           address == ResolveClientIp(Peer(origin), Hops(origin))
           q == IF Limited(route)
                  THEN [fresh EXCEPT !.at = "ceiling", !.bucket = address] ELSE fresh
<1>2. origin \in Origin /\ origin.client \in Addresses /\ Null \notin Addresses
  BY AdmissionAssumption DEF Origin
<1>3. address \in Addresses
  BY <1>2, AddressResolved
<1>4. /\ InForce \in {0} \cup Versions
      /\ enforcer[Startup] # 0 => InForce <= enforcer[Startup]
  BY ServiceFacts DEF AdmissionInvariant, TypeOK, ServicesLoaded, InForce
<1>5. fresh \in Request
  BY <1>2, <1>4, AnswerFacts DEF Blank, Request, Routes
<1>6. q \in Request
  <2> HIDE DEF fresh, address
  <2>1. [fresh EXCEPT !.at = "ceiling", !.bucket = address] \in Request
    BY <1>3, <1>5 DEF Request
  <2> QED BY <1>5, <2>1
<1>7. Startup \in Services /\ enforcer[Startup] \in Nat
  BY ServiceFacts DEF AdmissionInvariant
<1>8. /\ q.at \in {"ceiling", "router"} /\ (q.at = "ceiling" => Limited(q.route))
      /\ (q.at = "ceiling" => q.bucket = address) /\ (q.at = "router" => q.bucket = Null)
      /\ q.client = origin.client /\ q.principal = Null /\ q.service = Null
      /\ q.verdict = "none" /\ q.item = Null /\ ~q.charged /\ q.version = 0
      /\ (q.since = 0 \/ q.since = InForce)
  BY DEF Blank
<1> HIDE DEF q, fresh, address
<1>9. q.bucket # Null /\ q.client \notin Trusted => q.bucket = q.client
  BY <1>2, <1>8, ClientIsFound DEF address
<1>10. Kept(r, q)
  BY <1>2, <1>3, <1>4, <1>7, <1>8, <1>9 DEF Kept, Formed
<1>11. Becomes(r, q)
  BY <1>1 DEF q, fresh, address
<1>12. counter' = counter /\ file' = file /\ enforcer' = enforcer /\ service' = service
  BY DEF Arrive
<1> QED BY <1>6, <1>10, <1>11, <1>12, OneRequestMoves DEF AdmissionInvariant, TypeOK

\* What the current record of a request is known to satisfy.
LEMMA RequestFacts ==
  ASSUME AdmissionInvariant, NEW r \in Requests
  PROVE  /\ req[r] \in Request /\ Kept(r, req[r])
         /\ TypeOK /\ ServicesLoaded
         /\ counter \in [Keys -> 0..MaxCount]
         /\ enforcer[Startup] \in Nat /\ req[r].since \in Nat /\ req[r].version \in Nat
<1>1. req[r] \in Request /\ Kept(r, req[r]) /\ TypeOK /\ ServicesLoaded
  BY DEF AdmissionInvariant, TypeOK
<1>2. req[r].since \in {0} \cup Versions /\ req[r].version \in {0} \cup Versions
  BY <1>1 DEF Request
<1>3. {0} \cup Versions \subseteq Nat
  BY VersionFacts
<1> QED BY <1>1, <1>2, <1>3, ServiceFacts DEF TypeOK

\* The records of answered requests.
LEMMA AnswerRecord ==
  ASSUME NEW r \in Requests, req[r] \in Request, NEW answer \in Answers
  PROVE  LET q == Answer(r, answer)
         IN  /\ q \in Request /\ q.at = "answered" /\ q.answer = answer /\ q.service = Null
             /\ q.bucket = req[r].bucket
             /\ q.verdict = req[r].verdict /\ q.charged = req[r].charged
             /\ q.item = req[r].item /\ q.csrf = req[r].csrf /\ q.route = req[r].route
             /\ q.client = req[r].client /\ q.principal = req[r].principal
             /\ q.since = req[r].since /\ q.version = req[r].version
BY DEF Answer, Request

LEMMA LimiterAnswerRecord ==
  ASSUME NEW r \in Requests, req[r] \in Request, NEW answer \in Answers,
         NEW verdict \in {"none", "passed", "denied"}, NEW charged \in BOOLEAN
  PROVE  LET q == LimiterAnswer(r, answer, verdict, charged)
         IN  /\ q \in Request /\ q.at = "answered" /\ q.answer = answer
             /\ q.bucket = Null /\ q.service = req[r].service
             /\ q.verdict = verdict /\ q.charged = charged
             /\ q.item = req[r].item /\ q.csrf = req[r].csrf /\ q.route = req[r].route
             /\ q.client = req[r].client /\ q.principal = req[r].principal
             /\ q.since = req[r].since /\ q.version = req[r].version
<1> DEFINE q == LimiterAnswer(r, answer, verdict, charged)
<1>1. q \in Request
  BY DEF LimiterAnswer, Request
<1>2. /\ q.at = "answered" /\ q.answer = answer
      /\ q.bucket = Null /\ q.service = req[r].service
      /\ q.verdict = verdict /\ q.charged = charged
  BY DEF LimiterAnswer, Request
<1>3. /\ q.item = req[r].item /\ q.csrf = req[r].csrf /\ q.route = req[r].route
      /\ q.client = req[r].client /\ q.principal = req[r].principal
      /\ q.since = req[r].since /\ q.version = req[r].version
  BY DEF LimiterAnswer, Request
<1> QED BY <1>1, <1>2, <1>3

LEMMA ItemAnswerRecord ==
  ASSUME NEW r \in Requests, req[r] \in Request, NEW answer \in Answers,
         NEW item \in Items, NEW version \in Versions
  PROVE  LET q == ItemAnswer(r, answer, item, version)
         IN  /\ q \in Request /\ q.at = "answered" /\ q.answer = answer
             /\ q.bucket = req[r].bucket /\ q.service = Null
             /\ q.verdict = req[r].verdict /\ q.charged = req[r].charged
             /\ q.item = item /\ q.csrf = req[r].csrf /\ q.route = req[r].route
             /\ q.client = req[r].client /\ q.principal = req[r].principal
             /\ q.since = req[r].since /\ q.version = version
BY DEF ItemAnswer, Request

\* An answer that is not about an item is well formed.
LEMMA AnsweredKept ==
  ASSUME AdmissionInvariant, NEW r \in Requests, NEW q \in Request,
         q.at = "answered", q.bucket = Null, q.service = Null, q.item = Null, q.version = 0,
         q.answer.status = 429 <=> q.verdict = "denied",
         q.answer.status = 429 => q.route # "health",
         q.csrf = req[r].csrf, q.principal = req[r].principal, q.since = req[r].since,
         q.charged => q.csrf
  PROVE  Kept(r, q)
<1>1. Kept(r, req[r]) /\ TypeOK
  BY RequestFacts
<1>2. Formed(r, q)
  BY <1>1 DEF Kept, Formed
<1> QED BY <1>1, <1>2 DEF Kept

LEMMA PlainAnswerKeeps ==
  ASSUME AdmissionInvariant, NEW r \in Requests, NEW answer \in Answers,
         answer.status # 429, req[r].at \notin {"answered", "ceiling"},
         Becomes(r, Answer(r, answer)), UNCHANGED <<counter, file, enforcer, service>>
  PROVE  AdmissionInvariant'
<1>1. req[r] \in Request /\ Kept(r, req[r]) /\ counter' \in [Keys -> 0..MaxCount]
  BY RequestFacts
<1>2. /\ req[r].verdict # "denied" /\ ~req[r].charged /\ req[r].item = Null
      /\ req[r].bucket = Null /\ req[r].version = 0
  BY <1>1 DEF Kept, Formed
<1> DEFINE q == Answer(r, answer)
<1>3. /\ q \in Request /\ q.at = "answered" /\ q.answer = answer /\ q.service = Null
      /\ q.bucket = req[r].bucket /\ q.verdict = req[r].verdict
      /\ q.charged = req[r].charged /\ q.item = req[r].item /\ q.csrf = req[r].csrf
      /\ q.principal = req[r].principal /\ q.since = req[r].since
      /\ q.version = req[r].version
  BY <1>1, AnswerRecord
<1> HIDE DEF q
<1>4. Kept(r, q)
  BY <1>2, <1>3, AnsweredKept
<1>5. Becomes(r, q)
  BY DEF q
<1> QED BY <1>1, <1>3, <1>4, <1>5, OneRequestMoves

LEMMA LimiterAnswerKeeps ==
  ASSUME AdmissionInvariant, NEW r \in Requests, NEW answer \in Answers,
         NEW verdict \in {"none", "passed", "denied"}, NEW charged \in BOOLEAN,
         answer.status = 429 <=> verdict = "denied",
         req[r].at \in {"ceiling", "quota"}, charged => req[r].at = "quota",
         Becomes(r, LimiterAnswer(r, answer, verdict, charged)),
         counter' \in [Keys -> 0..MaxCount], UNCHANGED <<file, enforcer, service>>
  PROVE  AdmissionInvariant'
<1>1. req[r] \in Request /\ Kept(r, req[r])
  BY RequestFacts
<1>2. /\ req[r].item = Null /\ req[r].service = Null /\ req[r].version = 0
      /\ req[r].route # "health" /\ (charged => req[r].csrf)
  BY <1>1 DEF Kept, Formed, Limited
<1> DEFINE q == LimiterAnswer(r, answer, verdict, charged)
<1>3. /\ q \in Request /\ q.at = "answered" /\ q.answer = answer
      /\ q.bucket = Null /\ q.service = req[r].service
      /\ q.verdict = verdict /\ q.charged = charged /\ q.item = req[r].item
      /\ q.csrf = req[r].csrf /\ q.route = req[r].route
      /\ q.principal = req[r].principal /\ q.since = req[r].since
      /\ q.version = req[r].version
  BY <1>1, LimiterAnswerRecord
<1> HIDE DEF q
<1>4. Kept(r, q)
  BY <1>2, <1>3, AnsweredKept
<1>5. Becomes(r, q)
  BY DEF q
<1> QED BY <1>3, <1>4, <1>5, OneRequestMoves

\* The keys a request is counted under.
LEMMA KeyFacts ==
  ASSUME AdmissionInvariant, NEW r \in Requests
  PROVE  /\ req[r].at = "ceiling" => CeilingKey(r) \in Keys
         /\ req[r].at = "quota" => UserKey(r) \in Keys
<1>1. req[r] \in Request /\ Kept(r, req[r])
  BY RequestFacts
<1>2. ASSUME req[r].at = "ceiling" PROVE CeilingKey(r) \in Keys
  <2>1. req[r].bucket \in Addresses
    BY <1>1, <1>2 DEF Kept, Formed, Request
  <2> QED BY <2>1 DEF CeilingKey, Keys
<1>3. ASSUME req[r].at = "quota" PROVE UserKey(r) \in Keys
  <2>1. req[r].principal \in Principals
    BY <1>1, <1>3 DEF Kept, Formed, Request
  <2> QED BY <2>1 DEF UserKey, Keys
<1> QED BY <1>2, <1>3

\* The middleware lets a request pass.
LEMMA CeilingPasses ==
  ASSUME AdmissionInvariant, NEW r \in Requests, req[r].at = "ceiling",
         Becomes(r, [req[r] EXCEPT !.at = "router", !.bucket = Null, !.verdict = "passed"]),
         counter' \in [Keys -> 0..MaxCount], UNCHANGED <<file, enforcer, service>>
  PROVE  AdmissionInvariant'
<1> DEFINE q == [req[r] EXCEPT !.at = "router", !.bucket = Null, !.verdict = "passed"]
<1>1. req[r] \in Request /\ Kept(r, req[r])
  BY RequestFacts
<1>2. /\ q \in Request /\ q.at = "router" /\ q.bucket = Null /\ q.verdict = "passed"
      /\ q.service = req[r].service /\ q.charged = req[r].charged /\ q.item = req[r].item
      /\ q.csrf = req[r].csrf /\ q.principal = req[r].principal
      /\ q.since = req[r].since /\ q.version = req[r].version
  BY <1>1 DEF Request
<1> HIDE DEF q
<1>3. Kept(r, q)
  BY <1>1, <1>2 DEF Kept, Formed
<1>4. Becomes(r, q)
  BY DEF q
<1> QED BY <1>2, <1>3, <1>4, OneRequestMoves

LEMMA CeilingKeeps ==
  ASSUME AdmissionInvariant, NEW r \in Requests, Ceiling(r) \/ CeilingFails(r)
  PROVE  AdmissionInvariant'
<1>1. /\ req[r].at = "ceiling" /\ CeilingKey(r) \in Keys
      /\ UNCHANGED <<file, enforcer, service>>
  BY KeyFacts DEF Ceiling, CeilingFails
<1>2. counter' \in [Keys -> 0..MaxCount]
  BY <1>1, CountersBounded DEF AdmissionInvariant, Ceiling, CeilingFails
<1>3. {"rule", "unavailable"} \subseteq Details
  BY DEF Details
<1>4. \/ Becomes(r, [req[r] EXCEPT !.at = "router", !.bucket = Null, !.verdict = "passed"])
      \/ \E details \in {"rule", "unavailable"} :
           Becomes(r, LimiterAnswer(r, InlineDenial("RateLimitExceeded", details),
                                    "denied", FALSE))
  BY DEF Ceiling, CeilingFails
<1>5. CASE Becomes(r, [req[r] EXCEPT !.at = "router", !.bucket = Null,
                                     !.verdict = "passed"])
  BY <1>1, <1>2, <1>5, CeilingPasses
<1>6. ASSUME NEW details \in {"rule", "unavailable"},
             Becomes(r, LimiterAnswer(r, InlineDenial("RateLimitExceeded", details),
                                      "denied", FALSE))
      PROVE  AdmissionInvariant'
  <2>1. /\ InlineDenial("RateLimitExceeded", details) \in Answers
        /\ InlineDenial("RateLimitExceeded", details).status = 429
    BY <1>3, DenialFacts
  <2> QED BY <1>1, <1>2, <1>6, <2>1, LimiterAnswerKeeps
<1> QED BY <1>4, <1>5, <1>6

LEMMA QuotaKeeps ==
  ASSUME AdmissionInvariant, NEW r \in Requests, Quota(r) \/ QuotaFails(r)
  PROVE  AdmissionInvariant'
<1>1. req[r].at = "quota" /\ UserKey(r) \in Keys /\ UNCHANGED <<file, enforcer, service>>
  BY KeyFacts DEF Quota, QuotaFails
<1>2. counter' \in [Keys -> 0..MaxCount]
  BY <1>1, CountersBounded DEF AdmissionInvariant, Quota, QuotaFails
<1>3. {"rule", "unavailable"} \subseteq Details
  BY DEF Details
<1>4. \E charged \in BOOLEAN :
        \/ Becomes(r, LimiterAnswer(r, Done, "passed", charged))
        \/ \E details \in {"rule", "unavailable"} :
             Becomes(r, LimiterAnswer(r, Failed("RateLimitExceeded", details),
                                      "denied", charged))
  <2>1. CASE Quota(r)
    BY <2>1 DEF Quota
  <2>2. CASE QuotaFails(r)
    BY <2>2 DEF QuotaFails
  <2> QED BY <2>1, <2>2
<1>5. ASSUME NEW charged \in BOOLEAN, Becomes(r, LimiterAnswer(r, Done, "passed", charged))
      PROVE  AdmissionInvariant'
  BY <1>1, <1>2, <1>5, AnswerFacts, LimiterAnswerKeeps
<1>6. ASSUME NEW charged \in BOOLEAN, NEW details \in {"rule", "unavailable"},
             Becomes(r, LimiterAnswer(r, Failed("RateLimitExceeded", details),
                                      "denied", charged))
      PROVE  AdmissionInvariant'
  <2>1. /\ Failed("RateLimitExceeded", details) \in Answers
        /\ Failed("RateLimitExceeded", details).status = 429
    BY <1>3, DenialFacts
  <2> QED BY <1>1, <1>2, <1>6, <2>1, LimiterAnswerKeeps
<1> QED BY <1>4, <1>5, <1>6

LEMMA ProbeKeeps ==
  ASSUME AdmissionInvariant, NEW r \in Requests, Probe(r)
  PROVE  AdmissionInvariant'
BY AnswerFacts, PlainAnswerKeeps DEF Probe

\* A request goes on past the CSRF check.
LEMMA CsrfPasses ==
  ASSUME AdmissionInvariant, NEW r \in Requests, req[r].at = "router",
         req[r].csrf, req[r].route # "health",
         Becomes(r, [req[r] EXCEPT !.at = "principal"]),
         UNCHANGED <<counter, file, enforcer, service>>
  PROVE  AdmissionInvariant'
<1> DEFINE q == [req[r] EXCEPT !.at = "principal"]
<1>1. req[r] \in Request /\ Kept(r, req[r]) /\ counter' \in [Keys -> 0..MaxCount]
  BY RequestFacts
<1>2. /\ q \in Request /\ q.at = "principal" /\ q.bucket = req[r].bucket
      /\ q.verdict = req[r].verdict /\ q.route = req[r].route
      /\ q.service = req[r].service /\ q.charged = req[r].charged /\ q.item = req[r].item
      /\ q.csrf = req[r].csrf /\ q.principal = req[r].principal
      /\ q.since = req[r].since /\ q.version = req[r].version
  BY <1>1 DEF Request
<1> HIDE DEF q
<1>3. Kept(r, q)
  BY <1>1, <1>2 DEF Kept, Formed
<1>4. Becomes(r, q)
  BY DEF q
<1> QED BY <1>1, <1>2, <1>3, <1>4, OneRequestMoves

LEMMA VerifyCsrfKeeps ==
  ASSUME AdmissionInvariant, NEW r \in Requests, VerifyCsrf(r)
  PROVE  AdmissionInvariant'
<1>1. /\ req[r].at = "router" /\ req[r].route # "health"
      /\ UNCHANGED <<counter, file, enforcer, service>>
  BY DEF VerifyCsrf
<1>2. CASE req[r].csrf
  <2>1. Becomes(r, [req[r] EXCEPT !.at = "principal"])
    BY <1>2 DEF VerifyCsrf
  <2> QED BY <1>1, <1>2, <2>1, CsrfPasses
<1>3. CASE ~req[r].csrf
  <2>1. "none" \in Details /\ "CsrfValidation" \in DOMAIN Statuses
    BY ErrorFacts DEF Details
  <2>2. /\ Failed("CsrfValidation", "none") \in Answers
        /\ Failed("CsrfValidation", "none").status # 429
    BY <2>1, ErrorFacts, AnswerFacts
  <2>3. Becomes(r, Answer(r, Failed("CsrfValidation", "none")))
    BY <1>3 DEF VerifyCsrf
  <2> QED BY <1>1, <2>2, <2>3, PlainAnswerKeeps
<1> QED BY <1>2, <1>3

LEMMA AuthenticateKeeps ==
  ASSUME AdmissionInvariant, NEW r \in Requests, Authenticate(r)
  PROVE  AdmissionInvariant'
<1>1. PICK p \in Principals : Becomes(r, AfterPrincipal(r, p))
  BY DEF Authenticate
<1>2. /\ req[r].at = "principal" /\ UNCHANGED <<counter, file, enforcer, service>>
  BY DEF Authenticate
<1>3. req[r] \in Request /\ Kept(r, req[r]) /\ counter' \in [Keys -> 0..MaxCount]
  BY <1>2, RequestFacts
<1>4. req[r].csrf
  BY <1>2, <1>3 DEF Kept, Formed
<1> DEFINE q == AfterPrincipal(r, p)
<1>5. /\ q \in Request /\ q.at \in {"provider", "quota", "answered"}
      /\ (q.at = "quota" => q.route = "limited") /\ q.principal = p
      /\ q.bucket = req[r].bucket /\ q.service = req[r].service
      /\ q.verdict = req[r].verdict /\ q.route = req[r].route
      /\ q.charged = req[r].charged /\ q.item = req[r].item
      /\ q.csrf = req[r].csrf /\ q.since = req[r].since /\ q.version = req[r].version
      /\ (q.at = "answered" => q.answer.status # 429)
  <2>1. Done \in Answers /\ NoAnswer \in Answers /\ Done.status # 429
    BY AnswerFacts
  <2> DEFINE next == IF req[r].route # "limited" THEN "provider"
                     ELSE IF Limited("limited") THEN "quota" ELSE "answered"
             answer == IF next = "answered" THEN Done ELSE NoAnswer
  <2>2. /\ next \in {"provider", "quota", "answered"} /\ answer \in Answers
        /\ next = "quota" => req[r].route = "limited"
        /\ next = "answered" => answer.status # 429
    BY <2>1
  <2>3. q = [req[r] EXCEPT !.at = next, !.principal = p, !.answer = answer]
    BY Zenon DEF AfterPrincipal
  <2> HIDE DEF q, next, answer
  <2>4. PICK at \in {"provider", "quota", "answered"}, x \in Answers :
             at = next /\ x = answer
    BY <2>2
  <2>5. q = [req[r] EXCEPT !.at = at, !.principal = p, !.answer = x]
    BY <2>3, <2>4, Zenon
  <2>6. [req[r] EXCEPT !.at = at, !.principal = p, !.answer = x] \in Request
    BY <1>3 DEF Request
  <2> QED BY <1>3, <2>2, <2>4, <2>5, <2>6 DEF Request
<1>6. p # Null
  BY AdmissionAssumption
<1> HIDE DEF q
<1>7. Formed(r, q)
  BY <1>2, <1>3, <1>5, <1>6 DEF Kept, Formed
<1>8. Kept(r, q)
  BY <1>2, <1>3, <1>4, <1>5, <1>7 DEF Kept, Formed
<1>9. Becomes(r, q)
  BY <1>1 DEF q
<1> QED BY <1>2, <1>3, <1>5, <1>8, <1>9, OneRequestMoves

LEMMA AuthenticateFailsKeeps ==
  ASSUME AdmissionInvariant, NEW r \in Requests, AuthenticateFails(r)
  PROVE  AdmissionInvariant'
<1> DEFINE errors == {"AuthenticationRequired", "InvalidSession", "SessionExpired",
                      "DatabaseError"}
<1>1. PICK answer \in {Uncaught("InterfaceError", "none")}
                        \cup {Failed(error, "none") : error \in errors} :
        Becomes(r, Answer(r, answer))
  BY DEF AuthenticateFails
<1>2. req[r].at = "principal" /\ UNCHANGED <<counter, file, enforcer, service>>
  BY DEF AuthenticateFails
<1>3. "none" \in Details
  BY DEF Details
<1>4. answer \in Answers /\ answer.status # 429
  <2>1. CASE answer = Uncaught("InterfaceError", "none")
    BY <2>1, AnswerFacts
  <2>2. ASSUME NEW error \in errors, answer = Failed(error, "none")
        PROVE  answer \in Answers /\ answer.status # 429
    <3>1. error \in DOMAIN Statuses /\ Statuses[error] # 429
      BY ErrorFacts
    <3>2. Failed(error, "none") \in Answers /\ Failed(error, "none").status = Statuses[error]
      BY <1>3, <3>1, AnswerFacts
    <3> QED BY <2>2, <3>1, <3>2
  <2> QED BY <1>1, <2>1, <2>2
<1> QED BY <1>1, <1>2, <1>4, PlainAnswerKeeps

LEMMA LoadPolicyFailsKeeps ==
  ASSUME AdmissionInvariant, NEW r \in Requests, LoadPolicyFails(r)
  PROVE  AdmissionInvariant'
<1> DEFINE answer == Uncaught("PolicyError", "none")
<1>1. /\ req[r].at = "building" /\ UNCHANGED <<counter, file, enforcer, service>>
      /\ Becomes(r, Answer(r, answer))
  BY DEF LoadPolicyFails
<1>2. answer \in Answers /\ answer.status # 429
  BY AnswerFacts DEF Uncaught
<1> HIDE DEF answer
<1> QED BY <1>1, <1>2, PlainAnswerKeeps

LEMMA GateKeeps ==
  ASSUME AdmissionInvariant, NEW r \in Requests, Gate(r)
  PROVE  AdmissionInvariant'
<1>1. req[r].at = "handler" /\ UNCHANGED <<counter, file, enforcer, service>>
  BY DEF Gate
<1>2. "missing_scope" \in Details /\ "Forbidden" \in DOMAIN Statuses
  BY ErrorFacts DEF Details
<1>3. /\ Failed("Forbidden", "missing_scope") \in Answers
      /\ Failed("Forbidden", "missing_scope").status # 429
  BY <1>2, ErrorFacts, AnswerFacts
<1>4. \/ Becomes(r, Answer(r, Done))
      \/ Becomes(r, Answer(r, Failed("Forbidden", "missing_scope")))
  BY DEF Gate
<1> QED BY <1>1, <1>3, <1>4, AnswerFacts, PlainAnswerKeeps

LEMMA EditKeeps ==
  ASSUME AdmissionInvariant, NEW r \in Requests, Edit(r)
  PROVE  AdmissionInvariant'
<1> DEFINE version == enforcer[req[r].service]
<1>1. PICK item \in Items :
        Becomes(r, ItemAnswer(r, EditAnswer(Policies[version], req[r].principal, item),
                              item, version))
  BY DEF Edit
<1>2. req[r].at = "handler" /\ UNCHANGED <<counter, file, enforcer, service>>
  BY DEF Edit
<1>3. /\ req[r] \in Request /\ Kept(r, req[r]) /\ TypeOK /\ ServicesLoaded
      /\ counter' \in [Keys -> 0..MaxCount] /\ enforcer[Startup] \in Nat
      /\ req[r].since \in Nat
  BY <1>2, RequestFacts
<1>4. /\ req[r].service \in Services /\ version # 0 /\ req[r].principal # Null
      /\ req[r].verdict # "denied" /\ req[r].bucket = Null /\ ~req[r].charged
      /\ (enforcer[Startup] # 0 =>
            version = enforcer[Startup] /\ req[r].since <= enforcer[Startup])
      /\ req[r].csrf
  BY <1>2, <1>3 DEF Kept, Formed, Request
<1>5. version \in Versions /\ version \in Nat
  BY <1>3, <1>4, ServiceFacts
<1> HIDE DEF version
<1> DEFINE answer == EditAnswer(Policies[version], req[r].principal, item)
           q == ItemAnswer(r, answer, item, version)
<1>6. answer \in Answers /\ answer.status # 429
  BY EditFacts
<1>7. /\ q \in Request /\ q.at = "answered" /\ q.answer = answer /\ q.bucket = req[r].bucket
      /\ q.service = Null /\ q.verdict = req[r].verdict /\ q.charged = req[r].charged
      /\ q.item = item /\ q.csrf = req[r].csrf /\ q.principal = req[r].principal
      /\ q.since = req[r].since /\ q.version = version
  <2> HIDE DEF answer
  <2> QED BY <1>3, <1>5, <1>6, ItemAnswerRecord
<1>8. q.answer = EditAnswer(Policies[q.version], q.principal, q.item)
  <2> HIDE DEF q
  <2> QED BY <1>7
<1> HIDE DEF q, answer
<1>9. Formed(r, q)
  BY <1>3, <1>4, <1>5, <1>7, <1>8 DEF Formed
<1>10. Kept(r, q)
  BY <1>3, <1>4, <1>5, <1>6, <1>7, <1>9 DEF Kept
<1>11. Becomes(r, q)
  BY <1>1 DEF q, answer
<1> QED BY <1>2, <1>3, <1>7, <1>10, <1>11, OneRequestMoves

\* A step that takes enforcers to later policies.
LEMMA PoliciesMove ==
  ASSUME AdmissionInvariant, TypeOK', ServicesLoaded',
         \A s \in Services : enforcer[s] <= enforcer'[s],
         enforcer'[Startup] = 0 <=> enforcer[Startup] = 0,
         \A s \in Requests : req'[s] = req[s] \/ Kept(s, req[s])'
  PROVE  AdmissionInvariant'
<1>1. TypeOK /\ Startup \in Services
      /\ \A s \in Services : enforcer[s] \in Nat /\ enforcer'[s] \in Nat
  <2>1. TypeOK
    BY DEF AdmissionInvariant
  <2>2. Startup \in Services /\ \A s \in Services : enforcer[s] \in Nat
    BY <2>1, ServiceFacts
  <2>3. \A s \in Services : enforcer'[s] \in {0} \cup Versions
    BY DEF TypeOK
  <2>4. {0} \cup Versions \subseteq Nat
    BY VersionFacts
  <2> QED BY <2>1, <2>2, <2>3, <2>4
<1>2. ASSUME NEW s \in Requests, req'[s] = req[s]
      PROVE  Kept(s, req[s])'
  <2>1. Kept(s, req[s]) /\ req[s] \in Request
    BY <1>1 DEF AdmissionInvariant, TypeOK
  <2>2. req[s].service \in Services \cup {Null} /\ req[s].since \in Nat /\ s \in Services
    <3>1. req[s].since \in {0} \cup Versions /\ {0} \cup Versions \subseteq Nat
      BY <2>1, VersionFacts DEF Request
    <3> QED BY <2>1, <3>1 DEF Request, Services
  <2>3. \A t \in Services : enforcer[t] # 0 => enforcer'[t] # 0
    BY <1>1
  <2>4. enforcer'[Startup] # 0 => req[s].since <= enforcer'[Startup]
    BY <1>1, <2>1, <2>2 DEF Kept, Formed
  <2>5. Formed(s, req[s])'
    BY <1>2, <2>1, <2>2, <2>3, <2>4 DEF Kept, Formed
  <2>6. Kept(s, req[s])'
    BY <1>2, <2>1, <2>5 DEF Kept
  <2> QED BY <2>6
<1> QED BY <1>2 DEF AdmissionInvariant

\* What a step of one request does to the records.
LEMMA RequestsTyped ==
  ASSUME TypeOK, NEW r \in Requests, NEW q \in Request, Becomes(r, q)
  PROVE  /\ req' \in [Requests -> Request] /\ req'[r] = q
         /\ \A s \in Requests : s # r => req'[s] = req[s]
BY DEF TypeOK, Becomes

LEMMA ProvideKeeps ==
  ASSUME AdmissionInvariant, NEW r \in Requests, Provide(r)
  PROVE  AdmissionInvariant'
<1>1. /\ req[r].at = "provider" /\ UNCHANGED <<counter, file, enforcer, service>>
      /\ req[r] \in Request /\ Kept(r, req[r]) /\ TypeOK /\ ServicesLoaded
      /\ counter' \in [Keys -> 0..MaxCount]
  BY RequestFacts DEF Provide
<1>2. CASE service # Null
  <2> DEFINE q == [req[r] EXCEPT !.at = "handler", !.service = service]
  <2>1. service \in Services
    BY <1>1, <1>2 DEF TypeOK
  <2>2. /\ q \in Request /\ q.at = "handler" /\ q.service = service
        /\ q.bucket = req[r].bucket /\ q.verdict = req[r].verdict
        /\ q.route = req[r].route /\ q.charged = req[r].charged /\ q.item = req[r].item
        /\ q.csrf = req[r].csrf /\ q.principal = req[r].principal
        /\ q.since = req[r].since /\ q.version = req[r].version
    BY <1>1, <2>1 DEF Request
  <2>3. Becomes(r, q)
    BY <1>2 DEF Provide
  <2> HIDE DEF q
  <2>4. Kept(r, q)
    BY <1>1, <1>2, <2>2 DEF Kept, Formed, ServicesLoaded
  <2> QED BY <1>1, <2>2, <2>3, <2>4, OneRequestMoves
<1>3. CASE service = Null
  <2> DEFINE q == [req[r] EXCEPT !.at = "building"]
  <2>1. /\ q \in Request /\ q.at = "building" /\ q.service = req[r].service
        /\ q.bucket = req[r].bucket /\ q.verdict = req[r].verdict
        /\ q.route = req[r].route /\ q.charged = req[r].charged /\ q.item = req[r].item
        /\ q.csrf = req[r].csrf /\ q.principal = req[r].principal
        /\ q.since = req[r].since /\ q.version = req[r].version
    BY <1>1 DEF Request
  <2>2. Becomes(r, q)
    BY <1>3 DEF Provide
  <2>3. enforcer[Startup] = 0
    <3>1. Startup # Null
      BY <1>1, ServiceFacts
    <3> QED BY <1>1, <1>3, <3>1 DEF ServicesLoaded
  <2> HIDE DEF q
  <2>4. Kept(r, q)
    BY <1>1, <2>1, <2>3 DEF Kept, Formed
  <2> QED BY <1>1, <2>1, <2>2, <2>4, OneRequestMoves
<1> QED BY <1>2, <1>3

LEMMA LoadPolicyKeeps ==
  ASSUME AdmissionInvariant, NEW r \in Requests, LoadPolicy(r)
  PROVE  AdmissionInvariant'
<1>1. /\ req[r].at = "building" /\ enforcer' = [enforcer EXCEPT ![r] = file]
      /\ UNCHANGED <<counter, file, service>>
      /\ req[r] \in Request /\ Kept(r, req[r]) /\ TypeOK /\ ServicesLoaded
  BY RequestFacts DEF LoadPolicy
<1>2. /\ Startup \in Services /\ r \in Services /\ r # Startup
      /\ \A s \in Services : enforcer[s] \in Nat
      /\ file \in Nat /\ file # 0 /\ file \in Versions
  BY <1>1, ServiceFacts
<1>3. /\ enforcer' \in [Services -> {0} \cup Versions] /\ enforcer'[r] = file
      /\ \A s \in Services : s # r => enforcer'[s] = enforcer[s]
  BY <1>1, <1>2 DEF TypeOK
<1>4. \A s \in Services : enforcer[s] <= file
  BY <1>1 DEF ServicesLoaded
<1> DEFINE q == [req[r] EXCEPT !.at = "built"]
<1>5. /\ q \in Request /\ q.at = "built" /\ q.service = req[r].service
      /\ q.bucket = req[r].bucket /\ q.verdict = req[r].verdict
      /\ q.route = req[r].route /\ q.charged = req[r].charged /\ q.item = req[r].item
      /\ q.csrf = req[r].csrf /\ q.principal = req[r].principal
      /\ q.since = req[r].since /\ q.version = req[r].version
  BY <1>1 DEF Request
<1>6. Becomes(r, q)
  BY DEF LoadPolicy
<1> HIDE DEF q
<1>7. /\ req' \in [Requests -> Request] /\ req'[r] = q
      /\ \A s \in Requests : s # r => req'[s] = req[s]
  BY <1>1, <1>5, <1>6, RequestsTyped
<1>8. TypeOK'
  BY <1>1, <1>3, <1>7 DEF TypeOK
<1>9. ServicesLoaded'
  <2>1. service \in Services \cup {Null} /\ (service # Null => enforcer[service] # 0)
    BY <1>1 DEF TypeOK, ServicesLoaded
  <2>2. service # Null => enforcer'[service] # 0
    BY <1>2, <1>3, <2>1
  <2>3. enforcer'[Startup] # 0 => service = Startup
    BY <1>1, <1>2, <1>3 DEF ServicesLoaded
  <2>4. \A s \in Services : enforcer'[s] <= file
    BY <1>2, <1>3, <1>4
  <2> QED BY <1>1, <2>2, <2>3, <2>4 DEF ServicesLoaded
<1>10. Kept(r, req[r])'
  <2>1. req[r].bucket = Null /\ req[r].service = Null /\ enforcer[Startup] = 0
    BY <1>1 DEF Kept, Formed
  <2>2. enforcer'[Startup] = 0 /\ enforcer'[r] # 0
    BY <1>2, <1>3, <2>1
  <2>3. Formed(r, req[r])'
    BY <1>1, <1>5, <1>7, <2>1, <2>2 DEF Kept, Formed
  <2> QED BY <1>1, <1>5, <1>7, <2>1, <2>2, <2>3 DEF Kept, Formed
<1>11. \A s \in Services : enforcer[s] <= enforcer'[s]
  BY <1>2, <1>3, <1>4
<1>12. enforcer'[Startup] = enforcer[Startup]
  BY <1>2, <1>3
<1> QED BY <1>7, <1>8, <1>9, <1>10, <1>11, <1>12, PoliciesMove

LEMMA KeepServiceKeeps ==
  ASSUME AdmissionInvariant, NEW r \in Requests, KeepService(r)
  PROVE  AdmissionInvariant'
<1>1. /\ req[r].at = "built" /\ service' = r /\ UNCHANGED <<counter, file, enforcer>>
      /\ req[r] \in Request /\ Kept(r, req[r]) /\ TypeOK /\ ServicesLoaded
  BY RequestFacts DEF KeepService
<1>2. /\ Startup \in Services /\ r \in Services /\ r # Startup /\ Null \notin Services
      /\ \A s \in Services : enforcer[s] \in Nat
  BY <1>1, ServiceFacts
<1>3. enforcer[r] # 0 /\ enforcer[Startup] = 0
  BY <1>1 DEF Kept, Formed
<1> DEFINE q == [req[r] EXCEPT !.at = "handler", !.service = r]
<1>4. /\ q \in Request /\ q.at = "handler" /\ q.service = r
      /\ q.bucket = req[r].bucket /\ q.verdict = req[r].verdict
      /\ q.route = req[r].route /\ q.charged = req[r].charged /\ q.item = req[r].item
      /\ q.csrf = req[r].csrf /\ q.principal = req[r].principal
      /\ q.since = req[r].since /\ q.version = req[r].version
  BY <1>1, <1>2 DEF Request
<1>5. Becomes(r, q)
  BY DEF KeepService
<1> HIDE DEF q
<1>6. /\ req' \in [Requests -> Request] /\ req'[r] = q
      /\ \A s \in Requests : s # r => req'[s] = req[s]
  BY <1>1, <1>4, <1>5, RequestsTyped
<1>7. TypeOK'
  BY <1>1, <1>2, <1>6 DEF TypeOK
<1>8. ServicesLoaded'
  BY <1>1, <1>2, <1>3 DEF ServicesLoaded
<1>9. Kept(r, req[r])'
  <2>1. r # Null
    BY <1>2
  <2>2. Formed(r, q)
    BY <1>1, <1>3, <1>4, <2>1 DEF Kept, Formed
  <2>3. Kept(r, q)
    BY <1>1, <1>3, <1>4, <2>2 DEF Kept, Formed
  <2> QED BY <1>1, <1>6, <2>3 DEF Kept, Formed
<1>10. \A s \in Services : enforcer[s] <= enforcer'[s]
  BY <1>1, <1>2
<1> QED BY <1>1, <1>6, <1>7, <1>8, <1>9, <1>10, PoliciesMove

LEMMA ReloadKeeps ==
  ASSUME AdmissionInvariant, Reload
  PROVE  AdmissionInvariant'
<1>1. /\ service # Null /\ enforcer' = [enforcer EXCEPT ![service] = file]
      /\ UNCHANGED <<req, counter, file, service>> /\ TypeOK /\ ServicesLoaded
  BY DEF Reload, AdmissionInvariant
<1>2. /\ Startup \in Services /\ service \in Services
      /\ \A s \in Services : enforcer[s] \in Nat
      /\ file \in Nat /\ file # 0 /\ file \in Versions
  BY <1>1, ServiceFacts DEF TypeOK
<1>3. /\ enforcer' \in [Services -> {0} \cup Versions] /\ enforcer'[service] = file
      /\ \A s \in Services : s # service => enforcer'[s] = enforcer[s]
  BY <1>1, <1>2 DEF TypeOK
<1>4. \A s \in Services : enforcer[s] <= file
  BY <1>1 DEF ServicesLoaded
<1>5. enforcer[service] # 0 /\ (enforcer[Startup] # 0 => service = Startup)
  BY <1>1 DEF ServicesLoaded
<1>6. TypeOK'
  BY <1>1, <1>3 DEF TypeOK
<1>7. enforcer'[Startup] = 0 <=> enforcer[Startup] = 0
  BY <1>2, <1>3, <1>5
<1>8. ServicesLoaded'
  <2>1. \A s \in Services : enforcer'[s] <= file
    BY <1>2, <1>3, <1>4
  <2> QED BY <1>1, <1>2, <1>3, <1>5, <1>7, <2>1 DEF ServicesLoaded
<1>9. \A s \in Services : enforcer[s] <= enforcer'[s]
  BY <1>2, <1>3, <1>4
<1> QED BY <1>1, <1>6, <1>7, <1>8, <1>9, PoliciesMove

LEMMA ChangePolicyKeeps ==
  ASSUME AdmissionInvariant, ChangePolicy
  PROVE  AdmissionInvariant'
<1>1. /\ file < Len(Policies) /\ file' = file + 1 /\ UNCHANGED <<req, counter, enforcer, service>>
      /\ TypeOK /\ ServicesLoaded
  BY DEF ChangePolicy, AdmissionInvariant
<1>2. /\ \A s \in Services : enforcer[s] \in Nat /\ file \in Nat
      /\ Startup \in Services
  BY <1>1, ServiceFacts
<1>3. file' \in Versions
  <2>1. Policies \in Seq(SUBSET PolicyRule)
    BY AdmissionAssumption
  <2>2. Versions = 1..Len(Policies) /\ Len(Policies) \in Nat
    BY <2>1 DEF Versions
  <2>3. file \in 1..Len(Policies)
    BY <1>1, <2>2 DEF TypeOK
  <2> QED BY <1>1, <2>2, <2>3
<1>4. TypeOK'
  BY <1>1, <1>3 DEF TypeOK
<1>5. ServicesLoaded'
  BY <1>1, <1>2 DEF ServicesLoaded
<1>6. \A s \in Services : enforcer[s] <= enforcer'[s]
  BY <1>1, <1>2
<1> QED BY <1>1, <1>4, <1>5, <1>6, PoliciesMove

LEMMA WindowKeeps ==
  ASSUME AdmissionInvariant, NEW k \in Keys, EndWindow(k)
  PROVE  AdmissionInvariant'
<1>1. /\ counter' = [counter EXCEPT ![k] = 0] /\ UNCHANGED <<req, file, enforcer, service>>
      /\ TypeOK /\ ServicesLoaded
  BY DEF EndWindow, AdmissionInvariant
<1>2. TypeOK'
  BY <1>1, CountFacts DEF TypeOK
<1>3. ServicesLoaded'
  BY <1>1 DEF ServicesLoaded
<1>4. \A s \in Services : enforcer[s] <= enforcer'[s]
  BY <1>1, ServiceFacts
<1> QED BY <1>1, <1>2, <1>3, <1>4, PoliciesMove

LEMMA NextKeeps == AdmissionInvariant /\ [Next]_vars => AdmissionInvariant'
<1> SUFFICES ASSUME AdmissionInvariant, [Next]_vars PROVE AdmissionInvariant'
  OBVIOUS
<1>1. ASSUME NEW r \in Requests,
             \/ Arrive(r) \/ Ceiling(r) \/ CeilingFails(r) \/ Quota(r) \/ QuotaFails(r)
             \/ Probe(r) \/ VerifyCsrf(r) \/ Authenticate(r) \/ AuthenticateFails(r)
             \/ Provide(r) \/ LoadPolicy(r) \/ LoadPolicyFails(r) \/ KeepService(r)
             \/ Gate(r) \/ Edit(r)
      PROVE  AdmissionInvariant'
  <2>1. CASE Arrive(r)
    BY <2>1, ArriveKeeps
  <2>2. CASE Ceiling(r) \/ CeilingFails(r)
    BY <2>2, CeilingKeeps
  <2>3. CASE Quota(r) \/ QuotaFails(r)
    BY <2>3, QuotaKeeps
  <2>4. CASE Probe(r)
    BY <2>4, ProbeKeeps
  <2>5. CASE VerifyCsrf(r)
    BY <2>5, VerifyCsrfKeeps
  <2>6. CASE Authenticate(r)
    BY <2>6, AuthenticateKeeps
  <2>7. CASE AuthenticateFails(r)
    BY <2>7, AuthenticateFailsKeeps
  <2>8. CASE Provide(r)
    BY <2>8, ProvideKeeps
  <2>9. CASE LoadPolicy(r)
    BY <2>9, LoadPolicyKeeps
  <2>10. CASE KeepService(r)
    BY <2>10, KeepServiceKeeps
  <2>11. CASE Gate(r)
    BY <2>11, GateKeeps
  <2>12. CASE Edit(r)
    BY <2>12, EditKeeps
  <2>13. CASE LoadPolicyFails(r)
    BY <2>13, LoadPolicyFailsKeeps
  <2> QED
    BY <1>1, <2>1, <2>2, <2>3, <2>4, <2>5, <2>6, <2>7, <2>8, <2>9, <2>10, <2>11, <2>12, <2>13
<1>2. ASSUME NEW k \in Keys, EndWindow(k) PROVE AdmissionInvariant'
  BY <1>2, WindowKeeps
<1>3. CASE ChangePolicy
  BY <1>3, ChangePolicyKeeps
<1>4. CASE Reload
  BY <1>4, ReloadKeeps
<1>5. CASE UNCHANGED vars
  <2>1. /\ UNCHANGED <<req, counter, file, enforcer, service>> /\ TypeOK /\ ServicesLoaded
    BY <1>5 DEF vars, AdmissionInvariant
  <2>2. TypeOK' /\ ServicesLoaded'
    BY <2>1 DEF TypeOK, ServicesLoaded
  <2>3. \A s \in Services : enforcer[s] <= enforcer'[s]
    BY <2>1, ServiceFacts
  <2> QED BY <2>1, <2>2, <2>3, PoliciesMove
<1> QED BY <1>1, <1>2, <1>3, <1>4, <1>5 DEF Next

\* The invariant is kept by every step of every request and of the operator.
THEOREM AdmissionInvariantHolds == Spec => []AdmissionInvariant
<1>1. Init => AdmissionInvariant
  BY InitAdmission
<1>2. AdmissionInvariant /\ [Next]_vars => AdmissionInvariant'
  BY NextKeeps
<1> QED BY <1>1, <1>2, PTL DEF Spec

-----------------------------------------------------------------------------
(* The properties                                                          *)

\* Every stage finds what it needs: a principal, a loaded service.
THEOREM StagesHold == Spec => []StagesInvariant
<1>1. AdmissionInvariant => StagesInvariant
  BY DEF AdmissionInvariant, StagesInvariant, Kept
<1> QED BY <1>1, AdmissionInvariantHolds, PTL

\* Whatever a client writes into X-Forwarded-For, it is counted as itself
\* (client_ip.py:41-43).
THEOREM ClientsCounted == Spec => []BucketIsTheClient
<1>1. AdmissionInvariant => BucketIsTheClient
  BY DEF AdmissionInvariant, BucketIsTheClient, Kept
<1> QED BY <1>1, AdmissionInvariantHolds, PTL

\* An item of another tenant is answered like a missing one
\* (_authz_demo/api/router.py:85-91), under any policy.
THEOREM ForeignHidden == Spec => []ForeignLikeMissing
<1>1. AdmissionInvariant => ForeignLikeMissing
  <2> SUFFICES ASSUME AdmissionInvariant, NEW r \in Requests, NEW q \in Requests,
                      req[r].item \in DOMAIN DemoItems,
                      DemoItems[req[r].item].tenant # req[r].principal.tenant,
                      req[q].item = "missing"
               PROVE  req[r].answer = req[q].answer
    BY DEF ForeignLikeMissing
  <2>1. Kept(r, req[r]) /\ Kept(q, req[q]) /\ Null \notin Items
    BY AdmissionAssumption DEF AdmissionInvariant
  <2>2. req[r].item # Null /\ req[q].item # Null
    BY <2>1 DEF Items
  <2>3. req[r].answer
          = EditAnswer(Policies[req[r].version], req[r].principal, req[r].item)
    BY <2>1, <2>2 DEF Kept, Formed
  <2>4. req[q].answer = EditAnswer(Policies[req[q].version], req[q].principal, "missing")
    BY <2>1, <2>2 DEF Kept, Formed
  <2>5. req[r].answer = Failed("NotFound", "none")
    BY <2>3, ForeignAnswer
  <2>6. req[q].answer = Failed("NotFound", "none")
    BY <2>4 DEF EditAnswer
  <2> QED BY <2>5, <2>6
<1> QED BY <1>1, AdmissionInvariantHolds, PTL

\* A 429 is what the limiter's denials are answered with, and nothing else is
\* (core/middleware/rate_limit.py:60-81, rate_limiting/dependency.py:57-78).
THEOREM DenialsTold == Spec => []DeniedIffTold
<1>1. AdmissionInvariant => DeniedIffTold
  BY DEF AdmissionInvariant, DeniedIffTold, Kept, Answered
<1> QED BY <1>1, AdmissionInvariantHolds, PTL

\* The CSRF check comes before everything that leaves a trace
\* (_authz_demo/api/router.py:55-70).
THEOREM ForgedHarmless == Spec => []ForgedLeavesNoTrace
<1>1. AdmissionInvariant => ForgedLeavesNoTrace
  BY DEF AdmissionInvariant, ForgedLeavesNoTrace, Kept
<1> QED BY <1>1, AdmissionInvariantHolds, PTL

\* With a service built at startup, what a reload did stays done.
THEOREM ReloadsHold == Spec => []ReloadHolds
<1>1. AdmissionInvariant => ReloadHolds
  BY DEF AdmissionInvariant, ReloadHolds, Kept
<1> QED BY <1>1, AdmissionInvariantHolds, PTL

\* The gate never refuses what the service would allow, with any policies.
THEOREM GatesCover == Spec => []GateCoversService
<1>1. AdmissionInvariant => GateCoversService
  <2> SUFFICES ASSUME AdmissionInvariant, NEW s \in Services, enforcer[s] # 0
               PROVE  enforcer[s] \in PoliciesCovered
    BY DEF GateCoversService
  <2> DEFINE policy == Policies[enforcer[s]]
  <2>1. enforcer[s] \in Versions
    BY DEF AdmissionInvariant, TypeOK
  <2>2. ASSUME NEW p \in Principals, NEW type \in ResourceTypes,
               NEW act \in ActionsByResource[type], NEW owner, NEW assigned, NEW tenant,
               Enforce(policy, Context(p.user, p.tenant, p.roles, act, type,
                                       owner, assigned, tenant)) = "allowed"
        PROVE  HasScope(ComputeScopes(policy, p.roles), ScopeFor(type, act))
    <3> DEFINE ctx == Context(p.user, p.tenant, p.roles, act, type, owner, assigned, tenant)
    <3>1. ctx.type = type /\ ctx.act = act /\ ctx.roles = p.roles
      BY DEF Context
    <3>2. Enforce(policy, ctx) = "allowed"
      BY <2>2
    <3> HIDE DEF ctx, policy
    <3> QED BY <3>1, <3>2, GateCovers
  <2> QED BY <2>1, <2>2 DEF PoliciesCovered
<1> QED BY <1>1, AdmissionInvariantHolds, PTL

=============================================================================
