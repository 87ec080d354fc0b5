--------------------------- MODULE Authorization ---------------------------
(***************************************************************************)
(* Authorization in two layers (authorization/): the Casbin policy and its *)
(* matcher, the service's authoritative enforce(), and the coarse scopes   *)
(* that compute_scopes() derives from the same policy for the route gate.  *)
(*                                                                         *)
(* Everything here is a function of a policy, a set of rules; which policy *)
(* is in force, and when it is reloaded, belongs to Admission.             *)
(*                                                                         *)
(* An empty attribute ('' in the request that Casbin gets) is Null.  The   *)
(* conditions of the rules are named, not parsed.                          *)
(***************************************************************************)
CONSTANT Null  \* an attribute that does not apply

\* ACTIONS_BY_RESOURCE: the registry that wildcards are expanded with.
ActionsByResource ==
  [booking |-> {"create", "read", "update", "delete", "approve", "cancel"},
   event   |-> {"create", "read", "update", "delete"},
   profile |-> {"read", "update"},
   payment |-> {"read", "refund"}]

ResourceTypes == DOMAIN ActionsByResource

\* scope_for(): a scope names a type and an action.
ScopeFor(type, act) == <<type, act>>

RoleCodes == {"admin", "manager", "staff", "owner", "finance"}

Rule(role, type, act, cond, eft) ==
  [role |-> role, type |-> type, act |-> act, cond |-> cond, eft |-> eft]

\* Rule 6 of policy.csv: a refund needs finance, whatever else allows it.
RefundDenied == Rule("*", "payment", "refund", "not_finance", "deny")

ShippedPolicy ==
  {Rule("admin", "booking", "*", "none", "allow"),
   Rule("manager", "booking", "approve", "none", "allow"),
   Rule("staff", "event", "read", "assigned", "allow"),
   Rule("owner", "profile", "update", "owner", "allow"),
   Rule("finance", "payment", "refund", "none", "allow"),
   RefundDenied}

\* ResourceContext: the actor with its tenant and roles, the action, and what
\* the use case knows of the resource.
Context(actor, tenant, roles, act, type, owner, assigned, resourceTenant) ==
  [actor |-> actor, tenant |-> tenant, roles |-> roles, act |-> act, type |-> type,
   owner |-> owner, assigned |-> assigned, resourceTenant |-> resourceTenant]

-----------------------------------------------------------------------------
(* The matcher and the effect (casbin_model.conf)                          *)

\* eval(p.cond) for the conditions of the policy.
CondHolds(cond, ctx) ==
  \/ cond = "none"
  \/ cond = "assigned" /\ ctx.actor \in ctx.assigned
  \/ cond = "owner" /\ ctx.owner = ctx.actor
  \/ cond = "not_finance" /\ "finance" \notin ctx.roles

Matches(rule, ctx) ==
  /\ rule.role = "*" \/ rule.role \in ctx.roles
  /\ rule.type = "*" \/ rule.type = ctx.type
  /\ rule.act = "*" \/ rule.act = ctx.act
  /\ ctx.resourceTenant = Null \/ ctx.resourceTenant = ctx.tenant
  /\ CondHolds(rule.cond, ctx)

\* Some rule allows it and none denies it.
Allowed(policy, ctx) ==
  /\ \E rule \in policy : rule.eft = "allow" /\ Matches(rule, ctx)
  /\ ~ \E rule \in policy : rule.eft = "deny" /\ Matches(rule, ctx)

-----------------------------------------------------------------------------
(* The service (authorization_service.py)                                  *)

CrossTenant(ctx) == ctx.resourceTenant # Null /\ ctx.resourceTenant # ctx.tenant

\* enforce() returns, or raises a ForbiddenError with or without the reason
\* "cross_tenant"; the enforcer is not asked about a foreign resource.
Enforce(policy, ctx) ==
  IF CrossTenant(ctx) THEN "cross_tenant"
  ELSE IF Allowed(policy, ctx) THEN "allowed" ELSE "denied"

\* Mutant: a wildcard action grants no scope.
ActionsNoWildcard(rule, type) == {rule.act} \ {"*"}

\* The actions a rule grants on a type; an unregistered type has none for "*".
ActionsOf(rule, type) ==
  IF rule.act # "*" THEN {rule.act}
  ELSE IF type \in ResourceTypes THEN ActionsByResource[type] ELSE {}

TypesOf(rule) == IF rule.type = "*" THEN ResourceTypes ELSE {rule.type}

\* What a rule grants to its role, its condition ignored.
RuleScopes(rule) ==
  UNION {{ScopeFor(type, act) : act \in ActionsOf(rule, type)} : type \in TypesOf(rule)}

\* compute_scopes(): the scopes of the allow rules of the roles.
ComputeScopes(policy, roles) ==
  UNION {RuleScopes(rule) : rule \in {r \in policy : r.eft = "allow" /\ r.role \in roles \cup {"*"}}}

HasScope(scopes, scope) == scope \in scopes

=============================================================================
