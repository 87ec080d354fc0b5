---------------------------- MODULE MCAdmission ----------------------------
EXTENDS Admission, TLC

Person(user, tenant, roles, scopes) ==
  [user |-> user, tenant |-> tenant, roles |-> roles, scopes |-> scopes]

\* A principal of a session, and one as the tests inject it.
MCPrincipals ==
  {Person("user-owner", "tenant-1", {}, {}),
   Person("user-owner", "tenant-1", {"owner", "manager"},
          ComputeScopes(ShippedPolicy, {"owner", "manager"}))}

\* The shipped policy; then owners may update no more and managers may do all.
MCPolicies ==
  <<ShippedPolicy,
    (ShippedPolicy \ {Rule("owner", "profile", "update", "owner", "allow")})
      \cup {Rule("manager", "*", "*", "none", "allow")}>>

\* A direct client, one behind a proxy that wrote a header itself, one behind
\* two proxies.
MCOrigins ==
  {[client |-> "c1", wrote |-> <<"c2">>, via |-> <<>>],
   [client |-> "c1", wrote |-> <<"c2", "p1">>, via |-> <<"p1">>],
   [client |-> "c1", wrote |-> <<"c2", "p2">>, via |-> <<"p1", "p2">>]}

Symmetry == Permutations(Requests)

MCLimits == [rule \in DOMAIN Rules |-> 1]

=============================================================================
