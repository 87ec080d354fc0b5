---------------------------- MODULE LoginLineage ----------------------------
(***************************************************************************)
(* What the session store promises about a login, with the table, the      *)
(* clock and the concurrent calls abstracted away: a login is carried by   *)
(* at most one session at a time, a rotation moves it to a token that was  *)
(* never used before, and a login that has ended is never resumed.         *)
(* A login is named by the first session token issued for it.              *)
(***************************************************************************)
CONSTANTS Sessions

VARIABLES
  issued,  \* the tokens that have ever named a session
  live     \* per login, the sessions that carry it: none or one

vars == <<issued, live>>

TypeOK ==
  /\ issued \subseteq Sessions
  /\ live \in [Sessions -> SUBSET Sessions]

Init ==
  /\ issued = {}
  /\ live = [l \in Sessions |-> {}]

Login(l) ==
  /\ l \notin issued
  /\ issued' = issued \cup {l}
  /\ live' = [live EXCEPT ![l] = {l}]

Rotate(l, old, new) ==
  /\ live[l] = {old}
  /\ new \notin issued
  /\ issued' = issued \cup {new}
  /\ live' = [live EXCEPT ![l] = {new}]

\* Logout, "log out everywhere" and the retention purge end logins.
End(ended) ==
  /\ live' = [l \in Sessions |-> IF l \in ended THEN {} ELSE live[l]]
  /\ UNCHANGED issued

Next ==
  \/ \E ended \in SUBSET Sessions : End(ended)
  \/ \E l \in Sessions : Login(l)
  \/ \E l, old, new \in Sessions : Rotate(l, old, new)

Spec == Init /\ [][Next]_vars

=============================================================================
