------------------------- MODULE IdentityDirectory -------------------------
(***************************************************************************)
(* What the identity mapping promises the callbacks of logins: one         *)
(* directory, in which a subject is looked up, or provisioned with a user  *)
(* of its own, in one step.  An answer names the user the subject has at   *)
(* that step, a user id is never used for a second user, and a session is  *)
(* created only for the user its subject still has.  A question may also   *)
(* be refused, for any reason; then nothing has come of it.                *)
(***************************************************************************)
CONSTANTS Backends, Subjects, Users, Null

VARIABLES
  taken,    \* user ids that a user has had, or that were wasted
  mapped,   \* per subject, its user
  home,     \* users with an active tenant
  carried,  \* users that a session has been created for
  asked     \* per callback, its question and the answer to it

vars == <<taken, mapped, home, carried, asked>>

Nothing == [answer |-> "nothing", subject |-> Null, user |-> Null]

Question(s) == [answer |-> "awaited", subject |-> s, user |-> Null]

Answer(s, u) == [answer |-> "user", subject |-> s, user |-> u]

Refusal(s) == [answer |-> "refused", subject |-> s, user |-> Null]

Init ==
  /\ taken = {}
  /\ mapped = [s \in Subjects |-> Null]
  /\ home = {}
  /\ carried = {}
  /\ asked = [b \in Backends |-> Nothing]

Ask(b, s) ==
  /\ asked[b].answer # "awaited"
  /\ asked' = [asked EXCEPT ![b] = Question(s)]
  /\ UNCHANGED <<taken, mapped, home, carried>>

Find(b) ==
  LET s == asked[b].subject IN
  /\ asked[b].answer = "awaited"
  /\ mapped[s] \in home
  /\ asked' = [asked EXCEPT ![b] = Answer(s, mapped[s])]
  /\ UNCHANGED <<taken, mapped, home, carried>>

Provision(b, u) ==
  LET s == asked[b].subject IN
  /\ asked[b].answer = "awaited"
  /\ mapped[s] = Null
  /\ u \notin taken
  /\ taken' = taken \cup {u}
  /\ mapped' = [mapped EXCEPT ![s] = u]
  /\ home' = home \cup {u}
  /\ asked' = [asked EXCEPT ![b] = Answer(s, u)]
  /\ UNCHANGED carried

\* A user id that was generated for the question may be wasted with it.
Refuse(b) ==
  /\ asked[b].answer = "awaited"
  /\ UNCHANGED taken \/ \E u \in Users : taken' = taken \cup {u}
  /\ asked' = [asked EXCEPT ![b] = Refusal(asked[b].subject)]
  /\ UNCHANGED <<mapped, home, carried>>

Waste(u) ==
  /\ taken' = taken \cup {u}
  /\ UNCHANGED <<mapped, home, carried, asked>>

\* The login of the user it was told, who is still its subject's.
Carry(b) ==
  LET u == asked[b].user IN
  /\ asked[b].answer = "user"
  /\ mapped[asked[b].subject] = u
  /\ carried' = carried \cup {u}
  /\ asked' = [asked EXCEPT ![b] = Nothing]
  /\ UNCHANGED <<taken, mapped, home>>

GiveUp(b) ==
  /\ asked[b].answer = "user"
  /\ asked' = [asked EXCEPT ![b] = Nothing]
  /\ UNCHANGED <<taken, mapped, home, carried>>

\* The operator: identities, memberships and sessions go with their user.
Remove(u) ==
  /\ mapped' = [s \in Subjects |-> IF mapped[s] = u THEN Null ELSE mapped[s]]
  /\ home' = home \ {u}
  /\ carried' = carried \ {u}
  /\ UNCHANGED <<taken, asked>>

Suspend(u) ==
  /\ home' = home \ {u}
  /\ UNCHANGED <<taken, mapped, carried, asked>>

Next ==
  \/ \E b \in Backends :
       \/ Find(b) \/ Refuse(b) \/ Carry(b) \/ GiveUp(b)
       \/ \E s \in Subjects : Ask(b, s)
       \/ \E u \in Users : Provision(b, u)
  \/ \E u \in Users : Waste(u) \/ Remove(u) \/ Suspend(u)

Spec == Init /\ [][Next]_vars

=============================================================================
