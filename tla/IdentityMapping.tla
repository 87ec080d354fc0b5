-------------------------- MODULE IdentityMapping --------------------------
(***************************************************************************)
(* app.map_identity: from the provider's subject to an internal user and   *)
(* an active tenant, provisioning both for an unknown subject.             *)
(*                                                                         *)
(* Each statement of the function sees what was committed before it (READ  *)
(* COMMITTED); what it inserts is seen by nobody until it commits.  The    *)
(* primary key of identities makes an insert wait for a pending one of the *)
(* same subject, and fail if that one commits: the function then undoes    *)
(* its own inserts and looks the subject up again.  An operator may remove *)
(* users and suspend memberships or tenants between any two statements.     *)
(*                                                                         *)
(* The callback of a login then creates a session for the user and tenant  *)
(* it was given; app.create_user_session looks at both again.              *)
(***************************************************************************)

CONSTANTS
  Backends,  \* callbacks of logins, each with its connection
  Subjects,  \* subjects of the identity provider
  Users,     \* user ids that can be generated; a personal tenant goes with each
  Null

ASSUME IdentityAssumption == Null \notin Users

VARIABLES
  user,    \* committed users that exist
  spent,   \* user ids that have been generated
  mapped,  \* app.identities: per subject, its user
  home,    \* users with an active membership in an active tenant of their own
  carried, \* users that a session has been created for
  call     \* per callback, the call it runs

vars == <<user, spent, mapped, home, carried, call>>

Verdicts == {"none", "ok", "not_found", "no_tenant", "raised", "aborted"}

(***************************************************************************)
(* `user' is v_user_id; at "pending" the rows for it are inserted and not  *)
(* yet committed.  At "done" map_identity has ended, at "checked"          *)
(* create_user_session has found the tenant active; when that has ended,   *)
(* the callback is "idle" again.  `changed' records that an operator       *)
(* removed or suspended something while a function ran.                    *)
(***************************************************************************)
Call == [at: {"idle", "lookup", "insert", "pending", "retry", "resolve", "done",
              "checked"},
         subject: Subjects \cup {Null}, provision: BOOLEAN,
         user: Users \cup {Null}, verdict: Verdicts, changed: BOOLEAN]

NoCall == [at |-> "idle", subject |-> Null, provision |-> FALSE, user |-> Null,
           verdict |-> "none", changed |-> FALSE]

TypeOK ==
  /\ user \subseteq Users
  /\ spent \subseteq Users
  /\ mapped \in [Subjects -> Users \cup {Null}]
  /\ home \subseteq Users
  /\ carried \subseteq Users
  /\ call \in [Backends -> Call]
  /\ \A b \in Backends :
       /\ call[b].at # "idle" => call[b].subject \in Subjects
       /\ call[b].at \in {"pending", "resolve", "checked"} => call[b].user \in Users
       /\ call[b].verdict = "ok" => call[b].user \in Users

Init ==
  /\ user = {}
  /\ spent = {}
  /\ mapped = [s \in Subjects |-> Null]
  /\ home = {}
  /\ carried = {}
  /\ call = [b \in Backends |-> NoCall]

Goto(b, step) == call' = [call EXCEPT ![b].at = step]

End(b, verdict) == call' = [call EXCEPT ![b].at = "done", ![b].verdict = verdict]

-----------------------------------------------------------------------------

MapIdentity(b, s, provision) ==
  /\ call[b].at \in {"idle", "done"}
  /\ call' = [call EXCEPT ![b] =
       [NoCall EXCEPT !.at = "lookup", !.subject = s, !.provision = provision]]
  /\ UNCHANGED <<user, spent, mapped, home, carried>>

Lookup(b) ==
  LET u == mapped[call[b].subject] IN
  /\ call[b].at = "lookup"
  /\ \/ u # Null /\ call' = [call EXCEPT ![b].at = "resolve", ![b].user = u]
     \/ u = Null /\ call[b].provision /\ Goto(b, "insert")
     \/ u = Null /\ ~call[b].provision /\ End(b, "not_found")
  /\ UNCHANGED <<user, spent, mapped, home, carried>>

\* Mutant: an aborted call keeps its locks.
LockedForever(s) ==
  \E c \in Backends :
    /\ call[c].subject = s
    /\ call[c].at = "pending" \/ (call[c].verdict = "aborted" /\ call[c].user # Null)

\* Another call has inserted this subject and not committed: the insert waits.
Locked(s) == \E c \in Backends : call[c].at = "pending" /\ call[c].subject = s

\* Mutant: identities has no primary key.
InsertUnlocked(b) ==
  /\ call[b].at = "insert"
  /\ \E u \in Users \ spent :
       /\ spent' = spent \cup {u}
       /\ call' = [call EXCEPT ![b].at = "pending", ![b].user = u]
  /\ UNCHANGED <<user, mapped, home, carried>>

\* Mutant: the loser keeps the user it has inserted.
InsertKeepsUser(b) ==
  LET s == call[b].subject IN
  /\ call[b].at = "insert"
  /\ ~Locked(s)
  /\ \E u \in Users \ spent :
       /\ spent' = spent \cup {u}
       /\ \/ /\ mapped[s] = Null
             /\ call' = [call EXCEPT ![b].at = "pending", ![b].user = u]
             /\ UNCHANGED user
          \/ /\ mapped[s] # Null
             /\ Goto(b, "retry")
             /\ user' = user \cup {u}
  /\ UNCHANGED <<mapped, home, carried>>

\* The user and the identity, its tenant and membership, in a subtransaction
\* that the unique_violation of the identity undoes.
Insert(b) ==
  LET s == call[b].subject IN
  /\ call[b].at = "insert"
  /\ ~Locked(s)
  /\ \E u \in Users \ spent :
       /\ spent' = spent \cup {u}
       /\ \/ /\ mapped[s] = Null
             /\ call' = [call EXCEPT ![b].at = "pending", ![b].user = u]
          \/ /\ mapped[s] # Null
             /\ Goto(b, "retry")
  /\ UNCHANGED <<user, mapped, home, carried>>

Commit(b) ==
  LET u == call[b].user IN
  /\ call[b].at = "pending"
  /\ user' = user \cup {u}
  /\ mapped' = [mapped EXCEPT ![call[b].subject] = u]
  /\ home' = home \cup {u}
  /\ End(b, "ok")
  /\ UNCHANGED <<spent, carried>>

\* Mutant: the loser does not look again, it gives up.
RetryRaises(b) ==
  /\ call[b].at = "retry"
  /\ End(b, "raised")
  /\ UNCHANGED <<user, spent, mapped, home, carried>>

\* Lost the race: the winner's row, unless it is gone again.
Retry(b) ==
  LET u == mapped[call[b].subject] IN
  /\ call[b].at = "retry"
  /\ \/ u # Null /\ call' = [call EXCEPT ![b].at = "resolve", ![b].user = u]
     \/ u = Null /\ End(b, "raised")
  /\ UNCHANGED <<user, spent, mapped, home, carried>>

\* The default or oldest active membership in an active tenant.
Resolve(b) ==
  /\ call[b].at = "resolve"
  /\ \/ call[b].user \in home /\ End(b, "ok")
     \/ call[b].user \notin home /\ End(b, "no_tenant")
  /\ UNCHANGED <<user, spent, mapped, home, carried>>

\* create_user_session ends, with a session or without.
Finish(b) == call' = [call EXCEPT ![b] = NoCall]

\* Mutant: create trusts the mapping it was given.
CheckTenantNot(b) ==
  /\ call[b].at = "done"
  /\ call[b].verdict = "ok"
  /\ call' = [call EXCEPT ![b].at = "checked", ![b].changed = FALSE]
  /\ UNCHANGED <<user, spent, mapped, home, carried>>

\* The callback has its user and tenant and calls create: is the tenant active?
CheckTenant(b) ==
  /\ call[b].at = "done"
  /\ call[b].verdict = "ok"
  /\ \/ /\ call[b].user \in home
        /\ call' = [call EXCEPT ![b].at = "checked", ![b].changed = FALSE]
     \/ call[b].user \notin home /\ Finish(b)
  /\ UNCHANGED <<user, spent, mapped, home, carried>>

\* Is the user a member, and the insert.  What is suspended after the check that
\* looks at it goes unnoticed, a removed user does not: user_sessions refers to it.
InsertSession(b) ==
  LET u == call[b].user IN
  /\ call[b].at = "checked"
  /\ \/ /\ u \in user
        /\ carried' = carried \cup {u}
        /\ Finish(b)
     \/ /\ u \notin home
        /\ Finish(b)
        /\ UNCHANGED carried
  /\ UNCHANGED <<user, spent, mapped, home>>

\* The connection breaks, or the statement is cancelled: all is rolled back.
Abort(b) ==
  /\ call[b].at \notin {"idle", "done"}
  /\ \/ call[b].at # "checked" /\ End(b, "aborted")
     \/ call[b].at = "checked" /\ Finish(b)
  /\ UNCHANGED <<user, spent, mapped, home, carried>>

Disturbed(c) == [c EXCEPT !.changed = @ \/ c.at \notin {"idle", "done"}]

\* An operator removes a user; identities, memberships and
\* sessions cascade.
RemoveUser(u) ==
  /\ u \in user
  /\ user' = user \ {u}
  /\ mapped' = [s \in Subjects |-> IF mapped[s] = u THEN Null ELSE mapped[s]]
  /\ home' = home \ {u}
  /\ carried' = carried \ {u}
  /\ call' = [b \in Backends |-> Disturbed(call[b])]
  /\ UNCHANGED spent

\* An operator suspends a membership or its tenant.
Suspend(u) ==
  /\ u \in home
  /\ home' = home \ {u}
  /\ call' = [b \in Backends |-> Disturbed(call[b])]
  /\ UNCHANGED <<user, spent, mapped, carried>>

Step(b) ==
  \/ Lookup(b) \/ Insert(b) \/ Commit(b) \/ Retry(b) \/ Resolve(b)
  \/ CheckTenant(b) \/ InsertSession(b)

Next ==
  \/ \E b \in Backends :
       \/ \E s \in Subjects, provision \in BOOLEAN : MapIdentity(b, s, provision)
       \/ Step(b)
       \/ Abort(b)
  \/ \E u \in Users : RemoveUser(u) \/ Suspend(u)

\* The server runs each call; a lock is released when its holder ends.
Fairness == \A b \in Backends : WF_vars(Step(b))

Spec == Init /\ [][Next]_vars

FairSpec == Spec /\ Fairness

-----------------------------------------------------------------------------
(* The calls implement one directory, asked and answered in single steps.  *)

\* The call has its user: one that it found, or made.
HasUser(c) ==
  c.at \in {"resolve", "checked"} \/ (c.at = "done" /\ c.verdict = "ok")

\* What a callback has asked, and what it has been answered.
Asked(c) ==
  LET told == c.at # "resolve" /\ HasUser(c) IN
  [answer |-> CASE told -> "user"
                [] c.at = "idle" -> "nothing"
                [] c.at = "done" /\ ~told -> "refused"
                [] OTHER -> "awaited",
   subject |-> IF c.at = "idle" THEN Null ELSE c.subject,
   user |-> IF told THEN c.user ELSE Null]

\* Ids of pending rows are nobody's yet.
Taken == spent \ {call[b].user : b \in {c \in Backends : call[c].at = "pending"}}

Directory == INSTANCE IdentityDirectory WITH
  taken <- Taken,
  asked <- [b \in Backends |-> Asked(call[b])]

\* map_identity is atomic for its callers, although it reads the subject, the
\* user and the tenant in statements of their own, waits for pending inserts
\* and retries: a user it returns was the subject's, with an active tenant, at
\* the step it returned, and a session is created only while that still holds
\* of the subject.
DirectorySpec == Directory!Spec

-----------------------------------------------------------------------------
(* Properties                                                              *)

\* However many logins of a new subject race, one user comes of them: no user
\* without an identity is left behind by a loser, none has two subjects, and
\* only users have an active tenant or a session.
EveryUserMappedOnce ==
  /\ \A u \in user : \E s \in Subjects : mapped[s] = u
  /\ \A s, t \in Subjects : mapped[s] # Null /\ mapped[s] = mapped[t] => s = t
  /\ \A s \in Subjects : mapped[s] # Null => mapped[s] \in user
  /\ home \cup carried \subseteq user

\* Rows that wait for their commit are for a new user and a subject nobody has.
PendingFresh ==
  /\ user \subseteq spent
  /\ \A b \in Backends : call[b].at = "pending" =>
       /\ call[b].user \in spent \ user
       /\ mapped[call[b].subject] = Null
  /\ \A b, c \in Backends :
       call[b].at = "pending" /\ call[c].at = "pending" /\ b # c =>
         call[b].user # call[c].user /\ call[b].subject # call[c].subject

\* What a call found out still holds if no operator interfered.
FoundHolds ==
  \A b \in Backends : ~call[b].changed =>
    /\ call[b].at = "retry" => mapped[call[b].subject] # Null
    /\ call[b].at = "resolve" => mapped[call[b].subject] = call[b].user
    /\ call[b].at = "checked" => call[b].user \in home

\* The user that a call has is still its subject's, or is gone for good: no
\* user id comes back, whatever operators do.
UsersSettled ==
  \A b \in Backends : HasUser(call[b]) =>
    /\ call[b].user \in spent
    /\ call[b].user \in user => mapped[call[b].subject] = call[b].user
    /\ \A c \in Backends : call[c].at = "pending" => call[c].user # call[b].user

\* The inductive invariant of IdentityMappingProofs.
IdentityInvariant ==
  /\ TypeOK
  /\ EveryUserMappedOnce
  /\ PendingFresh
  /\ FoundHolds
  /\ UsersSettled

\* Once a subject is mapped it stays mapped to that user until an operator
\* removes the user: no late provisioning overwrites the winner's row.
MappingStays ==
  [][\A s \in Subjects :
       mapped[s] # Null => mapped'[s] = mapped[s] \/ mapped[s] \notin user']_vars

\* A call that succeeds returns the user its subject is mapped to, although it
\* found the user some statements ago and operators may remove users meanwhile.
AnswerIsTheMapping ==
  [][\A b \in Backends :
       call[b].at # "done" /\ call'[b].at = "done" /\ call'[b].verdict = "ok"
       => call'[b].user = mapped'[call[b].subject]]_vars

\* DESIGN-sessions-identity.md:108: the race's loser returns the winner's
\* mapping.  Where no operator interferes, a provisioning call that is not cut
\* off succeeds, or tells that the user has no active tenant; it never fails
\* for having lost the race.
LoserGetsWinner ==
  \A b \in Backends :
    call[b].at = "done" /\ call[b].provision /\ ~call[b].changed
      => call[b].verdict \in {"ok", "no_tenant", "aborted"}

\* However long ago its tenant was looked up, a login carries only a user who
\* is there, and who was suspended, if at all, after create had begun.
LoginsOfMembers ==
  [][\A u \in carried' \ carried :
       /\ u \in user'
       /\ u \in home' \/ \E b \in Backends :
            call[b].at = "checked" /\ call[b].user = u /\ call[b].changed]_vars

\* Every call ends, also those that wait for another's insert and those that
\* lose the race for it, unless no user id is left to insert.
EveryCallEnds ==
  \A b \in Backends :
    call[b].at # "idle" ~> \/ call[b].at \in {"idle", "done"}
                           \/ call[b].at = "insert" /\ spent = Users

=============================================================================
