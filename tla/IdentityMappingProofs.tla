----------------------- MODULE IdentityMappingProofs -----------------------
(***************************************************************************)
(* The safety properties of IdentityMapping, for any number of callbacks,  *)
(* subjects and users.                                                     *)
(***************************************************************************)
EXTENDS IdentityMapping, TLAPS

\* What the invariant says of one call.
CallFormed(c) ==
  /\ c.at # "idle" => c.subject \in Subjects
  /\ c.at \in {"pending", "resolve", "checked"} => c.user \in Users
  /\ c.verdict = "ok" => c.user \in Users

CallHolds(c) ==
  ~c.changed =>
    /\ c.at = "retry" => mapped[c.subject] # Null
    /\ c.at = "resolve" => mapped[c.subject] = c.user
    /\ c.at = "checked" => c.user \in home
    /\ c.at = "done" /\ c.provision => c.verdict \in {"ok", "no_tenant", "aborted"}

\* What the invariant says of the user that a call has.
CallSettled(c) ==
  HasUser(c) =>
    /\ c.user \in spent
    /\ c.user \in user => mapped[c.subject] = c.user
    /\ \A d \in Backends : call[d].at = "pending" => call[d].user # c.user

Strong == IdentityInvariant /\ LoserGetsWinner

\* A call that has had its user keeps it through its end.
LEMMA StaysSettled ==
  ASSUME NEW c, NEW d, CallSettled(c), HasUser(d) => HasUser(c),
         d.user = c.user, d.subject = c.subject
  PROVE  CallSettled(d)
BY DEF CallSettled

\* A call that finds its subject mapped has a settled user.
LEMMA FoundIsSettled ==
  ASSUME Strong, NEW c, c.subject \in Subjects, c.user = mapped[c.subject],
         c.user # Null
  PROVE  CallSettled(c)
<1>1. c.user \in user /\ user \subseteq spent
  BY DEF Strong, IdentityInvariant, EveryUserMappedOnce, PendingFresh
<1>2. \A d \in Backends : call[d].at = "pending" => call[d].user # c.user
  BY <1>1 DEF Strong, IdentityInvariant, PendingFresh
<1> QED BY <1>1, <1>2 DEF CallSettled

\* A step of one call that leaves the tables alone.
LEMMA CallStep ==
  ASSUME Strong, NEW b \in Backends, NEW next \in Call,
         call' = [call EXCEPT ![b] = next], next.at # "pending",
         CallFormed(next), CallHolds(next), CallSettled(next),
         spent \subseteq spent', spent' \subseteq Users,
         UNCHANGED <<user, mapped, home, carried>>
  PROVE  Strong'
<1>1. /\ call \in [Backends -> Call] /\ TypeOK /\ call'[b] = next
      /\ \A c \in Backends : c # b => call'[c] = call[c]
  BY DEF Strong, IdentityInvariant, TypeOK
<1>2. TypeOK'
  BY <1>1 DEF TypeOK, CallFormed
<1>3. EveryUserMappedOnce'
  BY DEF Strong, IdentityInvariant, EveryUserMappedOnce
<1>4. PendingFresh'
  BY <1>1 DEF Strong, IdentityInvariant, PendingFresh
<1>5. FoundHolds' /\ LoserGetsWinner'
  BY <1>1 DEF Strong, IdentityInvariant, FoundHolds, LoserGetsWinner, CallHolds
<1>6. UsersSettled'
  <2>1. \A c \in Backends : CallSettled(call'[c])
    BY <1>1 DEF Strong, IdentityInvariant, UsersSettled, CallSettled
  <2>2. \A d \in Backends : call'[d].at = "pending" => d # b /\ call[d].at = "pending"
    BY <1>1
  <2> QED BY <1>1, <2>1, <2>2 DEF UsersSettled, CallSettled
<1> QED BY <1>2, <1>3, <1>4, <1>5, <1>6 DEF Strong, IdentityInvariant

LEMMA InitStrong == Init => Strong
<1> SUFFICES ASSUME Init PROVE Strong
  OBVIOUS
<1>1. NoCall \in Call /\ NoCall.at = "idle" /\ NoCall.verdict = "none"
  BY DEF NoCall, Call, Verdicts
<1>2. TypeOK
  BY <1>1 DEF Init, TypeOK
<1>3. EveryUserMappedOnce
  BY DEF Init, EveryUserMappedOnce
<1>4. PendingFresh /\ FoundHolds /\ UsersSettled /\ LoserGetsWinner
  BY <1>1 DEF Init, PendingFresh, FoundHolds, UsersSettled, HasUser, LoserGetsWinner
<1> QED BY <1>2, <1>3, <1>4 DEF Strong, IdentityInvariant

\* The types of a call and of what its subject is mapped to.
LEMMA CallFacts ==
  ASSUME Strong, NEW b \in Backends
  PROVE  /\ call[b] \in Call /\ CallFormed(call[b]) /\ CallHolds(call[b])
         /\ CallSettled(call[b])
         /\ call \in [Backends -> Call] /\ Null \notin Users
         /\ call[b].at # "idle" => mapped[call[b].subject] \in Users \cup {Null}
BY IdentityAssumption DEF Strong, IdentityInvariant, TypeOK, FoundHolds, UsersSettled,
   LoserGetsWinner, CallFormed, CallHolds, CallSettled

LEMMA MapIdentityKeeps ==
  ASSUME Strong, NEW b \in Backends, NEW s \in Subjects, NEW provision \in BOOLEAN,
         MapIdentity(b, s, provision)
  PROVE  Strong'
<1> DEFINE next == [NoCall EXCEPT !.at = "lookup", !.subject = s, !.provision = provision]
<1>1. next \in Call /\ next.at = "lookup" /\ next.verdict = "none" /\ next.subject = s
  BY DEF NoCall, Call, Verdicts
<1>2. CallFormed(next) /\ CallHolds(next) /\ CallSettled(next)
  BY <1>1 DEF CallFormed, CallHolds, CallSettled, HasUser
<1>3. /\ call' = [call EXCEPT ![b] = next]
      /\ UNCHANGED <<user, spent, mapped, home, carried>>
  BY DEF MapIdentity
<1>4. spent \subseteq Users
  BY DEF Strong, IdentityInvariant, TypeOK
<1> QED BY <1>1, <1>2, <1>3, <1>4, CallStep

LEMMA LookupKeeps ==
  ASSUME Strong, NEW b \in Backends, Lookup(b)
  PROVE  Strong'
<1> DEFINE u == mapped[call[b].subject]
           found == [call[b] EXCEPT !.at = "resolve", !.user = u]
           unknown == [call[b] EXCEPT !.at = "insert"]
           refused == [call[b] EXCEPT !.at = "done", !.verdict = "not_found"]
<1>1. /\ call[b].at = "lookup" /\ UNCHANGED <<user, spent, mapped, home, carried>>
      /\ spent \subseteq Users
  BY DEF Lookup, Strong, IdentityInvariant, TypeOK
<1>2. CASE u # Null
  <2>1. call' = [call EXCEPT ![b] = found]
    BY <1>2, CallFacts DEF Lookup
  <2>2. found \in Call /\ found.at = "resolve" /\ found.user = u /\ u \in Users
        /\ found.subject = call[b].subject /\ found.verdict = call[b].verdict
    BY <1>1, <1>2, CallFacts DEF Call
  <2>3. CallFormed(found) /\ CallHolds(found)
    BY <1>1, <2>2, CallFacts DEF CallFormed, CallHolds
  <2>4. CallSettled(found)
    BY <1>1, <2>2, CallFacts, FoundIsSettled DEF CallFormed
  <2> HIDE DEF found
  <2> QED BY <1>1, <2>1, <2>2, <2>3, <2>4, CallStep
<1>3. CASE u = Null /\ call[b].provision
  <2>1. call' = [call EXCEPT ![b] = unknown]
    BY <1>3, CallFacts DEF Lookup, Goto
  <2>2. unknown \in Call /\ unknown.at = "insert" /\ unknown.user = call[b].user
        /\ unknown.subject = call[b].subject /\ unknown.verdict = call[b].verdict
    BY <1>1, CallFacts DEF Call
  <2>3. CallFormed(unknown) /\ CallHolds(unknown) /\ CallSettled(unknown)
    BY <1>1, <2>2, CallFacts
       DEF CallFormed, CallHolds, CallSettled, HasUser
  <2> HIDE DEF unknown
  <2> QED BY <1>1, <2>1, <2>2, <2>3, CallStep
<1>4. CASE u = Null /\ ~call[b].provision
  <2>1. call' = [call EXCEPT ![b] = refused]
    BY <1>4, CallFacts DEF Lookup, End
  <2>2. refused \in Call /\ refused.at = "done" /\ refused.verdict = "not_found"
        /\ refused.subject = call[b].subject /\ ~refused.provision
    <3>1. call[b] \in Call
      BY CallFacts
    <3>2. refused \in Call
      BY <3>1 DEF Call, Verdicts
    <3> QED BY <1>4, <3>1, <3>2 DEF Call
  <2>3. CallFormed(refused) /\ CallHolds(refused) /\ CallSettled(refused)
    BY <1>1, <2>2, CallFacts
       DEF CallFormed, CallHolds, CallSettled, HasUser
  <2> HIDE DEF refused
  <2> QED BY <1>1, <2>1, <2>2, <2>3, CallStep
<1> QED BY <1>2, <1>3, <1>4 DEF Lookup

LEMMA InsertKeeps ==
  ASSUME Strong, NEW b \in Backends, Insert(b)
  PROVE  Strong'
<1> DEFINE s == call[b].subject
           retry == [call[b] EXCEPT !.at = "retry"]
<1>1. /\ call[b].at = "insert" /\ ~Locked(s) /\ UNCHANGED <<user, mapped, home, carried>>
      /\ s \in Subjects
  BY CallFacts DEF Insert, CallFormed
<1>2. PICK u \in Users \ spent :
        /\ spent' = spent \cup {u}
        /\ \/ /\ mapped[s] = Null
              /\ call' = [call EXCEPT ![b].at = "pending", ![b].user = u]
           \/ mapped[s] # Null /\ Goto(b, "retry")
  BY DEF Insert
<1>3. spent \subseteq spent' /\ spent' \subseteq Users /\ user \subseteq spent
  BY <1>2 DEF Strong, IdentityInvariant, TypeOK, PendingFresh
<1>4. CASE mapped[s] = Null
  <2>1. call' = [call EXCEPT ![b].at = "pending", ![b].user = u]
    BY <1>2, <1>4
  <2>2. /\ call'[b].at = "pending" /\ call'[b].user = u /\ call'[b].subject = s
        /\ call'[b].verdict = call[b].verdict /\ call'[b] \in Call
        /\ \A c \in Backends : c # b => call'[c] = call[c]
        /\ call' \in [Backends -> Call]
    <3> DEFINE next == [call[b] EXCEPT !.at = "pending", !.user = u]
    <3>1. call[b] \in Call /\ call \in [Backends -> Call]
      BY CallFacts
    <3>2. next \in Call
      BY <1>2, <3>1 DEF Call
    <3>3. next.at = "pending" /\ next.user = u /\ next.subject = s
          /\ next.verdict = call[b].verdict
      BY <3>1 DEF Call
    <3>4. call' = [call EXCEPT ![b] = next]
      BY <2>1, <3>1
    <3> HIDE DEF next
    <3> QED BY <3>1, <3>2, <3>3, <3>4
  <2>3. TypeOK'
    BY <1>1, <1>2, <1>3, <2>2 DEF Strong, IdentityInvariant, TypeOK
  <2>4. EveryUserMappedOnce'
    BY <1>1 DEF Strong, IdentityInvariant, EveryUserMappedOnce
  <2>5. \A c \in Backends : call[c].at = "pending" => call[c].subject # s /\ call[c].user # u
    BY <1>1, <1>2 DEF Locked, Strong, IdentityInvariant, PendingFresh
  <2>6. PendingFresh'
    BY <1>1, <1>2, <1>3, <1>4, <2>2, <2>5 DEF Strong, IdentityInvariant, PendingFresh
  <2>7. FoundHolds' /\ LoserGetsWinner'
    BY <1>1, <2>2 DEF Strong, IdentityInvariant, FoundHolds, LoserGetsWinner
  <2>8. UsersSettled'
    <3> SUFFICES ASSUME NEW c \in Backends, HasUser(call'[c])
                 PROVE  /\ call'[c].user \in spent'
                        /\ call'[c].user \in user' =>
                             mapped'[call'[c].subject] = call'[c].user
                        /\ \A d \in Backends :
                             call'[d].at = "pending" => call'[d].user # call'[c].user
      BY DEF UsersSettled, HasUser
    <3>1. c # b /\ call'[c] = call[c]
      BY <2>2 DEF HasUser
    <3>2. CallSettled(call[c]) /\ HasUser(call[c])
      BY <3>1, CallFacts
    <3>3. call[c].user \in spent /\ call[c].user # u
      BY <1>2, <3>2 DEF CallSettled
    <3> QED BY <1>1, <1>3, <2>2, <3>1, <3>2, <3>3 DEF CallSettled
  <2> QED BY <2>3, <2>4, <2>6, <2>7, <2>8 DEF Strong, IdentityInvariant
<1>5. CASE mapped[s] # Null
  <2>1. call' = [call EXCEPT ![b] = retry]
    BY <1>2, <1>5, CallFacts DEF Goto
  <2>2. retry \in Call /\ retry.at = "retry" /\ retry.subject = s
        /\ retry.verdict = call[b].verdict /\ retry.user = call[b].user
    BY CallFacts DEF Call
  <2>3. CallFormed(retry) /\ CallHolds(retry) /\ CallSettled(retry)
    BY <1>1, <1>5, <2>2, CallFacts
       DEF CallFormed, CallHolds, CallSettled, HasUser
  <2> HIDE DEF retry
  <2> QED BY <1>1, <1>3, <2>1, <2>2, <2>3, CallStep
<1> QED BY <1>4, <1>5

LEMMA CommitKeeps ==
  ASSUME Strong, NEW b \in Backends, Commit(b)
  PROVE  Strong'
<1> DEFINE s == call[b].subject
           u == call[b].user
<1>1. /\ call[b].at = "pending" /\ user' = user \cup {u} /\ home' = home \cup {u}
      /\ mapped' = [mapped EXCEPT ![s] = u] /\ UNCHANGED <<spent, carried>>
      /\ call' = [call EXCEPT ![b].at = "done", ![b].verdict = "ok"]
  BY DEF Commit, End
<1>2. /\ s \in Subjects /\ u \in Users /\ u \in spent \ user /\ mapped[s] = Null
      /\ mapped \in [Subjects -> Users \cup {Null}] /\ Null \notin Users
  BY <1>1, CallFacts DEF CallFormed, Strong, IdentityInvariant, PendingFresh, TypeOK
<1>3. /\ call'[b].at = "done" /\ call'[b].verdict = "ok" /\ call'[b].user = u
      /\ call'[b].subject = s /\ call'[b] \in Call
      /\ \A c \in Backends : c # b => call'[c] = call[c]
      /\ call' \in [Backends -> Call]
  <2> DEFINE next == [call[b] EXCEPT !.at = "done", !.verdict = "ok"]
  <2>1. call[b] \in Call /\ call \in [Backends -> Call]
    BY CallFacts
  <2>2. next \in Call
    BY <2>1 DEF Call, Verdicts
  <2>3. next.at = "done" /\ next.verdict = "ok" /\ next.user = u /\ next.subject = s
    BY <2>1 DEF Call
  <2>4. call' = [call EXCEPT ![b] = next]
    BY <1>1, <2>1
  <2> HIDE DEF next
  <2> QED BY <2>1, <2>2, <2>3, <2>4
<1>4. mapped'[s] = u /\ \A t \in Subjects : t # s => mapped'[t] = mapped[t]
  BY <1>1, <1>2
<1>5. TypeOK'
  BY <1>1, <1>2, <1>3 DEF Strong, IdentityInvariant, TypeOK
<1>6. \A t \in Subjects : mapped[t] # u
  BY <1>2 DEF Strong, IdentityInvariant, EveryUserMappedOnce
<1>7. EveryUserMappedOnce'
  <2>1. EveryUserMappedOnce
    BY DEF Strong, IdentityInvariant
  <2>2. \A v \in user' : \E t \in Subjects : mapped'[t] = v
    <3> SUFFICES ASSUME NEW v \in user' PROVE \E t \in Subjects : mapped'[t] = v
      OBVIOUS
    <3>1. CASE v = u
      BY <1>2, <1>4, <3>1
    <3>2. CASE v # u
      <4>1. PICK t \in Subjects : mapped[t] = v
        BY <1>1, <2>1, <3>2 DEF EveryUserMappedOnce
      <4>2. t # s
        BY <1>2, <2>1, <4>1, <1>1, <3>2 DEF EveryUserMappedOnce, Strong, IdentityInvariant, TypeOK
      <4> QED BY <1>4, <4>1, <4>2
    <3> QED BY <3>1, <3>2
  <2>3. \A t, r \in Subjects : mapped'[t] # Null /\ mapped'[t] = mapped'[r] => t = r
    BY <1>4, <1>6, <2>1 DEF EveryUserMappedOnce
  <2>4. \A t \in Subjects : mapped'[t] # Null => mapped'[t] \in user'
    BY <1>1, <1>4, <2>1 DEF EveryUserMappedOnce
  <2>5. home' \cup carried' \subseteq user'
    BY <1>1, <2>1 DEF EveryUserMappedOnce
  <2> QED BY <2>2, <2>3, <2>4, <2>5 DEF EveryUserMappedOnce
<1>8. PendingFresh'
  <2>1. \A c \in Backends : c # b /\ call[c].at = "pending" =>
          call[c].subject # s /\ call[c].user # u /\ call[c].subject \in Subjects
    BY <1>1, CallFacts DEF Strong, IdentityInvariant, PendingFresh, CallFormed
  <2> QED BY <1>1, <1>2, <1>3, <1>4, <2>1 DEF Strong, IdentityInvariant, PendingFresh
<1>9. FoundHolds'
  <2>1. \A c \in Backends : call[c].at # "idle" /\ mapped[call[c].subject] # Null =>
          mapped'[call[c].subject] = mapped[call[c].subject]
    BY <1>2, <1>4, CallFacts DEF CallFormed
  <2>2. \A c \in Backends : call[c].at = "resolve" => call[c].user # Null
    BY CallFacts DEF CallFormed
  <2> QED BY <1>1, <1>2, <1>3, <2>1, <2>2 DEF Strong, IdentityInvariant, FoundHolds
<1>10. LoserGetsWinner'
  BY <1>3 DEF Strong, LoserGetsWinner
<1>11. UsersSettled'
  <2> SUFFICES ASSUME NEW c \in Backends, HasUser(call'[c])
               PROVE  /\ call'[c].user \in spent'
                      /\ call'[c].user \in user' =>
                           mapped'[call'[c].subject] = call'[c].user
                      /\ \A d \in Backends :
                           call'[d].at = "pending" => call'[d].user # call'[c].user
    BY DEF UsersSettled, HasUser
  <2>1. \A d \in Backends : call'[d].at = "pending" =>
          d # b /\ call[d].at = "pending" /\ call'[d].user = call[d].user
    BY <1>3
  <2>2. CASE c = b
    <3>1. \A d \in Backends : call[d].at = "pending" /\ d # b => call[d].user # u
      BY <1>1 DEF Strong, IdentityInvariant, PendingFresh
    <3> QED BY <1>1, <1>2, <1>3, <1>4, <2>1, <2>2, <3>1
  <2>3. CASE c # b
    <3>1. call'[c] = call[c] /\ HasUser(call[c]) /\ CallSettled(call[c])
      BY <1>3, <2>3, CallFacts
    <3>2. call[c].user # u /\ call[c].user \in spent
      BY <1>1, <3>1 DEF CallSettled
    <3>3. call[c].user \in user' => call[c].user \in user
      BY <1>1, <3>2
    <3>4. call[c].user \in user => mapped[call[c].subject] = call[c].user
      BY <3>1 DEF CallSettled
    <3>5. call[c].user \in user => call[c].subject # s
      BY <1>2, <3>4 DEF Strong, IdentityInvariant, TypeOK
    <3>6. call[c].subject \in Subjects
      BY <3>1, CallFacts DEF CallFormed, HasUser
    <3>7. call[c].user \in user => mapped'[call[c].subject] = call[c].user
      BY <1>4, <3>4, <3>5, <3>6
    <3>8. \A d \in Backends : call[d].at = "pending" => call[d].user # call[c].user
      BY <3>1 DEF CallSettled
    <3>9. call[c].user \in user' => mapped'[call[c].subject] = call[c].user
      BY <3>3, <3>7
    <3>10. \A d \in Backends : call'[d].at = "pending" => call'[d].user # call[c].user
      BY <2>1, <3>8
    <3>11. call[c].user \in spent'
      BY <1>1, <3>2
    <3> QED BY <3>1, <3>9, <3>10, <3>11
  <2> QED BY <2>2, <2>3
<1> QED BY <1>5, <1>7, <1>8, <1>9, <1>10, <1>11 DEF Strong, IdentityInvariant

LEMMA RetryKeeps ==
  ASSUME Strong, NEW b \in Backends, Retry(b)
  PROVE  Strong'
<1> DEFINE u == mapped[call[b].subject]
           found == [call[b] EXCEPT !.at = "resolve", !.user = u]
           lost == [call[b] EXCEPT !.at = "done", !.verdict = "raised"]
<1>1. /\ call[b].at = "retry" /\ UNCHANGED <<user, spent, mapped, home, carried>>
      /\ spent \subseteq Users
  BY DEF Retry, Strong, IdentityInvariant, TypeOK
<1>2. call[b] \in Call
  BY CallFacts
<1>3. CASE u # Null
  <2>1. call' = [call EXCEPT ![b] = found]
    BY <1>3, CallFacts DEF Retry
  <2>2. found \in Call /\ found.at = "resolve" /\ found.user = u /\ u \in Users
        /\ found.subject = call[b].subject /\ found.verdict = call[b].verdict
    BY <1>1, <1>3, CallFacts DEF Call
  <2>3. CallFormed(found) /\ CallHolds(found)
    BY <1>1, <2>2, CallFacts DEF CallFormed, CallHolds
  <2>4. CallSettled(found)
    BY <1>1, <2>2, CallFacts, FoundIsSettled DEF CallFormed
  <2> HIDE DEF found
  <2> QED BY <1>1, <2>1, <2>2, <2>3, <2>4, CallStep
<1>4. CASE u = Null
  <2>1. call' = [call EXCEPT ![b] = lost]
    BY <1>4, CallFacts DEF Retry, End
  <2>2. lost \in Call
    BY <1>2 DEF Call, Verdicts
  <2>3. lost.at = "done" /\ lost.verdict = "raised" /\ lost.subject = call[b].subject
        /\ lost.changed = call[b].changed
    BY <1>2 DEF Call
  <2>4. call[b].changed
    BY <1>1, <1>4, CallFacts DEF CallHolds
  <2>5. CallFormed(lost) /\ CallHolds(lost) /\ CallSettled(lost)
    BY <1>1, <2>3, <2>4, CallFacts DEF CallFormed, CallHolds, CallSettled, HasUser
  <2> HIDE DEF lost
  <2> QED BY <1>1, <2>1, <2>2, <2>3, <2>5, CallStep
<1> QED BY <1>3, <1>4

\* A function ends with one of the verdicts a provisioning call may get.
LEMMA EndKeeps ==
  ASSUME Strong, NEW b \in Backends, NEW verdict \in {"ok", "no_tenant", "aborted"},
         call[b].at # "idle",
         verdict = "ok" => call[b].user \in Users /\ HasUser(call[b]),
         End(b, verdict), UNCHANGED <<user, spent, mapped, home, carried>>
  PROVE  Strong'
<1> DEFINE ended == [call[b] EXCEPT !.at = "done", !.verdict = verdict]
<1>1. call[b] \in Call /\ call \in [Backends -> Call] /\ spent \subseteq Users
  BY CallFacts DEF Strong, IdentityInvariant, TypeOK
<1>2. call' = [call EXCEPT ![b] = ended]
  BY <1>1 DEF End
<1>3. ended \in Call
  BY <1>1 DEF Call, Verdicts
<1>4. ended.at = "done" /\ ended.verdict = verdict /\ ended.subject = call[b].subject
      /\ ended.user = call[b].user
  BY <1>1 DEF Call
<1>5. CallFormed(ended) /\ CallHolds(ended)
  BY <1>4, CallFacts DEF CallFormed, CallHolds
<1>6. CallSettled(ended)
  <2>1. HasUser(ended) => HasUser(call[b])
    BY <1>4 DEF HasUser
  <2> QED BY <1>4, <2>1, CallFacts, StaysSettled
<1> HIDE DEF ended
<1> QED BY <1>1, <1>2, <1>3, <1>4, <1>5, <1>6, CallStep

LEMMA FinishKeeps ==
  ASSUME Strong, NEW b \in Backends, Finish(b),
         UNCHANGED <<user, spent, mapped, home, carried>>
  PROVE  Strong'
<1>1. NoCall \in Call /\ NoCall.at = "idle" /\ NoCall.verdict = "none"
  BY DEF NoCall, Call, Verdicts
<1>2. CallFormed(NoCall) /\ CallHolds(NoCall) /\ CallSettled(NoCall)
  BY <1>1 DEF CallFormed, CallHolds, CallSettled, HasUser
<1>3. spent \subseteq Users
  BY DEF Strong, IdentityInvariant, TypeOK
<1> QED BY <1>1, <1>2, <1>3, CallStep DEF Finish

LEMMA ResolveKeeps ==
  ASSUME Strong, NEW b \in Backends, Resolve(b)
  PROVE  Strong'
<1>1. /\ call[b].at = "resolve" /\ call[b].user \in Users /\ HasUser(call[b])
      /\ UNCHANGED <<user, spent, mapped, home, carried>>
      /\ End(b, "ok") \/ End(b, "no_tenant")
  BY CallFacts DEF Resolve, CallFormed, HasUser
<1> QED BY <1>1, EndKeeps

LEMMA AbortKeeps ==
  ASSUME Strong, NEW b \in Backends, Abort(b)
  PROVE  Strong'
<1>1. /\ call[b].at # "idle" /\ UNCHANGED <<user, spent, mapped, home, carried>>
      /\ End(b, "aborted") \/ Finish(b)
  BY DEF Abort
<1> QED BY <1>1, EndKeeps, FinishKeeps

LEMMA CheckTenantKeeps ==
  ASSUME Strong, NEW b \in Backends, CheckTenant(b)
  PROVE  Strong'
<1> DEFINE next == [call[b] EXCEPT !.at = "checked", !.changed = FALSE]
<1>1. /\ call[b].at = "done" /\ call[b].verdict = "ok"
      /\ UNCHANGED <<user, spent, mapped, home, carried>>
      /\ spent \subseteq Users /\ call[b] \in Call /\ call \in [Backends -> Call]
  BY CallFacts DEF CheckTenant, Strong, IdentityInvariant, TypeOK
<1>2. CASE call[b].user \in home
  <2>1. CASE call' = [call EXCEPT ![b].at = "checked", ![b].changed = FALSE]
    <3>1. call' = [call EXCEPT ![b] = next]
      BY <1>1, <2>1
    <3>2. next \in Call
      BY <1>1 DEF Call
    <3>3. next.at = "checked" /\ next.subject = call[b].subject
          /\ next.user = call[b].user /\ next.verdict = "ok"
      BY <1>1 DEF Call
    <3>4. CallFormed(next) /\ CallHolds(next)
      BY <1>1, <1>2, <3>3, CallFacts DEF CallFormed, CallHolds
    <3>5. CallSettled(next)
      <4>1. HasUser(call[b])
        BY <1>1 DEF HasUser
      <4> QED BY <3>3, <4>1, CallFacts, StaysSettled
    <3> HIDE DEF next
    <3> QED BY <1>1, <3>1, <3>2, <3>3, <3>4, <3>5, CallStep
  <2> QED BY <1>1, <1>2, <2>1, FinishKeeps DEF CheckTenant
<1>3. CASE call[b].user \notin home
  BY <1>1, <1>3, FinishKeeps DEF CheckTenant
<1> QED BY <1>2, <1>3

LEMMA InsertSessionKeeps ==
  ASSUME Strong, NEW b \in Backends, InsertSession(b)
  PROVE  Strong'
<1> DEFINE u == call[b].user
<1>1. /\ call[b].at = "checked" /\ u \in Users /\ Finish(b)
      /\ UNCHANGED <<user, spent, mapped, home>>
      /\ carried' = carried \/ (u \in user /\ carried' = carried \cup {u})
  BY CallFacts DEF InsertSession, CallFormed
<1>2. CASE carried' = carried
  BY <1>1, <1>2, FinishKeeps
<1>3. CASE u \in user /\ carried' = carried \cup {u}
  <2>1. /\ call \in [Backends -> Call] /\ call'[b] = NoCall /\ NoCall \in Call
        /\ NoCall.at = "idle" /\ NoCall.verdict = "none"
        /\ \A c \in Backends : c # b => call'[c] = call[c]
        /\ call' \in [Backends -> Call]
    BY <1>1, CallFacts DEF Finish, NoCall, Call, Verdicts
  <2>2. TypeOK'
    BY <1>1, <1>3, <2>1 DEF Strong, IdentityInvariant, TypeOK
  <2>3. EveryUserMappedOnce'
    BY <1>1, <1>3 DEF Strong, IdentityInvariant, EveryUserMappedOnce
  <2>4. PendingFresh'
    BY <1>1, <2>1 DEF Strong, IdentityInvariant, PendingFresh
  <2>5. FoundHolds' /\ LoserGetsWinner'
    BY <1>1, <2>1 DEF Strong, IdentityInvariant, FoundHolds, LoserGetsWinner
  <2>6. UsersSettled'
    <3>1. \A d \in Backends : call'[d].at = "pending" => call'[d] = call[d]
      BY <2>1
    <3>2. \A c \in Backends : HasUser(call'[c]) => call'[c] = call[c]
      BY <2>1 DEF HasUser
    <3> QED BY <1>1, <3>1, <3>2 DEF Strong, IdentityInvariant, UsersSettled, HasUser
  <2> QED BY <2>2, <2>3, <2>4, <2>5, <2>6 DEF Strong, IdentityInvariant
<1> QED BY <1>1, <1>2, <1>3

\* What an operator does marks every function that runs.
LEMMA DisturbedCalls ==
  ASSUME Strong, call' = [b \in Backends |-> Disturbed(call[b])]
  PROVE  \A b \in Backends :
           /\ call'[b] \in Call
           /\ call'[b].at = call[b].at /\ call'[b].subject = call[b].subject
           /\ call'[b].user = call[b].user /\ call'[b].verdict = call[b].verdict
           /\ call'[b].provision = call[b].provision
           /\ call[b].changed => call'[b].changed
           /\ call[b].at \notin {"idle", "done"} => call'[b].changed
           /\ call[b].at \in {"idle", "done"} => call'[b].changed = call[b].changed
<1> SUFFICES ASSUME NEW b \in Backends
             PROVE  LET c == call[b] d == call'[b] IN
                    /\ d \in Call
                    /\ d.at = c.at /\ d.subject = c.subject
                    /\ d.user = c.user /\ d.verdict = c.verdict
                    /\ d.provision = c.provision
                    /\ c.changed => d.changed
                    /\ c.at \notin {"idle", "done"} => d.changed
                    /\ c.at \in {"idle", "done"} => d.changed = c.changed
  OBVIOUS
<1> DEFINE c == call[b]
           mark == c.changed \/ c.at \notin {"idle", "done"}
<1>1. c \in Call
  BY CallFacts
<1>2. call'[b] = [c EXCEPT !.changed = mark]
  BY DEF Disturbed
<1>3. mark \in BOOLEAN
  BY <1>1 DEF Call
<1>4. c.changed \in BOOLEAN
  BY <1>1 DEF Call
<1>5. c.at \in {"idle", "done"} => mark = c.changed
  BY <1>4
<1>6. /\ c.changed => mark
      /\ c.at \notin {"idle", "done"} => mark
  OBVIOUS
<1> HIDE DEF mark
<1> QED BY <1>1, <1>2, <1>3, <1>5, <1>6 DEF Call

LEMMA RemoveUserKeeps ==
  ASSUME Strong, NEW u \in Users, RemoveUser(u)
  PROVE  Strong'
<1>1. /\ u \in user /\ user' = user \ {u} /\ home' = home \ {u}
      /\ carried' = carried \ {u} /\ spent' = spent
      /\ mapped' = [s \in Subjects |-> IF mapped[s] = u THEN Null ELSE mapped[s]]
      /\ call' = [b \in Backends |-> Disturbed(call[b])]
  BY DEF RemoveUser
<1>2. \A b \in Backends :
        /\ call'[b] \in Call
        /\ call'[b].at = call[b].at /\ call'[b].subject = call[b].subject
        /\ call'[b].user = call[b].user /\ call'[b].verdict = call[b].verdict
        /\ call'[b].provision = call[b].provision
        /\ call[b].changed => call'[b].changed
        /\ call[b].at \notin {"idle", "done"} => call'[b].changed
        /\ call[b].at \in {"idle", "done"} => call'[b].changed = call[b].changed
  BY <1>1, DisturbedCalls
<1>3. call' \in [Backends -> Call]
  BY <1>1, <1>2
<1>4. TypeOK'
  BY <1>1, <1>2, <1>3 DEF Strong, IdentityInvariant, TypeOK
<1>5. EveryUserMappedOnce'
  <2>1. EveryUserMappedOnce
    BY DEF Strong, IdentityInvariant
  <2>2. \A s \in Subjects : mapped'[s] # Null =>
          mapped'[s] = mapped[s] /\ mapped[s] # u
    BY <1>1
  <2>3. \A s \in Subjects : mapped[s] # u => mapped'[s] = mapped[s]
    BY <1>1
  <2>4. \A v \in user' : \E s \in Subjects : mapped'[s] = v
    BY <1>1, <2>1, <2>3 DEF EveryUserMappedOnce
  <2>5. \A s, t \in Subjects : mapped'[s] # Null /\ mapped'[s] = mapped'[t] => s = t
    BY <2>1, <2>2 DEF EveryUserMappedOnce
  <2>6. \A s \in Subjects : mapped'[s] # Null => mapped'[s] \in user'
    BY <1>1, <2>1, <2>2 DEF EveryUserMappedOnce
  <2>7. home' \cup carried' \subseteq user'
    BY <1>1, <2>1 DEF EveryUserMappedOnce
  <2> QED BY <2>4, <2>5, <2>6, <2>7 DEF EveryUserMappedOnce
<1>6. PendingFresh'
  <2>1. \A b \in Backends : call[b].at = "pending" => call[b].subject \in Subjects
    BY CallFacts DEF CallFormed
  <2> QED BY <1>1, <1>2, <2>1 DEF Strong, IdentityInvariant, PendingFresh
<1>7. FoundHolds'
  BY <1>2 DEF FoundHolds
<1>8. LoserGetsWinner'
  BY <1>2 DEF Strong, LoserGetsWinner
<1>9. UsersSettled'
  <2> SUFFICES ASSUME NEW c \in Backends, HasUser(call'[c])
               PROVE  /\ call'[c].user \in spent'
                      /\ call'[c].user \in user' =>
                           mapped'[call'[c].subject] = call'[c].user
                      /\ \A d \in Backends :
                           call'[d].at = "pending" => call'[d].user # call'[c].user
    BY DEF UsersSettled, HasUser
  <2>1. HasUser(call[c]) /\ CallSettled(call[c]) /\ call[c].subject \in Subjects
    BY <1>2, CallFacts DEF HasUser, CallFormed
  <2>2. call[c].user \in user' => mapped'[call[c].subject] = call[c].user
    BY <1>1, <2>1 DEF CallSettled
  <2> QED BY <1>1, <1>2, <2>1, <2>2 DEF CallSettled
<1> QED BY <1>4, <1>5, <1>6, <1>7, <1>8, <1>9 DEF Strong, IdentityInvariant

LEMMA SuspendKeeps ==
  ASSUME Strong, NEW u \in Users, Suspend(u)
  PROVE  Strong'
<1>1. /\ home' = home \ {u} /\ UNCHANGED <<user, spent, mapped, carried>>
      /\ call' = [b \in Backends |-> Disturbed(call[b])]
  BY DEF Suspend
<1>2. \A b \in Backends :
        /\ call'[b] \in Call
        /\ call'[b].at = call[b].at /\ call'[b].subject = call[b].subject
        /\ call'[b].user = call[b].user /\ call'[b].verdict = call[b].verdict
        /\ call'[b].provision = call[b].provision
        /\ call[b].changed => call'[b].changed
        /\ call[b].at \notin {"idle", "done"} => call'[b].changed
        /\ call[b].at \in {"idle", "done"} => call'[b].changed = call[b].changed
  BY <1>1, DisturbedCalls
<1>3. call' \in [Backends -> Call]
  BY <1>1, <1>2
<1>4. TypeOK'
  BY <1>1, <1>2, <1>3 DEF Strong, IdentityInvariant, TypeOK
<1>5. EveryUserMappedOnce'
  BY <1>1 DEF Strong, IdentityInvariant, EveryUserMappedOnce
<1>6. PendingFresh'
  BY <1>1, <1>2 DEF Strong, IdentityInvariant, PendingFresh
<1>7. FoundHolds'
  BY <1>2 DEF FoundHolds
<1>8. LoserGetsWinner'
  BY <1>2 DEF Strong, LoserGetsWinner
<1>9. UsersSettled'
  BY <1>1, <1>2 DEF Strong, IdentityInvariant, UsersSettled, HasUser
<1> QED BY <1>4, <1>5, <1>6, <1>7, <1>8, <1>9 DEF Strong, IdentityInvariant

LEMMA NextKeeps == Strong /\ [Next]_vars => Strong'
<1> SUFFICES ASSUME Strong, [Next]_vars PROVE Strong'
  OBVIOUS
<1>1. ASSUME NEW b \in Backends, NEW s \in Subjects, NEW provision \in BOOLEAN,
             MapIdentity(b, s, provision)
      PROVE  Strong'
  BY <1>1, MapIdentityKeeps
<1>2. ASSUME NEW b \in Backends, Step(b) PROVE Strong'
  BY <1>2, LookupKeeps, InsertKeeps, CommitKeeps, RetryKeeps, ResolveKeeps,
     CheckTenantKeeps, InsertSessionKeeps DEF Step
<1>3. ASSUME NEW b \in Backends, Abort(b) PROVE Strong'
  BY <1>3, AbortKeeps
<1>4. ASSUME NEW u \in Users, RemoveUser(u) \/ Suspend(u) PROVE Strong'
  BY <1>4, RemoveUserKeeps, SuspendKeeps
<1>5. CASE UNCHANGED vars
  BY <1>5 DEF vars, Strong, IdentityInvariant, TypeOK, EveryUserMappedOnce, PendingFresh,
              FoundHolds, UsersSettled, HasUser, LoserGetsWinner
<1> QED BY <1>1, <1>2, <1>3, <1>4, <1>5 DEF Next

LEMMA StrongHolds == Spec => []Strong
BY InitStrong, NextKeeps, PTL DEF Spec

\* One user comes of each subject, and what a call has found out holds until an
\* operator interferes (map_identity.sql:36-83).
THEOREM IdentityInvariance == Spec => []IdentityInvariant
<1>1. Strong => IdentityInvariant
  BY DEF Strong
<1> QED BY <1>1, StrongHolds, PTL

\* However first logins race, no user is left without an identity and none has
\* two (map_identity.sql:45-66).
THEOREM UsersMappedOnce == Spec => []EveryUserMappedOnce
<1>1. IdentityInvariant => EveryUserMappedOnce
  BY DEF IdentityInvariant
<1> QED BY <1>1, IdentityInvariance, PTL

\* The loser of a race gets the winner's mapping (map_identity.sql:57-65).
THEOREM LosersGetWinners == Spec => []LoserGetsWinner
<1>1. Strong => LoserGetsWinner
  BY DEF Strong
<1> QED BY <1>1, StrongHolds, PTL

\* A mapping stays until its user is removed (map_identity.sql:47-48).
THEOREM MappingsStay == Spec => MappingStays
<1> DEFINE A == \A s \in Subjects :
                  mapped[s] # Null => mapped'[s] = mapped[s] \/ mapped[s] \notin user'
<1>1. ASSUME IdentityInvariant, [Next]_vars PROVE A
  <2> SUFFICES ASSUME NEW s \in Subjects, mapped[s] # Null, mapped'[s] # mapped[s]
               PROVE  mapped[s] \notin user'
    OBVIOUS
  <2>1. CASE \E b \in Backends : Commit(b)
    <3>1. PICK b \in Backends : Commit(b)
      BY <2>1
    <3>2. /\ mapped[call[b].subject] = Null
          /\ mapped' = [mapped EXCEPT ![call[b].subject] = call[b].user]
      BY <1>1, <3>1 DEF Commit, IdentityInvariant, PendingFresh
    <3> QED BY <1>1, <3>2 DEF IdentityInvariant, TypeOK
  <2>2. CASE \E u \in Users : RemoveUser(u)
    BY <2>2 DEF RemoveUser
  <2> QED BY <1>1, <2>1, <2>2 DEF Next, Step, vars, MapIdentity, Lookup, Insert, Retry,
             Resolve, CheckTenant, InsertSession, Abort, Suspend
<1> QED BY <1>1, IdentityInvariance, PTL DEF Spec, MappingStays

\* Who is told a mapping is told the one that is there (map_identity.sql:36-83).
THEOREM AnswersAreMappings == Spec => AnswerIsTheMapping
<1> DEFINE A == \A b \in Backends :
                  call[b].at # "done" /\ call'[b].at = "done" /\ call'[b].verdict = "ok"
                  => call'[b].user = mapped'[call[b].subject]
<1>1. ASSUME Strong, [Next]_vars PROVE A
  <2> SUFFICES ASSUME NEW b \in Backends, call[b].at # "done", call'[b].at = "done",
                      call'[b].verdict = "ok"
               PROVE  call'[b].user = mapped'[call[b].subject]
    OBVIOUS
  <2>1. call[b] \in Call /\ call \in [Backends -> Call]
    BY <1>1, CallFacts
  <2>2. ~ \E u \in Users : RemoveUser(u) \/ Suspend(u)
    <3>1. ASSUME NEW u \in Users, RemoveUser(u) \/ Suspend(u) PROVE FALSE
      <4>1. call' = [c \in Backends |-> Disturbed(call[c])]
        BY <3>1 DEF RemoveUser, Suspend
      <4>2. call'[b].at = call[b].at
        BY <1>1, <4>1, DisturbedCalls
      <4> QED BY <4>2
    <3> QED BY <3>1
  <2>3. PICK c \in Backends : Step(c) \/ Abort(c) \/
          \E s \in Subjects, provision \in BOOLEAN : MapIdentity(c, s, provision)
    BY <1>1, <2>2 DEF Next, vars
  <2>4. c = b
    BY <2>1, <2>3 DEF Step, Lookup, Insert, Commit, Retry, Resolve, CheckTenant,
          InsertSession, Abort, MapIdentity, Goto, End, Finish
  <2>5. CASE Commit(b)
    <3>1. /\ call[b].subject \in Subjects /\ mapped \in [Subjects -> Users \cup {Null}]
          /\ mapped' = [mapped EXCEPT ![call[b].subject] = call[b].user]
          /\ call' = [call EXCEPT ![b].at = "done", ![b].verdict = "ok"]
      BY <1>1, <2>5, CallFacts DEF Commit, End, CallFormed, Strong, IdentityInvariant, TypeOK
    <3>2. call'[b].user = call[b].user
      BY <2>1, <3>1
    <3> QED BY <3>1, <3>2
  <2>6. CASE Resolve(b)
    <3>1. PICK verdict \in {"ok", "no_tenant"} :
            /\ verdict = "ok" => call[b].user \in home
            /\ call' = [call EXCEPT ![b].at = "done", ![b].verdict = verdict]
      BY <2>6 DEF Resolve, End
    <3>2. call'[b].user = call[b].user /\ verdict = "ok"
      BY <2>1, <3>1 DEF Call
    <3>3. call[b].user \in user
      BY <1>1, <3>1, <3>2 DEF Strong, IdentityInvariant, EveryUserMappedOnce
    <3>4. mapped' = mapped /\ mapped[call[b].subject] = call[b].user
      BY <1>1, <2>6, <3>3, CallFacts DEF Resolve, CallSettled, HasUser
    <3> QED BY <3>2, <3>4
  <2>7. CASE Lookup(b) \/ Retry(b)
    <3>1. PICK u \in {call[b].user, mapped[call[b].subject]} :
               \/ call' = [call EXCEPT ![b].at = "resolve", ![b].user = u]
               \/ call' = [call EXCEPT ![b].at = "insert"]
               \/ call' = [call EXCEPT ![b].at = "done", ![b].verdict = "not_found"]
               \/ call' = [call EXCEPT ![b].at = "done", ![b].verdict = "raised"]
      BY <2>7 DEF Lookup, Retry, Goto, End
    <3> QED BY <2>1, <3>1 DEF Call
  <2>8. CASE Insert(b)
    <3>1. PICK u \in Users :
               \/ call' = [call EXCEPT ![b].at = "pending", ![b].user = u]
               \/ call' = [call EXCEPT ![b].at = "retry"]
      BY <2>8 DEF Insert, Goto
    <3> QED BY <2>1, <3>1 DEF Call
  <2>9. CASE CheckTenant(b)
    BY <2>9 DEF CheckTenant
  <2>10. CASE InsertSession(b)
    <3>1. call' = [call EXCEPT ![b] = NoCall]
      BY <2>10 DEF InsertSession, Finish
    <3> QED BY <2>1, <3>1 DEF NoCall
  <2>11. CASE Abort(b)
    <3>1. \/ call' = [call EXCEPT ![b].at = "done", ![b].verdict = "aborted"]
          \/ call' = [call EXCEPT ![b] = NoCall]
      BY <2>11 DEF Abort, End, Finish
    <3> QED BY <2>1, <3>1 DEF NoCall, Call
  <2>12. ASSUME NEW s \in Subjects, NEW provision \in BOOLEAN, MapIdentity(b, s, provision)
         PROVE  FALSE
    <3>1. call'[b].at = "lookup"
      BY <2>1, <2>12 DEF MapIdentity, NoCall
    <3> QED BY <3>1
  <2> QED BY <2>3, <2>4, <2>5, <2>6, <2>7, <2>8, <2>9, <2>10, <2>11, <2>12 DEF Step
<1> QED BY <1>1, StrongHolds, PTL DEF Spec, AnswerIsTheMapping

\* Sessions are created for members only (routes.py:101-120,
\* create_user_session.sql:38-47).
THEOREM LoginsAreOfMembers == Spec => LoginsOfMembers
<1> DEFINE A == \A u \in carried' \ carried :
                  /\ u \in user'
                  /\ u \in home' \/ \E b \in Backends :
                       call[b].at = "checked" /\ call[b].user = u /\ call[b].changed
<1>1. ASSUME IdentityInvariant, [Next]_vars PROVE A
  <2> SUFFICES ASSUME NEW u \in carried' \ carried
               PROVE  /\ u \in user'
                      /\ u \in home' \/ \E b \in Backends :
                           call[b].at = "checked" /\ call[b].user = u /\ call[b].changed
    OBVIOUS
  <2>1. PICK b \in Backends : InsertSession(b)
    BY <1>1 DEF Next, Step, vars, MapIdentity, Lookup, Insert, Commit, Retry, Resolve,
       CheckTenant, Abort, RemoveUser, Suspend
  <2>2. /\ call[b].at = "checked" /\ call[b].user = u /\ u \in user
        /\ user' = user /\ home' = home
    BY <2>1 DEF InsertSession
  <2>3. ~call[b].changed => u \in home
    BY <1>1, <2>2 DEF IdentityInvariant, FoundHolds
  <2> QED BY <2>2, <2>3
<1> QED BY <1>1, IdentityInvariance, PTL DEF Spec, LoginsOfMembers

-----------------------------------------------------------------------------
(* The calls implement IdentityDirectory.                                  *)

\* The directory's questions, and the ids that pending rows hold.
Questions == [b \in Backends |-> Asked(call[b])]

Pending == {call[b].user : b \in {c \in Backends : call[c].at = "pending"}}

\* What a call has been asked and answered, by where it is.
LEMMA AskedFacts ==
  ASSUME NEW c
  PROVE  /\ c.at = "idle" => Asked(c) = Directory!Nothing
         /\ c.at \in {"lookup", "insert", "pending", "retry", "resolve"} =>
              Asked(c) = Directory!Question(c.subject)
         /\ c.at = "checked" \/ (c.at = "done" /\ c.verdict = "ok") =>
              Asked(c) = Directory!Answer(c.subject, c.user)
         /\ c.at = "done" /\ c.verdict # "ok" => Asked(c) = Directory!Refusal(c.subject)
<1>1. c.at = "idle" => Asked(c) = Directory!Nothing
  BY DEF Asked, HasUser, Directory!Nothing
<1>2. c.at \in {"lookup", "insert", "pending", "retry", "resolve"} =>
        Asked(c) = Directory!Question(c.subject)
  BY DEF Asked, HasUser, Directory!Question
<1>3. c.at = "checked" \/ (c.at = "done" /\ c.verdict = "ok") =>
        Asked(c) = Directory!Answer(c.subject, c.user)
  BY DEF Asked, HasUser, Directory!Answer
<1>4. c.at = "done" /\ c.verdict # "ok" => Asked(c) = Directory!Refusal(c.subject)
  BY DEF Asked, HasUser, Directory!Refusal
<1> QED BY <1>1, <1>2, <1>3, <1>4

\* A step of one call changes one question, and the ids that are pending with it.
LEMMA OneCall ==
  ASSUME Strong, NEW b \in Backends, NEW next, call' = [call EXCEPT ![b] = next]
  PROVE  /\ Questions' = [Questions EXCEPT ![b] = Asked(next)]
         /\ Questions[b] = Asked(call[b])
         /\ call[b].at # "pending" /\ next.at # "pending" => Pending' = Pending
         /\ call[b].at # "pending" /\ next.at = "pending" =>
              Pending' = Pending \cup {next.user}
         /\ call[b].at = "pending" /\ next.at # "pending" =>
              Pending' = Pending \ {call[b].user}
<1>1. /\ call'[b] = next /\ \A c \in Backends : c # b => call'[c] = call[c]
      /\ call \in [Backends -> Call]
  BY CallFacts
<1>2. Questions' = [Questions EXCEPT ![b] = Asked(next)]
  <2>1. \A c \in Backends : Asked(call'[c]) = IF c = b THEN Asked(next) ELSE Asked(call[c])
    BY <1>1
  <2> QED BY <2>1 DEF Questions
<1>3. call[b].at = "pending" =>
        \A c \in Backends : c # b /\ call[c].at = "pending" => call[c].user # call[b].user
  BY DEF Strong, IdentityInvariant, PendingFresh
<1>4. Questions[b] = Asked(call[b])
  BY DEF Questions
<1>5. call[b].at # "pending" /\ next.at # "pending" => Pending' = Pending
  BY <1>1 DEF Pending
<1>6. call[b].at # "pending" /\ next.at = "pending" => Pending' = Pending \cup {next.user}
  BY <1>1 DEF Pending
<1>7. call[b].at = "pending" /\ next.at # "pending" => Pending' = Pending \ {call[b].user}
  BY <1>1, <1>3 DEF Pending
<1> QED BY <1>2, <1>4, <1>5, <1>6, <1>7

LEMMA PendingIsSpent ==
  ASSUME Strong
  PROVE  Pending \subseteq spent /\ Taken = spent \ Pending
BY DEF Strong, IdentityInvariant, PendingFresh, Pending, Taken

\* Where a step of one call leaves the ids that are taken.
LEMMA TakenKept ==
  ASSUME Strong, NEW b \in Backends, NEW next, call' = [call EXCEPT ![b] = next],
         call[b].at # "pending", next.at # "pending", UNCHANGED spent
  PROVE  Taken' = Taken
BY OneCall DEF Taken, Pending

\* A call's end, or loss, of its rows leaves their id taken.
LEMMA TakenWith ==
  ASSUME Strong, NEW b \in Backends, NEW next, call' = [call EXCEPT ![b] = next],
         call[b].at = "pending", next.at # "pending", UNCHANGED spent
  PROVE  call[b].user \notin Taken /\ Taken' = Taken \cup {call[b].user}
<1>1. Pending' = Pending \ {call[b].user}
  BY OneCall
<1>2. call[b].user \in Pending /\ Pending \subseteq spent
  BY PendingIsSpent DEF Pending
<1>3. Taken = spent \ Pending /\ Taken' = spent' \ Pending'
  BY DEF Taken, Pending
<1> QED BY <1>1, <1>2, <1>3

\* A step that changes nothing of the directory.
LEMMA Stutters ==
  ASSUME Taken' = Taken, Questions' = Questions, UNCHANGED <<mapped, home, carried>>
  PROVE  UNCHANGED Directory!vars
BY DEF Directory!vars, Questions

\* A call that goes on with its question.
LEMMA StillAsks ==
  ASSUME Strong, NEW b \in Backends, NEW next, call' = [call EXCEPT ![b] = next],
         Asked(next) = Asked(call[b]), Taken' = Taken, UNCHANGED <<mapped, home, carried>>
  PROVE  UNCHANGED Directory!vars
<1>1. Questions' = Questions
  BY OneCall DEF Questions
<1> QED BY <1>1, Stutters

LEMMA Refuses ==
  ASSUME Strong, NEW b \in Backends, NEW next, call' = [call EXCEPT ![b] = next],
         Asked(call[b]) = Directory!Question(call[b].subject),
         Asked(next) = Directory!Refusal(call[b].subject),
         UNCHANGED Taken \/ \E u \in Users : Taken' = Taken \cup {u},
         UNCHANGED <<mapped, home, carried>>
  PROVE  Directory!Next
<1>1. Questions' = [Questions EXCEPT ![b] = Asked(next)] /\ Questions[b] = Asked(call[b])
  BY OneCall
<1>2. Questions[b].answer = "awaited" /\ Questions[b].subject = call[b].subject
  BY <1>1 DEF Directory!Question
<1>3. Questions' = [Questions EXCEPT ![b] = Directory!Refusal(Questions[b].subject)]
  BY <1>1, <1>2
<1>4. Directory!Refuse(b)
  BY <1>2, <1>3 DEF Directory!Refuse, Questions
<1> QED BY <1>4 DEF Directory!Next

\* create_user_session ends without a session.
LEMMA GivesUp ==
  ASSUME Strong, NEW b \in Backends, Finish(b),
         Asked(call[b]) = Directory!Answer(call[b].subject, call[b].user),
         call[b].at # "pending", UNCHANGED <<spent, mapped, home, carried>>
  PROVE  Directory!Next
<1>1. call' = [call EXCEPT ![b] = NoCall] /\ NoCall.at = "idle"
  BY DEF Finish, NoCall
<1>2. Questions' = [Questions EXCEPT ![b] = Asked(NoCall)] /\ Questions[b] = Asked(call[b])
  BY <1>1, OneCall
<1>3. Asked(NoCall) = Directory!Nothing /\ Taken' = Taken /\ Questions[b].answer = "user"
  <2>1. Taken' = Taken
    BY <1>1, TakenKept
  <2>2. Asked(NoCall) = Directory!Nothing
    BY <1>1, AskedFacts
  <2>3. Questions[b].answer = "user"
    BY <1>2 DEF Directory!Answer
  <2> QED BY <2>1, <2>2, <2>3
<1>4. Directory!GiveUp(b)
  BY <1>2, <1>3 DEF Directory!GiveUp, Questions
<1> QED BY <1>4 DEF Directory!Next

LEMMA AskStep ==
  ASSUME Strong, NEW b \in Backends, NEW s \in Subjects, NEW provision \in BOOLEAN,
         MapIdentity(b, s, provision)
  PROVE  Directory!Next
<1> DEFINE next == [NoCall EXCEPT !.at = "lookup", !.subject = s, !.provision = provision]
<1>1. /\ next.at = "lookup" /\ next.subject = s /\ call' = [call EXCEPT ![b] = next]
      /\ call[b].at \in {"idle", "done"} /\ UNCHANGED <<spent, mapped, home, carried>>
  BY DEF MapIdentity, NoCall
<1> HIDE DEF next
<1>2. Asked(next) = Directory!Question(s)
  BY <1>1, AskedFacts
<1>3. Asked(call[b]).answer # "awaited"
  BY <1>1, AskedFacts DEF Directory!Nothing, Directory!Answer, Directory!Refusal
<1>4. Taken' = Taken
  BY <1>1, TakenKept
<1>5. Questions' = [Questions EXCEPT ![b] = Asked(next)] /\ Questions[b] = Asked(call[b])
  BY <1>1, OneCall
<1>6. Directory!Ask(b, s)
  BY <1>1, <1>2, <1>3, <1>4, <1>5 DEF Directory!Ask, Questions
<1> QED BY <1>6 DEF Directory!Next

LEMMA LookupStep ==
  ASSUME Strong, NEW b \in Backends, Lookup(b) \/ Retry(b)
  PROVE  Directory!Next \/ UNCHANGED Directory!vars
<1> DEFINE u == mapped[call[b].subject]
           found == [call[b] EXCEPT !.at = "resolve", !.user = u]
           unknown == [call[b] EXCEPT !.at = "insert"]
           ended(verdict) == [call[b] EXCEPT !.at = "done", !.verdict = verdict]
<1>1. call[b] \in Call /\ call \in [Backends -> Call]
  BY CallFacts
<1>2. /\ call[b].at \in {"lookup", "retry"} /\ UNCHANGED <<spent, mapped, home, carried>>
      /\ \/ call' = [call EXCEPT ![b] = found] \/ call' = [call EXCEPT ![b] = unknown]
         \/ \E verdict \in {"not_found", "raised"} : call' = [call EXCEPT ![b] = ended(verdict)]
  BY <1>1 DEF Lookup, Retry, Goto, End
<1>3. /\ found.at = "resolve" /\ found.subject = call[b].subject
      /\ unknown.at = "insert" /\ unknown.subject = call[b].subject
      /\ \A verdict : ended(verdict).at = "done" /\ ended(verdict).verdict = verdict
                      /\ ended(verdict).subject = call[b].subject
  BY <1>1 DEF Call
<1>4. Asked(call[b]) = Directory!Question(call[b].subject)
  BY <1>2, AskedFacts
<1> HIDE DEF found, unknown, ended
<1>5. ASSUME NEW next \in {found, unknown}, call' = [call EXCEPT ![b] = next]
      PROVE  UNCHANGED Directory!vars
  <2>1. Asked(next) = Directory!Question(call[b].subject)
    BY <1>3, AskedFacts
  <2>2. Taken' = Taken
    BY <1>2, <1>3, <1>5, TakenKept
  <2> QED BY <1>2, <1>4, <1>5, <2>1, <2>2, StillAsks
<1>6. ASSUME NEW verdict \in {"not_found", "raised"}, call' = [call EXCEPT ![b] = ended(verdict)]
      PROVE  Directory!Next
  <2>1. Asked(ended(verdict)) = Directory!Refusal(call[b].subject)
    BY <1>3, AskedFacts
  <2>2. Taken' = Taken
    BY <1>2, <1>3, <1>6, TakenKept
  <2> QED BY <1>2, <1>4, <1>6, <2>1, <2>2, Refuses
<1> QED BY <1>2, <1>5, <1>6

\* An insert takes no id before its commit; the loser of a race wastes its own.
LEMMA InsertStep ==
  ASSUME Strong, NEW b \in Backends, Insert(b)
  PROVE  Directory!Next \/ UNCHANGED Directory!vars
<1>1. /\ call[b].at = "insert" /\ UNCHANGED <<mapped, home, carried>>
      /\ call[b] \in Call /\ call \in [Backends -> Call]
      /\ Asked(call[b]) = Directory!Question(call[b].subject)
  BY CallFacts, AskedFacts DEF Insert
<1>2. PICK u \in Users \ spent :
        /\ spent' = spent \cup {u}
        /\ \/ call' = [call EXCEPT ![b].at = "pending", ![b].user = u]
           \/ Goto(b, "retry")
  BY DEF Insert
<1>3. Pending \subseteq spent /\ Taken = spent \ Pending /\ Taken' = spent' \ Pending'
  BY PendingIsSpent DEF Taken, Pending
<1>4. CASE call' = [call EXCEPT ![b].at = "pending", ![b].user = u]
  <2> DEFINE next == [call[b] EXCEPT !.at = "pending", !.user = u]
  <2>1. next.at = "pending" /\ next.user = u /\ next.subject = call[b].subject
        /\ call' = [call EXCEPT ![b] = next]
    BY <1>1, <1>4 DEF Call
  <2> HIDE DEF next
  <2>2. Pending' = Pending \cup {u}
    BY <1>1, <2>1, OneCall
  <2>3. Taken' = Taken
    BY <1>2, <1>3, <2>2
  <2>4. Asked(next) = Directory!Question(call[b].subject)
    BY <2>1, AskedFacts
  <2> QED BY <1>1, <2>1, <2>3, <2>4, StillAsks
<1>5. CASE Goto(b, "retry")
  <2> DEFINE next == [call[b] EXCEPT !.at = "retry"]
  <2>1. next.at = "retry" /\ next.subject = call[b].subject
        /\ call' = [call EXCEPT ![b] = next]
    BY <1>1, <1>5 DEF Call, Goto
  <2> HIDE DEF next
  <2>2. Pending' = Pending
    BY <1>1, <2>1, OneCall
  <2>3. Taken' = Taken \cup {u}
    BY <1>2, <1>3, <2>2
  <2>4. Asked(next) = Asked(call[b])
    BY <1>1, <2>1, AskedFacts
  <2>5. Questions' = Questions
    BY <2>1, <2>4, OneCall DEF Questions
  <2>6. Directory!Waste(u)
    BY <1>1, <2>3, <2>5 DEF Directory!Waste, Questions
  <2> QED BY <2>6 DEF Directory!Next
<1> QED BY <1>2, <1>4, <1>5

LEMMA CommitStep ==
  ASSUME Strong, NEW b \in Backends, Commit(b)
  PROVE  Directory!Next
<1> DEFINE s == call[b].subject
           u == call[b].user
           next == [call[b] EXCEPT !.at = "done", !.verdict = "ok"]
<1>1. /\ call[b].at = "pending" /\ UNCHANGED <<spent, carried>>
      /\ mapped' = [mapped EXCEPT ![s] = u] /\ home' = home \cup {u}
      /\ call[b] \in Call /\ call \in [Backends -> Call]
      /\ Asked(call[b]) = Directory!Question(s)
  BY CallFacts, AskedFacts DEF Commit
<1>2. mapped[s] = Null /\ u \in Users
  BY <1>1, CallFacts DEF CallFormed, Strong, IdentityInvariant, PendingFresh
<1>3. /\ next.at = "done" /\ next.verdict = "ok" /\ next.subject = s /\ next.user = u
      /\ call' = [call EXCEPT ![b] = next]
  BY <1>1 DEF Call, Commit, End
<1> HIDE DEF next
<1>4. u \notin Taken /\ Taken' = Taken \cup {u}
  BY <1>1, <1>3, TakenWith
<1>5. Asked(next) = Directory!Answer(s, u)
  BY <1>3, AskedFacts
<1>6. Questions' = [Questions EXCEPT ![b] = Directory!Answer(s, u)]
      /\ Questions[b].answer = "awaited" /\ Questions[b].subject = s
  <2>1. Questions' = [Questions EXCEPT ![b] = Asked(next)] /\ Questions[b] = Asked(call[b])
    BY <1>3, OneCall
  <2> QED BY <1>1, <1>5, <2>1 DEF Directory!Question
<1>7. Directory!Provision(b, u)
  BY <1>1, <1>2, <1>4, <1>6 DEF Directory!Provision, Questions
<1> QED BY <1>2, <1>7 DEF Directory!Next

LEMMA ResolveStep ==
  ASSUME Strong, NEW b \in Backends, Resolve(b)
  PROVE  Directory!Next
<1> DEFINE s == call[b].subject
           u == call[b].user
           next(verdict) == [call[b] EXCEPT !.at = "done", !.verdict = verdict]
<1>1. /\ call[b].at = "resolve" /\ UNCHANGED <<user, spent, mapped, home, carried>>
      /\ call[b] \in Call /\ call \in [Backends -> Call] /\ CallSettled(call[b])
      /\ Asked(call[b]) = Directory!Question(s)
  BY CallFacts, AskedFacts DEF Resolve
<1>2. PICK verdict \in {"ok", "no_tenant"} :
        /\ verdict = "ok" => u \in home
        /\ call' = [call EXCEPT ![b] = next(verdict)]
  BY <1>1 DEF Resolve, End
<1>3. next(verdict).at = "done" /\ next(verdict).verdict = verdict
      /\ next(verdict).subject = s /\ next(verdict).user = u
  BY <1>1, <1>2 DEF Call
<1> HIDE DEF next
<1>4. Taken' = Taken
  BY <1>1, <1>2, <1>3, TakenKept
<1>5. CASE verdict = "ok"
  <2>1. u \in home /\ mapped[s] = u
    <3>1. u \in home /\ u \in user
      BY <1>2, <1>5 DEF Strong, IdentityInvariant, EveryUserMappedOnce
    <3> QED BY <1>1, <3>1 DEF CallSettled, HasUser
  <2>2. Asked(next(verdict)) = Directory!Answer(s, u)
    BY <1>3, <1>5, AskedFacts
  <2>3. Questions' = [Questions EXCEPT ![b] = Directory!Answer(s, u)]
        /\ Questions[b].answer = "awaited" /\ Questions[b].subject = s
    <3>1. Questions' = [Questions EXCEPT ![b] = Asked(next(verdict))]
          /\ Questions[b] = Asked(call[b])
      BY <1>2, OneCall
    <3> QED BY <1>1, <2>2, <3>1 DEF Directory!Question
  <2>4. Directory!Find(b)
    BY <1>1, <1>4, <2>1, <2>3 DEF Directory!Find, Questions
  <2> QED BY <2>4 DEF Directory!Next
<1>6. CASE verdict = "no_tenant"
  <2>1. Asked(next(verdict)) = Directory!Refusal(s)
    BY <1>3, <1>6, AskedFacts
  <2> QED BY <1>1, <1>2, <1>4, <2>1, Refuses
<1> QED BY <1>2, <1>5, <1>6

LEMMA CheckTenantStep ==
  ASSUME Strong, NEW b \in Backends, CheckTenant(b)
  PROVE  Directory!Next \/ UNCHANGED Directory!vars
<1> DEFINE next == [call[b] EXCEPT !.at = "checked", !.changed = FALSE]
<1>1. /\ call[b].at = "done" /\ call[b].verdict = "ok"
      /\ UNCHANGED <<spent, mapped, home, carried>>
      /\ call[b] \in Call /\ call \in [Backends -> Call]
      /\ Asked(call[b]) = Directory!Answer(call[b].subject, call[b].user)
  BY CallFacts, AskedFacts DEF CheckTenant
<1>2. CASE call' = [call EXCEPT ![b].at = "checked", ![b].changed = FALSE]
  <2>1. /\ next.at = "checked" /\ next.subject = call[b].subject
        /\ next.user = call[b].user /\ call' = [call EXCEPT ![b] = next]
    BY <1>1, <1>2 DEF Call
  <2> HIDE DEF next
  <2>2. Asked(next) = Asked(call[b])
    BY <1>1, <2>1, AskedFacts
  <2>3. Taken' = Taken
    BY <1>1, <2>1, TakenKept
  <2> QED BY <1>1, <2>1, <2>2, <2>3, StillAsks
<1>3. CASE Finish(b)
  BY <1>1, <1>3, GivesUp
<1> QED BY <1>2, <1>3 DEF CheckTenant

LEMMA InsertSessionStep ==
  ASSUME Strong, NEW b \in Backends, InsertSession(b)
  PROVE  Directory!Next
<1> DEFINE s == call[b].subject
           u == call[b].user
<1>1. /\ call[b].at = "checked" /\ UNCHANGED <<user, spent, mapped, home>> /\ Finish(b)
      /\ call[b] \in Call /\ call \in [Backends -> Call] /\ CallSettled(call[b])
      /\ Asked(call[b]) = Directory!Answer(s, u)
      /\ UNCHANGED carried \/ (u \in user /\ carried' = carried \cup {u})
  BY CallFacts, AskedFacts DEF InsertSession
<1>2. CASE UNCHANGED carried
  BY <1>1, <1>2, GivesUp
<1>3. CASE u \in user /\ carried' = carried \cup {u}
  <2>1. mapped[s] = u
    BY <1>1, <1>3 DEF CallSettled, HasUser
  <2>2. call' = [call EXCEPT ![b] = NoCall] /\ NoCall.at = "idle"
    BY <1>1 DEF Finish, NoCall
  <2>3. Taken' = Taken
    BY <1>1, <2>2, TakenKept
  <2>4. Asked(NoCall) = Directory!Nothing
    BY <2>2, AskedFacts
  <2>5. Questions' = [Questions EXCEPT ![b] = Directory!Nothing]
        /\ Questions[b] = Directory!Answer(s, u)
    BY <1>1, <2>2, <2>4, OneCall
  <2>6. Questions[b].answer = "user" /\ Questions[b].subject = s /\ Questions[b].user = u
    BY <2>5 DEF Directory!Answer
  <2>7. Directory!Carry(b)
    BY <1>1, <1>3, <2>1, <2>3, <2>5, <2>6 DEF Directory!Carry, Questions
  <2> QED BY <2>7 DEF Directory!Next
<1> QED BY <1>1, <1>2, <1>3

LEMMA AbortStep ==
  ASSUME Strong, NEW b \in Backends, Abort(b)
  PROVE  Directory!Next
<1> DEFINE next == [call[b] EXCEPT !.at = "done", !.verdict = "aborted"]
<1>1. /\ call[b].at \notin {"idle", "done"}
      /\ UNCHANGED <<user, spent, mapped, home, carried>>
      /\ call[b] \in Call /\ call \in [Backends -> Call] /\ CallFormed(call[b])
  BY CallFacts DEF Abort
<1>2. CASE call[b].at # "checked" /\ End(b, "aborted")
  <2>1. Asked(call[b]) = Directory!Question(call[b].subject)
    <3>1. call[b].at \in {"lookup", "insert", "pending", "retry", "resolve"}
      BY <1>1, <1>2 DEF Call
    <3> QED BY <3>1, AskedFacts
  <2>2. /\ next.at = "done" /\ next.verdict = "aborted" /\ next.subject = call[b].subject
        /\ call' = [call EXCEPT ![b] = next]
    BY <1>1, <1>2 DEF Call, End
  <2> HIDE DEF next
  <2>3. Asked(next) = Directory!Refusal(call[b].subject)
    BY <2>2, AskedFacts
  <2>4. CASE call[b].at = "pending"
    <3>1. call[b].user \in Users /\ Taken' = Taken \cup {call[b].user}
      BY <1>1, <2>2, <2>4, TakenWith DEF CallFormed
    <3> QED BY <1>1, <2>1, <2>2, <2>3, <3>1, Refuses
  <2>5. CASE call[b].at # "pending"
    <3>1. Taken' = Taken
      BY <1>1, <2>2, <2>5, TakenKept
    <3> QED BY <1>1, <2>1, <2>2, <2>3, <3>1, Refuses
  <2> QED BY <2>4, <2>5
<1>3. CASE call[b].at = "checked" /\ Finish(b)
  <2>1. Asked(call[b]) = Directory!Answer(call[b].subject, call[b].user)
    BY <1>3, AskedFacts
  <2> QED BY <1>1, <1>3, <2>1, GivesUp
<1> QED BY <1>2, <1>3 DEF Abort

\* The operator changes no question and takes no id.
LEMMA OperatorSteps ==
  ASSUME Strong, NEW u \in Users, RemoveUser(u) \/ Suspend(u)
  PROVE  Directory!Next
<1>1. call' = [b \in Backends |-> Disturbed(call[b])] /\ UNCHANGED spent
  BY DEF RemoveUser, Suspend
<1>2. \A b \in Backends :
        /\ call'[b].at = call[b].at /\ call'[b].subject = call[b].subject
        /\ call'[b].user = call[b].user /\ call'[b].verdict = call[b].verdict
  BY <1>1, DisturbedCalls
<1>3. Taken' = Taken
  BY <1>1, <1>2 DEF Taken
<1>4. Questions' = Questions
  <2>1. \A b \in Backends : Asked(call'[b]) = Asked(call[b])
    BY <1>2 DEF Asked, HasUser
  <2> QED BY <2>1 DEF Questions
<1>5. CASE RemoveUser(u)
  <2>1. Directory!Remove(u)
    BY <1>3, <1>4, <1>5 DEF RemoveUser, Directory!Remove, Questions
  <2> QED BY <2>1 DEF Directory!Next
<1>6. CASE Suspend(u)
  <2>1. Directory!Suspend(u)
    BY <1>3, <1>4, <1>6 DEF Suspend, Directory!Suspend, Questions
  <2> QED BY <2>1 DEF Directory!Next
<1> QED BY <1>5, <1>6

\* The calls implement the directory: found, provisioned or refused in one step,
\* with a session only for the user that the subject still has
\* (map_identity.sql:36-83, create_user_session.sql:38-66).
THEOREM DirectoryImplemented == Spec => DirectorySpec
<1>1. Init => Directory!Init
  <2> SUFFICES ASSUME Init PROVE Directory!Init
    OBVIOUS
  <2>1. Taken = {}
    BY DEF Init, Taken
  <2>2. \A b \in Backends : Asked(call[b]) = Directory!Nothing
    BY AskedFacts DEF Init, NoCall
  <2> QED BY <2>1, <2>2 DEF Init, Directory!Init
<1>2. Strong /\ [Next]_vars => [Directory!Next]_(Directory!vars)
  <2> SUFFICES ASSUME Strong, [Next]_vars
               PROVE  Directory!Next \/ UNCHANGED Directory!vars
    OBVIOUS
  <2>1. ASSUME NEW b \in Backends, Step(b)
        PROVE  Directory!Next \/ UNCHANGED Directory!vars
    BY <2>1, LookupStep, InsertStep, CommitStep, ResolveStep, CheckTenantStep,
       InsertSessionStep DEF Step
  <2>2. CASE UNCHANGED vars
    BY <2>2 DEF vars, Directory!vars, Taken, Asked, HasUser
  <2> QED BY <2>1, <2>2, AskStep, AbortStep, OperatorSteps DEF Next
<1> QED BY <1>1, <1>2, StrongHolds, PTL DEF Spec, DirectorySpec, Directory!Spec

=============================================================================
