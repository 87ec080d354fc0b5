------------------------- MODULE SessionStoreProofs -------------------------
(***************************************************************************)
(* The session store of SessionStore, for any number of connections,       *)
(* sessions, users and tenants and any durations: its inductive invariant, *)
(* the safety properties that follow from it, and that it implements       *)
(* LoginLineage.                                                           *)
(*                                                                         *)
(* What a call decided when it read a row is still right when it writes    *)
(* only if calls are short (ShortCalls): the theorems that need it say so. *)
(***************************************************************************)
EXTENDS SessionStore, FiniteSetTheorems, TLAPS

\* An idle connection has no token, lock or target.
LEMMA NoCallType ==
  /\ NoCall \in Call
  /\ NoCall.locked = {} /\ NoCall.targets = {} /\ NoCall.new = Null
BY StoreAssumption DEF NoCall, Call, Statements

\* The record of a call that begins, field by field.
LEMMA NewCallFields ==
  ASSUME TypeOK, NEW a \in Statements,
         NEW t \in Sessions \cup {Null}, NEW n \in Sessions \cup {Null},
         NEW o \in Owners \cup {Null}
  PROVE  LET c == NewCall(a, t, n, o) IN
         /\ c \in Call
         /\ c.at = a /\ c.now = clock /\ clock \in Nat
         /\ c.token = t /\ c.new = n /\ c.owner = o
         /\ c.locked = {} /\ c.targets = {} /\ c.seen = {}
BY StoreAssumption DEF NewCall, NoCall, Call, TypeOK

\* Returning leaves the calls well typed.
LEMMA ReturnType ==
  ASSUME TypeOK, NEW b \in Backends, Return(b)
  PROVE  call' \in [Backends -> Call]
BY NoCallType DEF TypeOK, Return

\* The row a rotation or a login stores is well typed, within its deadlines.
LEMMA NewRowType ==
  ASSUME NEW o \in Owners, NEW a \in Nat, NEW n \in Nat, NEW f \in Sessions \cup {Null}
  PROVE  /\ NewRow(o, a, n, f) \in Row /\ NewRow(o, a, n, f) # Null
         /\ NewRow(o, a, n, f).owner = o /\ NewRow(o, a, n, f).absolute = a
         /\ NewRow(o, a, n, f).idle <= a
         /\ NewRow(o, a, n, f).revoked = Null /\ NewRow(o, a, n, f).rotated_from = f
BY StoreAssumption DEF NewRow, Row, Earliest

-----------------------------------------------------------------------------
(* The invariant of the table: RowInvariant, one lemma per writing step.   *)

\* A step that leaves the rows alone keeps what is true of the rows.
LEMMA Unwritten ==
  ASSUME RowInvariant, UNCHANGED <<row, origin>>
  PROVE  RowInvariant'
BY DEF RowInvariant, OriginsKnown, PredecessorsRevoked, OneLivePerLogin,
       RotatedOnce, LoginTermsFixed, Stored, Live

\* create_user_session keeps the relations between the rows: its token is fresh.
LEMMA CreateRows ==
  ASSUME TypeOK, RowInvariant, CallsFormed, NewTokensFresh,
         NEW b \in Backends, Create(b)
  PROVE  /\ row' \in [Sessions -> Row \cup {Null}]
         /\ origin' \in [Sessions -> Sessions \cup {Null}]
         /\ RowInvariant'
         /\ \A s \in Sessions :
              /\ s # call[b].new => origin'[s] = origin[s] /\ row'[s] = row[s]
              /\ Live(s) => Live(s)'
<1> DEFINE c == call[b]
<1> USE StoreAssumption DEF TypeOK
<1>1. c.at = "create" /\ c.new \in Sessions /\ c.owner \in Owners /\ c.now \in Nat
  BY DEF Create, CallsFormed, Formed, Call
<1>2. origin[c.new] = Null /\ ~Stored(c.new)
  BY <1>1 DEF NewTokensFresh, RowInvariant, OriginsKnown
<1>3. CASE UNCHANGED <<row, origin>>
  BY <1>3, Unwritten DEF Live, Stored
<1>4. CASE /\ row' = [row EXCEPT ![c.new] = NewRow(c.owner, c.now + AbsoluteTtl, c.now, Null)]
           /\ origin' = [origin EXCEPT ![c.new] = c.new]
  <2> DEFINE r == NewRow(c.owner, c.now + AbsoluteTtl, c.now, Null)
  <2>a. c.now + AbsoluteTtl \in Nat /\ Null \in Sessions \cup {Null}
    BY <1>1
  <2> HIDE StoreAssumption DEF TypeOK
  <2>1. /\ r \in Row /\ r # Null /\ r.rotated_from = Null
        /\ r.idle <= r.absolute
    BY <1>1, <2>a, NewRowType
  <2> USE StoreAssumption DEF TypeOK
  <2>2. /\ row'[c.new] = r /\ origin'[c.new] = c.new
        /\ \A s \in Sessions \ {c.new} : row'[s] = row[s] /\ origin'[s] = origin[s]
    BY <1>1, <1>4
  <2>3. \A s \in Sessions : origin[s] # Null => origin[s] # c.new
    BY <1>2 DEF RowInvariant, OriginsKnown
  <2> HIDE DEF r
  <2>4. OriginsKnown'
    BY <1>1, <1>2, <2>1, <2>2, <2>3 DEF RowInvariant, OriginsKnown, Stored
  <2>5. PredecessorsRevoked'
    BY <1>1, <1>2, <2>1, <2>2 DEF RowInvariant, PredecessorsRevoked, Stored
  <2>6. OneLivePerLogin'
    BY <1>1, <1>2, <2>1, <2>2, <2>3
       DEF RowInvariant, OneLivePerLogin, OriginsKnown, Live, Stored
  <2>7. RotatedOnce'
    BY <1>1, <1>2, <2>1, <2>2 DEF RowInvariant, RotatedOnce, Stored
  <2>8. LoginTermsFixed'
    BY <1>1, <1>2, <2>1, <2>2, <2>3 DEF RowInvariant, LoginTermsFixed, OriginsKnown, Stored
  <2>9. row' \in [Sessions -> Row \cup {Null}] /\ origin' \in [Sessions -> Sessions \cup {Null}]
    BY <1>1, <1>4, <2>1 DEF r
  <2>10. \A s \in Sessions : Live(s) => Live(s)'
    BY <1>2, <2>2 DEF Live, Stored
  <2> QED  BY <2>2, <2>4, <2>5, <2>6, <2>7, <2>8, <2>9, <2>10 DEF RowInvariant
<1> QED  BY <1>3, <1>4 DEF Create

\* rotate_user_session keeps them: the old row is the last of its login, and
\* the new one takes over its owner, its deadline and its place.
LEMMA RotateRows ==
  ASSUME TypeOK, RowInvariant, CallsFormed, NewTokensFresh, LocksHeld,
         NEW b \in Backends, RotateCommit(b)
  PROVE  /\ row' \in [Sessions -> Row \cup {Null}]
         /\ origin' \in [Sessions -> Sessions \cup {Null}]
         /\ RowInvariant'
         /\ call[b].new \in Sessions /\ origin[call[b].new] = Null
         /\ Live(call[b].token) /\ call[b].token \in Sessions
         /\ origin'[call[b].new] = origin[call[b].token]
         /\ \A s \in Sessions :
              /\ s # call[b].new => origin'[s] = origin[s]
              /\ s \notin {call[b].new, call[b].token} => row'[s] = row[s]
              /\ Live(s)' <=> (Live(s) /\ s # call[b].token) \/ s = call[b].new
<1> DEFINE c == call[b]
           old == row[c.token]
           r == NewRow(old.owner, old.absolute, c.now, c.token)
<1> USE StoreAssumption DEF TypeOK
<1>1. /\ c.new \in Sessions /\ c.token \in Sessions /\ c.now \in Nat
      /\ Live(c.token) /\ origin[c.token] \in Sessions
  BY DEF RotateCommit, CallsFormed, Formed, LocksHeld, Call
<1>2. origin[c.new] = Null /\ ~Stored(c.new) /\ c.new # c.token
  BY <1>1 DEF NewTokensFresh, RowInvariant, OriginsKnown
<1>3. old \in Row /\ old.revoked = Null
  BY <1>1 DEF Live, Stored
<1>4. /\ r \in Row /\ r # Null /\ r.rotated_from = c.token
      /\ r.idle <= r.absolute /\ r.owner = old.owner /\ r.absolute = old.absolute
      /\ r.revoked = Null
  <2>1. old.owner \in Owners /\ old.absolute \in Nat
    BY <1>3 DEF Row
  <2> HIDE StoreAssumption DEF TypeOK
  <2> QED  BY <1>1, <2>1, NewRowType
<1>5. /\ row' = [row EXCEPT ![c.new] = r, ![c.token].revoked = c.now]
      /\ origin' = [origin EXCEPT ![c.new] = origin[c.token]]
  BY DEF RotateCommit
<1>6. /\ row'[c.new] = r /\ origin'[c.new] = origin[c.token]
      /\ row'[c.token] = [old EXCEPT !.revoked = c.now]
      /\ \A s \in Sessions \ {c.new} : origin'[s] = origin[s]
      /\ \A s \in Sessions \ {c.new, c.token} : row'[s] = row[s]
  BY <1>1, <1>2, <1>5
<1>7. /\ row'[c.token] \in Row
      /\ row'[c.token].revoked = c.now
      /\ row'[c.token].owner = old.owner /\ row'[c.token].absolute = old.absolute
      /\ row'[c.token].idle = old.idle /\ row'[c.token].rotated_from = old.rotated_from
  BY <1>1, <1>3, <1>6 DEF Row
<1>8. \A s \in Sessions : ~(Stored(s) /\ row[s].rotated_from = c.token)
  BY <1>1, <1>3 DEF RowInvariant, PredecessorsRevoked
<1> HIDE DEF r
<1>9. \A s \in Sessions : Stored(s)' <=> (Stored(s) \/ s = c.new)
  <2>1. row'[c.new] # Null /\ row'[c.token] # Null /\ row[c.token] # Null
    BY <1>3, <1>4, <1>6, <1>7
  <2>2. \A s \in Sessions \ {c.new, c.token} : row'[s] = row[s]
    BY <1>6
  <2> HIDE StoreAssumption DEF TypeOK
  <2> QED  BY <1>1, <2>1, <2>2 DEF Stored
<1>10. \A s \in Sessions : Live(s)' <=> (Live(s) /\ s # c.token) \/ s = c.new
  <2>1. row'[c.new].revoked = Null /\ row'[c.token].revoked # Null
    BY <1>1, <1>4, <1>6, <1>7
  <2>2. \A s \in Sessions \ {c.new, c.token} : row'[s] = row[s]
    BY <1>6
  <2> HIDE StoreAssumption DEF TypeOK
  <2> QED  BY <1>1, <1>2, <1>9, <2>1, <2>2 DEF Live, Stored
<1>11. \A s \in Sessions \ {c.new} : Stored(s) =>
         /\ row'[s].owner = row[s].owner /\ row'[s].absolute = row[s].absolute
         /\ row'[s].idle = row[s].idle /\ row'[s].rotated_from = row[s].rotated_from
         /\ row[s].revoked # Null => row'[s].revoked # Null
  BY <1>1, <1>3, <1>6, <1>7
<1>12. row'[c.token].revoked # Null
  BY <1>1, <1>7
<1>13. OriginsKnown'
  BY <1>1, <1>2, <1>6, <1>9 DEF RowInvariant, OriginsKnown
<1>14. PredecessorsRevoked'
  <2> SUFFICES ASSUME NEW s \in Sessions, NEW p \in Sessions,
                      Stored(s)', row'[s].rotated_from = p
               PROVE  Stored(p)' /\ row'[p].revoked # Null
    BY DEF PredecessorsRevoked
  <2>1. CASE s = c.new
    BY <1>1, <1>4, <1>6, <1>9, <1>12, <2>1 DEF Live
  <2>2. CASE s # c.new
    <3>1. Stored(s) /\ row[s].rotated_from = p
      BY <1>9, <1>11, <2>2
    <3>2. Stored(p) /\ row[p].revoked # Null
      BY <3>1 DEF RowInvariant, PredecessorsRevoked
    <3> QED  BY <1>2, <1>9, <1>11, <3>2
  <2> QED  BY <2>1, <2>2
<1>16. OneLivePerLogin'
  BY <1>1, <1>2, <1>6, <1>10 DEF RowInvariant, OneLivePerLogin
<1>17. RotatedOnce'
  BY <1>1, <1>4, <1>6, <1>8, <1>9, <1>11 DEF RowInvariant, RotatedOnce
<1>18. LoginTermsFixed'
  <2>1. Stored(c.token)
    BY <1>1 DEF Live
  <2>2. ASSUME NEW s \in Sessions \ {c.new}, Stored(s)', origin'[s] = origin[c.token]
        PROVE  row'[s].owner = r.owner /\ row'[s].absolute = r.absolute
    BY <1>1, <1>4, <1>6, <1>9, <1>11, <2>1, <2>2 DEF RowInvariant, LoginTermsFixed
  <2>3. ASSUME NEW s \in Sessions, NEW t \in Sessions,
               Stored(s)', Stored(t)', origin'[s] = origin'[t]
        PROVE  row'[s].owner = row'[t].owner /\ row'[s].absolute = row'[t].absolute
    <3>1. CASE s # c.new /\ t # c.new
      BY <1>6, <1>9, <1>11, <2>3, <3>1 DEF RowInvariant, LoginTermsFixed
    <3>2. CASE s = c.new \/ t = c.new
      BY <1>1, <1>4, <1>6, <2>2, <2>3, <3>2
    <3> QED  BY <3>1, <3>2
  <2>4. ASSUME NEW s \in Sessions, Stored(s)'
        PROVE  row'[s].idle <= row'[s].absolute
    BY <1>4, <1>6, <1>9, <1>11, <2>4 DEF RowInvariant, LoginTermsFixed
  <2> QED  BY <2>3, <2>4 DEF LoginTermsFixed
<1>15. row' \in [Sessions -> Row \cup {Null}] /\ origin' \in [Sessions -> Sessions \cup {Null}]
  BY <1>1, <1>4, <1>5, <1>6, <1>7
<1> QED  BY <1>1, <1>2, <1>6, <1>10, <1>13, <1>14, <1>15, <1>16, <1>17, <1>18 DEF RowInvariant

\* The steps that only update or delete stored rows keep the table invariant
\* when they move no row between logins, bring no session back to life and
\* leave no reference to a deleted row.
LEMMA UpdateRows ==
  ASSUME TypeOK, RowInvariant, UNCHANGED origin, row' \in [Sessions -> Row \cup {Null}],
         \A s \in Sessions : Stored(s)' =>
           /\ Stored(s)
           /\ row'[s].owner = row[s].owner /\ row'[s].absolute = row[s].absolute
           /\ row'[s].idle <= row'[s].absolute
           /\ Live(s)' => Live(s),
         \A s, p \in Sessions : Stored(s)' /\ row'[s].rotated_from = p =>
           row[s].rotated_from = p /\ Stored(p)'
  PROVE  RowInvariant'
<1> USE StoreAssumption
<1>1. OriginsKnown'
  BY DEF RowInvariant, OriginsKnown
<1>2. PredecessorsRevoked'
  BY DEF RowInvariant, PredecessorsRevoked, Live
<1>3. OneLivePerLogin'
  BY DEF RowInvariant, OneLivePerLogin, Live
<1>4. RotatedOnce'
  <2> SUFFICES ASSUME NEW s \in Sessions, NEW t \in Sessions, Stored(s)', Stored(t)',
                      row'[s].rotated_from # Null,
                      row'[s].rotated_from = row'[t].rotated_from
               PROVE  s = t
    BY DEF RotatedOnce
  <2>1. row'[s].rotated_from \in Sessions
    BY DEF Row, Stored
  <2> QED  BY <2>1 DEF RowInvariant, RotatedOnce
<1>5. LoginTermsFixed'
  BY DEF RowInvariant, LoginTermsFixed
<1> QED  BY <1>1, <1>2, <1>3, <1>4, <1>5 DEF RowInvariant

\* touch_user_session keeps them: only the idle deadline of one row moves.
LEMMA TouchRows ==
  ASSUME TypeOK, RowInvariant, CallsFormed, NEW b \in Backends, TouchWrite(b)
  PROVE  /\ row' \in [Sessions -> Row \cup {Null}]
         /\ RowInvariant'
         /\ \A s \in Sessions : Live(s)' <=> Live(s)
<1> USE StoreAssumption DEF TypeOK
<1> DEFINE c == call[b]
           t == Earliest(c.now + IdleTtl, row[c.token].absolute)
<1>1. c.token \in Sessions /\ c.now \in Nat
  BY DEF TouchWrite, CallsFormed, Formed, Call
<1>2. CASE ~Stored(c.token)
  <2>1. UNCHANGED <<row, origin>>
    BY <1>2 DEF TouchWrite
  <2> QED  BY <2>1, Unwritten DEF Live, Stored
<1>3. CASE Stored(c.token)
  <2>1. row[c.token] \in Row /\ t \in Nat /\ t <= row[c.token].absolute
    BY <1>1, <1>3 DEF Stored, Row, Earliest
  <2>2. row' = [row EXCEPT ![c.token].idle = t] /\ UNCHANGED origin
    BY <1>3 DEF TouchWrite
  <2> HIDE DEF t
  <2>3. /\ row'[c.token] = [row[c.token] EXCEPT !.idle = t]
        /\ \A s \in Sessions \ {c.token} : row'[s] = row[s]
    BY <1>1, <2>2
  <2>4. /\ row'[c.token] \in Row
        /\ row'[c.token].owner = row[c.token].owner
        /\ row'[c.token].absolute = row[c.token].absolute
        /\ row'[c.token].rotated_from = row[c.token].rotated_from
        /\ row'[c.token].revoked = row[c.token].revoked
        /\ row'[c.token].idle <= row'[c.token].absolute
    BY <2>1, <2>3 DEF Row
  <2>5. \A s \in Sessions : (Stored(s)' <=> Stored(s)) /\ (Live(s)' <=> Live(s))
    BY <1>1, <1>3, <2>1, <2>3, <2>4 DEF Stored, Live
  <2>6. row' \in [Sessions -> Row \cup {Null}]
    BY <1>1, <2>2, <2>4
  <2>7. ASSUME NEW s \in Sessions, Stored(s)'
        PROVE  /\ row'[s].owner = row[s].owner /\ row'[s].absolute = row[s].absolute
               /\ row'[s].idle <= row'[s].absolute
               /\ row'[s].rotated_from = row[s].rotated_from
    BY <2>3, <2>4, <2>5, <2>7 DEF RowInvariant, LoginTermsFixed
  <2>8. ASSUME NEW s \in Sessions, NEW p \in Sessions,
               Stored(s)', row'[s].rotated_from = p
        PROVE  row[s].rotated_from = p /\ Stored(p)'
    BY <2>5, <2>7, <2>8 DEF RowInvariant, PredecessorsRevoked
  <2>9. RowInvariant'
    BY <2>2, <2>5, <2>6, <2>7, <2>8, UpdateRows
  <2> QED  BY <2>5, <2>6, <2>9
<1> QED  BY <1>2, <1>3

\* revoke_user_session keeps them: it sets only revoked_at.
LEMMA RevokeRows ==
  ASSUME TypeOK, RowInvariant, CallsFormed, NEW b \in Backends, Revoke(b)
  PROVE  /\ row' \in [Sessions -> Row \cup {Null}]
         /\ RowInvariant'
         /\ \A s \in Sessions : Live(s)' <=> Live(s) /\ s # call[b].token
<1> USE StoreAssumption DEF TypeOK
<1> DEFINE c == call[b]
<1>1. c.token \in Sessions /\ c.now \in Nat
  BY DEF Revoke, CallsFormed, Formed, Call
<1>2. CASE ~Live(c.token)
  <2>1. UNCHANGED <<row, origin>>
    BY <1>2 DEF Revoke
  <2> QED  BY <1>2, <2>1, Unwritten DEF Live, Stored
<1>3. CASE Live(c.token)
  <2>1. row[c.token] \in Row
    BY <1>1, <1>3 DEF Live, Stored
  <2>2. row' = [row EXCEPT ![c.token].revoked = c.now] /\ UNCHANGED origin
    BY <1>3 DEF Revoke
  <2>3. /\ row'[c.token] = [row[c.token] EXCEPT !.revoked = c.now]
        /\ \A s \in Sessions \ {c.token} : row'[s] = row[s]
    BY <1>1, <2>2
  <2>4. /\ row'[c.token] \in Row
        /\ row'[c.token].owner = row[c.token].owner
        /\ row'[c.token].absolute = row[c.token].absolute
        /\ row'[c.token].idle = row[c.token].idle
        /\ row'[c.token].rotated_from = row[c.token].rotated_from
        /\ row'[c.token].revoked # Null
    BY <1>1, <2>1, <2>3 DEF Row
  <2>5. \A s \in Sessions : (Stored(s)' <=> Stored(s)) /\ (Live(s)' <=> Live(s) /\ s # c.token)
    BY <1>1, <1>3, <2>1, <2>3, <2>4 DEF Stored, Live
  <2>6. row' \in [Sessions -> Row \cup {Null}]
    BY <1>1, <2>2, <2>4
  <2>7. ASSUME NEW s \in Sessions, Stored(s)'
        PROVE  /\ row'[s].owner = row[s].owner /\ row'[s].absolute = row[s].absolute
               /\ row'[s].idle <= row'[s].absolute
               /\ row'[s].rotated_from = row[s].rotated_from
    BY <2>3, <2>4, <2>5, <2>7 DEF RowInvariant, LoginTermsFixed
  <2>8. ASSUME NEW s \in Sessions, NEW p \in Sessions,
               Stored(s)', row'[s].rotated_from = p
        PROVE  row[s].rotated_from = p /\ Stored(p)'
    BY <2>5, <2>7, <2>8 DEF RowInvariant, PredecessorsRevoked
  <2>9. RowInvariant'
    BY <2>2, <2>5, <2>6, <2>7, <2>8, UpdateRows
  <2> QED  BY <2>5, <2>6, <2>9
<1> QED  BY <1>2, <1>3

\* The commit of revoke_all_user_sessions keeps them, for all its rows at once.
LEMMA RevokeAllRows ==
  ASSUME TypeOK, RowInvariant, CallsFormed, LocksHeld,
         NEW b \in Backends, RevokeAllCommit(b)
  PROVE  /\ row' \in [Sessions -> Row \cup {Null}]
         /\ RowInvariant'
         /\ \A s \in Sessions : Live(s)' <=> Live(s) /\ s \notin call[b].locked
<1> USE StoreAssumption DEF TypeOK
<1> DEFINE c == call[b]
<1>1. c.now \in Nat /\ c.locked \subseteq Sessions /\ UNCHANGED origin
  BY DEF RevokeAllCommit, Call
<1>2. \A s \in Sessions \ c.locked : row'[s] = row[s]
  BY DEF RevokeAllCommit
<1>3. \A s \in c.locked : row[s] \in Row
  BY <1>1 DEF LocksHeld, Stored
<1>4. ASSUME NEW s \in c.locked
      PROVE  /\ row'[s] \in Row
             /\ row'[s].owner = row[s].owner /\ row'[s].absolute = row[s].absolute
             /\ row'[s].idle = row[s].idle
             /\ row'[s].rotated_from = row[s].rotated_from
             /\ row'[s].revoked # Null
  <2>1. row'[s] = [row[s] EXCEPT !.revoked = c.now]
    BY <1>1 DEF RevokeAllCommit
  <2> QED  BY <1>1, <1>3, <2>1 DEF Row
<1>5. \A s \in Sessions : (Stored(s)' <=> Stored(s)) /\ (Live(s)' <=> Live(s) /\ s \notin c.locked)
  BY <1>2, <1>3, <1>4 DEF Stored, Live
<1>6. row' \in [Sessions -> Row \cup {Null}]
  <2>1. row' = [s \in Sessions |-> row'[s]]
    BY DEF RevokeAllCommit
  <2>2. \A s \in Sessions : row'[s] \in Row \cup {Null}
    BY <1>2, <1>4
  <2> QED  BY <2>1, <2>2
<1>7. ASSUME NEW s \in Sessions, Stored(s)'
      PROVE  /\ row'[s].owner = row[s].owner /\ row'[s].absolute = row[s].absolute
             /\ row'[s].idle <= row'[s].absolute
             /\ row'[s].rotated_from = row[s].rotated_from
  BY <1>2, <1>4, <1>5, <1>7 DEF RowInvariant, LoginTermsFixed
<1>8. ASSUME NEW s \in Sessions, NEW p \in Sessions,
             Stored(s)', row'[s].rotated_from = p
      PROVE  row[s].rotated_from = p /\ Stored(p)'
  BY <1>5, <1>7, <1>8 DEF RowInvariant, PredecessorsRevoked
<1>9. RowInvariant'
  BY <1>1, <1>5, <1>6, <1>7, <1>8, UpdateRows
<1> QED  BY <1>5, <1>6, <1>9

\* The commit of delete_expired_sessions keeps them: it deletes the rows it has
\* locked for that, and clears every reference to one of them.
LEMMA PurgeRows ==
  ASSUME TypeOK, RowInvariant, LocksHeld, PurgesCover, NEW b \in Backends, PurgeCommit(b)
  PROVE  /\ row' \in [Sessions -> Row \cup {Null}]
         /\ RowInvariant'
         /\ call[b].seen \subseteq call[b].locked
         /\ \A s \in call[b].seen : Purgeable(s, call[b].now)
         /\ \A s \in Sessions :
              /\ Stored(s)' <=> Stored(s) /\ s \notin call[b].seen
              /\ Live(s)' <=> Live(s) /\ s \notin call[b].seen
              /\ s \notin call[b].locked => row'[s] = row[s]
              /\ Stored(s)' => /\ row'[s].owner = row[s].owner
                               /\ row'[s].absolute = row[s].absolute
                               /\ row'[s].idle = row[s].idle
                               /\ row'[s].rotated_from \in {row[s].rotated_from, Null}
<1> USE StoreAssumption DEF TypeOK
<1> DEFINE c == call[b]
           cut == c.locked \ c.seen
<1>1. /\ UNCHANGED origin
      /\ row' = [s \in Sessions |->
                   IF s \in c.seen THEN Null
                   ELSE IF s \in c.locked THEN [row[s] EXCEPT !.rotated_from = Null]
                   ELSE row[s]]
      /\ c.at = "purge_cut" /\ c.targets = {}
  BY DEF PurgeCommit
<1>2. /\ c.seen \subseteq c.locked /\ c.locked \subseteq Sessions
      /\ \A s \in c.seen : Purgeable(s, c.now)
      /\ \A s \in c.locked : row[s] \in Row
  BY <1>1 DEF LocksHeld, Deleted, Stored, Call
<1>3. /\ \A s \in c.seen : row'[s] = Null
      /\ \A s \in Sessions \ c.locked : row'[s] = row[s]
  BY <1>1, <1>2
<1>4. ASSUME NEW s \in cut
      PROVE  /\ row'[s] \in Row
             /\ row'[s].owner = row[s].owner /\ row'[s].absolute = row[s].absolute
             /\ row'[s].idle = row[s].idle /\ row'[s].revoked = row[s].revoked
             /\ row'[s].rotated_from = Null
  <2>1. row'[s] = [row[s] EXCEPT !.rotated_from = Null]
    BY <1>1, <1>2
  <2> QED  BY <1>2, <2>1 DEF Row
<1>5. \A s \in Sessions : /\ Stored(s)' <=> Stored(s) /\ s \notin c.seen
                          /\ Live(s)' <=> Live(s) /\ s \notin c.seen
  BY <1>2, <1>3, <1>4 DEF Stored, Live
<1>6. row' \in [Sessions -> Row \cup {Null}]
  <2>1. row' = [s \in Sessions |-> row'[s]]
    BY <1>1
  <2>2. \A s \in Sessions : row'[s] \in Row \cup {Null}
    BY <1>3, <1>4
  <2> QED  BY <2>1, <2>2
<1>7. ASSUME NEW s \in Sessions, Stored(s)'
      PROVE  /\ row'[s].owner = row[s].owner /\ row'[s].absolute = row[s].absolute
             /\ row'[s].idle = row[s].idle
             /\ row'[s].rotated_from \in {row[s].rotated_from, Null}
             /\ row'[s].rotated_from # Null => s \notin c.locked
  BY <1>3, <1>4, <1>5, <1>7
<1>8. ASSUME NEW s \in Sessions, NEW p \in Sessions,
             Stored(s)', row'[s].rotated_from = p
      PROVE  row[s].rotated_from = p /\ Stored(p)'
  <2>1. row[s].rotated_from = p /\ s \notin c.locked /\ Stored(s)
    BY <1>5, <1>7, <1>8
  <2>2. p \notin c.seen
    BY <1>1, <2>1 DEF PurgesCover, PointsInto
  <2>3. Stored(p)
    BY <2>1 DEF RowInvariant, PredecessorsRevoked
  <2> QED  BY <1>5, <2>1, <2>2, <2>3
<1>9. \A s \in Sessions : Stored(s)' => row'[s].idle <= row'[s].absolute
  BY <1>5, <1>7 DEF RowInvariant, LoginTermsFixed
<1>10. RowInvariant'
  BY <1>1, <1>5, <1>6, <1>7, <1>8, <1>9, UpdateRows
<1> QED  BY <1>2, <1>3, <1>5, <1>6, <1>7, <1>10

-----------------------------------------------------------------------------
(* The invariant of the calls: CallsFormed, NewTokensFresh, LocksHeld and  *)
(* PurgesCover.                                                            *)

\* What the locks of a call c of connection b require.
Holds(b, c) ==
  /\ Deleted(c) \subseteq c.locked
  /\ \A s \in c.locked :
       /\ Free(b, s)
       /\ Stored(s)
       /\ c.at \in {"rotate_commit", "revoke_all_rows"} => Live(s)
       /\ s \in Deleted(c) => Purgeable(s, c.now)

\* What the references to the rows a call c deletes require.
Covers(c) ==
  c.at = "purge_cut" =>
    \A s \in Sessions : PointsInto(s, c.seen) => s \in c.targets \cup c.locked

\* A step that moves call b on to c without writing anything.
LEMMA AdvanceCalls ==
  ASSUME TypeOK, CallsFormed, NewTokensFresh, LocksHeld, PurgesCover,
         NEW b \in Backends, NEW c \in Call,
         UNCHANGED <<row, origin, clock>>, call' = [call EXCEPT ![b] = c],
         Formed(c),
         c.new = Null \/ c.new = call[b].new \/ Fresh(c.new),
         Holds(b, c), Covers(c)
  PROVE  TypeOK' /\ CallsFormed' /\ NewTokensFresh' /\ LocksHeld' /\ PurgesCover'
<1> USE DEF TypeOK
<1>1. call'[b] = c /\ \A d \in Backends \ {b} : call'[d] = call[d]
  OBVIOUS
<1>2. TypeOK'
  OBVIOUS
<1>3. CallsFormed'
  BY <1>1 DEF CallsFormed, Formed
<1>4. NewTokensFresh'
  BY <1>1 DEF NewTokensFresh, Fresh
<1>5. /\ \A s \in Sessions : (Stored(s)' <=> Stored(s)) /\ (Live(s)' <=> Live(s))
      /\ \A s \in Sessions, n \in Nat : Purgeable(s, n)' <=> Purgeable(s, n)
      /\ \A s \in Sessions, S \in SUBSET Sessions : PointsInto(s, S)' <=> PointsInto(s, S)
  BY DEF Stored, Live, Purgeable, PointsInto
<1>6. ASSUME NEW d \in Backends
      PROVE  /\ Deleted(call[d])' \subseteq call'[d].locked
             /\ \A s \in call'[d].locked :
                  /\ Free(d, s)'
                  /\ Stored(s)'
                  /\ call'[d].at \in {"rotate_commit", "revoke_all_rows"} => Live(s)'
                  /\ s \in Deleted(call[d])' => Purgeable(s, call[d].now)'
  <2>0. call'[d] \in Call /\ call'[d].locked \subseteq Sessions /\ call'[d].now \in Nat
    BY <1>2 DEF Call
  <2>1. \A s \in call'[d].locked : Free(d, s)'
    BY <1>1 DEF LocksHeld, Holds, Free
  <2>2. CASE d = b
    <3>1. Deleted(call[d])' = Deleted(c) /\ call'[d] = c
      BY <1>1, <2>2 DEF Deleted
    <3> QED  BY <1>5, <2>0, <2>1, <3>1 DEF Holds, Purgeable, Stored
  <2>3. CASE d # b
    <3>1. Deleted(call[d])' = Deleted(call[d]) /\ call'[d] = call[d]
      BY <1>1, <2>3 DEF Deleted
    <3> QED  BY <1>5, <2>0, <2>1, <3>1 DEF LocksHeld, Purgeable, Stored
  <2> QED  BY <2>2, <2>3
<1>7. LocksHeld'
  BY <1>6 DEF LocksHeld
<1>8. PurgesCover'
  <2>1. ASSUME NEW d \in Backends, call'[d].at = "purge_cut",
               NEW s \in Sessions, PointsInto(s, call[d].seen)'
        PROVE  s \in call'[d].targets \cup call'[d].locked
    <3>1. PointsInto(s, call'[d].seen)
      BY <2>1 DEF PointsInto, Stored
    <3> QED  BY <1>1, <2>1, <3>1 DEF PurgesCover, Covers
  <2> QED  BY <2>1 DEF PurgesCover
<1> QED  BY <1>2, <1>3, <1>4, <1>7, <1>8

\* A step with which call b returns, whatever it wrote to rows free of the
\* other calls' locks.
LEMMA ReturnCalls ==
  ASSUME TypeOK, CallsFormed, NewTokensFresh, LocksHeld, PurgesCover,
         NEW b \in Backends, Return(b), UNCHANGED clock,
         \A s \in Sessions : s # call[b].new => origin'[s] = origin[s],
         \A s \in Sessions : origin[s] # Null => origin'[s] = origin[s],
         \A s \in Sessions : row'[s] # row[s] => Free(b, s),
         \A s, p \in Sessions : Stored(s)' /\ row'[s].rotated_from = p =>
           (Stored(s) /\ row[s].rotated_from = p) \/ p \in call[b].locked
  PROVE  CallsFormed' /\ NewTokensFresh' /\ LocksHeld' /\ PurgesCover'
<1> USE StoreAssumption DEF TypeOK
<1>1. call'[b] = NoCall /\ \A d \in Backends \ {b} : call'[d] = call[d] /\ call[d] \in Call
  BY DEF Return
<1>2. CallsFormed'
  <2>1. Formed(NoCall)'
    BY DEF Formed, NoCall, RowByRow
  <2>2. ASSUME NEW d \in Backends \ {b} PROVE Formed(call[d])'
    <3>1. call[d].token # Null /\ origin[call[d].token] # Null
            => origin'[call[d].token] # Null
      BY <1>1 DEF Call
    <3> QED  BY <1>1, <3>1 DEF CallsFormed, Formed
  <2> QED  BY <1>1, <2>1, <2>2 DEF CallsFormed, Formed
<1>3. NewTokensFresh'
  BY <1>1 DEF NewTokensFresh, NoCall, Call
<1>4. NoCall.at = "none" /\ NoCall.locked = {}
  BY DEF NoCall
<1>5. ASSUME NEW d \in Backends
      PROVE  /\ Deleted(call[d])' \subseteq call'[d].locked
             /\ \A s \in call'[d].locked :
                  /\ Free(d, s)'
                  /\ Stored(s)'
                  /\ call'[d].at \in {"rotate_commit", "revoke_all_rows"} => Live(s)'
                  /\ s \in Deleted(call[d])' => Purgeable(s, call[d].now)'
  <2>1. CASE d = b
    BY <1>1, <1>4, <2>1 DEF Deleted
  <2>2. CASE d # b
    <3>1. Deleted(call[d])' = Deleted(call[d]) /\ call'[d] = call[d]
          /\ call[d].locked \subseteq Sessions
      BY <1>1, <2>2 DEF Deleted, Call
    <3>2. \A s \in call[d].locked : row'[s] = row[s]
      BY <2>2, <3>1 DEF Free
    <3>3. \A s \in call[d].locked : Free(d, s)'
      BY <1>1, <1>4, <2>2 DEF LocksHeld, Free
    <3> QED  BY <3>1, <3>2, <3>3 DEF LocksHeld, Purgeable, Stored, Live
  <2> QED  BY <2>1, <2>2
<1>6. LocksHeld'
  BY <1>5 DEF LocksHeld
<1>7. PurgesCover'
  <2>1. ASSUME NEW d \in Backends, call'[d].at = "purge_cut",
               NEW s \in Sessions, PointsInto(s, call[d].seen)'
        PROVE  s \in call'[d].targets \cup call'[d].locked
    <3>1. d # b /\ call'[d] = call[d]
      BY <1>1, <1>4, <2>1
    <3>2. PICK p \in call[d].seen : Stored(s)' /\ row'[s].rotated_from = p
      BY <2>1, <3>1 DEF PointsInto
    <3>3. p \in Sessions /\ p \in call[d].locked
      BY <2>1, <3>1, <3>2 DEF LocksHeld, Deleted, Call
    <3>4. p \notin call[b].locked
      BY <3>1, <3>3 DEF LocksHeld, Free
    <3>5. PointsInto(s, call[d].seen)
      BY <3>2, <3>3, <3>4 DEF PointsInto
    <3> QED  BY <2>1, <3>1, <3>5 DEF PurgesCover
  <2> QED  BY <2>1 DEF PurgesCover
<1> QED  BY <1>2, <1>3, <1>6, <1>7

-----------------------------------------------------------------------------
(* StoreInvariant is inductive.                                            *)

\* The empty store satisfies the invariant.
LEMMA StoreInvariantInit == Init => StoreInvariant
<1> SUFFICES ASSUME Init PROVE StoreInvariant
  OBVIOUS
<1> USE StoreAssumption DEF Init
<1>1. TypeOK
  BY NoCallType DEF TypeOK
<1>2. RowInvariant
  BY DEF RowInvariant, OriginsKnown, PredecessorsRevoked, OneLivePerLogin,
         RotatedOnce, LoginTermsFixed, Stored, Live
<1>3. CallsFormed /\ NewTokensFresh /\ LocksHeld /\ PurgesCover
  BY DEF CallsFormed, Formed, NewTokensFresh, LocksHeld, PurgesCover, Deleted, NoCall, RowByRow
<1> QED  BY <1>1, <1>2, <1>3 DEF StoreInvariant

\* The beginning of a call keeps the invariant.
LEMMA BeginStep ==
  ASSUME StoreInvariant, NEW b \in Backends, BeginCall(b)
  PROVE  StoreInvariant'
<1> USE StoreAssumption
<1>1. PICK c \in Call :
        /\ Begin(b, c) /\ Formed(c)
        /\ c.locked = {} /\ c.at \notin {"purge_rows", "purge_cut"}
        /\ c.new = Null \/ Fresh(c.new)
  <2>1. CASE BeginCreate(b)
    <3>1. PICK s \in Sessions, o \in Owners :
            Fresh(s) /\ Begin(b, NewCall("create", Null, s, o))
      BY <2>1 DEF BeginCreate
    <3>2. Formed(NewCall("create", Null, s, o))
      BY NewCallFields DEF Formed, StoreInvariant, Statements, RowByRow
    <3> QED  BY <3>1, <3>2, NewCallFields DEF StoreInvariant, Statements
  <2>2. CASE BeginTouch(b)
    <3>1. PICK s \in Sessions : origin[s] # Null /\ Begin(b, NewCall("touch", s, Null, Null))
      BY <2>2 DEF BeginTouch
    <3>2. Formed(NewCall("touch", s, Null, Null))
      BY <3>1, NewCallFields DEF Formed, StoreInvariant, Statements, RowByRow
    <3> QED  BY <3>1, <3>2, NewCallFields DEF StoreInvariant, Statements
  <2>3. CASE BeginRotate(b)
    <3>1. PICK s \in Sessions, n \in Sessions :
            origin[s] # Null /\ Fresh(n) /\ Begin(b, NewCall("rotate", s, n, Null))
      BY <2>3 DEF BeginRotate
    <3>2. Formed(NewCall("rotate", s, n, Null))
      BY <3>1, NewCallFields DEF Formed, StoreInvariant, Statements, RowByRow
    <3> QED  BY <3>1, <3>2, NewCallFields DEF StoreInvariant, Statements
  <2>4. CASE BeginRevoke(b)
    <3>1. PICK s \in Sessions : origin[s] # Null /\ Begin(b, NewCall("revoke", s, Null, Null))
      BY <2>4 DEF BeginRevoke
    <3>2. Formed(NewCall("revoke", s, Null, Null))
      BY <3>1, NewCallFields DEF Formed, StoreInvariant, Statements, RowByRow
    <3> QED  BY <3>1, <3>2, NewCallFields DEF StoreInvariant, Statements
  <2>5. CASE BeginRevokeAll(b)
    <3>1. PICK o \in Owners : Begin(b, NewCall("revoke_all", Null, Null, o))
      BY <2>5 DEF BeginRevokeAll
    <3>2. Formed(NewCall("revoke_all", Null, Null, o))
      BY NewCallFields DEF Formed, StoreInvariant, Statements, RowByRow
    <3> QED  BY <3>1, <3>2, NewCallFields DEF StoreInvariant, Statements
  <2>6. CASE BeginPurge(b)
    <3>1. Formed(NewCall("purge", Null, Null, Null))
      BY NewCallFields DEF Formed, StoreInvariant, Statements, RowByRow
    <3> QED  BY <2>6, <3>1, NewCallFields DEF BeginPurge, StoreInvariant, Statements
  <2> QED  BY <2>1, <2>2, <2>3, <2>4, <2>5, <2>6 DEF BeginCall
<1>2. UNCHANGED <<row, origin, clock>> /\ call' = [call EXCEPT ![b] = c]
  BY <1>1 DEF Begin
<1>3. RowInvariant'
  BY <1>2, Unwritten DEF StoreInvariant
<1>4. Holds(b, c) /\ Covers(c)
  BY <1>1 DEF Holds, Covers, Deleted
<1> QED  BY <1>1, <1>2, <1>3, <1>4, AdvanceCalls DEF StoreInvariant

\* The call after a snapshot of a statement over many rows, field by field.
LEMMA ScanFields ==
  ASSUME TypeOK, NEW b \in Backends, NEW at \in Statements,
         NEW rows \in SUBSET Sessions, ScanRows(b, at, rows)
  PROVE  /\ call' = [call EXCEPT ![b] = call'[b]] /\ call'[b] \in Call
         /\ call'[b].at = at /\ call'[b].now = call[b].now
         /\ call'[b].new = call[b].new /\ call'[b].owner = call[b].owner
         /\ call'[b].seen = rows /\ call'[b].targets = rows
         /\ call'[b].token \in Ahead(rows)
         /\ call'[b].locked = call[b].locked
         /\ UNCHANGED <<row, origin, clock>>
<1>1. PICK t \in Ahead(rows) :
        call' = [call EXCEPT ![b] = [call[b] EXCEPT
          !.at = at, !.token = t, !.seen = rows, !.targets = rows]]
  BY DEF ScanRows
<1>2. t \in Sessions \cup {Null} /\ call[b] \in Call
  BY DEF Ahead, TypeOK
<1> QED  BY <1>1, <1>2 DEF TypeOK, Call, ScanRows

\* The call after a visit to one row, field by field.
LEMMA VisitFields ==
  ASSUME TypeOK, NEW b \in Backends, NEW q \in BOOLEAN, VisitRow(b, q)
  PROVE  /\ call[b].token \in Sessions /\ Free(b, call[b].token)
         /\ call' = [call EXCEPT ![b] = call'[b]] /\ call'[b] \in Call
         /\ call'[b].at = call[b].at /\ call'[b].now = call[b].now
         /\ call'[b].new = call[b].new /\ call'[b].owner = call[b].owner
         /\ call'[b].seen = call[b].seen
         /\ call'[b].targets = call[b].targets \ {call[b].token}
         /\ call'[b].token \in Ahead(call'[b].targets)
         /\ call'[b].locked = IF q THEN call[b].locked \cup {call[b].token} ELSE call[b].locked
         /\ UNCHANGED <<row, origin, clock>>
<1> DEFINE c == call[b]
           l == IF q THEN c.locked \cup {c.token} ELSE c.locked
<1>1. PICK t \in Ahead(c.targets \ {c.token}) :
        call' = [call EXCEPT ![b] = [c EXCEPT
          !.token = t, !.targets = c.targets \ {c.token}, !.locked = l]]
  BY DEF VisitRow
<1>2. /\ c \in Call /\ c.token \in Sessions
      /\ Free(b, c.token) /\ UNCHANGED <<row, origin, clock>>
  BY DEF VisitRow, TypeOK, Call
<1>3. l \in SUBSET Sessions /\ t \in Sessions \cup {Null}
  BY <1>2 DEF Ahead, Call
<1> HIDE DEF l
<1>4. call'[b] = [c EXCEPT !.token = t, !.targets = c.targets \ {c.token}, !.locked = l]
  BY <1>1 DEF TypeOK
<1>5. /\ call'[b] \in Call
      /\ call'[b].at = c.at /\ call'[b].now = c.now
      /\ call'[b].new = c.new /\ call'[b].owner = c.owner
      /\ call'[b].seen = c.seen
      /\ call'[b].targets = c.targets \ {c.token}
      /\ call'[b].token = t
      /\ call'[b].locked = l
  BY <1>2, <1>3, <1>4 DEF Call
<1> QED  BY <1>1, <1>2, <1>4, <1>5 DEF l

\* A visit to one row keeps the invariant if what makes the row qualify is what
\* the lock promises, and a row the trigger passes over points at nothing deleted.
LEMMA VisitStep ==
  ASSUME StoreInvariant, NEW b \in Backends, NEW q \in BOOLEAN, VisitRow(b, q),
         call[b].at \in RowByRow,
         q => Stored(call[b].token),
         q /\ call[b].at = "revoke_all_rows" => Live(call[b].token),
         q /\ call[b].at = "purge_rows" => Purgeable(call[b].token, call[b].now),
         call[b].at = "purge_cut" /\ PointsInto(call[b].token, call[b].seen) => q
  PROVE  StoreInvariant'
<1> USE DEF StoreInvariant
<1> DEFINE c == call[b]
           d == call'[b]
<1>1. /\ c.token \in Sessions /\ Free(b, c.token)
      /\ call' = [call EXCEPT ![b] = d] /\ d \in Call
      /\ d.at = c.at /\ d.now = c.now /\ d.new = c.new /\ d.owner = c.owner
      /\ d.seen = c.seen /\ d.targets = c.targets \ {c.token}
      /\ d.token \in Ahead(d.targets)
      /\ d.locked = IF q THEN c.locked \cup {c.token} ELSE c.locked
      /\ UNCHANGED <<row, origin, clock>>
  BY VisitFields
<1>2. RowInvariant'
  BY <1>1, Unwritten
<1>3. Formed(c) /\ Holds(b, c) /\ Covers(c)
  BY DEF CallsFormed, LocksHeld, Holds, PurgesCover, Covers
<1> HIDE DEF StoreInvariant, d
<1>4. Formed(d)
  BY <1>1, <1>3 DEF Formed, RowByRow
<1>5. Holds(b, d)
  <2>1. c.at \in {"revoke_all_rows", "purge_rows", "purge_cut"}
    BY DEF RowByRow
  <2>2. CASE c.at = "revoke_all_rows"
    BY <1>1, <1>3, <2>2 DEF Holds, Deleted
  <2>3. CASE c.at = "purge_rows"
    BY <1>1, <1>3, <2>3 DEF Holds, Deleted
  <2>4. CASE c.at = "purge_cut"
    BY <1>1, <1>3, <2>4 DEF Holds, Deleted
  <2> QED  BY <2>1, <2>2, <2>3, <2>4
<1>6. Covers(d)
  BY <1>1, <1>3 DEF Covers
<1> QED  BY <1>1, <1>2, <1>4, <1>5, <1>6, AdvanceCalls DEF StoreInvariant

\* The snapshot of a statement over many rows keeps the invariant.
LEMMA ScanStep ==
  ASSUME StoreInvariant, NEW b \in Backends, NEW at \in {"revoke_all_rows", "purge_rows"},
         NEW rows \in SUBSET Sessions, ScanRows(b, at, rows),
         call[b].at \in {"revoke_all", "purge"}
  PROVE  StoreInvariant'
<1> DEFINE c == call[b]
           d == call'[b]
<1>1. /\ call' = [call EXCEPT ![b] = d] /\ d \in Call
      /\ d.at = at /\ d.now = c.now /\ d.new = c.new
      /\ d.targets = rows /\ d.token \in Ahead(rows) /\ d.locked = c.locked
      /\ UNCHANGED <<row, origin, clock>>
  BY ScanFields DEF StoreInvariant, Statements
<1>2. RowInvariant'
  BY <1>1, Unwritten DEF StoreInvariant
<1>3. Formed(c) /\ c.locked = {}
  BY DEF StoreInvariant, CallsFormed, Formed, RowByRow
<1> HIDE DEF d
<1>4. Formed(d)
  BY <1>1, <1>3 DEF Formed, RowByRow
<1>5. Holds(b, d) /\ Covers(d)
  BY <1>1, <1>3 DEF Holds, Deleted, Covers
<1> QED  BY <1>1, <1>2, <1>4, <1>5, AdvanceCalls DEF StoreInvariant

\* The trigger's search for rows to cut keeps the invariant: it misses none.
LEMMA CascadeStep ==
  ASSUME StoreInvariant, NEW b \in Backends, PurgeCascade(b)
  PROVE  StoreInvariant'
<1> DEFINE c == call[b]
           cut == {s \in Sessions : PointsInto(s, c.locked)} \ c.locked
<1>1. PICK t \in Ahead(cut) :
        call' = [call EXCEPT ![b] = [c EXCEPT
          !.at = "purge_cut", !.token = t, !.seen = c.locked, !.targets = cut]]
  BY DEF PurgeCascade
<1>2. PICK d : d = [c EXCEPT !.at = "purge_cut", !.token = t, !.seen = c.locked, !.targets = cut]
  OBVIOUS
<1>3. /\ c \in Call /\ Formed(c) /\ Holds(b, c)
      /\ c.at = "purge_rows" /\ UNCHANGED <<row, origin, clock>>
  BY DEF StoreInvariant, TypeOK, CallsFormed, LocksHeld, Holds, PurgeCascade
<1>4. t \in Sessions \cup {Null} /\ cut \in SUBSET Sessions
  BY DEF Ahead
<1>5. \A s \in Sessions : PointsInto(s, c.locked) => s \in cut \cup c.locked
  OBVIOUS
<1> HIDE DEF cut
<1>6. /\ d \in Call
      /\ d.at = "purge_cut" /\ d.token = t /\ d.seen = c.locked /\ d.targets = cut
      /\ d.locked = c.locked /\ d.now = c.now /\ d.new = c.new /\ d.owner = c.owner
  BY <1>2, <1>3, <1>4 DEF Call, Statements
<1>7. Formed(d)
  BY <1>1, <1>3, <1>6 DEF Formed, RowByRow
<1>8. Holds(b, d)
  BY <1>3, <1>6 DEF Holds, Deleted
<1>9. Covers(d)
  BY <1>5, <1>6 DEF Covers
<1>10. RowInvariant'
  BY <1>3, Unwritten DEF StoreInvariant
<1>11. call' = [call EXCEPT ![b] = d]
  BY <1>1, <1>2
<1> QED  BY <1>3, <1>6, <1>7, <1>8, <1>9, <1>10, <1>11, AdvanceCalls DEF StoreInvariant

\* The statements that only read, lock or give up.
ReadsOnly(b) ==
  \/ TouchRead(b) \/ RotateLock(b) \/ RevokeAllScan(b) \/ RevokeAllRow(b)
  \/ PurgeScan(b) \/ PurgeRow(b) \/ PurgeCascade(b) \/ PurgeCutRow(b) \/ Abort(b)

\* They keep the invariant.
LEMMA ReadStep ==
  ASSUME StoreInvariant, NEW b \in Backends, ReadsOnly(b)
  PROVE  StoreInvariant'
<1> USE StoreAssumption
<1>1. CASE Return(b) /\ UNCHANGED <<row, origin, clock>>
  <2>1. RowInvariant'
    BY <1>1, Unwritten DEF StoreInvariant
  <2>2. CallsFormed' /\ NewTokensFresh' /\ LocksHeld' /\ PurgesCover'
    BY <1>1, ReturnCalls DEF Stored, StoreInvariant
  <2> QED  BY <1>1, <2>1, <2>2, ReturnType DEF TypeOK, StoreInvariant
<1>2. ASSUME NEW c \in Call, call' = [call EXCEPT ![b] = c], Formed(c), c.new = call[b].new,
             Holds(b, c), Covers(c), UNCHANGED <<row, origin, clock>>
      PROVE  StoreInvariant'
  BY <1>2, Unwritten, AdvanceCalls DEF StoreInvariant
<1>3. call[b] \in Call /\ Formed(call[b])
  BY DEF StoreInvariant, TypeOK, CallsFormed
<1>4. CASE TouchRead(b)
  <2> DEFINE c == [call[b] EXCEPT !.at = "touch_write"]
  <2>1. CASE call' = [call EXCEPT ![b] = c]
    <3>1. call[b].at = "touch" /\ UNCHANGED <<row, origin, clock>>
      BY <1>4 DEF TouchRead
    <3>2. /\ c \in Call /\ Formed(c) /\ c.new = call[b].new /\ c.locked = {}
          /\ c.at = "touch_write"
      BY <1>3, <3>1 DEF Call, Statements, Formed, RowByRow
    <3> HIDE DEF c
    <3>3. Holds(b, c) /\ Covers(c)
      BY <3>2 DEF Holds, Covers, Deleted
    <3> QED  BY <1>2, <2>1, <3>1, <3>2, <3>3
  <2> QED  BY <1>1, <1>4, <2>1 DEF TouchRead
<1>5. CASE RotateLock(b)
  <2> DEFINE c == [call[b] EXCEPT !.at = "rotate_commit", !.locked = {call[b].token}]
  <2>1. CASE call' = [call EXCEPT ![b] = c] /\ Active(call[b].token, call[b].now)
    <3>1. call[b].at = "rotate" /\ Free(b, call[b].token) /\ UNCHANGED <<row, origin, clock>>
      BY <1>5 DEF RotateLock
    <3>2. /\ c \in Call /\ Formed(c) /\ c.new = call[b].new /\ c.locked = {call[b].token}
          /\ c.at = "rotate_commit"
      BY <1>3, <3>1 DEF Call, Statements, Formed, RowByRow
    <3> HIDE DEF c
    <3>3. Holds(b, c) /\ Covers(c)
      BY <2>1, <3>1, <3>2 DEF Holds, Covers, Deleted, Active, Live
    <3> QED  BY <1>2, <2>1, <3>1, <3>2, <3>3
  <2> QED  BY <1>1, <1>5, <2>1 DEF RotateLock
<1>6. CASE RevokeAllScan(b) \/ PurgeScan(b)
  BY <1>6, ScanStep DEF RevokeAllScan, PurgeScan
<1>7. CASE RevokeAllRow(b)
  <2> DEFINE q == RevokeAllMatches(call[b].token, call[b].owner, call[b].now)
  <2>1. q \in BOOLEAN /\ call[b].at = "revoke_all_rows" /\ VisitRow(b, q)
        /\ (q => Live(call[b].token) /\ Stored(call[b].token))
    BY <1>7 DEF RevokeAllRow, RevokeAllMatches, Active, Live, Expired, Stored
  <2> HIDE DEF q
  <2> QED  BY <2>1, VisitStep DEF RowByRow
<1>8. CASE PurgeRow(b)
  <2> DEFINE q == Purgeable(call[b].token, call[b].now)
  <2>1. q \in BOOLEAN /\ call[b].at = "purge_rows" /\ VisitRow(b, q)
        /\ (q => Purgeable(call[b].token, call[b].now) /\ Stored(call[b].token))
    BY <1>8 DEF PurgeRow, Purgeable, Stored
  <2> HIDE DEF q
  <2> QED  BY <2>1, VisitStep DEF RowByRow
<1>9. CASE PurgeCutRow(b)
  <2> DEFINE q == PointsInto(call[b].token, call[b].seen)
  <2>1. q \in BOOLEAN /\ call[b].at = "purge_cut" /\ VisitRow(b, q)
        /\ (q <=> PointsInto(call[b].token, call[b].seen))
        /\ (q => Stored(call[b].token))
    BY <1>9 DEF PurgeCutRow, PointsInto, Stored
  <2> HIDE DEF q
  <2> QED  BY <2>1, VisitStep DEF RowByRow
<1>10. CASE Abort(b)
  BY <1>1, <1>10 DEF Abort
<1> QED  BY <1>4, <1>5, <1>6, <1>7, <1>8, <1>9, <1>10, CascadeStep DEF ReadsOnly

\* The statements that write and commit.
Writes(b) ==
  \/ Create(b) \/ TouchWrite(b) \/ RotateCommit(b)
  \/ Revoke(b) \/ RevokeAllCommit(b) \/ PurgeCommit(b)

\* A write that is no login and no rotation moves no reference.
LEMMA ReferencesKept ==
  ASSUME StoreInvariant, NEW b \in Backends,
         TouchWrite(b) \/ Revoke(b) \/ RevokeAllCommit(b) \/ PurgeCommit(b),
         NEW s \in Sessions, Stored(s)'
  PROVE  Stored(s) /\ row'[s].rotated_from \in {row[s].rotated_from, Null}
<1> USE StoreAssumption DEF StoreInvariant
<1>1. CASE PurgeCommit(b)
  BY <1>1, PurgeRows
<1>2. CASE ~PurgeCommit(b)
  <2>1. call[b].now \in Nat /\ call[b].locked \subseteq Sessions
    BY DEF TypeOK, Call
  <2>2. \/ row'[s] = row[s]
        \/ Stored(s) /\ \E i : row'[s] = [row[s] EXCEPT !.idle = i]
        \/ Stored(s) /\ row'[s] = [row[s] EXCEPT !.revoked = call[b].now]
    <3>1. CASE TouchWrite(b)
      <4>1. CASE row'[s] = row[s]
        BY <4>1
      <4>2. CASE row'[s] # row[s]
        <5>1. s = call[b].token /\ Stored(s)
          BY <3>1, <4>2 DEF TouchWrite, TypeOK
        <5>2. row'[s] = [row[s] EXCEPT !.idle = Earliest(call[b].now + IdleTtl, row[s].absolute)]
          BY <3>1, <5>1 DEF TouchWrite, TypeOK
        <5> QED  BY <5>1, <5>2
      <4> QED  BY <4>1, <4>2
    <3>2. CASE Revoke(b)
      BY <3>2 DEF Revoke, TypeOK, Live
    <3>3. CASE RevokeAllCommit(b)
      BY <3>3 DEF RevokeAllCommit, LocksHeld
    <3> QED  BY <1>2, <3>1, <3>2, <3>3
  <2>3. Stored(s) => row[s] \in Row
    BY DEF TypeOK, Stored
  <2> QED  BY <2>2, <2>3 DEF Row, Stored
<1> QED  BY <1>1, <1>2

\* The writes keep the invariant.
LEMMA WriteStep ==
  ASSUME StoreInvariant, NEW b \in Backends, Writes(b)
  PROVE  StoreInvariant'
<1> USE StoreAssumption DEF StoreInvariant
<1>1. Return(b) /\ UNCHANGED clock /\ clock' \in Nat
  BY DEF TypeOK, Writes, Create, TouchWrite, RotateCommit, Revoke, RevokeAllCommit, PurgeCommit
<1>2. /\ RowInvariant'
      /\ row' \in [Sessions -> Row \cup {Null}]
      /\ origin' \in [Sessions -> Sessions \cup {Null}]
      /\ \A s \in Sessions : s # call[b].new => origin'[s] = origin[s]
      /\ \A s \in Sessions : origin[s] # Null => origin'[s] = origin[s]
  <2>1. CASE Create(b)
    <3>1. call[b].new \in Sessions /\ origin[call[b].new] = Null
      BY <2>1 DEF Create, CallsFormed, Formed, TypeOK, Call, NewTokensFresh
    <3> QED  BY <2>1, <3>1, CreateRows
  <2>2. CASE TouchWrite(b)
    BY <2>2, TouchRows DEF TouchWrite, TypeOK
  <2>3. CASE RotateCommit(b)
    BY <2>3, RotateRows
  <2>4. CASE Revoke(b)
    BY <2>4, RevokeRows DEF Revoke, TypeOK
  <2>5. CASE RevokeAllCommit(b)
    BY <2>5, RevokeAllRows DEF RevokeAllCommit, TypeOK
  <2>6. CASE PurgeCommit(b)
    BY <2>6, PurgeRows DEF PurgeCommit, TypeOK
  <2> QED  BY <2>1, <2>2, <2>3, <2>4, <2>5, <2>6 DEF Writes
<1>3. ASSUME NEW s \in Sessions, row'[s] # row[s] PROVE Free(b, s)
  <2>0. ~Stored(s) => Free(b, s)
    BY DEF LocksHeld, Free
  <2>1. CASE Create(b)
    <3>1. s = call[b].new /\ origin[s] = Null
      BY <1>3, <2>1, CreateRows DEF Create, CallsFormed, Formed, NewTokensFresh
    <3> QED  BY <2>0, <3>1 DEF RowInvariant, OriginsKnown
  <2>2. CASE TouchWrite(b) \/ Revoke(b)
    BY <1>3, <2>2 DEF TouchWrite, Revoke, TypeOK
  <2>3. CASE RotateCommit(b)
    <3>1. s = call[b].token \/ (s = call[b].new /\ origin[s] = Null)
      BY <1>3, <2>3, RotateRows
    <3>2. Free(b, call[b].token)
      BY <2>3 DEF RotateCommit, CallsFormed, Formed, LocksHeld
    <3> QED  BY <2>0, <3>1, <3>2 DEF RowInvariant, OriginsKnown
  <2>4. CASE RevokeAllCommit(b)
    BY <1>3, <2>4 DEF RevokeAllCommit, LocksHeld
  <2>5. CASE PurgeCommit(b)
    BY <1>3, <2>5, PurgeRows DEF LocksHeld
  <2> QED  BY <2>1, <2>2, <2>3, <2>4, <2>5 DEF Writes
<1>4. ASSUME NEW s \in Sessions, NEW p \in Sessions, Stored(s)', row'[s].rotated_from = p
      PROVE  (Stored(s) /\ row[s].rotated_from = p) \/ p \in call[b].locked
  <2>1. CASE Create(b)
    <3>1. \/ row'[s] = row[s]
          \/ row'[s] = NewRow(call[b].owner, call[b].now + AbsoluteTtl, call[b].now, Null)
      BY <2>1 DEF Create, TypeOK
    <3>2. CASE row'[s] = row[s]
      BY <1>4, <3>2 DEF Stored
    <3>3. CASE row'[s] = NewRow(call[b].owner, call[b].now + AbsoluteTtl, call[b].now, Null)
      BY <1>4, <3>3 DEF NewRow
    <3> QED  BY <3>1, <3>2, <3>3
  <2>2. CASE RotateCommit(b)
    <3> DEFINE c == call[b]
    <3>1. /\ c.new \in Sessions /\ c.token \in Sessions /\ c.new # c.token
          /\ c.locked = {c.token} /\ Live(c.token)
      BY <2>2, RotateRows DEF RotateCommit, CallsFormed, Formed, RowInvariant, OriginsKnown, Live
    <3>2. CASE s = c.new
      <4>1. row'[s] = NewRow(row[c.token].owner, row[c.token].absolute, c.now, c.token)
        BY <2>2, <3>1, <3>2 DEF RotateCommit, TypeOK
      <4>2. row'[s].rotated_from = c.token
        BY <4>1 DEF NewRow
      <4> QED  BY <1>4, <3>1, <4>2
    <3>3. CASE s = c.token
      <4>1. row'[s] = [row[s] EXCEPT !.revoked = c.now]
        BY <2>2, <3>1, <3>3 DEF RotateCommit, TypeOK
      <4>2. row[s] \in Row
        BY <3>1, <3>3 DEF Live, Stored, TypeOK
      <4>3. row'[s].rotated_from = row[s].rotated_from
        BY <4>1, <4>2 DEF Row
      <4> QED  BY <1>4, <3>1, <3>3, <4>3 DEF Live
    <3>4. CASE s \notin {c.new, c.token}
      BY <1>4, <2>2, <3>4, RotateRows DEF Stored
    <3> QED  BY <3>2, <3>3, <3>4
  <2>3. CASE TouchWrite(b) \/ Revoke(b) \/ RevokeAllCommit(b) \/ PurgeCommit(b)
    BY <1>4, <2>3, ReferencesKept
  <2> QED  BY <2>1, <2>2, <2>3 DEF Writes
<1>5. CallsFormed' /\ NewTokensFresh' /\ LocksHeld' /\ PurgesCover'
  BY <1>1, <1>2, <1>3, <1>4, ReturnCalls
<1>6. TypeOK'
  BY <1>1, <1>2, ReturnType DEF TypeOK
<1> QED  BY <1>2, <1>5, <1>6

\* The passing of time keeps the invariant.
LEMMA TickStep ==
  ASSUME StoreInvariant, Tick
  PROVE  StoreInvariant'
<1> USE StoreAssumption DEF StoreInvariant, Tick
<1>1. TypeOK'
  BY DEF TypeOK
<1>2. RowInvariant'
  BY Unwritten
<1>3. CallsFormed'
  <2>1. ASSUME NEW b \in Backends PROVE Formed(call[b])'
    BY DEF TypeOK, CallsFormed, Formed, Call
  <2> QED  BY <2>1 DEF CallsFormed, Formed
<1>4. NewTokensFresh'
  BY DEF NewTokensFresh
<1>5. LocksHeld' /\ PurgesCover'
  BY DEF LocksHeld, PurgesCover, Deleted, Purgeable, PointsInto, Free, Live, Stored
<1> QED  BY <1>1, <1>2, <1>3, <1>4, <1>5

\* In every reachable state, for any number of backends, sessions, users and
\* tenants and any lifetimes, the table, the locks and the calls in flight
\* are consistent as StoreInvariant states.
THEOREM StoreInvariance == Spec => []StoreInvariant
<1>1. StoreInvariant /\ [Next]_vars => StoreInvariant'
  <2> SUFFICES ASSUME StoreInvariant, [Next]_vars PROVE StoreInvariant'
    OBVIOUS
  <2>1. CASE UNCHANGED vars
    BY <2>1 DEF vars, StoreInvariant, TypeOK, RowInvariant, OriginsKnown,
       PredecessorsRevoked, OneLivePerLogin, RotatedOnce, LoginTermsFixed,
       CallsFormed, Formed, NewTokensFresh, LocksHeld, PurgesCover, Deleted, Purgeable,
       PointsInto, Free, Live, Stored
  <2>2. CASE Next
    BY <2>2, TickStep, BeginStep, ReadStep, WriteStep DEF Next, Execute, ReadsOnly, Writes
  <2> QED  BY <2>1, <2>2
<1> QED  BY <1>1, StoreInvariantInit, PTL DEF Spec

-----------------------------------------------------------------------------
(* Claims: with calls shorter than the idle window, what a call decided on *)
(* stays true until it writes.                                             *)

\* No write brings a stored session back, or expires one for a call begun by now.
LEMMA WritesKeepActive ==
  ASSUME ShortCalls, StoreInvariant, NEW b \in Backends, Writes(b),
         NEW s \in Sessions, origin[s] # Null, Live(s)'
  PROVE  /\ Live(s) /\ row'[s].owner = row[s].owner
         /\ \A n \in Nat : n <= clock /\ Active(s, n) => Active(s, n)'
<1> USE StoreAssumption DEF StoreInvariant
<1>1. CASE row'[s] = row[s]
  BY <1>1 DEF Live, Active, Expired, Stored
<1>2. CASE Create(b)
  <2>1. s # call[b].new
    BY <1>2 DEF Create, CallsFormed, Formed, NewTokensFresh
  <2> QED  BY <1>1, <1>2, <2>1, CreateRows
<1>3. CASE RotateCommit(b)
  BY <1>1, <1>3, RotateRows
<1>4. CASE Revoke(b)
  <2>1. s # call[b].token
    BY <1>4, RevokeRows
  <2> QED  BY <1>1, <1>4, <2>1 DEF Revoke, TypeOK
<1>5. CASE RevokeAllCommit(b)
  <2>1. s \notin call[b].locked
    BY <1>5, RevokeAllRows
  <2> QED  BY <1>1, <1>5, <2>1 DEF RevokeAllCommit
<1>6. CASE PurgeCommit(b)
  <2>1. /\ Live(s)
        /\ row'[s].absolute = row[s].absolute /\ row'[s].idle = row[s].idle
        /\ row'[s].owner = row[s].owner
    BY <1>6, PurgeRows DEF Live
  <2> QED  BY <2>1 DEF Active, Expired
<1>7. CASE TouchWrite(b)
  <2> DEFINE c == call[b]
             t == Earliest(c.now + IdleTtl, row[s].absolute)
  <2>1. Live(s)
    BY <1>7, TouchRows
  <2>2. row[s] \in Row
    BY <2>1 DEF Live, Stored, TypeOK
  <2>3. c.now \in Nat /\ clock \in Nat /\ clock <= c.now + CallTimeout
    BY <1>7 DEF TouchWrite, CallsFormed, Formed, TypeOK, Call
  <2>4. row'[s] = row[s] \/ row'[s] = [row[s] EXCEPT !.idle = t]
    BY <1>7 DEF TouchWrite, TypeOK
  <2>5. /\ row'[s].absolute = row[s].absolute /\ row'[s].idle \in {row[s].idle, t}
        /\ row'[s].owner = row[s].owner
    BY <2>2, <2>4 DEF Row
  <2>6. ASSUME NEW n \in Nat, n <= clock, Active(s, n) PROVE Active(s, n)'
    <3>1. /\ row[s].absolute \in Nat /\ row[s].idle \in Nat
          /\ n < row[s].absolute /\ n < row[s].idle
      BY <2>2, <2>6 DEF Active, Expired, Row
    <3>2. n < t
      BY <2>3, <2>6, <3>1 DEF Earliest, ShortCalls
    <3>3. t \in Nat
      BY <2>3, <3>1 DEF Earliest
    <3> HIDE DEF t
    <3> QED  BY <2>5, <3>1, <3>2, <3>3 DEF Active, Expired
  <2> QED  BY <2>1, <2>5, <2>6
<1> QED  BY <1>2, <1>3, <1>4, <1>5, <1>6, <1>7 DEF Writes

\* Every step keeps what the calls in flight have decided, if calls are shorter
\* than the idle window.
LEMMA ClaimsStep ==
  ASSUME ShortCalls, StoreInvariant, ClaimsInvariant, [Next]_vars
  PROVE  ClaimsInvariant'
<1> USE StoreAssumption
<1>1. ASSUME UNCHANGED <<row, origin>>, NEW d \in Backends, call'[d] = call[d]
      PROVE  ClaimsHold(call[d])' /\ ScanCovered(call[d])'
  BY <1>1 DEF ClaimsInvariant, ClaimsHold, ScanCovered, Claims, Active, Expired, Live, Stored
<1>2. ASSUME NEW b \in Backends, call'[b] = NoCall
      PROVE  ClaimsHold(call[b])' /\ ScanCovered(call[b])'
  BY <1>2 DEF ClaimsHold, ScanCovered, Claims, NoCall
<1>3. CASE Tick \/ UNCHANGED vars
  BY <1>1, <1>3 DEF Tick, vars, ClaimsInvariant
<1>4. ASSUME NEW b \in Backends, BeginCall(b) PROVE ClaimsInvariant'
  <2>1. PICK c : Begin(b, c) /\ c.at # "revoke_all_rows" /\ Claims(c) = {}
    <3>1. \A a \in Statements \ {"revoke_all_rows", "rotate_commit", "touch_write"},
             t \in Sessions \cup {Null}, n \in Sessions \cup {Null}, o \in Owners \cup {Null} :
            NewCall(a, t, n, o).at = a /\ Claims(NewCall(a, t, n, o)) = {}
      BY NewCallFields DEF StoreInvariant, Claims
    <3>2. \E a \in Statements \ {"revoke_all_rows", "rotate_commit", "touch_write"},
             t \in Sessions \cup {Null}, n \in Sessions \cup {Null}, o \in Owners \cup {Null} :
            Begin(b, NewCall(a, t, n, o))
      BY <1>4 DEF BeginCall, BeginCreate, BeginTouch, BeginRotate, BeginRevoke,
                  BeginRevokeAll, BeginPurge, Statements
    <3> QED  BY <3>1, <3>2
  <2>2. /\ UNCHANGED <<row, origin>> /\ call'[b] = c
        /\ \A d \in Backends \ {b} : call'[d] = call[d]
    BY <2>1 DEF Begin, StoreInvariant, TypeOK
  <2>3. ClaimsHold(call[b])' /\ ScanCovered(call[b])'
    BY <2>1, <2>2 DEF ClaimsHold, ScanCovered, Claims
  <2> QED  BY <1>1, <2>2, <2>3 DEF ClaimsInvariant
<1>5. ASSUME NEW b \in Backends, ReadsOnly(b)
      PROVE  ClaimsInvariant'
  <2>1. /\ UNCHANGED <<row, origin>>
        /\ \A d \in Backends \ {b} : call'[d] = call[d]
    BY <1>5 DEF StoreInvariant, TypeOK, ReadsOnly, TouchRead, RotateLock, RevokeAllScan,
                RevokeAllRow, PurgeScan, PurgeRow, PurgeCascade, PurgeCutRow,
                ScanRows, VisitRow, Abort, Return
  <2>2. call[b] \in Call /\ Formed(call[b]) /\ ClaimsHold(call[b]) /\ ScanCovered(call[b])
    BY DEF StoreInvariant, TypeOK, CallsFormed, ClaimsInvariant
  <2>3. \A s \in Sessions : Live(s) => origin[s] # Null
    BY DEF StoreInvariant, RowInvariant, OriginsKnown, Live
  <2>4. /\ \A s \in Sessions, n \in Nat : Active(s, n)' <=> Active(s, n)
        /\ \A s \in Sessions : Live(s)' <=> Live(s)
    BY <2>1 DEF Active, Expired, Live, Stored
  <2>5. CASE Return(b)
    BY <1>1, <1>2, <2>1, <2>5 DEF Return, StoreInvariant, TypeOK, ClaimsInvariant
  <2>6. ASSUME ClaimsHold(call[b])', ScanCovered(call[b])' PROVE ClaimsInvariant'
    BY <1>1, <2>1, <2>6 DEF ClaimsInvariant
  <2>7. CASE TouchRead(b) /\ ~Return(b)
    <3>1. /\ call[b].at = "touch" /\ call[b].token \in Sessions
          /\ Active(call[b].token, call[b].now)
          /\ call'[b] = [call[b] EXCEPT !.at = "touch_write"]
      BY <2>2, <2>7 DEF TouchRead, Formed, StoreInvariant, TypeOK, Call
    <3>2. /\ call'[b].at = "touch_write" /\ call'[b].token = call[b].token
          /\ call'[b].now = call[b].now
          /\ call'[b].locked = {} /\ call'[b].targets = {}
      BY <2>2, <3>1 DEF Call, Formed, RowByRow
    <3>3. ClaimsHold(call[b])'
      BY <2>1, <2>2, <2>4, <3>1, <3>2 DEF ClaimsHold, Claims, Call, Formed
    <3>4. ScanCovered(call[b])'
      BY <3>2 DEF ScanCovered
    <3> QED  BY <2>6, <3>3, <3>4
  <2>8. CASE RotateLock(b) /\ ~Return(b)
    <3>1. /\ call[b].at = "rotate" /\ call[b].token \in Sessions
          /\ Active(call[b].token, call[b].now)
          /\ call'[b] = [call[b] EXCEPT !.at = "rotate_commit", !.locked = {call[b].token}]
      BY <2>2, <2>8 DEF RotateLock, Formed, StoreInvariant, TypeOK, Call
    <3>2. /\ call'[b].at = "rotate_commit" /\ call'[b].now = call[b].now
          /\ call'[b].locked = {call[b].token} /\ call'[b].targets = {}
      BY <2>2, <3>1 DEF Call, Formed, RowByRow
    <3>3. ClaimsHold(call[b])'
      BY <2>1, <2>2, <2>4, <3>1, <3>2 DEF ClaimsHold, Claims, Call, Formed
    <3>4. ScanCovered(call[b])'
      BY <3>2 DEF ScanCovered
    <3> QED  BY <2>6, <3>3, <3>4
  <2>9. CASE RevokeAllScan(b)
    <3> DEFINE m == {s \in Sessions : RevokeAllMatches(s, call[b].owner, call[b].now)}
    <3>1. /\ \A s \in m : s \in Sessions /\ Active(s, call[b].now) /\ origin[s] # Null
          /\ \A s \in m : row[s].owner = call[b].owner
          /\ m \in SUBSET Sessions
      BY <2>3 DEF RevokeAllMatches, Active
    <3>2. call[b].at = "revoke_all" /\ ScanRows(b, "revoke_all_rows", m)
      BY <2>9 DEF RevokeAllScan
    <3> HIDE DEF m
    <3>3. /\ call'[b].at = "revoke_all_rows" /\ call'[b].now = call[b].now /\ call[b].now \in Nat
          /\ call'[b].seen = m /\ call'[b].targets = m /\ call'[b].locked = {}
          /\ call'[b].owner = call[b].owner
      BY <2>2, <3>1, <3>2, ScanFields DEF Call, Formed, StoreInvariant, Statements, RowByRow
    <3>4. ClaimsHold(call[b])'
      BY <2>1, <2>4, <3>1, <3>3 DEF ClaimsHold, Claims
    <3>5. ScanCovered(call[b])'
      BY <2>1, <2>4, <3>1, <3>3 DEF ScanCovered
    <3> QED  BY <2>6, <3>4, <3>5
  <2>10. CASE RevokeAllRow(b)
    <3> DEFINE s == call[b].token
               c == call'[b]
               q == RevokeAllMatches(s, call[b].owner, call[b].now)
    <3>1. q \in BOOLEAN /\ call[b].at = "revoke_all_rows" /\ VisitRow(b, q)
      BY <2>10 DEF RevokeAllRow, RevokeAllMatches, Active, Live, Expired, Stored
    <3>2. s # Null /\ s \in Sessions /\ call[b].now \in Nat
      BY <2>2, <3>1 DEF VisitRow, Call
    <3>3. s \in call[b].targets
      BY <2>2, <3>1, <3>2 DEF Formed, RowByRow, Ahead
    <3>4. q <=> Active(s, call[b].now) /\ row[s].owner = call[b].owner
      BY DEF RevokeAllMatches
    <3> HIDE DEF q
    <3>5. /\ c.at = "revoke_all_rows" /\ c.now = call[b].now
          /\ c.targets = call[b].targets \ {s} /\ c.seen = call[b].seen
          /\ c.locked = IF q THEN call[b].locked \cup {s} ELSE call[b].locked
          /\ c.owner = call[b].owner
      BY <3>1, VisitFields DEF StoreInvariant
    <3>6. call[b].targets \subseteq Sessions /\ call[b].locked \subseteq Sessions
          /\ call[b].seen \subseteq Sessions
      BY <2>2 DEF Call
    <3> HIDE DEF c, s
    <3>7. c.locked \cup c.targets \subseteq call[b].locked \cup call[b].targets
      BY <3>3, <3>5
    <3>8. ClaimsHold(call[b])'
      BY <2>1, <2>2, <2>4, <3>1, <3>2, <3>5, <3>6, <3>7 DEF ClaimsHold, Claims, c
    <3>9. Live(s) => s \in c.locked
      <4>1. Live(s) => Active(s, call[b].now) /\ row[s].owner = call[b].owner
        BY <2>2, <3>1, <3>3 DEF ClaimsHold, Claims, ScanCovered
      <4> QED  BY <3>4, <3>5, <4>1
    <3>10. ScanCovered(call[b])'
      BY <2>1, <2>2, <2>4, <3>1, <3>5, <3>6, <3>9 DEF ScanCovered, c
    <3> QED  BY <2>6, <3>8, <3>10
  <2>11. CASE PurgeScan(b) \/ PurgeRow(b) \/ PurgeCascade(b) \/ PurgeCutRow(b)
    <3>1. call'[b].at \in {"purge_rows", "purge_cut"}
      <4>1. CASE PurgeScan(b)
        <5>1. {s \in Sessions : Purgeable(s, call[b].now)} \in SUBSET Sessions
          OBVIOUS
        <5> QED  BY <4>1, <5>1, ScanFields DEF PurgeScan, StoreInvariant, Statements
      <4>2. CASE PurgeRow(b)
        <5> DEFINE q == Purgeable(call[b].token, call[b].now)
        <5>1. q \in BOOLEAN /\ call[b].at = "purge_rows" /\ VisitRow(b, q)
          BY <4>2 DEF PurgeRow, Purgeable, Stored
        <5> HIDE DEF q
        <5> QED  BY <5>1, VisitFields DEF StoreInvariant
      <4>3. CASE PurgeCutRow(b)
        <5> DEFINE q == PointsInto(call[b].token, call[b].seen)
        <5>1. q \in BOOLEAN /\ call[b].at = "purge_cut" /\ VisitRow(b, q)
          BY <4>3 DEF PurgeCutRow, PointsInto, Stored
        <5> HIDE DEF q
        <5> QED  BY <5>1, VisitFields DEF StoreInvariant
      <4>4. CASE PurgeCascade(b)
        <5>1. PICK t, cut : call' = [call EXCEPT ![b] = [call[b] EXCEPT
                !.at = "purge_cut", !.token = t, !.seen = call[b].locked, !.targets = cut]]
          BY <4>4 DEF PurgeCascade
        <5> QED  BY <2>2, <5>1 DEF StoreInvariant, TypeOK, Call
      <4> QED  BY <2>11, <4>1, <4>2, <4>3, <4>4
    <3>2. Claims(call[b])' = {} /\ call'[b].at # "revoke_all_rows"
      BY <3>1 DEF Claims
    <3> QED  BY <2>6, <3>2 DEF ClaimsHold, ScanCovered
  <2> QED  BY <1>5, <2>5, <2>7, <2>8, <2>9, <2>10, <2>11 DEF ReadsOnly, Abort
<1>6. ASSUME NEW b \in Backends, Writes(b)
      PROVE  ClaimsInvariant'
  <2>1. Return(b)
    BY <1>6 DEF Writes, Create, TouchWrite, RotateCommit, Revoke, RevokeAllCommit, PurgeCommit
  <2>2. call'[b] = NoCall /\ \A d \in Backends \ {b} : call'[d] = call[d]
    BY <2>1 DEF Return, StoreInvariant, TypeOK
  <2>3. \A s \in Sessions : origin[s] # Null => origin'[s] = origin[s]
    <3>1. call[b].new # Null => origin[call[b].new] = Null
      BY DEF StoreInvariant, NewTokensFresh
    <3> QED  BY <1>6, <3>1, CreateRows, RotateRows
             DEF StoreInvariant, Writes, TouchWrite, Revoke, RevokeAllCommit, PurgeCommit
  <2>4. ASSUME NEW d \in Backends \ {b}
        PROVE  ClaimsHold(call[d])' /\ ScanCovered(call[d])'
    <3>1. /\ call[d] \in Call /\ Formed(call[d])
          /\ ClaimsHold(call[d]) /\ ScanCovered(call[d])
      BY DEF StoreInvariant, TypeOK, CallsFormed, ClaimsInvariant
    <3>2. /\ call[d].targets \subseteq Sessions /\ call[d].locked \subseteq Sessions
          /\ call[d].seen \subseteq Sessions /\ call[d].now \in Nat
          /\ call[d].at # "none" => call[d].now <= clock
          /\ call[d].at = "touch_write" => call[d].token \in Sessions
          /\ call[d].at = "none" => Claims(call[d]) = {}
      BY <3>1 DEF Call, Formed, Claims
    <3>3. Claims(call[d]) \subseteq Sessions
      BY <3>2 DEF Claims
    <3>4. PICK n \in Nat : n = call[d].now
      BY <3>2
    <3>5. ClaimsHold(call[d])'
      <4>1. ASSUME NEW s \in Claims(call[d])
            PROVE  origin'[s] # Null /\ (Live(s)' => Active(s, n)')
        <5>1. /\ s \in Sessions /\ origin[s] # Null
              /\ Live(s) => Active(s, n)
              /\ n <= clock
          BY <3>1, <3>2, <3>3, <3>4, <4>1 DEF ClaimsHold, Claims
        <5> QED  BY <1>6, <2>3, <5>1, WritesKeepActive
      <4>2. Claims(call[d])' = Claims(call[d])
        BY <2>2 DEF Claims
      <4>3. call'[d].now = n
        BY <2>2, <3>4
      <4> QED  BY <4>1, <4>2, <4>3 DEF ClaimsHold
    <3>6. ScanCovered(call[d])'
      <4>1. ASSUME NEW s \in call[d].seen, call[d].at = "revoke_all_rows"
            PROVE  origin'[s] # Null /\ (Live(s)' => Live(s) /\ row'[s].owner = row[s].owner)
        BY <1>6, <2>3, <3>1, <3>2, <4>1, WritesKeepActive DEF ScanCovered
      <4> QED  BY <2>2, <3>1, <4>1 DEF ScanCovered
    <3> QED  BY <3>5, <3>6
  <2> QED  BY <1>2, <2>2, <2>4 DEF ClaimsInvariant
<1> QED
  BY <1>3, <1>4, <1>5, <1>6 DEF Next, Execute, ReadsOnly, Writes

\* With calls shorter than the idle window, a call's decision about a row is
\* still right when it writes, and revoke_all loses no row of its snapshot.
THEOREM ClaimsInvariance ==
  ASSUME ShortCalls
  PROVE  Spec => []ClaimsInvariant
<1>1. Init => ClaimsInvariant
  BY DEF Init, ClaimsInvariant, ClaimsHold, ScanCovered, Claims, NoCall
<1>2. StoreInvariant /\ ClaimsInvariant /\ [Next]_vars => ClaimsInvariant'
  BY ClaimsStep
<1> QED  BY <1>1, <1>2, StoreInvariance, PTL DEF Spec

-----------------------------------------------------------------------------
(* The safety properties the runs check.                                   *)

\* The variables of the store keep their types.
THEOREM TypeCorrect == Spec => []TypeOK
<1>1. StoreInvariant => TypeOK
  BY DEF StoreInvariant
<1> QED  BY <1>1, StoreInvariance, PTL

\* No interleaving of rotations, revocations, touches and purges leaves a
\* login with two unrevoked sessions.
THEOREM OneSessionCarriesALogin == Spec => []OneLivePerLogin
<1>1. StoreInvariant => OneLivePerLogin
  BY DEF StoreInvariant, RowInvariant
<1> QED  BY <1>1, StoreInvariance, PTL

\* Two concurrent refreshes of one session never both succeed.
THEOREM ARotationSucceedsOnce == Spec => []RotatedOnce
<1>1. StoreInvariant => RotatedOnce
  BY DEF StoreInvariant, RowInvariant
<1> QED  BY <1>1, StoreInvariance, PTL

\* No number of refreshes and touches moves a login to another user or tenant
\* or past the absolute expiry it was created with.
THEOREM TermsNeverChange == Spec => []LoginTermsFixed
<1>1. StoreInvariant => LoginTermsFixed
  BY DEF StoreInvariant, RowInvariant
<1> QED  BY <1>1, StoreInvariance, PTL

-----------------------------------------------------------------------------
(* The action properties.                                                  *)

\* Only the statements that end a call write the table.
LEMMA StepWrites ==
  ASSUME [Next]_vars
  PROVE  \/ UNCHANGED <<row, origin>>
         \/ /\ UNCHANGED clock
            /\ \E b \in Backends : Writes(b)
<1>1. ASSUME NEW b \in Backends, BeginCall(b) PROVE UNCHANGED <<row, origin>>
  BY <1>1 DEF BeginCall, BeginCreate, BeginTouch, BeginRotate, BeginRevoke,
              BeginRevokeAll, BeginPurge, Begin
<1>2. ASSUME NEW b \in Backends, Execute(b)
      PROVE  UNCHANGED <<row, origin>> \/ (UNCHANGED clock /\ Writes(b))
  BY <1>2 DEF Execute, Writes, Create, TouchRead, TouchWrite, RotateLock, RotateCommit, Revoke,
              RevokeAllScan, RevokeAllRow, RevokeAllCommit, ScanRows, VisitRow,
              PurgeScan, PurgeRow, PurgeCascade, PurgeCutRow, PurgeCommit
<1> QED  BY <1>1, <1>2 DEF Next, Tick, Abort, vars

\* Only the purge removes a row.
LEMMA WritesKeepRows ==
  ASSUME StoreInvariant, NEW b \in Backends,
         Create(b) \/ TouchWrite(b) \/ RotateCommit(b) \/ Revoke(b) \/ RevokeAllCommit(b),
         NEW s \in Sessions, Stored(s)
  PROVE  Stored(s)'
<1> USE StoreAssumption DEF StoreInvariant
<1>0. row[s] \in Row
  BY DEF TypeOK, Stored
<1>1. CASE Create(b)
  <2>1. row'[s] = row[s] \/ s = call[b].new
    BY <1>1, CreateRows
  <2>2. s # call[b].new
    BY <1>1 DEF Create, CallsFormed, Formed, NewTokensFresh, RowInvariant, OriginsKnown
  <2> QED  BY <2>1, <2>2 DEF Stored
<1>2. CASE TouchWrite(b) \/ Revoke(b)
  <2>1. row'[s] = row[s] \/ \E i, r \in Nat :
          \/ row'[s] = [row[s] EXCEPT !.idle = i]
          \/ row'[s] = [row[s] EXCEPT !.revoked = r]
    <3>1. call[b].now \in Nat
      BY DEF TypeOK, Call
    <3>2. call[b].token \in Sessions
      BY <1>2 DEF TouchWrite, Revoke, CallsFormed, Formed, TypeOK, Call
    <3>3. CASE s # call[b].token
      BY <1>2, <3>2, <3>3 DEF TouchWrite, Revoke, TypeOK
    <3>4. CASE s = call[b].token /\ TouchWrite(b)
      <4>1. Earliest(call[b].now + IdleTtl, row[s].absolute) \in Nat
        BY <1>0, <3>1 DEF Earliest, Row
      <4> QED  BY <3>4, <4>1 DEF TouchWrite, TypeOK
    <3>5. CASE s = call[b].token /\ Revoke(b)
      BY <3>1, <3>5 DEF Revoke, TypeOK
    <3> QED  BY <1>2, <3>3, <3>4, <3>5
  <2>2. row'[s] = row[s] \/ row'[s] \in Row
    BY <1>0, <2>1 DEF Row
  <2> QED  BY <2>2 DEF Stored
<1>3. CASE RotateCommit(b)
  <2>1. row' \in [Sessions -> Row \cup {Null}] /\ call[b].token \in Sessions
        /\ Live(call[b].token)
    BY <1>3, RotateRows
  <2>2. s # call[b].new
    BY <1>3, RotateRows DEF RowInvariant, OriginsKnown
  <2>3. CASE s # call[b].token
    BY <1>3, <2>2, <2>3, RotateRows DEF Stored
  <2>4. CASE s = call[b].token
    <3>1. row'[s] = [row[s] EXCEPT !.revoked = call[b].now]
      BY <1>3, <2>2, <2>4 DEF RotateCommit, TypeOK
    <3>2. row'[s].owner = row[s].owner /\ row'[s] \in Row
      BY <1>0, <3>1 DEF Row, TypeOK, Call
    <3> QED  BY <3>2 DEF Stored
  <2> QED  BY <2>3, <2>4
<1>4. CASE RevokeAllCommit(b)
  <2>1. row'[s] = row[s] \/ row'[s] = [row[s] EXCEPT !.revoked = call[b].now]
    BY <1>4 DEF RevokeAllCommit
  <2>2. row'[s] = row[s] \/ row'[s] \in Row
    BY <1>0, <2>1 DEF Row, TypeOK, Call
  <2> QED  BY <2>2 DEF Stored
<1> QED  BY <1>1, <1>2, <1>3, <1>4

\* Only the purge removes rows, and only rows nobody can use any more.
THEOREM PurgeIsSafe == Spec => PurgeTakesOnlyDead
<1>1. ASSUME StoreInvariant, [Next]_vars, NEW s \in Sessions, Stored(s), ~Stored(s)'
      PROVE  row[s].revoked # Null \/ row[s].absolute <= clock
  <2> USE StoreAssumption DEF StoreInvariant
  <2>1. row[s] \in Row
    BY <1>1 DEF TypeOK, Stored
  <2>2. CASE UNCHANGED row
    BY <1>1, <2>2 DEF Stored
  <2>3. ASSUME NEW b \in Backends, PurgeCommit(b)
        PROVE  row[s].revoked # Null \/ row[s].absolute <= clock
    <3>1. Purgeable(s, call[b].now)
      BY <1>1, <2>3, PurgeRows
    <3>2. call[b].now \in Nat /\ call[b].now <= clock /\ clock \in Nat
      BY <1>1, <2>3 DEF PurgeCommit, CallsFormed, Formed, TypeOK, Call
    <3> QED  BY <2>1, <3>1, <3>2, StoreAssumption DEF Purgeable, Row
  <2> QED  BY <1>1, <2>2, <2>3, StepWrites, WritesKeepRows DEF Writes
<1>2. StoreInvariant /\ [Next]_vars =>
        [\A s \in Sessions : Stored(s) /\ ~Stored(s)' =>
           row[s].revoked # Null \/ row[s].absolute <= clock]_vars
  BY <1>1
<1> QED  BY <1>2, StoreInvariance, PTL DEF Spec, PurgeTakesOnlyDead

\* A revoke_all that commits leaves none of the sessions its snapshot found.
THEOREM RevokeAllIsThorough ==
  ASSUME ShortCalls
  PROVE  Spec => RevokeAllCovers
<1>1. ASSUME StoreInvariant, ClaimsInvariant, NEW b \in Backends, RevokeAllCommit(b),
             NEW s \in call[b].seen
      PROVE  ~Live(s)'
  <2>1. s \in Sessions /\ (Live(s) => s \in call[b].locked)
    BY <1>1 DEF ClaimsInvariant, ScanCovered, RevokeAllCommit, StoreInvariant, TypeOK, Call
  <2> QED  BY <1>1, <2>1, RevokeAllRows DEF StoreInvariant
<1>2. StoreInvariant /\ ClaimsInvariant /\ [Next]_vars =>
        [\A b \in Backends : RevokeAllCommit(b) =>
           \A s \in call[b].seen : ~Live(s)']_vars
  BY <1>1
<1> QED  BY <1>2, StoreInvariance, ClaimsInvariance, PTL DEF Spec, RevokeAllCovers

\* Only a touch of a stored session that stays live changes its expiry.
LEMMA WritesKeepExpiry ==
  ASSUME StoreInvariant, NEW b \in Backends, Writes(b),
         NEW s \in Sessions, origin[s] # Null, Live(s)'
  PROVE  \/ row'[s].absolute = row[s].absolute /\ row'[s].idle = row[s].idle
         \/ TouchWrite(b) /\ s = call[b].token
<1> USE StoreAssumption DEF StoreInvariant
<1>1. CASE Create(b)
  BY <1>1, CreateRows DEF Create, CallsFormed, Formed, NewTokensFresh
<1>2. CASE TouchWrite(b)
  BY <1>2 DEF TouchWrite, TypeOK
<1>3. CASE RotateCommit(b)
  BY <1>3, RotateRows
<1>4. CASE Revoke(b)
  BY <1>4, RevokeRows DEF Revoke, TypeOK
<1>5. CASE RevokeAllCommit(b)
  BY <1>5, RevokeAllRows DEF RevokeAllCommit
<1>6. CASE PurgeCommit(b)
  BY <1>6, PurgeRows DEF Live
<1> QED  BY <1>1, <1>2, <1>3, <1>4, <1>5, <1>6 DEF Writes

\* A step leaves no resumable session to a login that had none.
LEMMA DeadStep ==
  ASSUME ShortCalls, StoreInvariant, ClaimsInvariant, [Next]_vars,
         NEW l \in Sessions, origin[l] # Null, NEW s \in Sessions,
         origin'[s] = l, Live(s)', ~Expired(s, clock - CallTimeout)'
  PROVE  Resumable(l)
<1> USE StoreAssumption
<1>1. CASE UNCHANGED <<row, origin>>
  <2>1. origin[s] = l /\ Live(s)
    BY <1>1 DEF Live, Stored
  <2>2. row[s] \in Row /\ clock \in Nat
    BY <2>1 DEF StoreInvariant, TypeOK, Live, Stored
  <2>3. clock' = clock \/ clock' = clock + 1
    BY DEF Next, Tick, BeginCall, BeginCreate, BeginTouch, BeginRotate, BeginRevoke,
           BeginRevokeAll, BeginPurge, Begin, Execute, Create, TouchRead, TouchWrite,
           RotateLock, RotateCommit, Revoke, RevokeAllScan, RevokeAllRow, RevokeAllCommit,
           PurgeScan, PurgeRow, PurgeCascade, PurgeCutRow, PurgeCommit, ScanRows, VisitRow,
           Abort, vars
  <2>4. ~Expired(s, clock - CallTimeout)
    BY <1>1, <2>2, <2>3 DEF Expired, Row
  <2> QED  BY <2>1, <2>4 DEF Resumable
<1>2. ASSUME NEW b \in Backends, UNCHANGED clock, Writes(b)
      PROVE  Resumable(l)
  <2>1. CASE origin[s] = Null
    <3>1. CASE Create(b)
      BY <2>1, <3>1 DEF Create, StoreInvariant, TypeOK
    <3>2. CASE RotateCommit(b)
      <4> DEFINE c == call[b]
      <4>1. origin[c.token] = l /\ c.token \in Sessions /\ Live(c.token)
        BY <2>1, <3>2, RotateRows DEF StoreInvariant
      <4>2. c.token \in Claims(c) /\ c.now \in Nat /\ clock \in Nat /\ clock <= c.now + CallTimeout
        BY <3>2 DEF StoreInvariant, CallsFormed, Formed, Claims, RotateCommit, TypeOK, Call
      <4>3. Active(c.token, c.now)
        BY <4>1, <4>2 DEF ClaimsInvariant, ClaimsHold
      <4>4. row[c.token] \in Row
        BY <4>1 DEF Live, Stored, StoreInvariant, TypeOK
      <4>5. ~Expired(c.token, clock - CallTimeout)
        BY <4>2, <4>3, <4>4 DEF Active, Expired, Row
      <4> QED  BY <4>1, <4>5 DEF Resumable
    <3>3. CASE TouchWrite(b) \/ Revoke(b) \/ RevokeAllCommit(b) \/ PurgeCommit(b)
      BY <2>1, <3>3 DEF TouchWrite, Revoke, RevokeAllCommit, PurgeCommit
    <3> QED  BY <1>2, <3>1, <3>2, <3>3 DEF Writes
  <2>2. CASE origin[s] # Null
    <3>1. Live(s) /\ origin[s] = l
      <4>1. origin'[s] = origin[s]
        BY <1>2, <2>2, CreateRows, RotateRows
           DEF StoreInvariant, NewTokensFresh, Writes, TouchWrite, Revoke, RevokeAllCommit,
               PurgeCommit, Create
      <4> QED  BY <1>2, <2>2, <4>1, WritesKeepActive
    <3>2. row[s] \in Row /\ clock \in Nat
      BY <3>1 DEF Live, Stored, StoreInvariant, TypeOK
    <3>3. CASE row'[s].absolute = row[s].absolute /\ row'[s].idle = row[s].idle
      BY <1>2, <3>1, <3>2, <3>3 DEF Expired, Resumable
    <3>4. CASE TouchWrite(b) /\ s = call[b].token
      <4> DEFINE c == call[b]
      <4>1. c.token \in Claims(c) /\ c.now \in Nat /\ clock <= c.now + CallTimeout
        BY <3>4 DEF StoreInvariant, CallsFormed, Formed, Claims, TouchWrite, TypeOK, Call
      <4>2. Active(s, c.now)
        BY <3>1, <3>4, <4>1 DEF ClaimsInvariant, ClaimsHold
      <4>3. ~Expired(s, clock - CallTimeout)
        BY <3>2, <4>1, <4>2 DEF Active, Expired, Row
      <4> QED  BY <3>1, <4>3 DEF Resumable
    <3> QED  BY <1>2, <2>2, <3>3, <3>4, <3>1, <3>2, WritesKeepExpiry
  <2> QED  BY <2>1, <2>2
<1> QED  BY <1>1, <1>2, StepWrites

\* A dead login is never resumed, by however late a touch or a rotation.
THEOREM DeadLoginsStayDead ==
  ASSUME ShortCalls
  PROVE  Spec => DeadLoginStaysDead
<1>1. StoreInvariant /\ ClaimsInvariant /\ [Next]_vars =>
        [\A l \in Sessions : origin[l] # Null /\ ~Resumable(l) => ~Resumable(l)']_vars
  BY DeadStep DEF Resumable
<1> QED  BY <1>1, StoreInvariance, ClaimsInvariance, PTL DEF Spec, DeadLoginStaysDead

-----------------------------------------------------------------------------
(* The store implements LoginLineage.                                      *)

\* A write that revives no session ends the logins it leaves without one.
LEMMA WritesEndLogins ==
  ASSUME TypeOK, OneLivePerLogin, UNCHANGED origin,
         \A s \in Sessions : Live(s)' => Live(s)
  PROVE  Lineage!Next
<1> DEFINE ended == {l \in Sessions : Carriers'[l] = {}}
<1>1. ASSUME NEW l \in Sessions PROVE Carriers'[l] = IF l \in ended THEN {} ELSE Carriers[l]
  BY DEF Carriers, OneLivePerLogin
<1>2. Carriers' = [l \in Sessions |-> IF l \in ended THEN {} ELSE Carriers[l]]
  BY <1>1 DEF Carriers
<1> HIDE DEF ended
<1>3. ended \in SUBSET Sessions
  BY DEF ended
<1> QED  BY <1>2, <1>3 DEF Lineage!Next, Lineage!End

\* Every step of the store is a step of LoginLineage or leaves it unchanged.
LEMMA LineageStep ==
  ASSUME StoreInvariant, [Next]_vars
  PROVE  [Lineage!Next]_(Lineage!vars)
<1> USE StoreAssumption
<1> DEFINE I == {s \in Sessions : origin[s] # Null}
<1>1. CASE UNCHANGED <<row, origin>>
  BY <1>1 DEF Lineage!vars, Carriers, Live, Stored
<1>2. ASSUME NEW b \in Backends, Create(b), ~UNCHANGED <<row, origin>>
      PROVE  Lineage!Next
  <2>0. PICK n \in Sessions : n = call[b].new
    BY <1>2 DEF Create, StoreInvariant, CallsFormed, Formed, TypeOK, Call
  <2>1. origin[n] = Null /\ origin' = [origin EXCEPT ![n] = n]
    BY <1>2, <2>0 DEF Create, StoreInvariant, NewTokensFresh
  <2>2. Live(n)' /\ \A s \in Sessions \ {n} : Live(s)' <=> Live(s)
    <3>1. PICK r \in Row : row' = [row EXCEPT ![n] = r] /\ r # Null /\ r.revoked = Null
      <4>1. call[b].owner \in Owners /\ call[b].now + AbsoluteTtl \in Nat /\ call[b].now \in Nat
        BY <1>2 DEF Create, StoreInvariant, CallsFormed, Formed, TypeOK, Call
      <4>2. PICK r : r = NewRow(call[b].owner, call[b].now + AbsoluteTtl, call[b].now, Null)
        OBVIOUS
      <4>3. r \in Row /\ r # Null /\ r.revoked = Null
        BY <4>1, <4>2, NewRowType
      <4>4. row' = [row EXCEPT ![n] = r]
        BY <1>2, <2>0, <4>2 DEF Create
      <4> QED  BY <4>3, <4>4
    <3>2. row'[n] = r /\ \A s \in Sessions \ {n} : row'[s] = row[s]
      BY <2>1, <3>1 DEF StoreInvariant, TypeOK
    <3> QED  BY <3>1, <3>2 DEF Live, Stored
  <2>3. n \notin I /\ I' = I \cup {n}
    BY <2>1 DEF StoreInvariant, TypeOK
  <2>4. \A s \in Sessions : origin[s] # n
    BY <2>1 DEF StoreInvariant, RowInvariant, OriginsKnown
  <2>5. ASSUME NEW l \in Sessions
        PROVE  Carriers'[l] = IF l = n THEN {n} ELSE Carriers[l]
    <3>1. origin'[n] = n /\ \A s \in Sessions \ {n} : origin'[s] = origin[s]
      BY <2>1 DEF StoreInvariant, TypeOK
    <3>2. ~Live(n)
      BY <2>1 DEF StoreInvariant, RowInvariant, OriginsKnown, Live
    <3>3. CASE l = n
      <4>1. \A s \in Sessions : origin'[s] = n <=> s = n
        BY <2>1, <2>4, <3>1
      <4> QED  BY <2>1, <2>2, <3>3, <4>1 DEF Carriers
    <3>4. CASE l # n
      BY <2>1, <2>2, <3>1, <3>2, <3>4 DEF Carriers
    <3> QED  BY <3>3, <3>4
  <2>6. Carriers' = [Carriers EXCEPT ![n] = {n}]
    BY <2>5 DEF Carriers
  <2> QED  BY <2>1, <2>3, <2>6 DEF Lineage!Next, Lineage!Login
<1>3. ASSUME NEW b \in Backends, RotateCommit(b) PROVE Lineage!Next
  <2> DEFINE n == call[b].new
             o == call[b].token
  <2>1. /\ n \in Sessions /\ o \in Sessions /\ origin[n] = Null /\ Live(o)
        /\ origin'[n] = origin[o]
        /\ \A s \in Sessions \ {n} : origin'[s] = origin[s]
        /\ \A s \in Sessions : Live(s)' <=> (Live(s) /\ s # o) \/ s = n
    BY <1>3, RotateRows DEF StoreInvariant
  <2>2. PICK l \in Sessions : l = origin[o]
    BY <2>1 DEF StoreInvariant, RowInvariant, OriginsKnown, TypeOK, Live
  <2> HIDE DEF n, o
  <2>3. n \notin I /\ I' = I \cup {n}
    BY <2>1, <2>2
  <2>4. Carriers[l] = {o}
    BY <2>1, <2>2 DEF Carriers, StoreInvariant, RowInvariant, OneLivePerLogin
  <2>5. ASSUME NEW k \in Sessions
        PROVE  Carriers'[k] = IF k = l THEN {n} ELSE Carriers[k]
    <3>1. ~Live(n)
      BY <2>1 DEF StoreInvariant, RowInvariant, OriginsKnown, Live
    <3>2. CASE k = l
      BY <2>1, <2>2, <3>1, <3>2
         DEF Carriers, StoreInvariant, RowInvariant, OneLivePerLogin
    <3>3. CASE k # l
      BY <2>1, <2>2, <3>1, <3>3 DEF Carriers
    <3> QED  BY <3>2, <3>3
  <2>6. Carriers' = [Carriers EXCEPT ![l] = {n}]
    BY <2>5 DEF Carriers
  <2> QED  BY <2>1, <2>3, <2>4, <2>6 DEF Lineage!Next, Lineage!Rotate
<1>4. ASSUME NEW b \in Backends,
             TouchWrite(b) \/ Revoke(b) \/ RevokeAllCommit(b) \/ PurgeCommit(b)
      PROVE  Lineage!Next
  <2>1. UNCHANGED origin
    BY <1>4 DEF TouchWrite, Revoke, RevokeAllCommit, PurgeCommit
  <2>2. \A s \in Sessions : Live(s)' => Live(s)
    BY <1>4, TouchRows, RevokeRows, RevokeAllRows, PurgeRows DEF StoreInvariant
  <2> QED  BY <2>1, <2>2, WritesEndLogins DEF StoreInvariant, RowInvariant
<1> QED  BY <1>1, <1>2, <1>3, <1>4, StepWrites DEF Writes

\* The six functions, in any interleaving, implement the life of a login.
THEOREM StoreImplementsLineage == Spec => LineageSpec
<1>1. Init => Lineage!Init
  BY DEF Init, Lineage!Init, Carriers, Live, Stored
<1>2. StoreInvariant /\ [Next]_vars => [Lineage!Next]_(Lineage!vars)
  BY LineageStep
<1> QED  BY <1>1, <1>2, StoreInvariance, PTL DEF Spec, LineageSpec, Lineage!Spec

-----------------------------------------------------------------------------
(* The store never hangs.                                                  *)

\* A call that waits for a row waits for a call in flight that holds it.
LEMMA Waiting ==
  ASSUME StoreInvariant, NEW c \in Backends, call[c].at # "none", ~CanGoOn(c)
  PROVE  \E d \in Backends : WaitsFor(c, d) /\ call[d].at # "none"
<1>1. PICK s \in Wanted(c) : ~Free(c, s)
  BY DEF CanGoOn
<1>2. PICK d \in Backends \ {c} : s \in call[d].locked
  BY <1>1 DEF Free
<1>3. call[d].at # "none"
  BY <1>2 DEF StoreInvariant, CallsFormed, Formed, RowByRow
<1> QED  BY <1>1, <1>2, <1>3 DEF WaitsFor

\* Among finitely many calls each of which waits for one of them, some wait for
\* each other in a circle.
LEMMA Circle ==
  ASSUME NEW B \in SUBSET Backends, B # {},
         \A c \in B : \E d \in B : WaitsFor(c, d)
  PROVE  \E c \in Backends : Deadlocked(c)
<1> DEFINE Closed == {C \in SUBSET B : C # {} /\ \A c \in C : \E d \in C : WaitsFor(c, d)}
           F == FiniteSubsetsOf(B)
<1>1. IsFiniteSet(B)
  BY StoreAssumption, FS_Subset
<1>2. Closed \subseteq F /\ B \in Closed
  BY <1>1, FS_Subset DEF FiniteSubsetsOf
<1>3. IsWellFoundedOn(StrictSubsetOrdering(B), F)
  BY <1>1, FS_StrictSubsetOrderingWellFounded
<1>4. PICK C \in Closed : \A D \in Closed : ~(<<D, C>> \in StrictSubsetOrdering(B))
  BY <1>2, <1>3, WFMin
<1> DEFINE D == {d \in C : \E c \in C : WaitsFor(c, d)}
<1>5. D \in Closed
  OBVIOUS
<1>6. D = C
  BY <1>4, <1>5 DEF StrictSubsetOrdering
<1>7. PICK c \in C : TRUE
  BY <1>4
<1>8. /\ C \in SUBSET Backends /\ c \in C
      /\ \A e \in C : (\E d \in C : WaitsFor(e, d)) /\ (\E d \in C : WaitsFor(d, e))
  BY <1>4, <1>6, <1>7
<1>9. Deadlocked(c)
  BY <1>8 DEF Deadlocked
<1> QED  BY <1>8, <1>9

\* While calls are in flight, one of them can go on or some are in a deadlock:
\* a call holds rows while it waits only as revoke_all or as a purge, it waits
\* for one row at a time, and the row's holder is in flight itself; finitely
\* many calls cannot wait for one another without a circle
\* (delete_expired_sessions.sql:19-21, user_sessions.sql:26,
\* revoke_all_user_sessions.sql:15-21, rotate_user_session.sql:18-45).
THEOREM StoreNeverStuck == Spec => []NeverStuck
<1>1. StoreInvariant => NeverStuck
  <2> SUFFICES ASSUME StoreInvariant, NEW b \in Backends, call[b].at # "none",
                      \A c \in Backends : ~CanGoOn(c)
               PROVE  \E c \in Backends : Deadlocked(c)
    BY DEF NeverStuck
  <2> DEFINE B == {c \in Backends : call[c].at # "none"}
  <2>1. \A c \in B : \E d \in B : WaitsFor(c, d)
    BY Waiting
  <2> QED  BY <2>1, Circle
<1> QED  BY <1>1, StoreInvariance, PTL

=============================================================================
