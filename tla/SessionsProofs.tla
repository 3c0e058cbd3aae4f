--------------------------- MODULE SessionsProofs ---------------------------
(***************************************************************************)
(* Proofs about Sessions, for any number of users, sessions, tokens and    *)
(* requests in flight, and any time-outs.  The safety theorems rest on the *)
(* inductive invariant SessionsInv below; they are stated for Spec, with   *)
(* crashes and every interleaving.  What holds only while no request was   *)
(* overtaken or cut short is stated for AloneSpec of SessionsAlone and     *)
(* rests on AloneInv, at the end.                                          *)
(***************************************************************************)
EXTENDS SessionsAlone, FiniteSetTheorems, TLAPS

\* No row is younger than the clock, and no row outlives its activity by more
\* than the idle timeout or its session's login by more than MaxSession.
RowsInTime ==
  \A t \in Issued :
    /\ rows[t].activity <= clock
    /\ rows[t].expires <= rows[t].activity + IdleTimeout
    /\ rows[t].session # NoSession => rows[t].expires <= SessionEnd(rows[t].started)

\* A session has one user and one login time.
SessionsAgree ==
  \A t1, t2 \in Issued :
    rows[t1].session = rows[t2].session /\ rows[t1].session # NoSession
    => rows[t1].user = rows[t2].user /\ rows[t1].started = rows[t2].started

\* A rotation in flight holds a token of a real session.
RotationsOfSessions ==
  \A h \in Rotations :
    req[h].token \in Issued /\ rows[req[h].token].session # NoSession

\* Legacy rows never acquire a session.
LegacyRowsApart == \A t \in Legacy : t \in Issued /\ rows[t].session = NoSession

SessionsInv ==
  /\ TypeOK
  /\ RowsInTime
  /\ SessionsAgree
  /\ RotationsOfSessions
  /\ LegacyRowsApart
  /\ OnlyLoginsOpenSessions

-----------------------------------------------------------------------------
\* The row written for a token issued now is well formed and dies in time.
LEMMA NewRowFacts ==
  ASSUME TypeOK, NEW u \in Users, NEW s \in Sessions \cup {NoSession}, NEW started \in Nat
  PROVE  /\ NewRow(u, s, started) \in Row
         /\ NewRow(u, s, started) # NoRow
         /\ NewRow(u, s, started).user = u
         /\ NewRow(u, s, started).session = s
         /\ NewRow(u, s, started).started = started
         /\ NewRow(u, s, started).activity = clock
         /\ ~NewRow(u, s, started).revoked
         /\ NewRow(u, s, started).expires <= clock + IdleTimeout
         /\ NewRow(u, s, started).expires <= SessionEnd(started)
<1>1. /\ ExpiresAt(clock, started) \in Nat
      /\ ExpiresAt(clock, started) <= clock + IdleTimeout
      /\ ExpiresAt(clock, started) <= SessionEnd(started)
  BY TimesAssumption DEF TypeOK, ExpiresAt, Earlier, SessionEnd
<1>2. NewRow(u, s, started) \in Row
  BY <1>1 DEF NewRow, Row, TypeOK
<1>3. QED
  BY <1>1, <1>2, IdentitiesAssumption DEF NewRow

\* Revoking changes no row but for its revoked flag, and issues nothing.
LEMMA RevokeFacts ==
  ASSUME TypeOK, NEW T
  PROVE  /\ Revoke(T) \in [Tokens -> Row \cup {NoRow}]
         /\ \A t \in Tokens : Revoke(T)[t] # NoRow <=> rows[t] # NoRow
         /\ \A t \in Issued :
              /\ Revoke(T)[t].user = rows[t].user
              /\ Revoke(T)[t].session = rows[t].session
              /\ Revoke(T)[t].started = rows[t].started
              /\ Revoke(T)[t].activity = rows[t].activity
              /\ Revoke(T)[t].expires = rows[t].expires
              /\ rows[t].revoked => Revoke(T)[t].revoked
<1>1. \A t \in Issued : rows[t] \in Row
  BY DEF TypeOK, Issued
<1>2. \A t \in Issued : [rows[t] EXCEPT !.revoked = TRUE] \in Row
  BY <1>1 DEF Row
<1>3. \A t \in Issued : [rows[t] EXCEPT !.revoked = TRUE] # NoRow
  BY <1>2, IdentitiesAssumption
<1>4. Revoke(T) \in [Tokens -> Row \cup {NoRow}]
  BY <1>1, <1>2 DEF Revoke, Issued, TypeOK
<1>5. ASSUME NEW t \in Issued
      PROVE  /\ Revoke(T)[t].user = rows[t].user
             /\ Revoke(T)[t].session = rows[t].session
             /\ Revoke(T)[t].started = rows[t].started
             /\ Revoke(T)[t].activity = rows[t].activity
             /\ Revoke(T)[t].expires = rows[t].expires
             /\ rows[t].revoked => Revoke(T)[t].revoked
  BY <1>1, <1>5 DEF Revoke, Issued, Row
<1>6. QED
  BY <1>3, <1>4, <1>5 DEF Revoke, Issued

-----------------------------------------------------------------------------
\* The service keeps its types.
LEMMA TypeStep == TypeOK /\ RotationsOfSessions /\ [Next]_vars => TypeOK'
<1> SUFFICES ASSUME TypeOK, RotationsOfSessions, [Next]_vars PROVE TypeOK'
  OBVIOUS
<1> USE DEF TypeOK
<1>1. CASE UNCHANGED vars
  BY <1>1 DEF vars
<1>2. CASE Tick
  BY <1>2 DEF Tick, accountVars
<1>3. ASSUME NEW h \in Handlers, NEW u \in Users, LoginCheck(h, u)
      PROVE  TypeOK'
  <2>1. [step |-> "issue", user |-> u, seen |-> password[u]] \in Request
    BY DEF Request
  <2>2. QED
    BY <1>3, <2>1 DEF LoginCheck, accountVars
<1>4. ASSUME NEW h \in Handlers, NEW s \in Sessions, NEW t \in Tokens, LoginIssue(h, s, t)
      PROVE  TypeOK'
  <2>1. req[h].user \in Users /\ req[h].seen \in Nat
    BY <1>4 DEF LoginIssue, Request, Idle
  <2>2. NewRow(req[h].user, s, clock) \in Row
    BY <2>1, NewRowFacts
  <2>3. Idle \in Request
    BY DEF Request
  <2>4. QED
    BY <1>4, <2>1, <2>2, <2>3 DEF LoginIssue, accountVars
<1>5. ASSUME NEW h \in Handlers, NEW t \in Tokens, RefreshRead(h, t)
      PROVE  TypeOK'
  <2>1. [step |-> "check", token |-> t] \in Request
    BY DEF Request
  <2>2. QED
    BY <1>5, <2>1 DEF RefreshRead, accountVars
<1>6. ASSUME NEW h \in Handlers, NEW t \in Tokens, RefreshRotate(h, t)
      PROVE  TypeOK'
  <2>1. rows[req[h].token] \in Row
    BY <1>6 DEF RefreshRotate, RotationsOfSessions, Rotations, Pending, Issued
  <2>2. Successor(req[h].token) \in Row
    BY <2>1, NewRowFacts DEF Successor, Row
  <2>3. Idle \in Request
    BY DEF Request
  <2>4. QED
    BY <1>6, <2>2, <2>3, RevokeFacts DEF RefreshRotate, accountVars
<1>7. ASSUME NEW t \in Tokens, RefreshReplay(t) \/ Logout(t)
      PROVE  TypeOK'
  BY <1>7, RevokeFacts DEF RefreshReplay, Logout, accountVars
<1>8. ASSUME NEW u \in Users,
             LogoutAll(u) \/ \E s \in Sessions : RevokeSession(u, s)
      PROVE  TypeOK'
  <2>1. UNCHANGED <<clock, accountVars, req, openedWith>>
    BY <1>8 DEF RevokeSession, LogoutAll
  <2>2. \E T : rows' = Revoke(T)
    BY <1>8 DEF RevokeSession, LogoutAll
  <2>3. QED
    BY <2>1, <2>2, RevokeFacts DEF accountVars
<1>9. ASSUME NEW h \in Handlers, NEW u \in Users,
             EditPassword(h, u) \/ \E b \in BOOLEAN : SetUserActive(h, u, b)
      PROVE  TypeOK'
  <2>1. \A step \in {"recheck", "revoke"} : [step |-> step, user |-> u] \in Request
    BY DEF Request
  <2>2. QED
    BY <1>9, <2>1 DEF EditPassword, SetUserActive
<1>10. ASSUME NEW h \in Handlers, RecheckActive(h) \/ RevokeTokens(h) \/ Crash(h)
       PROVE  TypeOK'
  <2>1. Idle \in Request
    BY DEF Request
  <2>2. CASE RecheckActive(h)
    <3>1. req[h].user \in Users
      BY <2>2 DEF RecheckActive, Request, Idle
    <3>2. [step |-> "revoke", user |-> req[h].user] \in Request
      BY <3>1 DEF Request
    <3>3. QED
      BY <2>1, <2>2, <3>2 DEF RecheckActive, accountVars
  <2>3. CASE RevokeTokens(h)
    BY <2>1, <2>3, RevokeFacts DEF RevokeTokens, accountVars
  <2>4. CASE Crash(h)
    BY <2>1, <2>4 DEF Crash, accountVars
  <2>5. QED
    BY <1>10, <2>2, <2>3, <2>4
<1>11. ASSUME NEW u \in Users, ApproveUser(u)
       PROVE  TypeOK'
  BY <1>11 DEF ApproveUser
<1>12. ASSUME NEW h \in Handlers, RefreshUser(h)
       PROVE  TypeOK'
  <2>1. req[h].token \in Tokens
    BY <1>12 DEF RefreshUser, Request, Idle
  <2>2. Idle \in Request /\ [step |-> "rotate", token |-> req[h].token] \in Request
    BY <2>1 DEF Request
  <2>3. QED
    BY <1>12, <2>2 DEF RefreshUser, accountVars
<1>13. QED
  BY <1>1, <1>2, <1>3, <1>4, <1>5, <1>6, <1>7, <1>8, <1>9, <1>10, <1>11, <1>12
     DEF Next, Service, Login, Refresh, EndSessions, ChangeAccount

-----------------------------------------------------------------------------
(***************************************************************************)
(* What a step does to the table and to the rotations in flight, whichever *)
(* request makes it: it keeps the rows, but for revoking some, or it does  *)
(* that and issues one token.                                              *)
(***************************************************************************)
\* Every row but those of tokens in T is what it was, revocation aside.
KeepsRows(T) ==
  \A t \in Tokens \ T :
    /\ rows'[t] = NoRow <=> rows[t] = NoRow
    /\ rows[t] # NoRow =>
         /\ rows'[t].user = rows[t].user
         /\ rows'[t].session = rows[t].session
         /\ rows'[t].started = rows[t].started
         /\ rows'[t].activity = rows[t].activity
         /\ rows'[t].expires = rows[t].expires
         /\ rows[t].revoked => rows'[t].revoked

\* The rotations in flight after the step were in flight before it, with the
\* same token.
NoNewRotation ==
  \A h \in Handlers :
    req'[h].step \in {"check", "rotate"} =>
      req[h].step \in {"check", "rotate"} /\ req'[h].token = req[h].token

StartsRotation ==
  \E h \in Handlers, t \in Tokens : RefreshRead(h, t)

QuietStep ==
  /\ KeepsRows({})
  /\ clock' \in {clock, clock + 1}
  /\ NoNewRotation \/ StartsRotation

IssuingStep(t) ==
  /\ rows[t] = NoRow
  /\ KeepsRows({t})
  /\ UNCHANGED clock
  /\ NoNewRotation
  /\ \/ \E u \in Users, s \in Sessions :
          TokensIn(s) = {} /\ rows'[t] = NewRow(u, s, clock)
     \/ \E from \in Issued :
          /\ rows[from].session # NoSession
          /\ rows'[t] = NewRow(rows[from].user, rows[from].session, rows[from].started)
          /\ \E h \in Rotations : req[h].token = from

LEMMA StepShape ==
  TypeOK /\ RotationsOfSessions /\ [Next]_vars
    => QuietStep \/ \E t \in Tokens : IssuingStep(t)
<1> SUFFICES ASSUME TypeOK, RotationsOfSessions, [Next]_vars
             PROVE  QuietStep \/ \E t \in Tokens : IssuingStep(t)
  OBVIOUS
<1>1. ASSUME UNCHANGED rows PROVE KeepsRows({})
  BY <1>1 DEF KeepsRows
<1>2. ASSUME NEW T, rows' = Revoke(T) PROVE KeepsRows({})
  BY <1>2, RevokeFacts DEF KeepsRows, Issued
<1>3. CASE UNCHANGED vars
  BY <1>1, <1>3 DEF vars, QuietStep, NoNewRotation
<1>4. CASE Tick
  BY <1>1, <1>4 DEF Tick, QuietStep, NoNewRotation
<1>5. ASSUME NEW h \in Handlers, NEW u \in Users, LoginCheck(h, u)
      PROVE  QuietStep
  BY <1>1, <1>5 DEF LoginCheck, QuietStep, NoNewRotation, TypeOK
<1>6. ASSUME NEW h \in Handlers, NEW s \in Sessions, NEW t \in Tokens, LoginIssue(h, s, t)
      PROVE  IssuingStep(t)
  <2>1. req[h].user \in Users
    BY <1>6 DEF LoginIssue, TypeOK, Request, Idle
  <2>2. rows'[t] = NewRow(req[h].user, s, clock)
    BY <1>6 DEF LoginIssue, TypeOK
  <2>3. KeepsRows({t})
    BY <1>6 DEF LoginIssue, TypeOK, KeepsRows
  <2>4. NoNewRotation
    BY <1>6 DEF LoginIssue, TypeOK, NoNewRotation, Idle
  <2>5. QED
    BY <1>6, <2>1, <2>2, <2>3, <2>4 DEF IssuingStep, LoginIssue
<1>7. ASSUME NEW h \in Handlers, NEW t \in Tokens, RefreshRead(h, t)
      PROVE  QuietStep
  BY <1>1, <1>7 DEF RefreshRead, QuietStep, StartsRotation
<1>8. ASSUME NEW h \in Handlers, NEW t \in Tokens, RefreshRotate(h, t)
      PROVE  IssuingStep(t)
  <2> DEFINE from == req[h].token
  <2>1. h \in Rotations /\ from \in Issued /\ rows[from].session # NoSession
    BY <1>8 DEF RefreshRotate, RotationsOfSessions, Rotations, Pending
  <2>2. rows'[t] = NewRow(rows[from].user, rows[from].session, rows[from].started)
    BY <1>8, RevokeFacts DEF RefreshRotate, Successor
  <2>3. \A t2 \in Tokens \ {t} : rows'[t2] = Revoke({from})[t2]
    BY <1>8, RevokeFacts DEF RefreshRotate
  <2>4. KeepsRows({t})
    BY <2>3, RevokeFacts DEF KeepsRows, Issued
  <2>5. NoNewRotation
    BY <1>8 DEF RefreshRotate, TypeOK, NoNewRotation, Idle
  <2>6. QED
    BY <1>8, <2>1, <2>2, <2>4, <2>5 DEF IssuingStep, RefreshRotate
<1>9. ASSUME NEW t \in Tokens, RefreshReplay(t) \/ Logout(t)
      PROVE  QuietStep
  BY <1>2, <1>9 DEF RefreshReplay, Logout, QuietStep, NoNewRotation
<1>10. ASSUME NEW u \in Users,
             LogoutAll(u) \/ \E s \in Sessions : RevokeSession(u, s)
       PROVE  QuietStep
  BY <1>2, <1>10 DEF RevokeSession, LogoutAll, QuietStep, NoNewRotation
<1>11. ASSUME NEW h \in Handlers, NEW u \in Users,
              EditPassword(h, u) \/ \E b \in BOOLEAN : SetUserActive(h, u, b)
       PROVE  QuietStep
  BY <1>1, <1>11 DEF EditPassword, SetUserActive, QuietStep, NoNewRotation, TypeOK
<1>12. ASSUME NEW h \in Handlers, RecheckActive(h) \/ Crash(h)
       PROVE  QuietStep
  BY <1>1, <1>12 DEF RecheckActive, Crash, QuietStep, NoNewRotation, TypeOK, Idle
<1>13. ASSUME NEW h \in Handlers, RevokeTokens(h)
       PROVE  QuietStep
  BY <1>2, <1>13 DEF RevokeTokens, QuietStep, NoNewRotation, TypeOK, Idle
<1>14. ASSUME NEW u \in Users, ApproveUser(u)
       PROVE  QuietStep
  BY <1>1, <1>14 DEF ApproveUser, QuietStep, NoNewRotation
<1>15. ASSUME NEW h \in Handlers, RefreshUser(h)
       PROVE  QuietStep
  <2>1. NoNewRotation
    BY <1>15 DEF RefreshUser, NoNewRotation, TypeOK, Idle
  <2>2. QED
    BY <1>1, <1>15, <2>1 DEF RefreshUser, QuietStep
<1>16. QED
  BY <1>3, <1>4, <1>5, <1>6, <1>7, <1>8, <1>9, <1>10, <1>11, <1>12, <1>13, <1>14, <1>15
     DEF Next, Service, Login, Refresh, EndSessions, ChangeAccount

\* Every kind of step has one of the two shapes, so the invariant is proved
\* preserved once for each shape.
LEMMA SessionsInvInit == Init => SessionsInv
<1> SUFFICES ASSUME Init PROVE SessionsInv
  OBVIOUS
<1>1. PICK owner \in [Legacy -> Users] :
        rows = [t \in Tokens |->
                  IF t \in Legacy
                    THEN [user |-> owner[t], session |-> NoSession, started |-> 0,
                          activity |-> 0, expires |-> IdleTimeout, revoked |-> FALSE]
                    ELSE NoRow]
  BY DEF Init
<1>2. ASSUME NEW t \in Legacy
      PROVE  rows[t] \in Row /\ rows[t] # NoRow /\ rows[t].session = NoSession
             /\ rows[t].activity = 0 /\ rows[t].expires = IdleTimeout
  <2>1. owner[t] \in Users /\ t \in Tokens
    BY IdentitiesAssumption
  <2>2. rows[t] = [user |-> owner[t], session |-> NoSession, started |-> 0,
                   activity |-> 0, expires |-> IdleTimeout, revoked |-> FALSE]
    BY <1>1, <2>1
  <2>3. rows[t] \in Row
    BY <2>1, <2>2, TimesAssumption DEF Row
  <2>4. rows[t] # NoRow
    BY <2>3, IdentitiesAssumption
  <2>5. QED
    BY <2>2, <2>3, <2>4
<1>3. \A t \in Tokens \ Legacy : rows[t] = NoRow
  BY <1>1
<1>4. Issued = Legacy
  BY <1>2, <1>3, IdentitiesAssumption DEF Issued
<1>5. TypeOK
  <2>1. rows \in [Tokens -> Row \cup {NoRow}]
    BY <1>1, <1>2, <1>3
  <2>2. Idle \in Request
    BY DEF Request
  <2>3. QED
    BY <2>1, <2>2 DEF Init, TypeOK
<1>6. RowsInTime
  <2>1. \A t \in Issued : rows[t].session = NoSession /\ rows[t].activity = 0
                           /\ rows[t].expires = IdleTimeout
    BY <1>2, <1>4
  <2>2. clock = 0 /\ IdleTimeout <= 0 + IdleTimeout
    BY TimesAssumption DEF Init
  <2>3. QED
    BY <2>1, <2>2 DEF RowsInTime
<1>7. SessionsAgree /\ LegacyRowsApart /\ OnlyLoginsOpenSessions
  BY <1>2, <1>4 DEF SessionsAgree, LegacyRowsApart, OnlyLoginsOpenSessions
<1>8. RotationsOfSessions
  BY DEF Init, RotationsOfSessions, Rotations, Pending, Idle
<1>9. QED
  BY <1>5, <1>6, <1>7, <1>8 DEF SessionsInv

LEMMA QuietStepInv == SessionsInv /\ QuietStep /\ TypeOK' => SessionsInv'
<1> SUFFICES ASSUME SessionsInv, QuietStep, TypeOK' PROVE SessionsInv'
  OBVIOUS
<1> USE DEF SessionsInv
<1>1. Issued' = Issued /\ Issued \subseteq Tokens
  BY DEF QuietStep, KeepsRows, Issued
<1>2. \A t \in Issued : /\ rows'[t].user = rows[t].user
                        /\ rows'[t].session = rows[t].session
                        /\ rows'[t].started = rows[t].started
                        /\ rows'[t].activity = rows[t].activity
                        /\ rows'[t].expires = rows[t].expires
  BY DEF QuietStep, KeepsRows, Issued
<1>3. RowsInTime'
  <2>1. \A t \in Issued : rows[t].activity \in Nat
    BY DEF TypeOK, Issued, Row
  <2>2. clock <= clock' /\ clock \in Nat /\ clock' \in Nat
    BY DEF QuietStep, TypeOK
  <2>3. QED
    BY <1>1, <1>2, <2>1, <2>2 DEF RowsInTime, SessionEnd
<1>4. SessionsAgree'
  BY <1>1, <1>2 DEF SessionsAgree
<1>5. LegacyRowsApart'
  BY <1>1, <1>2 DEF LegacyRowsApart
<1>6. OnlyLoginsOpenSessions'
  BY <1>1, <1>2 DEF OnlyLoginsOpenSessions, TokensIn
<1>7. RotationsOfSessions'
  <2>1. CASE NoNewRotation
    BY <1>1, <1>2, <2>1 DEF NoNewRotation, RotationsOfSessions, Rotations, Pending
  <2>2. CASE StartsRotation
    <3>1. PICK h \in Handlers, t \in Tokens : RefreshRead(h, t)
      BY <2>2 DEF StartsRotation
    <3>2. t \in Issued /\ rows[t].session # NoSession
      BY <3>1 DEF RefreshRead, Rotatable, Live
    <3>3. \A g \in Handlers \ {h} : req'[g] = req[g]
      BY <3>1 DEF RefreshRead, TypeOK
    <3>4. req'[h].token = t
      BY <3>1 DEF RefreshRead, TypeOK
    <3>5. QED
      BY <1>1, <1>2, <3>2, <3>3, <3>4 DEF RotationsOfSessions, Rotations, Pending
  <2>3. QED
    BY <2>1, <2>2 DEF QuietStep
<1>8. QED
  BY <1>3, <1>4, <1>5, <1>6, <1>7

LEMMA IssuingStepInv ==
  ASSUME NEW t \in Tokens
  PROVE  SessionsInv /\ IssuingStep(t) /\ TypeOK' => SessionsInv'
<1> SUFFICES ASSUME SessionsInv, IssuingStep(t), TypeOK' PROVE SessionsInv'
  OBVIOUS
<1> USE DEF SessionsInv
<1>1. t \notin Issued /\ Issued \subseteq Tokens
  BY DEF IssuingStep, Issued
<1>2. \A o \in Issued : /\ rows'[o].user = rows[o].user
                        /\ rows'[o].session = rows[o].session
                        /\ rows'[o].started = rows[o].started
                        /\ rows'[o].activity = rows[o].activity
                        /\ rows'[o].expires = rows[o].expires
  BY <1>1 DEF IssuingStep, KeepsRows, Issued
\* The new row, and where it comes from.
<1>3. PICK u \in Users, s \in Sessions, started \in Nat :
        /\ rows'[t] = NewRow(u, s, started)
        /\ \/ TokensIn(s) = {} /\ started = clock
           \/ \E from \in TokensIn(s) : rows[from].user = u /\ rows[from].started = started
  <2>1. CASE \E u \in Users, s \in Sessions :
               TokensIn(s) = {} /\ rows'[t] = NewRow(u, s, clock)
    BY <2>1 DEF TypeOK
  <2>2. CASE \E from \in Issued :
               /\ rows[from].session # NoSession
               /\ rows'[t] = NewRow(rows[from].user, rows[from].session, rows[from].started)
    <3>1. \A from \in Issued : rows[from] \in Row
      BY DEF TypeOK, Issued
    <3>2. \A from \in Issued : rows[from].session # NoSession =>
            /\ rows[from].user \in Users
            /\ rows[from].session \in Sessions
            /\ rows[from].started \in Nat
      BY <3>1 DEF Row
    <3>3. QED
      BY <2>2, <3>2 DEF TokensIn
  <2>3. QED
    BY <2>1, <2>2 DEF IssuingStep
<1>4. /\ rows'[t] # NoRow /\ rows'[t].user = u /\ rows'[t].session = s
      /\ rows'[t].started = started /\ rows'[t].activity = clock
      /\ rows'[t].expires <= clock + IdleTimeout
      /\ rows'[t].expires <= SessionEnd(started)
      /\ s # NoSession
  BY <1>3, NewRowFacts, IdentitiesAssumption
<1>5. Issued' = Issued \cup {t}
  BY <1>1, <1>4 DEF IssuingStep, KeepsRows, Issued
<1>6. clock' = clock /\ clock \in Nat
  BY DEF IssuingStep, TypeOK
<1>7. RowsInTime'
  BY <1>2, <1>4, <1>5, <1>6 DEF RowsInTime, SessionEnd
<1>8. SessionsAgree'
  <2>1. \A o \in Issued : rows[o].session = s => rows[o].user = u /\ rows[o].started = started
    BY <1>3, <1>4 DEF SessionsAgree, TokensIn
  <2>2. QED
    BY <1>2, <1>4, <1>5, <2>1 DEF SessionsAgree
<1>9. LegacyRowsApart'
  BY <1>2, <1>5 DEF LegacyRowsApart
<1>10. OnlyLoginsOpenSessions'
  <2>1. ASSUME NEW o \in Issued \ Legacy
        PROVE  /\ rows'[o].session # NoSession
               /\ \E first \in TokensIn(rows[o].session)' : rows'[first].activity = rows'[o].started
    BY <1>2, <1>5 DEF OnlyLoginsOpenSessions, TokensIn
  <2>2. \E first \in TokensIn(rows[t].session)' : rows'[first].activity = rows'[t].started
    <3>1. CASE started = clock
      BY <1>4, <1>5, <3>1 DEF TokensIn
    <3>2. CASE \E from \in TokensIn(s) : rows[from].user = u /\ rows[from].started = started
      <4>1. PICK from \in TokensIn(s) : rows[from].started = started
        BY <3>2
      <4>2. from \in Issued \ Legacy
        BY <1>4, <4>1 DEF TokensIn, LegacyRowsApart
      <4>3. PICK first \in TokensIn(s) : rows[first].activity = started
        BY <4>1, <4>2 DEF OnlyLoginsOpenSessions, TokensIn
      <4>4. QED
        BY <1>2, <1>4, <1>5, <4>3 DEF TokensIn
    <3>3. QED
      BY <1>3, <3>1, <3>2
  <2>3. QED
    BY <1>4, <1>5, <2>1, <2>2 DEF OnlyLoginsOpenSessions
<1>11. RotationsOfSessions'
  BY <1>2, <1>5 DEF IssuingStep, NoNewRotation, RotationsOfSessions, Rotations, Pending
<1>12. QED
  BY <1>7, <1>8, <1>9, <1>10, <1>11

LEMMA SessionsInvStep == SessionsInv /\ [Next]_vars => SessionsInv'
<1> SUFFICES ASSUME SessionsInv, [Next]_vars PROVE SessionsInv'
  OBVIOUS
<1>1. TypeOK'
  BY TypeStep DEF SessionsInv
<1>2. QuietStep \/ \E t \in Tokens : IssuingStep(t)
  BY StepShape DEF SessionsInv
<1>3. QED
  BY <1>1, <1>2, QuietStepInv, IssuingStepInv

THEOREM SessionsInvariance == Spec => []SessionsInv
  BY SessionsInvInit, SessionsInvStep, PTL DEF Spec

-----------------------------------------------------------------------------
(***************************************************************************)
(* Theorems.                                                               *)
(***************************************************************************)
\* Every state the service reaches is well typed: in particular the arguments
\* of a rotation in flight always name an issued row (TypeOK).
THEOREM TypeCorrect == Spec => []TypeOK
<1>1. SessionsInv => TypeOK
  BY DEF SessionsInv
<1>2. QED
  BY <1>1, SessionsInvariance, PTL

\* However a session is rotated, and whatever races with it, all its tokens
\* belong to one user and expire by one hard end.
THEOREM HardEnd == Spec => []OneHardEndPerSession
<1>1. SessionsInv => OneHardEndPerSession
  BY DEF SessionsInv, OneHardEndPerSession, SessionsAgree, RowsInTime
<1>2. QED
  BY <1>1, SessionsInvariance, PTL

\* Nothing but a login opens a session.
THEOREM LoginsOpenSessions == Spec => []OnlyLoginsOpenSessions
<1>1. SessionsInv => OnlyLoginsOpenSessions
  BY DEF SessionsInv
<1>2. QED
  BY <1>1, SessionsInvariance, PTL

\* A session that is live was used within the idle timeout and is younger
\* than MaxSession.
THEOREM WithinLimits == Spec => []LiveWithinLimits
<1>1. SessionsInv => LiveWithinLimits
  <2> SUFFICES ASSUME SessionsInv, NEW t \in Issued, rows[t].session # NoSession,
                      SessionIsActive(rows[t].user, rows[t].session)
               PROVE  /\ clock < SessionEnd(rows[t].started)
                      /\ \E t2 \in TokensIn(rows[t].session) :
                            clock < rows[t2].activity + IdleTimeout
    BY DEF LiveWithinLimits
  <2>1. PICK t2 \in TokensIn(rows[t].session) : Live(t2)
    BY DEF SessionIsActive
  <2>2. t2 \in Issued /\ rows[t2].session = rows[t].session
    BY <2>1 DEF TokensIn
  <2>3. rows[t].started = rows[t2].started
    BY <2>2 DEF SessionsInv, SessionsAgree
  <2>4. rows[t2] \in Row
    BY <2>2 DEF SessionsInv, TypeOK, Issued
  <2>5. clock < rows[t2].expires
    BY <2>1 DEF Live, Unexpired
  <2>6. /\ rows[t2].expires <= rows[t2].activity + IdleTimeout
        /\ rows[t2].expires <= SessionEnd(rows[t2].started)
    BY <2>2 DEF SessionsInv, RowsInTime
  <2>7. /\ clock < rows[t2].activity + IdleTimeout
        /\ clock < SessionEnd(rows[t2].started)
    BY <2>4, <2>5, <2>6, TimesAssumption DEF SessionsInv, TypeOK, Row, SessionEnd
  <2>8. QED
    BY <2>1, <2>3, <2>7
<1>2. QED
  BY <1>1, SessionsInvariance, PTL

\* A session live after a step through a token that the step did not issue
\* was live before it.
LEMMA LiveByOldToken ==
  ASSUME SessionsInv, NEW T \in SUBSET Tokens, KeepsRows(T), clock' \in {clock, clock + 1},
         NEW s \in Sessions, NEW t \in Tokens \ T,
         t \in TokensIn(s)', Live(t)', rows'[t].user \in Users
  PROVE  LiveSession(s)
<1>1. /\ rows'[t] # NoRow /\ rows'[t].session = s
      /\ ~rows'[t].revoked /\ rows'[t].expires > clock'
  BY DEF TokensIn, Issued, Live, Unexpired
<1>2. /\ t \in Issued /\ rows[t].session = s /\ rows[t].user \in Users
      /\ ~rows[t].revoked /\ rows[t].expires > clock'
  BY <1>1 DEF KeepsRows, Issued
<1>3. rows[t].expires \in Nat /\ clock \in Nat /\ clock <= clock'
  BY <1>2 DEF SessionsInv, TypeOK, Issued, Row
<1>4. rows[t].expires > clock
  BY <1>2, <1>3
<1>5. QED
  BY <1>2, <1>4 DEF LiveSession, SessionIsActive, TokensIn, Live, Unexpired

RevivalsWerePending ==
  \A s \in Sessions :
    TokensIn(s) # {} /\ ~LiveSession(s) /\ LiveSession(s)' => Continuing(s)

\* A session whose tokens are all dead becomes live again only through a
\* rotation that had read its token before.
LEMMA Revivals == SessionsInv /\ [Next]_vars => RevivalsWerePending
<1> SUFFICES ASSUME SessionsInv, [Next]_vars, NEW s \in Sessions,
                    TokensIn(s) # {}, ~LiveSession(s), LiveSession(s)'
             PROVE  Continuing(s)
  BY DEF RevivalsWerePending
<1>1. PICK t2 \in Tokens : t2 \in TokensIn(s)' /\ Live(t2)' /\ rows'[t2].user \in Users
  BY DEF LiveSession, SessionIsActive, TokensIn, Issued
<1>2. CASE QuietStep
  BY <1>1, <1>2, LiveByOldToken DEF QuietStep
<1>3. ASSUME NEW t \in Tokens, IssuingStep(t)
      PROVE  Continuing(s)
  <2>1. t2 = t
    BY <1>1, <1>3, LiveByOldToken DEF IssuingStep
  <2>2. rows'[t].session = s
    BY <1>1, <2>1 DEF TokensIn
  <2>3. \A u \in Users, z \in Sessions : ~(TokensIn(z) = {} /\ rows'[t] = NewRow(u, z, clock))
    BY <2>2 DEF NewRow
  <2>4. PICK from \in Issued : /\ rows'[t] = NewRow(rows[from].user, rows[from].session,
                                                   rows[from].started)
                              /\ \E h \in Rotations : req[h].token = from
    BY <1>3, <2>3 DEF IssuingStep
  <2>5. rows[from].session = s
    BY <2>2, <2>4 DEF NewRow
  <2>6. QED
    BY <2>4, <2>5 DEF Continuing
<1>4. QED
  BY <1>2, <1>3, StepShape DEF SessionsInv

\* Every step leaves the table alone, revokes rows, or issues a token.
LEMMA TableSteps ==
  [Next]_vars =>
    \/ UNCHANGED rows
    \/ \E T : rows' = Revoke(T)
    \/ \E h \in Handlers, s \in Sessions, t \in Tokens : LoginIssue(h, s, t)
    \/ \E h \in Handlers, t \in Tokens : RefreshRotate(h, t)
<1>1. UNCHANGED vars \/ Tick => UNCHANGED rows
  BY DEF vars, Tick
<1>2. ASSUME NEW h \in Handlers PROVE RecheckActive(h) \/ Crash(h) => UNCHANGED rows
  BY DEF RecheckActive, Crash
<1>3. ASSUME NEW h \in Handlers, NEW u \in Users
      PROVE  LoginCheck(h, u) \/ EditPassword(h, u) => UNCHANGED rows
  BY DEF LoginCheck, EditPassword
<1>4. ASSUME NEW h \in Handlers, NEW u \in Users, NEW b \in BOOLEAN
      PROVE  SetUserActive(h, u, b) => UNCHANGED rows
  BY DEF SetUserActive
<1>5. ASSUME NEW u \in Users PROVE ApproveUser(u) => UNCHANGED rows
  BY DEF ApproveUser
<1>6. ASSUME NEW h \in Handlers
      PROVE  RefreshUser(h) \/ (\E t \in Tokens : RefreshRead(h, t)) => UNCHANGED rows
  BY DEF RefreshRead, RefreshUser
<1>7. ASSUME NEW t \in Tokens
      PROVE  RefreshReplay(t) \/ Logout(t) => \E T : rows' = Revoke(T)
  BY DEF RefreshReplay, Logout
<1>8. ASSUME NEW u \in Users
      PROVE  LogoutAll(u) \/ (\E s \in Sessions : RevokeSession(u, s)) => \E T : rows' = Revoke(T)
  BY DEF LogoutAll, RevokeSession
<1>9. ASSUME NEW h \in Handlers PROVE RevokeTokens(h) => \E T : rows' = Revoke(T)
  BY DEF RevokeTokens
<1>10. QED
  BY <1>1, <1>2, <1>3, <1>4, <1>5, <1>6, <1>7, <1>8, <1>9
     DEF Next, Service, Login, Refresh, EndSessions, ChangeAccount

\* A request enters its "issue" or "rotate" step only by passing the check of
\* the account.
LEMMA NewStepsStart ==
  ASSUME TypeOK, [Next]_vars, NEW h \in Handlers, req'[h] # req[h]
  PROVE  /\ req'[h].step = "issue" => \E u \in Users : LoginCheck(h, u)
         /\ req'[h].step = "rotate" => RefreshUser(h)
<1> USE DEF TypeOK
<1>1. UNCHANGED req => FALSE
  OBVIOUS
<1>2. ~Tick /\ ~UNCHANGED vars
  BY <1>1 DEF Tick, vars
<1>3. ASSUME NEW t \in Tokens PROVE ~RefreshReplay(t) /\ ~Logout(t)
  BY <1>1 DEF RefreshReplay, Logout
<1>4. ASSUME NEW u \in Users
      PROVE  ~LogoutAll(u) /\ ~ApproveUser(u) /\ \A s \in Sessions : ~RevokeSession(u, s)
  BY <1>1 DEF LogoutAll, ApproveUser, RevokeSession
<1>5. ASSUME NEW g \in Handlers, NEW s \in Sessions, NEW t \in Tokens, LoginIssue(g, s, t)
      PROVE  req'[h] = Idle
  BY <1>5 DEF LoginIssue
<1>6. ASSUME NEW g \in Handlers, NEW t \in Tokens, RefreshRotate(g, t)
      PROVE  req'[h] = Idle
  BY <1>6 DEF RefreshRotate
<1>7. ASSUME NEW g \in Handlers, RevokeTokens(g) \/ Crash(g)
      PROVE  req'[h] = Idle
  BY <1>7 DEF RevokeTokens, Crash
<1>8. ASSUME NEW g \in Handlers, RecheckActive(g)
      PROVE  req'[h] = Idle \/ req'[h].step = "revoke"
  BY <1>8 DEF RecheckActive
<1>9. ASSUME NEW g \in Handlers, NEW u \in Users, EditPassword(g, u)
      PROVE  req'[h].step = "revoke"
  BY <1>9 DEF EditPassword
<1>10. ASSUME NEW g \in Handlers, NEW u \in Users, NEW b \in BOOLEAN, SetUserActive(g, u, b)
       PROVE  req'[h].step = "recheck"
  BY <1>10 DEF SetUserActive
<1>11. ASSUME NEW g \in Handlers, NEW u \in Users, LoginCheck(g, u)
       PROVE  g = h /\ req'[h].step = "issue"
  BY <1>11 DEF LoginCheck
<1>12. ASSUME NEW g \in Handlers, NEW t \in Tokens, RefreshRead(g, t)
       PROVE  req'[h].step = "check"
  BY <1>12 DEF RefreshRead
<1>13. ASSUME NEW g \in Handlers, RefreshUser(g)
       PROVE  g = h /\ req'[h].step # "issue"
  BY <1>13 DEF RefreshUser, Idle
<1>14. Idle.step \notin {"issue", "rotate"}
  BY DEF Idle
<1>15. QED
  BY <1>2, <1>3, <1>4, <1>5, <1>6, <1>7, <1>8, <1>9, <1>10, <1>11, <1>12, <1>13, <1>14
     DEF Next, Service, Login, Refresh, EndSessions, ChangeAccount

\* Once nothing is in flight for a user who may not log in, no token is
\* issued to that user before the user may log in again.
THEOREM SuspensionHolds == Spec => SuspensionSettles
<1>1. SessionsInv /\ SessionsInv' /\ [Next]_vars => SettledGainsNothing
  <2> SUFFICES ASSUME SessionsInv, SessionsInv', [Next]_vars, NEW u \in Users,
                      Settled(u), ~MayLogIn(u)'
               PROVE  Settled(u)' /\ TokensOf(u)' \subseteq TokensOf(u)
    BY DEF SettledGainsNothing
  <2> USE DEF SessionsInv
  <2>1. TokensOf(u)' \subseteq TokensOf(u)
    <3>1. CASE UNCHANGED rows
      BY <3>1 DEF TokensOf, Issued
    <3>2. ASSUME NEW T, rows' = Revoke(T)
          PROVE  TokensOf(u)' \subseteq TokensOf(u)
      BY <3>2, RevokeFacts DEF TokensOf, Issued
    <3>3. ASSUME NEW h \in Handlers, NEW s \in Sessions, NEW k \in Tokens, LoginIssue(h, s, k)
          PROVE  TokensOf(u)' \subseteq TokensOf(u)
      <4>1. req[h].user # u
        BY <3>3 DEF LoginIssue, Settled, Pending
      <4>2. rows'[k] = NewRow(req[h].user, s, clock) /\ \A o \in Tokens \ {k} : rows'[o] = rows[o]
        BY <3>3 DEF LoginIssue, TypeOK
      <4>3. QED
        BY <4>1, <4>2 DEF NewRow, TokensOf, Issued
    <3>4. ASSUME NEW h \in Handlers, NEW k \in Tokens, RefreshRotate(h, k)
          PROVE  TokensOf(u)' \subseteq TokensOf(u)
      <4>1. rows[req[h].token].user # u
        BY <3>4 DEF RefreshRotate, Settled, Pending
      <4>2. /\ rows'[k] = Successor(req[h].token)
            /\ \A o \in Tokens \ {k} : rows'[o] = Revoke({req[h].token})[o]
        BY <3>4, RevokeFacts DEF RefreshRotate
      <4>3. rows'[k].user # u
        BY <4>1, <4>2 DEF Successor, NewRow
      <4>4. QED
        BY <4>2, <4>3, RevokeFacts DEF TokensOf, Issued
    <3>5. QED
      BY <3>1, <3>2, <3>3, <3>4, TableSteps
  <2>2. ASSUME NEW h \in Pending("issue")' PROVE req'[h].user # u
    <3>1. CASE req'[h] = req[h]
      BY <2>2, <3>1 DEF Settled, Pending
    <3>2. CASE req'[h] # req[h]
      <4>1. \E v \in Users : LoginCheck(h, v)
        BY <2>2, <3>2, NewStepsStart DEF Pending
      <4>2. PICK v \in Users : LoginCheck(h, v)
        BY <4>1
      <4>3. req'[h].user = v /\ MayLogIn(v)
        BY <2>2, <4>2 DEF LoginCheck, TypeOK, Pending
      <4>4. QED
        BY <4>3 DEF Settled
    <3>3. QED
      BY <3>1, <3>2
  <2>3. ASSUME NEW h \in Pending("rotate")' PROVE rows'[req'[h].token].user # u
    <3>1. ASSUME NEW t \in Issued PROVE rows'[t].user = rows[t].user
      BY StepShape, <3>1 DEF QuietStep, IssuingStep, KeepsRows, Issued
    <3>2. CASE req'[h] = req[h]
      BY <2>3, <3>1, <3>2 DEF Settled, Pending, Rotations, RotationsOfSessions
    <3>3. CASE req'[h] # req[h]
      <4>1. RefreshUser(h)
        BY <2>3, <3>3, NewStepsStart DEF Pending
      <4>2. req'[h].token = req[h].token /\ MayLogIn(rows[req[h].token].user)
        BY <2>3, <4>1 DEF RefreshUser, TypeOK, Pending, Idle
      <4>3. req[h].token \in Issued
        BY <4>1 DEF RefreshUser, RotationsOfSessions, Rotations, Pending
      <4>4. QED
        BY <3>1, <4>2, <4>3 DEF Settled
    <3>4. QED
      BY <3>2, <3>3
  <2>4. QED
    BY <2>1, <2>2, <2>3 DEF Settled
<1>2. QED
  BY <1>1, SessionsInvariance, PTL DEF Spec, SuspensionSettles

\* A session is over when it has been revoked and no rotation that read its
\* token before, whatever else it has checked, is still to commit: what
\* revoke_session cannot see.
Over(s) == /\ TokensIn(s) # {}
           /\ AllRevoked(TokensIn(s))
           /\ ~Continuing(s)

OverStaysOver == \A s \in Sessions : Over(s) => Over(s)'

LEMMA NothingReopens == SessionsInv /\ [Next]_vars => OverStaysOver
<1> SUFFICES ASSUME SessionsInv, [Next]_vars, NEW s \in Sessions, Over(s)
             PROVE  Over(s)'
  BY DEF OverStaysOver
<1> USE DEF Over
<1>1. \A t \in Issued : rows[t].session = s => rows[t].revoked
  BY DEF AllRevoked, TokensIn
<1>2. \A h \in Handlers : req[h].step \in {"check", "rotate"} =>
         req[h].token \in Issued /\ rows[req[h].token].session # s
  BY DEF Continuing, Rotations, Pending, SessionsInv, RotationsOfSessions
<1>3. ASSUME NEW T \in SUBSET Tokens, KeepsRows(T),
             \A t \in T : rows[t] = NoRow /\ rows'[t].session # s
      PROVE  /\ TokensIn(s)' # {} /\ AllRevoked(TokensIn(s))'
             /\ \A t \in Issued : rows'[t].session = rows[t].session
  <2>1. \A t \in Issued : /\ t \in Issued' /\ rows'[t].session = rows[t].session
                          /\ rows[t].revoked => rows'[t].revoked
    BY <1>3 DEF KeepsRows, Issued
  <2>2. \A t \in Issued' : rows'[t].session = s => t \in Issued
    BY <1>3 DEF KeepsRows, Issued
  <2>3. QED
    BY <1>1, <2>1, <2>2 DEF TokensIn, AllRevoked
<1>4. CASE QuietStep
  <2>1. /\ TokensIn(s)' # {} /\ AllRevoked(TokensIn(s))'
        /\ \A t \in Issued : rows'[t].session = rows[t].session
    BY <1>3, <1>4 DEF QuietStep
  <2>2. CASE NoNewRotation
    BY <1>2, <2>1, <2>2 DEF NoNewRotation, Continuing, Rotations, Pending
  <2>3. ASSUME NEW g \in Handlers, NEW t \in Tokens, RefreshRead(g, t)
        PROVE  ~Continuing(s)'
    <3>1. t \in Issued /\ rows[t].session # s
      BY <1>1, <2>3 DEF RefreshRead, Rotatable, Live
    <3>2. \A h \in Handlers : \/ req'[h] = req[h]
                              \/ req'[h] = [step |-> "check", token |-> t]
      BY <2>3 DEF RefreshRead, SessionsInv, TypeOK
    <3>3. QED
      BY <1>2, <2>1, <3>1, <3>2 DEF Continuing, Rotations, Pending
  <2>4. QED
    BY <1>4, <2>1, <2>2, <2>3 DEF QuietStep, StartsRotation
<1>5. ASSUME NEW t \in Tokens, IssuingStep(t)
      PROVE  Over(s)'
  <2>1. rows'[t].session # s
    <3>1. ASSUME NEW u \in Users, NEW z \in Sessions, TokensIn(z) = {},
                 rows'[t] = NewRow(u, z, clock)
          PROVE  rows'[t].session # s
      <4>1. z # s
        BY <3>1 DEF Over
      <4>2. QED
        BY <3>1, <4>1 DEF NewRow
    <3>2. ASSUME NEW from \in Issued, NEW h \in Rotations, req[h].token = from,
                 rows'[t] = NewRow(rows[from].user, rows[from].session, rows[from].started)
          PROVE  rows'[t].session # s
      <4>1. rows[from].session # s
        BY <1>2, <3>2 DEF Rotations, Pending
      <4>2. QED
        BY <3>2, <4>1 DEF NewRow
    <3>3. QED
      BY <1>5, <3>1, <3>2 DEF IssuingStep
  <2>2. /\ TokensIn(s)' # {} /\ AllRevoked(TokensIn(s))'
        /\ \A t2 \in Issued : rows'[t2].session = rows[t2].session
    BY <1>3, <1>5, <2>1 DEF IssuingStep
  <2>3. ~Continuing(s)'
    BY <1>2, <1>5, <2>2 DEF IssuingStep, NoNewRotation, Continuing, Rotations, Pending
  <2>4. QED
    BY <2>2, <2>3
<1>6. QED
  BY <1>4, <1>5, StepShape DEF SessionsInv

\* Whatever races or crashes, a session that is over gets no token and no
\* rotation any more: the one way back for a revoked session, which
\* EndedStaysEnded is refuted by, is a rotation that had read its token before
\* the revocation, whether or not it had read the account yet
\* (rotate_refresh_token:88-107, revoke_session).
THEOREM OverForGood == Spec => [][OverStaysOver]_vars
<1>1. SessionsInv /\ [Next]_vars => [OverStaysOver]_vars
  BY NothingReopens
<1>2. QED
  BY <1>1, SessionsInvariance, PTL DEF Spec

\* A rotation ends no live session, its own included: the successor is live
\* whenever the presented token still was.
THEOREM HandoverWithoutGap == Spec => RotationKeepsSessionsLive
<1>1. SessionsInv /\ [Next]_vars => NoGapAtRotation
  <2> SUFFICES ASSUME SessionsInv, NEW h \in Handlers, NEW t \in Tokens, RefreshRotate(h, t),
                      NEW s \in Sessions, LiveSession(s)
               PROVE  LiveSession(s)'
    BY DEF NoGapAtRotation
  <2> USE DEF SessionsInv
  <2> DEFINE from == req[h].token
  <2>1. from \in Issued /\ rows[from].session # NoSession /\ rows[from] \in Row
    BY DEF RefreshRotate, RotationsOfSessions, Rotations, Pending, TypeOK, Issued
  <2>2. /\ rows'[t] = NewRow(rows[from].user, rows[from].session, rows[from].started)
        /\ \A o \in Tokens \ {t} : rows'[o] = Revoke({from})[o]
        /\ rows[t] = NoRow /\ clock' = clock
    BY RevokeFacts DEF RefreshRotate, Successor
  <2>3. PICK old \in TokensIn(s) : Live(old) /\ rows[old].user \in Users
    BY DEF LiveSession, SessionIsActive
  <2>4. old \in Issued /\ rows[old].session = s
    BY <2>3 DEF TokensIn
  <2>5. CASE old = from
    <3>1. clock < rows[from].expires /\ rows[from].expires <= SessionEnd(rows[from].started)
      BY <2>1, <2>3, <2>5 DEF Live, Unexpired, RowsInTime
    <3>2. rows'[t].expires > clock
      <4>1. rows'[t].expires = ExpiresAt(clock, rows[from].started)
        BY <2>2 DEF NewRow
      <4>2. rows[from].started \in Nat /\ rows[from].expires \in Nat /\ clock \in Nat
        BY <2>1 DEF Row, TypeOK
      <4>3. QED
        BY <3>1, <4>1, <4>2, TimesAssumption DEF ExpiresAt, Earlier, SessionEnd
    <3>3. /\ rows'[t] # NoRow /\ rows'[t].session = s /\ rows'[t].user = rows[from].user
          /\ ~rows'[t].revoked
      BY <2>1, <2>2, <2>4, <2>5, NewRowFacts DEF Row
    <3>4. t \in TokensIn(s)' /\ Live(t)'
      BY <2>2, <3>2, <3>3 DEF TokensIn, Issued, Live, Unexpired
    <3>5. QED
      BY <2>3, <2>5, <3>3, <3>4 DEF LiveSession, SessionIsActive
  <2>6. CASE old # from
    <3>1. rows'[old] = rows[old]
      BY <2>2, <2>4, <2>6 DEF Revoke, Issued
    <3>2. old \in TokensIn(s)' /\ Live(old)'
      BY <2>2, <2>3, <2>4, <3>1 DEF TokensIn, Issued, Live, Unexpired
    <3>3. QED
      BY <2>3, <3>1, <3>2 DEF LiveSession, SessionIsActive
  <2>7. QED
    BY <2>5, <2>6
<1>2. QED
  BY <1>1, SessionsInvariance, PTL DEF Spec, RotationKeepsSessionsLive

-----------------------------------------------------------------------------
(***************************************************************************)
(* Sessions implements SessionLifecycle.                                   *)
(***************************************************************************)
\* The mapped hard end of a session that has tokens is that of any of them.
HardEndsAgree ==
  SessionsInv => \A s \in Sessions : \A t \in TokensIn(s) :
                   HardEndOf(s) = SessionEnd(rows[t].started)

LEMMA HardEndOfAny == HardEndsAgree
<1> SUFFICES ASSUME SessionsInv, NEW s \in Sessions, NEW t \in TokensIn(s)
             PROVE  HardEndOf(s) = SessionEnd(rows[t].started)
  BY DEF HardEndsAgree
<1> DEFINE c == CHOOSE x \in TokensIn(s) : TRUE
<1>1. c \in TokensIn(s)
  OBVIOUS
<1>2. rows[c].started = rows[t].started
  <2>1. c \in Issued /\ t \in Issued /\ rows[c].session = s /\ rows[t].session = s
    BY <1>1 DEF TokensIn
  <2>2. s # NoSession
    BY IdentitiesAssumption
  <2>3. QED
    BY <2>1, <2>2 DEF SessionsInv, SessionsAgree
<1>3. HardEndOf(s) = SessionEnd(rows[c].started)
  BY <1>1 DEF HardEndOf
<1>4. QED
  BY <1>2, <1>3

\* A live session has tokens and its hard end lies ahead.
LiveSessionsInTime ==
  SessionsInv => \A s \in Sessions :
                   LiveSession(s) => TokensIn(s) # {} /\ clock < HardEndOf(s)

LEMMA LiveBeforeHardEnd == LiveSessionsInTime
<1> SUFFICES ASSUME SessionsInv, NEW s \in Sessions, LiveSession(s)
             PROVE  TokensIn(s) # {} /\ clock < HardEndOf(s)
  BY DEF LiveSessionsInTime
<1>1. PICK t \in TokensIn(s) : Live(t)
  BY DEF LiveSession, SessionIsActive
<1>2. t \in Issued /\ rows[t] \in Row /\ rows[t].session # NoSession
  BY <1>1, IdentitiesAssumption DEF SessionsInv, TypeOK, TokensIn, Issued
<1>3. clock < rows[t].expires /\ rows[t].expires <= SessionEnd(rows[t].started)
  BY <1>1, <1>2 DEF Live, Unexpired, SessionsInv, RowsInTime
<1>4. clock < SessionEnd(rows[t].started)
  BY <1>2, <1>3, TimesAssumption DEF SessionsInv, TypeOK, Row, SessionEnd
<1>5. QED
  BY <1>1, <1>4, HardEndOfAny DEF HardEndsAgree

\* A session that has tokens keeps them, and its hard end with them.
LEMMA HardEndFixed ==
  ASSUME SessionsInv, SessionsInv', [Next]_vars, NEW s \in Sessions, TokensIn(s) # {}
  PROVE  TokensIn(s)' # {} /\ HardEndOf(s)' = HardEndOf(s)
<1>1. PICK t \in TokensIn(s) : TRUE
  OBVIOUS
<1>2. t \in Tokens /\ rows[t] # NoRow /\ rows[t].session = s
  BY <1>1 DEF TokensIn, Issued
<1>3. /\ rows'[t] # NoRow /\ rows'[t].session = s
      /\ rows'[t].started = rows[t].started
  <2>1. CASE QuietStep
    BY <1>2, <2>1 DEF QuietStep, KeepsRows
  <2>2. ASSUME NEW k \in Tokens, IssuingStep(k)
        PROVE  /\ rows'[t] # NoRow /\ rows'[t].session = s
               /\ rows'[t].started = rows[t].started
    BY <1>2, <2>2 DEF IssuingStep, KeepsRows
  <2>3. QED
    BY <2>1, <2>2, StepShape DEF SessionsInv
<1>4. t \in TokensIn(s)'
  BY <1>2, <1>3 DEF TokensIn, Issued
<1>5. HardEndOf(s) = SessionEnd(rows[t].started)
  BY <1>1, HardEndOfAny DEF HardEndsAgree
<1>6. HardEndOf(s)' = SessionEnd(rows'[t].started)
  <2>1. HardEndsAgree'
    BY HardEndOfAny, PTL
  <2>2. QED
    BY <1>4, <2>1 DEF HardEndsAgree, SessionEnd
<1>7. QED
  BY <1>3, <1>4, <1>5, <1>6

\* What the gateway accepts belongs to a live session.
UsableAreLive == SessionsInv => \A s \in Sessions : UsableSession(s) => LiveSession(s)

LEMMA UsableLive == UsableAreLive
<1> SUFFICES ASSUME SessionsInv, NEW s \in Sessions, UsableSession(s)
             PROVE  LiveSession(s)
  BY DEF UsableAreLive
<1>1. PICK t \in TokensIn(s) : SessionIsActive(rows[t].user, rows[t].session)
  BY DEF UsableSession, Accepted
<1>2. rows[t].user \in Users /\ rows[t].session = s
  BY DEF SessionsInv, TypeOK, TokensIn, Issued, Row
<1>3. QED
  BY <1>1, <1>2 DEF LiveSession

LEMMA LifecycleInitially == Init => Lifecycle!LifecycleInit
<1> SUFFICES ASSUME Init PROVE Lifecycle!LifecycleInit
  OBVIOUS
<1>1. SessionsInv
  BY SessionsInvInit
<1>2. Issued \subseteq Legacy
  BY DEF Init, Issued
<1>3. \A s \in Sessions : TokensIn(s) = {}
  BY <1>1, <1>2, IdentitiesAssumption DEF SessionsInv, LegacyRowsApart, TokensIn
<1>4. \A s \in Sessions : PhaseOf(s) = "new" /\ HardEndOf(s) = 0 /\ ~UsableSession(s)
  BY <1>3 DEF PhaseOf, HardEndOf, UsableSession
<1>5. clock \in Nat
  BY DEF Init
<1>6. QED
  BY <1>4, <1>5 DEF Lifecycle!LifecycleInit

\* The first token of a session opens it.
LEMMA LoginOpens ==
  ASSUME SessionsInv, SessionsInv', NEW h \in Handlers, NEW z \in Sessions, NEW t \in Tokens,
         LoginIssue(h, z, t)
  PROVE  Lifecycle!Open(z)
<1> USE DEF SessionsInv
<1>1. /\ TokensIn(z) = {} /\ clock' = clock /\ rows[t] = NoRow
      /\ req' = [req EXCEPT ![h] = Idle] /\ req[h].step = "issue"
  BY DEF LoginIssue
<1>2. req[h].user \in Users
  BY <1>1 DEF TypeOK, Request, Idle
<1>3. rows'[t] = NewRow(req[h].user, z, clock) /\ \A o \in Tokens \ {t} : rows'[o] = rows[o]
  BY DEF LoginIssue, TypeOK
<1>4. /\ rows'[t] # NoRow /\ rows'[t].session = z /\ rows'[t].user \in Users
      /\ rows'[t].started = clock /\ ~rows'[t].revoked
  BY <1>2, <1>3, NewRowFacts DEF TypeOK
<1>5. rows'[t].expires > clock
  <2>1. rows'[t].expires = ExpiresAt(clock, clock)
    BY <1>3 DEF NewRow
  <2>2. clock \in Nat
    BY DEF TypeOK
  <2>3. QED
    BY <2>1, <2>2, TimesAssumption DEF ExpiresAt, Earlier, SessionEnd
<1>6. Issued' = Issued \cup {t} /\ t \notin Issued
  BY <1>1, <1>3, <1>4 DEF Issued
<1>7. \A s \in Sessions \ {z} : TokensIn(s)' = TokensIn(s)
  BY <1>3, <1>4, <1>6 DEF TokensIn, Issued
<1>8. TokensIn(z)' = {t}
  BY <1>1, <1>3, <1>4, <1>6 DEF TokensIn, Issued
<1>9. \A o \in Issued : rows'[o] = rows[o] /\ (Live(o)' <=> Live(o))
  BY <1>1, <1>3, <1>6 DEF Live, Unexpired, Issued
<1>10. \A s \in Sessions \ {z} : LiveSession(s)' <=> LiveSession(s)
  BY <1>7, <1>9 DEF LiveSession, SessionIsActive, TokensIn
<1>11. LiveSession(z)' /\ ~LiveSession(z)
  <2>1. Live(t)'
    BY <1>1, <1>4, <1>5, <1>6 DEF Live, Unexpired
  <2>2. QED
    BY <1>1, <1>4, <1>8, <2>1 DEF LiveSession, SessionIsActive
<1>12. \A s \in Sessions : Continuing(s)' <=> Continuing(s)
  <2>1. Rotations' = Rotations
    BY <1>1 DEF Rotations, Pending, TypeOK, Idle
  <2>2. \A g \in Rotations : req'[g] = req[g] /\ req[g].token \in Issued
    BY <1>1 DEF Rotations, Pending, TypeOK, RotationsOfSessions
  <2>3. QED
    BY <1>9, <2>1, <2>2 DEF Continuing
<1>13. \A s \in Sessions \ {z} : PhaseOf(s)' = PhaseOf(s)
  BY <1>7, <1>10, <1>12 DEF PhaseOf
<1>14. PhaseOf(z) = "new" /\ PhaseOf(z)' = "open"
  BY <1>1, <1>8, <1>11 DEF PhaseOf
<1>15. HardEndOf(z)' = clock + MaxSession
  <2>1. HardEndsAgree'
    BY HardEndOfAny, PTL
  <2>2. HardEndOf(z)' = SessionEnd(rows'[t].started)
    BY <1>8, <2>1 DEF HardEndsAgree, SessionEnd
  <2>3. QED
    BY <1>4, <2>2 DEF SessionEnd
<1>16. \A s \in Sessions \ {z} : HardEndOf(s)' = HardEndOf(s)
  <2> SUFFICES ASSUME NEW s \in Sessions \ {z} PROVE HardEndOf(s)' = HardEndOf(s)
    OBVIOUS
  <2>1. CASE TokensIn(s) = {}
    BY <1>7, <2>1 DEF HardEndOf
  <2>2. CASE TokensIn(s) # {}
    <3>1. [Next]_vars
      BY DEF Next, Service, Login
    <3>2. QED
      BY <2>2, <3>1, HardEndFixed
  <2>3. QED
    BY <2>1, <2>2
<1>17. \A s \in Sessions \ {z} : UsableSession(s)' <=> UsableSession(s)
  <2> SUFFICES ASSUME NEW s \in Sessions \ {z}
               PROVE  UsableSession(s)' <=> UsableSession(s)
    OBVIOUS
  <2>1. ASSUME NEW o \in TokensIn(s)
        PROVE  Accepted(o)' <=> Accepted(o)
    <3>1. /\ o \in Issued /\ rows[o].session = s /\ rows'[o] = rows[o]
          /\ clock' = clock /\ active' = active /\ approved' = approved
      BY <1>1, <1>9 DEF LoginIssue, accountVars, TokensIn
    <3>2. SessionIsActive(rows[o].user, rows[o].session)'
            <=> SessionIsActive(rows[o].user, rows[o].session)
      BY <1>7, <1>9, <3>1 DEF SessionIsActive, TokensIn
    <3>3. MayLogIn(rows[o].user)' <=> MayLogIn(rows[o].user)
      BY <3>1 DEF MayLogIn
    <3>4. AccessExpires(o)' = AccessExpires(o)
      BY <3>1 DEF AccessExpires, SessionEnd, Earlier
    <3>5. QED
      BY <3>1, <3>2, <3>3, <3>4 DEF Accepted
  <2>2. QED
    BY <1>7, <2>1 DEF UsableSession
<1>18. ~UsableSession(z)
  BY <1>1 DEF UsableSession
<1>19. QED
  BY <1>1, <1>13, <1>14, <1>15, <1>16, <1>17, <1>18 DEF Lifecycle!Open

\* Any other step continues the open sessions or closes them.
LEMMA OthersContinue ==
  ASSUME SessionsInv, SessionsInv', [Next]_vars,
         ~\E h \in Handlers, z \in Sessions, t \in Tokens : LoginIssue(h, z, t)
  PROVE  \E closing \in SUBSET Lifecycle!Opened : Lifecycle!Continue(closing)
<1> USE DEF SessionsInv
<1> DEFINE closing == {s \in Sessions : PhaseOf(s) = "open" /\ PhaseOf(s)' = "closed"}
           accepted == {s \in Sessions : UsableSession(s)'}
<1>1. clock' \in {clock, clock + 1} /\ (NoNewRotation \/ StartsRotation)
  BY StepShape DEF QuietStep, IssuingStep
<1>2. \A s \in Sessions : TokensIn(s)' = {} <=> TokensIn(s) = {}
  <2>1. ASSUME NEW T, rows' = Revoke(T)
        PROVE  \A s \in Sessions : TokensIn(s)' = TokensIn(s)
    BY <2>1, RevokeFacts DEF TokensIn, Issued
  <2>2. CASE UNCHANGED rows
    BY <2>2 DEF TokensIn, Issued
  <2>3. ASSUME NEW h \in Handlers, NEW t \in Tokens, RefreshRotate(h, t),
               NEW s \in Sessions, TokensIn(s) = {}
        PROVE  TokensIn(s)' = {}
    <3>1. req[h].token \in Issued /\ rows[req[h].token].session # s
      BY <2>3 DEF RefreshRotate, RotationsOfSessions, Rotations, Pending, TokensIn
    <3>2. /\ rows'[t] = Successor(req[h].token)
          /\ \A o \in Tokens \ {t} : rows'[o] = Revoke({req[h].token})[o]
      BY <2>3, RevokeFacts DEF RefreshRotate
    <3>3. rows'[t].session # s
      BY <3>1, <3>2 DEF Successor, NewRow
    <3>4. QED
      BY <2>3, <3>2, <3>3, RevokeFacts DEF TokensIn, Issued
  <2>4. \A s \in Sessions : TokensIn(s) # {} => TokensIn(s)' # {}
    BY HardEndFixed
  <2>5. QED
    BY <2>1, <2>2, <2>3, <2>4, TableSteps
<1>3. \A s \in Sessions : LiveSession(s)' => TokensIn(s) # {} /\ (LiveSession(s) \/ Continuing(s))
  <2>1. LiveSessionsInTime'
    BY LiveBeforeHardEnd, PTL
  <2>2. \A s \in Sessions : LiveSession(s)' => TokensIn(s)' # {}
    BY <2>1 DEF LiveSessionsInTime
  <2>3. QED
    BY <1>2, <2>2, Revivals DEF RevivalsWerePending
<1>4. \A s \in Sessions : Continuing(s)' => LiveSession(s) \/ Continuing(s)
  <2> SUFFICES ASSUME NEW s \in Sessions, Continuing(s)'
               PROVE  LiveSession(s) \/ Continuing(s)
    OBVIOUS
  <2>1. PICK h \in Handlers : /\ req'[h].step \in {"check", "rotate"}
                              /\ rows'[req'[h].token].session = s
    BY DEF Continuing, Rotations, Pending
  <2>2. ASSUME NEW t \in Issued PROVE rows'[t].session = rows[t].session
    BY StepShape, <2>2 DEF QuietStep, IssuingStep, KeepsRows, Issued
  <2>3. CASE req[h].step \in {"check", "rotate"} /\ req'[h].token = req[h].token
    <3>1. h \in Rotations /\ req[h].token \in Issued
      BY <2>3 DEF RotationsOfSessions, Rotations, Pending
    <3>2. QED
      BY <2>1, <2>2, <2>3, <3>1 DEF Continuing
  <2>4. CASE ~(req[h].step \in {"check", "rotate"} /\ req'[h].token = req[h].token)
    <3>1. StartsRotation
      BY <1>1, <2>1, <2>4 DEF NoNewRotation
    <3>2. PICK g \in Handlers, t \in Tokens : RefreshRead(g, t)
      BY <3>1 DEF StartsRotation
    <3>3. g = h /\ req'[h].token = t
      BY <2>1, <2>4, <3>2 DEF RefreshRead, TypeOK
    <3>4. t \in Issued /\ Live(t) /\ rows[t] \in Row
      BY <3>2 DEF RefreshRead, Rotatable, Live, TypeOK, Issued
    <3>5. rows[t].session = s /\ rows[t].user \in Users
      BY <2>1, <2>2, <3>3, <3>4 DEF Row
    <3>6. QED
      BY <3>4, <3>5 DEF LiveSession, SessionIsActive, TokensIn
  <2>5. QED
    BY <2>3, <2>4
<1>5. \A s \in Sessions : PhaseOf(s)' = IF s \in closing THEN "closed" ELSE PhaseOf(s)
  BY <1>2, <1>3, <1>4 DEF PhaseOf
<1>6. \A s \in Sessions : HardEndOf(s)' = HardEndOf(s)
  BY <1>2, HardEndFixed DEF HardEndOf
<1>7. closing \in SUBSET Lifecycle!Opened
  BY DEF Lifecycle!Opened
<1>8. accepted \subseteq {s \in Sessions : LiveSession(s)'}
  <2>1. UsableAreLive'
    BY UsableLive, PTL
  <2>2. QED
    BY <2>1 DEF UsableAreLive
<1>9. accepted \in SUBSET (Lifecycle!Opened \ closing)
  BY <1>3, <1>8 DEF Lifecycle!Opened, PhaseOf
<1>10. \A s \in accepted : clock' < HardEndOf(s)'
  <2>1. LiveSessionsInTime'
    BY LiveBeforeHardEnd, PTL
  <2>2. QED
    BY <1>8, <2>1 DEF LiveSessionsInTime
<1>11. Lifecycle!Continue(closing)
  BY <1>1, <1>5, <1>6, <1>9, <1>10 DEF Lifecycle!Continue
<1>12. QED
  BY <1>7, <1>11

\* Every behaviour of the service, with its races and crashes, is one of
\* SessionLifecycle: a session is opened once, its hard end never moves, and
\* once closed it is never usable again.
THEOREM Refinement == Spec => RefinesLifecycle
<1>1. SessionsInv /\ SessionsInv' /\ [Next]_vars
        => [Lifecycle!LifecycleNext]_(Lifecycle!lifecycleVars)
  <2> SUFFICES ASSUME SessionsInv, SessionsInv', [Next]_vars
               PROVE  Lifecycle!LifecycleNext
    OBVIOUS
  <2>1. CASE \E h \in Handlers, z \in Sessions, t \in Tokens : LoginIssue(h, z, t)
    BY <2>1, LoginOpens DEF Lifecycle!LifecycleNext
  <2>2. CASE ~\E h \in Handlers, z \in Sessions, t \in Tokens : LoginIssue(h, z, t)
    BY <2>2, OthersContinue DEF Lifecycle!LifecycleNext
  <2>3. QED
    BY <2>1, <2>2
<1>2. QED
  BY <1>1, LifecycleInitially, SessionsInvariance, PTL
     DEF Spec, RefinesLifecycle, Lifecycle!LifecycleSpec

-----------------------------------------------------------------------------
(***************************************************************************)
(* As long as no request was overtaken or cut short.  A request that       *)
(* nothing overtakes finds at its commit what it read at its check, so the *)
(* tables are in order but for what the one pending request still owes:    *)
(* the revocations of a suspension or of a new password.                   *)
(***************************************************************************)
OneBusy == \A g, h \in Handlers : req[g] # Idle /\ req[h] # Idle => g = h

OneUnrevoked ==
  \A s \in Sessions : \A t1, t2 \in TokensIn(s) :
    ~rows[t1].revoked /\ ~rows[t2].revoked => t1 = t2

RequestsCurrent ==
  \A h \in Handlers :
    /\ req[h].step = "issue" => MayLogIn(req[h].user) /\ req[h].seen = password[req[h].user]
    /\ req[h].step \in {"check", "rotate"} => ~rows[req[h].token].revoked
    /\ req[h].step = "rotate" => MayLogIn(rows[req[h].token].user)

\* A request that still has to do one of the steps for u.
Doing(steps, u) == \E h \in Handlers : req[h].step \in steps /\ req[h].user = u

SuspendedRevoked ==
  \A u \in Users : ~active[u] /\ ~Doing({"recheck", "revoke"}, u) => AllRevoked(TokensOf(u))

PasswordsCurrent ==
  \A t \in Issued : /\ ~rows[t].revoked
                    /\ rows[t].session # NoSession
                    /\ ~Doing({"revoke"}, rows[t].user)
    => openedWith[rows[t].session] = password[rows[t].user]

Calm == OneBusy /\ OneUnrevoked /\ RequestsCurrent /\ SuspendedRevoked /\ PasswordsCurrent

AloneInv == SessionsInv /\ (~overlapped => Calm)

-----------------------------------------------------------------------------
\* Time alone disturbs nothing: no part of the order is about expiry.
LEMMA TimeKeepsCalm ==
  ASSUME Calm, UNCHANGED <<rows, accountVars, req, openedWith>>
  PROVE  Calm'
<1>1. UNCHANGED <<rows, active, approved, password, req, openedWith>>
  BY DEF accountVars
<1>2. Issued' = Issued
  BY <1>1 DEF Issued
<1>3. OneBusy' /\ OneUnrevoked'
  BY <1>1, <1>2 DEF Calm, OneBusy, OneUnrevoked, TokensIn
<1>4. RequestsCurrent'
  BY <1>1 DEF Calm, RequestsCurrent, MayLogIn
<1>5. SuspendedRevoked' /\ PasswordsCurrent'
  BY <1>1, <1>2 DEF Calm, SuspendedRevoked, PasswordsCurrent, Doing, AllRevoked, TokensOf
<1>6. QED
  BY <1>3, <1>4, <1>5 DEF Calm

\* The only request that acts is the only one in flight.
LEMMA OthersIdle ==
  ASSUME ~Overtakes, clock' = clock, NEW h \in Handlers,
         \A g \in Handlers \ {h} : req'[g] = req[g]
  PROVE  \A g \in Handlers \ {h} : req[g] = Idle /\ req'[g] = Idle
  BY DEF Overtakes

LEMMA BusyAlone ==
  ASSUME NEW h \in Handlers, \A g \in Handlers \ {h} : req'[g] = Idle
  PROVE  OneBusy'
  BY DEF OneBusy

\* The shape of a request's own step.
LEMMA OwnStep ==
  ASSUME TypeOK, ~Overtakes, clock' = clock, NEW h \in Handlers, NEW r,
         req' = [req EXCEPT ![h] = r]
  PROVE  /\ req'[h] = r
         /\ \A g \in Handlers \ {h} : req[g] = Idle /\ req'[g] = Idle
         /\ OneBusy'
<1>1. req'[h] = r /\ \A g \in Handlers \ {h} : req'[g] = req[g]
  BY DEF TypeOK
<1>2. QED
  BY <1>1, OthersIdle, BusyAlone

\* A step that is a request of its own finds nothing in flight.
LEMMA NothingInFlight ==
  ASSUME ~Overtakes, clock' = clock, UNCHANGED req
  PROVE  \A h \in Handlers : req[h] = Idle /\ req'[h] = Idle
  BY DEF Overtakes

LEMMA IdleSteps == Idle.step = "idle"
  BY DEF Idle

-----------------------------------------------------------------------------
\* Revoking tokens, with nothing left in flight and nothing left owed.
LEMMA RevokeKeepsCalm ==
  ASSUME SessionsInv, Calm, NEW T, rows' = Revoke(T), UNCHANGED <<accountVars, openedWith>>,
         \A h \in Handlers : req'[h] = Idle,
         \A u \in Users : Doing({"recheck", "revoke"}, u) => TokensOf(u) \subseteq T
  PROVE  Calm'
<1>1. TypeOK /\ UNCHANGED <<active, approved, password, openedWith>>
  BY DEF SessionsInv, accountVars
<1>2. Issued' = Issued
  BY <1>1, RevokeFacts DEF Issued
<1>3. \A t \in Issued : /\ rows'[t].user = rows[t].user
                        /\ rows'[t].session = rows[t].session
                        /\ rows[t].revoked => rows'[t].revoked
  BY <1>1, RevokeFacts
<1>4. \A t \in Issued \cap T : rows'[t].revoked
  BY <1>1 DEF Revoke, Issued, TypeOK, Row
<1>5. OneBusy' /\ RequestsCurrent'
  BY IdleSteps DEF OneBusy, RequestsCurrent
<1>6. OneUnrevoked'
  BY <1>2, <1>3 DEF Calm, OneUnrevoked, TokensIn
<1>7. SuspendedRevoked'
  <2> SUFFICES ASSUME NEW u \in Users, ~active[u], NEW t \in Issued, rows[t].user = u
               PROVE  rows'[t].revoked
    BY <1>1, <1>2, <1>3 DEF SuspendedRevoked, AllRevoked, TokensOf
  <2>1. CASE Doing({"recheck", "revoke"}, u)
    BY <1>4, <2>1 DEF TokensOf
  <2>2. CASE ~Doing({"recheck", "revoke"}, u)
    BY <1>3, <2>2 DEF Calm, SuspendedRevoked, AllRevoked, TokensOf
  <2>3. QED
    BY <2>1, <2>2
<1>8. PasswordsCurrent'
  <2> SUFFICES ASSUME NEW t \in Issued, ~rows'[t].revoked, rows[t].session # NoSession
               PROVE  openedWith[rows[t].session] = password[rows[t].user]
    BY <1>1, <1>2, <1>3 DEF PasswordsCurrent
  <2>1. rows[t].user \in Users
    BY <1>1 DEF TypeOK, Issued, Row
  <2>2. ~Doing({"revoke"}, rows[t].user)
    BY <1>4, <2>1 DEF Doing, TokensOf
  <2>3. QED
    BY <1>3, <2>2 DEF Calm, PasswordsCurrent
<1>9. QED
  BY <1>5, <1>6, <1>7, <1>8 DEF Calm

\* A request of its own that ends sessions.
LEMMA EndingKeepsCalm ==
  ASSUME SessionsInv, Calm, ~Overtakes, NEW T, rows' = Revoke(T),
         UNCHANGED <<clock, accountVars, req, openedWith>>
  PROVE  Calm'
<1>1. \A h \in Handlers : req[h] = Idle /\ req'[h] = Idle
  BY NothingInFlight
<1>2. \A u \in Users : ~Doing({"recheck", "revoke"}, u)
  BY <1>1, IdleSteps DEF Doing
<1>3. QED
  BY <1>1, <1>2, RevokeKeepsCalm

\* The second commit of a suspension or of a new password settles the debt.
LEMMA RevokeTokensKeepsCalm ==
  ASSUME SessionsInv, Calm, ~Overtakes, NEW h \in Handlers, RevokeTokens(h)
  PROVE  Calm'
<1>1. /\ req'[h] = Idle
      /\ \A g \in Handlers \ {h} : req[g] = Idle /\ req'[g] = Idle
  BY OwnStep DEF RevokeTokens, SessionsInv
<1>2. \A u \in Users : Doing({"recheck", "revoke"}, u) => u = req[h].user
  BY <1>1, IdleSteps DEF Doing
<1>3. QED
  BY <1>1, <1>2, RevokeKeepsCalm DEF RevokeTokens

-----------------------------------------------------------------------------
\* A check, or a first commit, leaves the tokens alone.
LEMMA SameTokens ==
  ASSUME UNCHANGED rows
  PROVE  /\ Issued' = Issued
         /\ OneUnrevoked => OneUnrevoked'
         /\ \A u : AllRevoked(TokensOf(u))' <=> AllRevoked(TokensOf(u))
<1>1. Issued' = Issued
  BY DEF Issued
<1>2. QED
  BY <1>1 DEF OneUnrevoked, TokensIn, TokensOf, AllRevoked

\* A login reads an account that nobody is changing.
LEMMA LoginCheckKeepsCalm ==
  ASSUME SessionsInv, Calm, ~Overtakes, NEW h \in Handlers, NEW u \in Users, LoginCheck(h, u)
  PROVE  Calm'
<1>1. /\ req'[h] = [step |-> "issue", user |-> u, seen |-> password[u]]
      /\ \A g \in Handlers \ {h} : req[g] = Idle /\ req'[g] = Idle
      /\ OneBusy'
  BY OwnStep DEF LoginCheck, SessionsInv
<1>2. req[h] = Idle /\ MayLogIn(u)
      /\ UNCHANGED <<rows, active, approved, password, openedWith>>
  BY DEF LoginCheck, accountVars
<1>3. OneUnrevoked'
  BY <1>2, SameTokens DEF Calm
<1>4. RequestsCurrent'
  BY <1>1, <1>2, IdleSteps DEF RequestsCurrent, MayLogIn
<1>5. ASSUME NEW v PROVE ~Doing({"recheck", "revoke"}, v) /\ ~Doing({"revoke"}, v)
  BY <1>1, <1>2, IdleSteps DEF Doing
<1>6. SuspendedRevoked'
  BY <1>2, <1>5, SameTokens DEF Calm, SuspendedRevoked
<1>7. PasswordsCurrent'
  BY <1>2, <1>5, SameTokens DEF Calm, PasswordsCurrent
<1>8. QED
  BY <1>1, <1>3, <1>4, <1>6, <1>7 DEF Calm

\* A rotation holds a token that nobody is revoking...
LEMMA RefreshReadKeepsCalm ==
  ASSUME SessionsInv, Calm, ~Overtakes, NEW h \in Handlers, NEW t \in Tokens, RefreshRead(h, t)
  PROVE  Calm'
<1>1. /\ req'[h] = [step |-> "check", token |-> t]
      /\ \A g \in Handlers \ {h} : req[g] = Idle /\ req'[g] = Idle
      /\ OneBusy'
  BY OwnStep DEF RefreshRead, SessionsInv
<1>2. /\ req[h] = Idle /\ ~rows[t].revoked
      /\ UNCHANGED <<rows, active, approved, password, openedWith>>
  BY DEF RefreshRead, Rotatable, Live, accountVars
<1>3. OneUnrevoked'
  BY <1>2, SameTokens DEF Calm
<1>4. RequestsCurrent'
  BY <1>1, <1>2, IdleSteps DEF RequestsCurrent, MayLogIn
<1>5. ASSUME NEW v PROVE ~Doing({"recheck", "revoke"}, v) /\ ~Doing({"revoke"}, v)
  BY <1>1, <1>2, IdleSteps DEF Doing
<1>6. SuspendedRevoked'
  BY <1>2, <1>5, SameTokens DEF Calm, SuspendedRevoked
<1>7. PasswordsCurrent'
  BY <1>2, <1>5, SameTokens DEF Calm, PasswordsCurrent
<1>8. QED
  BY <1>1, <1>3, <1>4, <1>6, <1>7 DEF Calm

\* ... and reads an account that nobody is changing.
LEMMA RefreshUserKeepsCalm ==
  ASSUME SessionsInv, Calm, ~Overtakes, NEW h \in Handlers, RefreshUser(h)
  PROVE  Calm'
<1> DEFINE r == IF MayLogIn(rows[req[h].token].user)
                  THEN [step |-> "rotate", token |-> req[h].token]
                  ELSE Idle
<1>1. /\ req'[h] = r
      /\ \A g \in Handlers \ {h} : req[g] = Idle /\ req'[g] = Idle
      /\ OneBusy'
  <2>1. req' = [req EXCEPT ![h] = r] /\ clock' = clock
    BY DEF RefreshUser
  <2>2. QED
    BY <2>1, OwnStep DEF SessionsInv
<1>2. /\ req[h].step = "check" /\ ~rows[req[h].token].revoked
      /\ UNCHANGED <<rows, active, approved, password, openedWith>>
  BY DEF RefreshUser, accountVars, Calm, RequestsCurrent
<1>3. OneUnrevoked'
  BY <1>2, SameTokens DEF Calm
<1>4. RequestsCurrent'
  BY <1>1, <1>2, IdleSteps DEF RequestsCurrent, MayLogIn
<1>5. ASSUME NEW v PROVE ~Doing({"recheck", "revoke"}, v) /\ ~Doing({"revoke"}, v)
  BY <1>1, <1>2, IdleSteps DEF Doing
<1>6. SuspendedRevoked'
  BY <1>2, <1>5, SameTokens DEF Calm, SuspendedRevoked
<1>7. PasswordsCurrent'
  BY <1>2, <1>5, SameTokens DEF Calm, PasswordsCurrent
<1>8. QED
  BY <1>1, <1>3, <1>4, <1>6, <1>7 DEF Calm

-----------------------------------------------------------------------------
\* The first token of a session is the only one, and the password it was
\* opened with is the account's.
LEMMA LoginIssueKeepsCalm ==
  ASSUME SessionsInv, Calm, ~Overtakes, NEW h \in Handlers, NEW s \in Sessions, NEW t \in Tokens,
         LoginIssue(h, s, t)
  PROVE  Calm'
<1> DEFINE u == req[h].user
<1>0. TypeOK /\ req[h].step = "issue" /\ rows[t] = NoRow /\ TokensIn(s) = {}
  BY DEF LoginIssue, SessionsInv
<1>1. /\ req'[h] = Idle
      /\ \A g \in Handlers \ {h} : req[g] = Idle /\ req'[g] = Idle
      /\ OneBusy'
  BY <1>0, OwnStep DEF LoginIssue
<1>2. /\ u \in Users /\ MayLogIn(u) /\ req[h].seen = password[u]
      /\ UNCHANGED <<active, approved, password>>
  BY <1>0 DEF LoginIssue, accountVars, TypeOK, Request, Idle, Calm, RequestsCurrent
<1>3. /\ rows'[t] # NoRow /\ rows'[t].user = u /\ rows'[t].session = s /\ ~rows'[t].revoked
      /\ \A o \in Tokens \ {t} : rows'[o] = rows[o]
  <2>1. rows'[t] = NewRow(u, s, clock) /\ \A o \in Tokens \ {t} : rows'[o] = rows[o]
    BY <1>0 DEF LoginIssue, TypeOK
  <2>2. QED
    BY <1>0, <1>2, <2>1, NewRowFacts DEF TypeOK
<1>4. Issued' = Issued \cup {t} /\ t \notin Issued
  BY <1>0, <1>3 DEF Issued
<1>5. \A o \in Issued : rows'[o] = rows[o] /\ rows[o].session # s
  BY <1>0, <1>3, <1>4 DEF TokensIn, Issued
<1>6. OneUnrevoked'
  BY <1>3, <1>4, <1>5 DEF Calm, OneUnrevoked, TokensIn
<1>7. RequestsCurrent'
  BY <1>1, IdleSteps DEF RequestsCurrent
<1>8. ASSUME NEW v PROVE ~Doing({"recheck", "revoke"}, v) /\ ~Doing({"revoke"}, v)
  BY <1>0, <1>1, IdleSteps DEF Doing
<1>9. SuspendedRevoked'
  <2> SUFFICES ASSUME NEW v \in Users, ~active[v], NEW o \in Issued', rows'[o].user = v
               PROVE  rows'[o].revoked
    BY <1>2 DEF SuspendedRevoked, AllRevoked, TokensOf
  <2>1. o # t
    BY <1>2, <1>3 DEF MayLogIn
  <2>2. QED
    BY <1>4, <1>5, <1>8, <2>1 DEF Calm, SuspendedRevoked, AllRevoked, TokensOf
<1>10. PasswordsCurrent'
  <2> SUFFICES ASSUME NEW o \in Issued', ~rows'[o].revoked, rows'[o].session # NoSession
               PROVE  openedWith'[rows'[o].session] = password[rows'[o].user]
    BY <1>2 DEF PasswordsCurrent
  <2>1. openedWith' = [openedWith EXCEPT ![s] = password[u]] /\ openedWith \in [Sessions -> Nat]
    BY <1>0, <1>2 DEF LoginIssue, TypeOK
  <2>2. CASE o = t
    BY <1>3, <2>1, <2>2
  <2>3. CASE o # t
    <3>1. openedWith[rows[o].session] = password[rows[o].user]
      BY <1>4, <1>5, <1>8, <2>3 DEF Calm, PasswordsCurrent
    <3>2. QED
      BY <1>4, <1>5, <2>1, <2>3, <3>1
  <2>4. QED
    BY <2>2, <2>3
<1>11. QED
  BY <1>1, <1>6, <1>7, <1>9, <1>10 DEF Calm

\* A rotation replaces the one token of its session that was left.
LEMMA RotateKeepsCalm ==
  ASSUME SessionsInv, Calm, ~Overtakes, NEW h \in Handlers, NEW t \in Tokens, RefreshRotate(h, t)
  PROVE  Calm'
<1> DEFINE from == req[h].token
           u == rows[from].user
           s == rows[from].session
<1>0. TypeOK /\ req[h].step = "rotate" /\ rows[t] = NoRow
  BY DEF RefreshRotate, SessionsInv
<1>1. /\ req'[h] = Idle
      /\ \A g \in Handlers \ {h} : req[g] = Idle /\ req'[g] = Idle
      /\ OneBusy'
  BY <1>0, OwnStep DEF RefreshRotate
<1>2. /\ from \in Issued /\ rows[from] \in Row /\ s \in Sessions /\ s # NoSession /\ u \in Users
      /\ ~rows[from].revoked /\ MayLogIn(u)
      /\ UNCHANGED <<active, approved, password, openedWith>>
  <2>1. from \in Issued /\ s # NoSession
    BY <1>0 DEF SessionsInv, RotationsOfSessions, Rotations, Pending
  <2>2. rows[from] \in Row /\ s \in Sessions /\ u \in Users
    BY <1>0, <2>1 DEF TypeOK, Issued, Row
  <2>3. ~rows[from].revoked /\ MayLogIn(u)
    BY <1>0 DEF Calm, RequestsCurrent
  <2>4. QED
    BY <2>1, <2>2, <2>3 DEF RefreshRotate, accountVars
<1>3. /\ rows'[t] # NoRow /\ rows'[t].user = u /\ rows'[t].session = s
      /\ \A o \in Tokens \ {t} : rows'[o] = Revoke({from})[o]
  <2>1. rows'[t] = NewRow(u, s, rows[from].started)
        /\ \A o \in Tokens \ {t} : rows'[o] = Revoke({from})[o]
    BY <1>0, RevokeFacts DEF RefreshRotate, Successor
  <2>2. rows[from].started \in Nat
    BY <1>2 DEF Row
  <2>3. /\ NewRow(u, s, rows[from].started) # NoRow
        /\ NewRow(u, s, rows[from].started).user = u
        /\ NewRow(u, s, rows[from].started).session = s
    BY <1>0, <1>2, <2>2, NewRowFacts
  <2>4. QED
    BY <2>1, <2>3
<1>4. Issued' = Issued \cup {t} /\ t \notin Issued
  BY <1>0, <1>3, RevokeFacts DEF Issued
<1>5. \A o \in Issued \ {from} : rows'[o] = rows[o]
  BY <1>3, <1>4 DEF Revoke, Issued
<1>6. rows'[from].revoked /\ rows'[from].user = u
  BY <1>0, <1>2, <1>3, <1>4 DEF Revoke, Issued, Row
<1>7. \A o \in Issued : rows[o].session = s /\ ~rows[o].revoked => o = from
  BY <1>2 DEF Calm, OneUnrevoked, TokensIn
<1>8. OneUnrevoked'
  BY <1>3, <1>4, <1>5, <1>6, <1>7 DEF Calm, OneUnrevoked, TokensIn
<1>9. RequestsCurrent'
  BY <1>1, IdleSteps DEF RequestsCurrent
<1>10. ASSUME NEW v PROVE ~Doing({"recheck", "revoke"}, v) /\ ~Doing({"revoke"}, v)
  BY <1>0, <1>1, IdleSteps DEF Doing
<1>11. SuspendedRevoked'
  <2> SUFFICES ASSUME NEW v \in Users, ~active[v], NEW o \in Issued', rows'[o].user = v
               PROVE  rows'[o].revoked
    BY <1>2 DEF SuspendedRevoked, AllRevoked, TokensOf
  <2>1. o # t
    BY <1>2, <1>3 DEF MayLogIn
  <2>2. QED
    BY <1>4, <1>5, <1>6, <1>10, <2>1 DEF Calm, SuspendedRevoked, AllRevoked, TokensOf
<1>12. PasswordsCurrent'
  <2> SUFFICES ASSUME NEW o \in Issued', ~rows'[o].revoked, rows'[o].session # NoSession
               PROVE  openedWith[rows'[o].session] = password[rows'[o].user]
    BY <1>2 DEF PasswordsCurrent
  <2>1. openedWith[s] = password[u]
    BY <1>2, <1>10 DEF Calm, PasswordsCurrent
  <2>2. o = t \/ o \in Issued \ {from}
    BY <1>4, <1>6
  <2>3. CASE o = t
    BY <1>3, <2>1, <2>3
  <2>4. CASE o \in Issued \ {from}
    BY <1>5, <1>10, <2>4 DEF Calm, PasswordsCurrent
  <2>5. QED
    BY <2>2, <2>3, <2>4
<1>13. QED
  BY <1>1, <1>8, <1>9, <1>11, <1>12 DEF Calm

-----------------------------------------------------------------------------
\* From the first commit of a suspension on, its request is pending: either
\* it revokes the tokens, or it finds the account enabled again.
LEMMA SetUserActiveKeepsCalm ==
  ASSUME SessionsInv, Calm, ~Overtakes, NEW h \in Handlers, NEW u \in Users, NEW b \in BOOLEAN,
         SetUserActive(h, u, b)
  PROVE  Calm'
<1>1. /\ req'[h] = [step |-> "recheck", user |-> u]
      /\ \A g \in Handlers \ {h} : req[g] = Idle /\ req'[g] = Idle
      /\ OneBusy'
  BY OwnStep DEF SetUserActive, SessionsInv
<1>2. /\ req[h] = Idle /\ UNCHANGED <<rows, password, openedWith>>
      /\ \A v \in Users \ {u} : active'[v] = active[v]
  BY DEF SetUserActive, SessionsInv, TypeOK
<1>3. OneUnrevoked'
  BY <1>2, SameTokens DEF Calm
<1>4. RequestsCurrent'
  BY <1>1, IdleSteps DEF RequestsCurrent
<1>5. ASSUME NEW v PROVE ~Doing({"recheck", "revoke"}, v) /\ ~Doing({"revoke"}, v)
  BY <1>1, <1>2, IdleSteps DEF Doing
<1>6. Doing({"recheck", "revoke"}, u)'
  BY <1>1 DEF Doing
<1>7. SuspendedRevoked'
  <2> SUFFICES ASSUME NEW v \in Users, ~active'[v], v # u PROVE AllRevoked(TokensOf(v))'
    BY <1>6 DEF SuspendedRevoked
  <2>1. AllRevoked(TokensOf(v))
    BY <1>2, <1>5 DEF Calm, SuspendedRevoked
  <2>2. QED
    BY <1>2, <2>1, SameTokens
<1>8. PasswordsCurrent'
  BY <1>2, <1>5, SameTokens DEF Calm, PasswordsCurrent
<1>9. QED
  BY <1>1, <1>3, <1>4, <1>7, <1>8 DEF Calm

LEMMA RecheckKeepsCalm ==
  ASSUME SessionsInv, Calm, ~Overtakes, NEW h \in Handlers, RecheckActive(h)
  PROVE  Calm'
<1>1. PICK u : u = req[h].user
  OBVIOUS
<1>2. PICK r : r = IF active[u] THEN Idle ELSE [step |-> "revoke", user |-> u]
  OBVIOUS
<1>3. /\ req'[h] = r
      /\ \A g \in Handlers \ {h} : req[g] = Idle /\ req'[g] = Idle
      /\ OneBusy'
  <2>1. req' = [req EXCEPT ![h] = r] /\ clock' = clock
    BY <1>1, <1>2 DEF RecheckActive
  <2>2. QED
    BY <2>1, OwnStep DEF SessionsInv
<1>4. /\ req[h].step = "recheck"
      /\ UNCHANGED <<rows, active, approved, password, openedWith>>
  BY DEF RecheckActive, accountVars
<1>5. OneUnrevoked'
  BY <1>4, SameTokens DEF Calm
<1>6. RequestsCurrent'
  BY <1>3, <1>2, IdleSteps DEF RequestsCurrent
<1>7. \A v : Doing({"recheck", "revoke"}, v) => v = u
  BY <1>1, <1>3, <1>4, IdleSteps DEF Doing
<1>8. \A v : ~Doing({"revoke"}, v)
  BY <1>1, <1>3, <1>4, IdleSteps DEF Doing
<1>9. ~active[u] => Doing({"recheck", "revoke"}, u)'
  BY <1>3, <1>2 DEF Doing
<1>10. SuspendedRevoked'
  <2> SUFFICES ASSUME NEW v \in Users, ~active[v], ~Doing({"recheck", "revoke"}, v)'
               PROVE  AllRevoked(TokensOf(v))'
    BY <1>4 DEF SuspendedRevoked
  <2>1. ~Doing({"recheck", "revoke"}, v)
    BY <1>7, <1>9
  <2>2. AllRevoked(TokensOf(v))
    BY <2>1 DEF Calm, SuspendedRevoked
  <2>3. QED
    BY <1>4, <2>2, SameTokens
<1>11. PasswordsCurrent'
  BY <1>4, <1>8, SameTokens DEF Calm, PasswordsCurrent
<1>12. QED
  BY <1>3, <1>5, <1>6, <1>10, <1>11 DEF Calm

\* From the commit of a new password on, the revocation is pending.
LEMMA EditPasswordKeepsCalm ==
  ASSUME SessionsInv, Calm, ~Overtakes, NEW h \in Handlers, NEW u \in Users, EditPassword(h, u)
  PROVE  Calm'
<1>1. /\ req'[h] = [step |-> "revoke", user |-> u]
      /\ \A g \in Handlers \ {h} : req[g] = Idle /\ req'[g] = Idle
      /\ OneBusy'
  BY OwnStep DEF EditPassword, SessionsInv
<1>2. /\ req[h] = Idle /\ UNCHANGED <<rows, active, openedWith>>
      /\ \A v \in Users \ {u} : password'[v] = password[v]
  BY DEF EditPassword, SessionsInv, TypeOK
<1>3. OneUnrevoked'
  BY <1>2, SameTokens DEF Calm
<1>4. RequestsCurrent'
  BY <1>1, IdleSteps DEF RequestsCurrent
<1>5. ASSUME NEW v PROVE ~Doing({"recheck", "revoke"}, v) /\ ~Doing({"revoke"}, v)
  BY <1>1, <1>2, IdleSteps DEF Doing
<1>6. Doing({"revoke"}, u)'
  BY <1>1 DEF Doing
<1>7. SuspendedRevoked'
  BY <1>2, <1>5, SameTokens DEF Calm, SuspendedRevoked
<1>8. PasswordsCurrent'
  <2> SUFFICES ASSUME NEW t \in Issued, ~rows[t].revoked, rows[t].session # NoSession,
                      rows[t].user # u
               PROVE  openedWith[rows[t].session] = password'[rows[t].user]
    BY <1>2, <1>6, SameTokens DEF PasswordsCurrent
  <2>1. rows[t].user \in Users
    BY DEF SessionsInv, TypeOK, Issued, Row
  <2>2. QED
    BY <1>2, <1>5, <2>1 DEF Calm, PasswordsCurrent
<1>9. QED
  BY <1>1, <1>3, <1>4, <1>7, <1>8 DEF Calm

\* An approval finds nothing in flight that it could have changed.
LEMMA ApproveUserKeepsCalm ==
  ASSUME Calm, ~Overtakes, NEW u \in Users, ApproveUser(u)
  PROVE  Calm'
<1>1. UNCHANGED <<clock, rows, active, password, req, openedWith>>
  BY DEF ApproveUser
<1>2. \A h \in Handlers : req[h] = Idle /\ req'[h] = Idle
  BY <1>1, NothingInFlight
<1>3. OneBusy' /\ RequestsCurrent'
  BY <1>2, IdleSteps DEF OneBusy, RequestsCurrent
<1>4. OneUnrevoked'
  BY <1>1, SameTokens DEF Calm
<1>5. SuspendedRevoked'
  BY <1>1, SameTokens DEF Calm, SuspendedRevoked, Doing
<1>6. PasswordsCurrent'
  BY <1>1, SameTokens DEF Calm, PasswordsCurrent, Doing
<1>7. QED
  BY <1>3, <1>4, <1>5, <1>6 DEF Calm

-----------------------------------------------------------------------------
\* Every step of an answered request keeps the order, unless it overtakes
\* another one.
LEMMA ServiceKeepsCalm ==
  ASSUME SessionsInv, Calm, Service, ~Overtakes
  PROVE  Calm'
<1>1. CASE Tick
  BY <1>1, TimeKeepsCalm DEF Tick
<1>2. CASE Login
  BY <1>2, LoginCheckKeepsCalm, LoginIssueKeepsCalm DEF Login
<1>3. CASE Refresh
  <2>1. CASE \E t \in Tokens : RefreshReplay(t)
    BY <2>1, EndingKeepsCalm DEF RefreshReplay
  <2>2. CASE \E h \in Handlers, t \in Tokens : RefreshRead(h, t) \/ RefreshRotate(h, t)
    BY <2>2, RefreshReadKeepsCalm, RotateKeepsCalm
  <2>3. CASE \E h \in Handlers : RefreshUser(h)
    BY <2>3, RefreshUserKeepsCalm
  <2>4. QED
    BY <1>3, <2>1, <2>2, <2>3 DEF Refresh
<1>4. CASE EndSessions
  <2>1. CASE \E t \in Tokens : Logout(t)
    BY <2>1, EndingKeepsCalm DEF Logout
  <2>2. CASE \E u \in Users, s \in Sessions : RevokeSession(u, s)
    BY <2>2, EndingKeepsCalm DEF RevokeSession
  <2>3. CASE \E u \in Users : LogoutAll(u)
    BY <2>3, EndingKeepsCalm DEF LogoutAll
  <2>4. QED
    BY <1>4, <2>1, <2>2, <2>3 DEF EndSessions
<1>5. CASE ChangeAccount
  BY <1>5, SetUserActiveKeepsCalm, EditPasswordKeepsCalm, RecheckKeepsCalm,
     RevokeTokensKeepsCalm, ApproveUserKeepsCalm DEF ChangeAccount
<1>6. QED
  BY <1>1, <1>2, <1>3, <1>4, <1>5 DEF Service

LEMMA AloneInitially == AloneInit => AloneInv
<1> SUFFICES ASSUME Init PROVE AloneInv
  BY DEF AloneInit
<1>1. SessionsInv
  BY SessionsInvInit
<1>2. \A h \in Handlers : req[h] = Idle
  BY DEF Init
<1>3. OneBusy /\ RequestsCurrent
  BY <1>2, IdleSteps DEF OneBusy, RequestsCurrent
<1>4. \A t \in Issued : rows[t].session = NoSession
  BY DEF Init, Issued
<1>5. OneUnrevoked
  BY <1>4, IdentitiesAssumption DEF OneUnrevoked, TokensIn
<1>6. SuspendedRevoked
  BY DEF Init, SuspendedRevoked
<1>7. PasswordsCurrent
  BY <1>4 DEF PasswordsCurrent
<1>8. QED
  BY <1>1, <1>3, <1>5, <1>6, <1>7 DEF AloneInv, Calm

LEMMA AloneStep == AloneInv /\ [AloneNext]_<<vars, overlapped>> => AloneInv'
<1> SUFFICES ASSUME AloneInv, [AloneNext]_<<vars, overlapped>> PROVE AloneInv'
  OBVIOUS
<1>1. [Next]_vars
  BY DEF AloneNext, Next
<1>2. SessionsInv'
  BY <1>1, SessionsInvStep DEF AloneInv
<1>3. ASSUME ~overlapped' PROVE Calm'
  <2>1. CASE Service /\ overlapped' = (overlapped \/ Overtakes)
    BY <1>3, <2>1, ServiceKeepsCalm DEF AloneInv
  <2>2. CASE (\E h \in Handlers : Crash(h)) /\ overlapped' = TRUE
    BY <1>3, <2>2
  <2>3. CASE UNCHANGED <<vars, overlapped>>
    <3>1. Calm
      BY <1>3, <2>3 DEF AloneInv
    <3>2. UNCHANGED <<rows, accountVars, req, openedWith>>
      BY <2>3 DEF vars, accountVars
    <3>3. QED
      BY <3>1, <3>2, TimeKeepsCalm
  <2>4. QED
    BY <2>1, <2>2, <2>3 DEF AloneNext
<1>4. QED
  BY <1>2, <1>3 DEF AloneInv

\* The order is what the comments promise.
LEMMA CalmPromises ==
  ASSUME SessionsInv, Calm
  PROVE  OneLiveTokenPerSession /\ SuspensionEndsSessions /\ NewPasswordEndsOldSessions
<1>1. OneLiveTokenPerSession
  <2> SUFFICES ASSUME NEW s \in Sessions
               PROVE  Cardinality({t \in TokensIn(s) : Live(t)}) <= 1
    BY DEF OneLiveTokenPerSession
  <2> DEFINE L == {t \in TokensIn(s) : Live(t)}
  <2>1. \A t1, t2 \in L : t1 = t2
    BY DEF Calm, OneUnrevoked, Live
  <2>2. CASE L = {}
    BY <2>2, FS_EmptySet
  <2>3. CASE L # {}
    <3>1. PICK t : L = {t}
      BY <2>1, <2>3
    <3>2. Cardinality(L) = 1
      BY <3>1, FS_Singleton
    <3>3. QED
      BY <3>2
  <2>4. QED
    BY <2>2, <2>3
<1>2. ASSUME Pending("idle") = Handlers, NEW u
      PROVE  ~Doing({"recheck", "revoke"}, u) /\ ~Doing({"revoke"}, u)
  BY <1>2 DEF Pending, Doing
<1>3. SuspensionEndsSessions
  BY <1>2 DEF Calm, SuspendedRevoked, SuspensionEndsSessions
<1>4. NewPasswordEndsOldSessions
  BY <1>2 DEF Calm, PasswordsCurrent, NewPasswordEndsOldSessions, Live
<1>5. QED
  BY <1>1, <1>3, <1>4

\* As long as no request overtakes another and none is cut short, the
\* comments hold: a session has one live token, an answered suspension has
\* revoked every token of the user, and no session that an earlier password
\* opened is live once its change was answered (refresh_tokens.py, admin.py).
THEOREM AlonePromises == AloneSpec => []PromisesKeptAlone
<1>1. AloneInv => PromisesKeptAlone
  BY CalmPromises DEF AloneInv, PromisesKeptAlone
<1>2. QED
  BY <1>1, AloneInitially, AloneStep, PTL DEF AloneSpec

\* While no request overtakes another and none is cut short, a session whose
\* every token is revoked never gets another one, as revoke_session promises
\* (refresh_tokens.py:144).
EndedStay ==
  \A s \in Sessions :
    AllRevoked(TokensIn(s)) /\ TokensIn(s) # {} => AllRevoked(TokensIn(s))'

THEOREM AloneEndings == AloneSpec => [][~overlapped => EndedStay]_<<vars, overlapped>>
<1>1. AloneInv /\ [AloneNext]_<<vars, overlapped>> => (~overlapped => EndedStay)
  <2> SUFFICES ASSUME AloneInv, [AloneNext]_<<vars, overlapped>>, ~overlapped,
                      NEW s \in Sessions, AllRevoked(TokensIn(s)), TokensIn(s) # {}
               PROVE  AllRevoked(TokensIn(s))'
    BY DEF EndedStay
  <2>1. [Next]_vars
    BY DEF AloneNext, Next
  <2>2. ASSUME NEW h \in Rotations
        PROVE  rows[req[h].token].session # s
    <3>0. h \in Handlers /\ req[h].step \in {"check", "rotate"}
      BY DEF Rotations, Pending
    <3>1. req[h].token \in Issued
      BY <2>2 DEF AloneInv, SessionsInv, RotationsOfSessions
    <3>2. ~rows[req[h].token].revoked
      BY <3>0 DEF AloneInv, Calm, RequestsCurrent
    <3>3. QED
      BY <3>1, <3>2 DEF AllRevoked, TokensIn
  <2>3. Over(s)
    BY <2>2 DEF Over, Continuing
  <2>4. QED
    BY <2>1, <2>3, NothingReopens DEF AloneInv, OverStaysOver, Over
<1>2. QED
  BY <1>1, AloneInitially, AloneStep, PTL DEF AloneSpec

\* The history variable only watches: every behaviour it is seen in is one of
\* the service, so what is proved of the service holds of it too.
THEOREM AloneImplements == AloneSpec => Spec
<1>1. AloneInit => Init
  BY DEF AloneInit
<1>2. [AloneNext]_<<vars, overlapped>> => [Next]_vars
  BY DEF AloneNext, Next
<1>3. QED
  BY <1>1, <1>2, PTL DEF AloneSpec, Spec
=============================================================================
