------------------------------ MODULE Sessions ------------------------------
(***************************************************************************)
(* Login sessions of auth-service: the refresh_tokens table, the account   *)
(* columns that the session code reads, and the requests in flight.        *)
(*                                                                         *)
(* A request is a row of steps, each one database statement or one commit, *)
(* because the service runs requests on a thread pool (and may run several *)
(* replicas) over PostgreSQL at READ COMMITTED and takes no row lock: what *)
(* a request read may be stale when it commits.  A request whose reads are *)
(* still true when it writes, whatever ran in between, is one action.      *)
(*                                                                         *)
(* Tokens, sessions and handlers are identities; a token is whatever hash  *)
(* is stored, and any token ever issued may be presented (the cookie is    *)
(* shared by tabs, and a client whose response was lost repeats itself).   *)
(***************************************************************************)
EXTENDS Naturals, FiniteSets

CONSTANTS Users, Sessions, Tokens,
          Handlers,      \* request slots: how many requests may be in flight
          Legacy,        \* tokens issued before sessions existed
          NoRow,         \* a token that was never issued
          NoSession,     \* session_id IS NULL (a legacy row)
          IdleTimeout,   \* session_idle_timeout_minutes
          MaxSession,    \* session_max_hours
          JwtLife,       \* jwt_expire_minutes
          MaxTime,       \* bound on the clock
          MaxPassword    \* bound on the number of password changes per user

Row == [user : Users, session : Sessions \cup {NoSession}, started : Nat,
        activity : Nat, expires : Nat, revoked : BOOLEAN]

ASSUME TimesAssumption ==
  /\ IdleTimeout \in Nat \ {0}
  /\ MaxSession \in Nat \ {0}
  /\ JwtLife \in Nat \ {0}
  /\ MaxTime \in Nat
  /\ MaxPassword \in Nat

ASSUME IdentitiesAssumption ==
  /\ Legacy \subseteq Tokens
  /\ NoRow \notin Row
  /\ NoSession \notin Sessions

VARIABLES clock,
          rows,       \* rows[t]: the refresh_tokens row of t, or NoRow
          active,     \* users.is_active
          approved,   \* users.is_approved
          password,   \* users.hashed_password, as the number of changes made
          req,        \* req[h]: where the request in slot h stands
          openedWith  \* history: the password each session was opened with

vars == <<clock, rows, active, approved, password, req, openedWith>>

accountVars == <<active, approved, password>>

Idle == [step |-> "idle"]

Request ==
       {Idle}
  \cup [step : {"issue"}, user : Users, seen : Nat]   \* login, checks passed
  \cup [step : {"check"}, token : Tokens]             \* refresh, token read
  \cup [step : {"rotate"}, token : Tokens]            \* refresh, checks passed
  \cup [step : {"recheck", "revoke"}, user : Users]   \* after a first commit

TypeOK ==
  /\ clock \in Nat
  /\ rows \in [Tokens -> Row \cup {NoRow}]
  /\ active \in [Users -> BOOLEAN]
  /\ approved \in [Users -> BOOLEAN]
  /\ password \in [Users -> Nat]
  /\ req \in [Handlers -> Request]
  /\ openedWith \in [Sessions -> Nat]

-----------------------------------------------------------------------------
(***************************************************************************)
(* The table as the queries see it.                                        *)
(***************************************************************************)
Issued == {t \in Tokens : rows[t] # NoRow}

TokensOf(u) == {t \in Issued : rows[t].user = u}

TokensIn(s) == {t \in Issued : rows[t].session = s}

Unexpired(t) == rows[t].expires > clock

\* A token that /refresh and session_is_active count as live.
Live(t) == /\ t \in Issued
           /\ ~rows[t].revoked
           /\ Unexpired(t)

Pending(step) == {h \in Handlers : req[h].step = step}

\* A slot is left for a request that is a single action.
FreeSlot == Pending("idle") # {}

SessionIsActive(u, s) == \E t \in TokensIn(s) : rows[t].user = u /\ Live(t)

LiveSession(s) == \E u \in Users : SessionIsActive(u, s)

SessionEnd(started) == started + MaxSession

Earlier(x, y) == IF x <= y THEN x ELSE y

LongExpiresAt(now, started) == SessionEnd(started)        \* faulty: no idle end

ExpiresAt(now, started) == Earlier(now + IdleTimeout, SessionEnd(started))

NewRow(u, s, started) ==
  [user |-> u, session |-> s, started |-> started, activity |-> clock,
   expires |-> ExpiresAt(clock, started), revoked |-> FALSE]

AllRevoked(T) == \A t \in T : rows[t].revoked

\* UPDATE refresh_tokens SET revoked_at = now WHERE id IN T AND revoked_at IS NULL
Revoke(T) == [t \in Tokens |-> IF t \in T \cap Issued
                                 THEN [rows[t] EXCEPT !.revoked = TRUE]
                                 ELSE rows[t]]

\* The access token minted with refresh token t; it carries t's session.
AccessExpires(t) == Earlier(rows[t].activity + JwtLife, SessionEnd(rows[t].started))

MayLogIn(u) == approved[u] /\ active[u]

\* /verify and get_current_user on the access token minted with t.
Accepted(t) ==
  /\ clock < AccessExpires(t)
  /\ MayLogIn(rows[t].user)
  /\ SessionIsActive(rows[t].user, rows[t].session)

-----------------------------------------------------------------------------
Init ==
  /\ clock = 0
  /\ \E owner \in [Legacy -> Users] :
       rows = [t \in Tokens |->
                 IF t \in Legacy
                   THEN [user |-> owner[t], session |-> NoSession, started |-> 0,
                         activity |-> 0, expires |-> IdleTimeout, revoked |-> FALSE]
                   ELSE NoRow]
  /\ active = [u \in Users |-> TRUE]
  /\ approved \in [Users -> BOOLEAN]
  /\ password = [u \in Users |-> 0]
  /\ req = [h \in Handlers |-> Idle]
  /\ openedWith = [s \in Sessions |-> 0]

Tick ==
  /\ clock < MaxTime
  /\ clock' = clock + 1
  /\ UNCHANGED <<rows, accountVars, req, openedWith>>

-----------------------------------------------------------------------------
(***************************************************************************)
(* POST /login: one read of the user row decides; hashing the password     *)
(* takes a while; then the first token of a new session is inserted.       *)
(***************************************************************************)
LoginCheck(h, u) ==
  /\ req[h] = Idle
  /\ MayLogIn(u)
  /\ req' = [req EXCEPT ![h] = [step |-> "issue", user |-> u, seen |-> password[u]]]
  /\ UNCHANGED <<clock, rows, accountVars, openedWith>>

LoginIssue(h, s, t) ==
  /\ req[h].step = "issue"
  /\ rows[t] = NoRow
  /\ TokensIn(s) = {}                                        \* uuid4()
  /\ rows' = [rows EXCEPT ![t] = NewRow(req[h].user, s, clock)]
  /\ openedWith' = [openedWith EXCEPT ![s] = req[h].seen]
  /\ req' = [req EXCEPT ![h] = Idle]
  /\ UNCHANGED <<clock, accountVars>>

-----------------------------------------------------------------------------
(***************************************************************************)
(* POST /refresh: the presented token's row is read, its user in a second  *)
(* statement; revoking the token and inserting its successor are one later *)
(* commit.                                                                 *)
(***************************************************************************)
\* faulty: an expired token is still rotated
RotatableWhenExpired(t) ==
  /\ t \in Issued
  /\ ~rows[t].revoked
  /\ rows[t].session # NoSession

\* faulty: a legacy row is treated as a session of its own
RotatableLegacy(t) == Live(t)

Rotatable(t) == Live(t) /\ rows[t].session # NoSession

RefreshRead(h, t) ==
  /\ req[h] = Idle
  /\ Rotatable(t)
  /\ req' = [req EXCEPT ![h] = [step |-> "check", token |-> t]]
  /\ UNCHANGED <<clock, rows, accountVars, openedWith>>

\* faulty: neither is_active nor is_approved is looked at
RefreshUserUnseen(h) ==
  /\ req[h].step = "check"
  /\ req' = [req EXCEPT ![h] = [step |-> "rotate", token |-> req[h].token]]
  /\ UNCHANGED <<clock, rows, accountVars, openedWith>>

\* Whoever the token was revoked by meanwhile, only the account is looked at.
RefreshUser(h) ==
  /\ req[h].step = "check"
  /\ req' = [req EXCEPT ![h] = IF MayLogIn(rows[req[h].token].user)
                                 THEN [step |-> "rotate", token |-> req[h].token]
                                 ELSE Idle]
  /\ UNCHANGED <<clock, rows, accountVars, openedWith>>

\* faulty: the session restarts at each rotation
SlidingSuccessor(t) == NewRow(rows[t].user, rows[t].session, clock)

\* faulty: user and session change places
MisplacedSuccessor(t) == NewRow(rows[t].session, rows[t].user, rows[t].started)

\* The row that continues t's session.
Successor(t) == NewRow(rows[t].user, rows[t].session, rows[t].started)

\* faulty: the presented token stays usable
RefreshRotateKeeping(h, t) ==
  /\ req[h].step = "rotate"
  /\ rows[t] = NoRow
  /\ rows' = [rows EXCEPT ![t] = Successor(req[h].token)]
  /\ req' = [req EXCEPT ![h] = Idle]
  /\ UNCHANGED <<clock, accountVars, openedWith>>

\* faulty: the revocation is committed on its own, and the handler goes on
RefreshRotateRevokeFirst(h, t) ==
  /\ req[h].step = "rotate"
  /\ rows[t] = NoRow
  /\ IF rows[req[h].token].revoked
       THEN /\ rows' = [rows EXCEPT ![t] = Successor(req[h].token)]
            /\ req' = [req EXCEPT ![h] = Idle]
       ELSE /\ rows' = Revoke({req[h].token})
            /\ UNCHANGED req
  /\ UNCHANGED <<clock, accountVars, openedWith>>

RefreshRotate(h, t) ==
  /\ req[h].step = "rotate"
  /\ rows[t] = NoRow
  /\ rows' = [Revoke({req[h].token}) EXCEPT ![t] = Successor(req[h].token)]
  /\ req' = [req EXCEPT ![h] = Idle]
  /\ UNCHANGED <<clock, accountVars, openedWith>>

\* A token found revoked is a replay: every token of its user is revoked.
\* (Revoked rows stay revoked, so what was read is still true at the UPDATE.)
RefreshReplay(t) ==
  /\ t \in Issued
  /\ rows[t].revoked
  /\ rows' = Revoke(TokensOf(rows[t].user))
  /\ UNCHANGED <<clock, accountVars, req, openedWith>>

-----------------------------------------------------------------------------
(***************************************************************************)
(* Ending sessions.                                                        *)
(***************************************************************************)
\* POST /logout
Logout(t) ==
  /\ t \in Issued
  /\ ~rows[t].revoked
  /\ rows' = Revoke({t})
  /\ UNCHANGED <<clock, accountVars, req, openedWith>>

\* POST /users/{id}/sessions/{sid}/revoke
RevokeSession(u, s) ==
  /\ \E t \in TokensOf(u) \cap TokensIn(s) : ~rows[t].revoked
  /\ rows' = Revoke(TokensOf(u) \cap TokensIn(s))
  /\ UNCHANGED <<clock, accountVars, req, openedWith>>

\* POST /logout-all and POST /users/{id}/logout-all
LogoutAll(u) ==
  /\ rows' = Revoke(TokensOf(u))
  /\ UNCHANGED <<clock, accountVars, req, openedWith>>

-----------------------------------------------------------------------------
(***************************************************************************)
(* Account changes that end sessions in a second commit.                   *)
(***************************************************************************)
\* faulty: a suspension is answered after its first commit
SetUserActiveOnly(h, u, b) ==
  /\ req[h] = Idle
  /\ active' = [active EXCEPT ![u] = b]
  /\ UNCHANGED <<clock, rows, approved, password, req, openedWith>>

\* PATCH /users/{id}/active: the column is committed...
SetUserActive(h, u, b) ==
  /\ req[h] = Idle
  /\ active' = [active EXCEPT ![u] = b]
  /\ req' = [req EXCEPT ![h] = [step |-> "recheck", user |-> u]]
  /\ UNCHANGED <<clock, rows, approved, password, openedWith>>

\* ... read again (the commit expired it), whoever wrote it last...
RecheckActive(h) ==
  /\ req[h].step = "recheck"
  /\ req' = [req EXCEPT ![h] = IF active[req[h].user]
                                 THEN Idle
                                 ELSE [step |-> "revoke", user |-> req[h].user]]
  /\ UNCHANGED <<clock, rows, accountVars, openedWith>>

\* faulty: a new password leaves the sessions alone
EditPasswordOnly(h, u) ==
  /\ req[h] = Idle
  /\ password[u] < MaxPassword
  /\ password' = [password EXCEPT ![u] = @ + 1]
  /\ UNCHANGED <<clock, rows, active, approved, req, openedWith>>

\* PATCH /users/{id} with a password: the hash is committed...
EditPassword(h, u) ==
  /\ req[h] = Idle
  /\ password[u] < MaxPassword
  /\ password' = [password EXCEPT ![u] = @ + 1]
  /\ req' = [req EXCEPT ![h] = [step |-> "revoke", user |-> u]]
  /\ UNCHANGED <<clock, rows, active, approved, openedWith>>

\* ... and the tokens are revoked in a commit of their own.
RevokeTokens(h) ==
  /\ req[h].step = "revoke"
  /\ rows' = Revoke(TokensOf(req[h].user))
  /\ req' = [req EXCEPT ![h] = Idle]
  /\ UNCHANGED <<clock, accountVars, openedWith>>

\* POST /users/{id}/approve (its group membership is in module AccessControl)
ApproveUser(u) ==
  /\ ~approved[u]
  /\ approved' = [approved EXCEPT ![u] = TRUE]
  /\ UNCHANGED <<clock, rows, active, password, req, openedWith>>

\* The service or its database connection dies: an open transaction is
\* rolled back, a first commit stays.
Crash(h) ==
  /\ req[h] # Idle
  /\ req' = [req EXCEPT ![h] = Idle]
  /\ UNCHANGED <<clock, rows, accountVars, openedWith>>

-----------------------------------------------------------------------------
Login == \E h \in Handlers :
           \/ \E u \in Users : LoginCheck(h, u)
           \/ \E s \in Sessions, t \in Tokens : LoginIssue(h, s, t)

Refresh == \/ \E h \in Handlers, t \in Tokens : RefreshRead(h, t) \/ RefreshRotate(h, t)
           \/ \E h \in Handlers : RefreshUser(h)
           \/ FreeSlot /\ \E t \in Tokens : RefreshReplay(t)

EndSessions == /\ FreeSlot
               /\ \/ \E t \in Tokens : Logout(t)
                  \/ \E u \in Users, s \in Sessions : RevokeSession(u, s)
                  \/ \E u \in Users : LogoutAll(u)

ChangeAccount ==
  \/ \E h \in Handlers, u \in Users : \E b \in BOOLEAN : SetUserActive(h, u, b)
  \/ \E h \in Handlers, u \in Users : EditPassword(h, u)
  \/ \E h \in Handlers : RecheckActive(h) \/ RevokeTokens(h)
  \/ FreeSlot /\ \E u \in Users : ApproveUser(u)

\* Steps of requests that are answered.
Service == Tick \/ Login \/ Refresh \/ EndSessions \/ ChangeAccount

Next == Service \/ \E h \in Handlers : Crash(h)

Spec == Init /\ [][Next]_vars

\* The service while nothing crashes.
CrashFreeSpec == Init /\ [][Service]_vars

-----------------------------------------------------------------------------
(***************************************************************************)
(* Properties.                                                             *)
(***************************************************************************)
\* All tokens ever issued for a session agree on its user and its login time,
\* and none of them outlives the hard end that follows from it, however often
\* the session was rotated and whatever raced: activity never extends it
\* (session_end, refresh_tokens.py:34-36).
OneHardEndPerSession ==
  \A t1, t2 \in Issued :
    /\ rows[t1].session = rows[t2].session /\ rows[t1].session # NoSession
    => /\ rows[t1].user = rows[t2].user
       /\ rows[t1].expires <= SessionEnd(rows[t2].started)

\* A live session was used within the idle timeout, and it is younger than
\* the longest session; in particular no access token is accepted later than
\* that (issue_refresh_token, require_live_session).
LiveWithinLimits ==
  \A t \in Issued : SessionIsActive(rows[t].user, rows[t].session) /\ rows[t].session # NoSession =>
    /\ clock < SessionEnd(rows[t].started)
    /\ \E t2 \in TokensIn(rows[t].session) : clock < rows[t2].activity + IdleTimeout

\* Tokens from before sessions existed open nothing: every token issued since
\* belongs to a session somebody logged in to (rotate_refresh_token:98-99).
OnlyLoginsOpenSessions ==
  \A t \in Issued \ Legacy :
    /\ rows[t].session # NoSession
    /\ \E first \in TokensIn(rows[t].session) : rows[first].activity = rows[t].started

\* A rotation hands the session over without a gap: no rotation, replayed or
\* racing, ends a session that is live (issue_refresh_token:46-47).
NoGapAtRotation ==
  (\E h \in Handlers, t \in Tokens : RefreshRotate(h, t))
    => \A s \in Sessions : LiveSession(s) => LiveSession(s)'

RotationKeepsSessionsLive == [][NoGapAtRotation]_vars

\* Once nothing is in flight for a user who may not log in, nothing starts
\* and no token is issued until the user may log in again: what a suspension
\* leaves open is exactly the logins and rotations that had already passed
\* their checks of the account (login:185-192, rotate_refresh_token:101-103).
Settled(u) == /\ ~MayLogIn(u)
              /\ \A h \in Pending("issue") : req[h].user # u
              /\ \A h \in Pending("rotate") : rows[req[h].token].user # u

SettledGainsNothing ==
  \A u \in Users : Settled(u) /\ ~MayLogIn(u)' =>
    Settled(u)' /\ TokensOf(u)' \subseteq TokensOf(u)

SuspensionSettles == [][SettledGainsNothing]_vars

\* A session has at most one live token: its current one (active_sessions,
\* refresh_tokens.py:134; a refresh token is single-use, models.py:184-185).
OneLiveTokenPerSession ==
  \A s \in Sessions : Cardinality({t \in TokensIn(s) : Live(t)}) <= 1

\* A session whose every token is revoked never gets another one: whoever
\* ended it (logout, an administrator, replay detection) ended it for good
\* (revoke_session, refresh_tokens.py:144).
EndedStaysEnded ==
  [][ \A s \in Sessions :
        AllRevoked(TokensIn(s)) /\ TokensIn(s) # {} => AllRevoked(TokensIn(s))' ]_vars

\* Once the suspension of a user has been answered, none of the user's
\* tokens is left to be used when the account is enabled again
\* (set_user_active, admin.py:426-431).
SuspensionEndsSessions ==
  \A u \in Users :
    ~active[u] /\ Pending("idle") = Handlers => AllRevoked(TokensOf(u))

\* Once a password change has been answered, no session opened with an
\* earlier password is live (edit_user, admin.py:353-359).
NewPasswordEndsOldSessions ==
  Pending("idle") = Handlers =>
    \A t \in Issued : Live(t) /\ rows[t].session # NoSession
      => openedWith[rows[t].session] = password[rows[t].user]

-----------------------------------------------------------------------------
(***************************************************************************)
(* The lifecycle of a session, seen from outside.  A session is open while *)
(* it is live or a rotation that found its token live may still continue   *)
(* it; it is usable while some access token bound to it is accepted.       *)
(***************************************************************************)
Rotations == Pending("check") \cup Pending("rotate")

Continuing(s) == \E h \in Rotations : rows[req[h].token].session = s

PhaseOf(s) == IF TokensIn(s) = {} THEN "new"
              ELSE IF LiveSession(s) \/ Continuing(s) THEN "open" ELSE "closed"

HardEndOf(s) == IF TokensIn(s) = {} THEN 0
                ELSE SessionEnd(rows[CHOOSE t \in TokensIn(s) : TRUE].started)

UsableSession(s) == \E t \in TokensIn(s) : Accepted(t)

Lifecycle == INSTANCE SessionLifecycle
               WITH now <- clock,
                    phase <- [s \in Sessions |-> PhaseOf(s)],
                    hardEnd <- [s \in Sessions |-> HardEndOf(s)],
                    usable <- {s \in Sessions : UsableSession(s)}

\* Every session follows SessionLifecycle, whatever requests race or crash:
\* opened once, its hard end fixed, and closed for good (refresh_tokens.py,
\* deps.require_live_session).
RefinesLifecycle == Lifecycle!LifecycleSpec
=============================================================================
