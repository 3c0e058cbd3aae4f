---------------------------- MODULE SessionsAlone ----------------------------
(***************************************************************************)
(* Sessions with a history variable that tells whether a request was ever  *)
(* overlapped by another, or cut short.  As long as none was, everything   *)
(* the comments promise of tokens, suspensions and passwords holds.        *)
(***************************************************************************)
EXTENDS Sessions

VARIABLE overlapped

\* Someone else does something while a request waits.
Overtakes == clock' = clock /\ \E h \in Handlers : req[h] # Idle /\ req'[h] = req[h]

AloneInit == Init /\ overlapped = FALSE

AloneNext ==
  \/ Service /\ overlapped' = (overlapped \/ Overtakes)
  \/ (\E h \in Handlers : Crash(h)) /\ overlapped' = TRUE

AloneSpec == AloneInit /\ [][AloneNext]_<<vars, overlapped>>

-----------------------------------------------------------------------------
(***************************************************************************)
(* Properties.                                                             *)
(***************************************************************************)
\* Unless requests overlapped or were cut short, a session has at most one
\* live token, its current one (active_sessions, refresh_tokens.py:134; a
\* refresh token is single-use, models.py:184-185); a suspension that was
\* answered left no token to be used when the account is enabled again
\* (set_user_active, admin.py:426-431); and no session that was opened with
\* an earlier password is live once its change was answered (edit_user,
\* admin.py:353-359).
PromisesKeptAlone ==
  ~overlapped => OneLiveTokenPerSession /\ SuspensionEndsSessions /\ NewPasswordEndsOldSessions
=============================================================================
