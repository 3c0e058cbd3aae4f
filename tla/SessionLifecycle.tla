-------------------------- MODULE SessionLifecycle --------------------------
(***************************************************************************)
(* What auth-service promises about a login session, with no tokens,       *)
(* requests or accounts in sight:                                          *)
(*                                                                         *)
(*   - a session is opened once, is open for a while, and is then closed   *)
(*     for ever: nothing reopens a closed session;                         *)
(*   - its hard end is fixed when it is opened (login time plus            *)
(*     MaxSession) and nothing moves it;                                   *)
(*   - it is usable (access tokens bound to it are accepted) only while it *)
(*     is open and its hard end lies ahead.                                *)
(*                                                                         *)
(* A session may be open and not usable: its user is suspended, its access *)
(* tokens have run out, or it has been ended but a rotation that read its  *)
(* token earlier is about to give it a new one.  Module Sessions           *)
(* implements this specification.                                          *)
(***************************************************************************)
EXTENDS Naturals

CONSTANTS Sessions,    \* session identifiers
          MaxSession   \* a session's longest life

VARIABLES now,        \* current time
          phase,      \* phase[s]: "new", "open" or "closed"
          hardEnd,    \* hardEnd[s]: set when s is opened, 0 before
          usable      \* the sessions whose access tokens are accepted

lifecycleVars == <<now, phase, hardEnd, usable>>

Opened == {s \in Sessions : phase[s] = "open"}

LifecycleInit ==
  /\ now \in Nat
  /\ phase = [s \in Sessions |-> "new"]
  /\ hardEnd = [s \in Sessions |-> 0]
  /\ usable = {}

\* A login opens a session that was never used before.  (It is not usable if
\* its user was suspended meanwhile.)
Open(s) ==
  /\ phase[s] = "new"
  /\ phase' = [phase EXCEPT ![s] = "open"]
  /\ hardEnd' = [hardEnd EXCEPT ![s] = now + MaxSession]
  /\ usable' \in {usable, usable \cup {s}}
  /\ UNCHANGED now

\* Anything else: time may pass, any open sessions may close, and of those
\* that stay open the ones before their hard end may be usable.
Continue(closing) ==
  /\ now' \in {now, now + 1}
  /\ phase' = [s \in Sessions |-> IF s \in closing THEN "closed" ELSE phase[s]]
  /\ usable' \in SUBSET (Opened \ closing)
  /\ \A s \in usable' : now' < hardEnd[s]
  /\ UNCHANGED hardEnd

LifecycleNext ==
  \/ \E s \in Sessions : Open(s)
  \/ \E closing \in SUBSET Opened : Continue(closing)

LifecycleSpec == LifecycleInit /\ [][LifecycleNext]_lifecycleVars
=============================================================================
