------------------------------- MODULE Columns -------------------------------
(***************************************************************************)
(* What the ORM writes of a row that a request has loaded: the columns it   *)
(* was given another value than it had loaded, and no other.               *)
(***************************************************************************)

\* The columns of r that differ from what was loaded.
Changed(loaded, r) == LET F == {f \in DOMAIN r : r[f] # loaded[f]} IN [f \in F |-> r[f]]

\* UPDATE ... SET changes
Over(r, changes) == [f \in DOMAIN r |-> IF f \in DOMAIN changes THEN changes[f] ELSE r[f]]
=============================================================================
