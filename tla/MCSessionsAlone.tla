--------------------------- MODULE MCSessionsAlone ---------------------------
(***************************************************************************)
(* An instance of SessionsAlone for TLC.  The permuted sets hold           *)
(* interchangeable identities; legacy tokens are told apart from the       *)
(* others.                                                                 *)
(***************************************************************************)
EXTENDS SessionsAlone, TLC

Symmetry == Permutations(Users) \cup Permutations(Sessions)
              \cup Permutations(Tokens \ Legacy) \cup Permutations(Handlers)
=============================================================================
