---------------------------- MODULE MCRateLimit -----------------------------
(***************************************************************************)
(* Instances of RateLimit for TLC.  Row identities are numbers, and an      *)
(* instance has at least one more of them than its limits let rows be      *)
(* kept, so that no failure goes unrecorded for want of an identity.       *)
(***************************************************************************)
EXTENDS RateLimit, TLC

Symmetry == Permutations(Ips) \cup Permutations(Names) \cup Permutations(Handlers)
=============================================================================
