----------------------------- MODULE MCCompanies -----------------------------
(***************************************************************************)
(* Instances of Companies for TLC.  Companies differ by their directors.   *)
(***************************************************************************)
EXTENDS Companies, TLC

CONSTANT co1

DirectorOfOne == [m \in Directors |-> co1]

Symmetry == Permutations(Handlers) \cup Permutations(Companies \ {co1}) \cup Permutations(Docs)
=============================================================================
