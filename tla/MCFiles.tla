------------------------------- MODULE MCFiles -------------------------------
(***************************************************************************)
(* An instance of Files for TLC.                                           *)
(***************************************************************************)
EXTENDS Files, TLC

Symmetry == Permutations(Handlers) \cup Permutations(Docs) \cup Permutations(Products)
=============================================================================
