---------------------------- MODULE MCCatalogue -----------------------------
(***************************************************************************)
(* Instances of Catalogue for TLC: two spellings of one name, another      *)
(* name, and a file with a row repeated in another spelling.               *)
(***************************************************************************)
EXTENDS Catalogue, TLC

CONSTANTS desk, DESK, lamp, oak

NormOf == (desk :> desk) @@ (DESK :> desk) @@ (lamp :> lamp) @@ (oak :> oak)

SheetOf(names) ==
  [k \in DOMAIN names |-> [name |-> names[k], description |-> oak, category |-> Null]]

OneSheet == {SheetOf(<<DESK, desk>>)}

NoSheets == {}

Symmetry == Permutations(Products) \cup Permutations(Categories) \cup Permutations(CategoryNames)
              \cup Permutations(Handlers)
=============================================================================
