----------------------------- MODULE MCVisibility -----------------------------
(***************************************************************************)
(* An instance of Visibility for TLC.                                      *)
(***************************************************************************)
EXTENDS Visibility, TLC

CONSTANT co1

\* Every director belongs to one company.
DirectorOfOne == [d \in Directors |-> co1]

\* Batches are numbers; two submissions in three come to the same total.
AmountOf == [b \in Batches |-> b % 2]

\* The first batch names products; the items of the other were typed.
ProductsOfBatch == [b \in Batches |-> IF b = 1 THEN Products ELSE {}]

Symmetry == Permutations(Handlers) \cup Permutations(Customers) \cup Permutations(Projects)
=============================================================================
