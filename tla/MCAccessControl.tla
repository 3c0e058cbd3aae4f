-------------------------- MODULE MCAccessControl ---------------------------
(***************************************************************************)
(* Instances of AccessControl for TLC.  Accounts, groups, roles, projects   *)
(* and request slots are interchangeable; services and names are not.      *)
(***************************************************************************)
EXTENDS AccessControl, TLC

Symmetry == Permutations(Users) \cup Permutations(Groups) \cup Permutations(Roles)
              \cup Permutations(Projects) \cup Permutations(Handlers)
=============================================================================
