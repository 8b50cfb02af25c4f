------------------------------ MODULE MCWorkspaces ------------------------------
(* Symmetries of Workspaces.                                                  *)
EXTENDS Workspaces, TLC

NameSymmetry == Permutations(Tenants) \cup Permutations(Ids)
                \cup Permutations(ActionIds)
OperatorSymmetry == NameSymmetry \cup Permutations(Operators)
=============================================================================
