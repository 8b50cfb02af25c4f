----------------------------- MODULE MCControlLoop -----------------------------
(* Symmetries of ControlLoop.                                                 *)
EXTENDS ControlLoop, TLC

IdSymmetry == Permutations(Reports) \cup Permutations(Polls) \cup Permutations(ActionIds)
=============================================================================
