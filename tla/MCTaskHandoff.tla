---------------------------- MODULE MCTaskHandoff ----------------------------
(* Instances of TaskHandoff for TLC. *)
EXTENDS TaskHandoff, TLC

Symmetry == Permutations(Nodes) \cup Permutations(Tasks)

=============================================================================
