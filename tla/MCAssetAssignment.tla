-------------------------- MODULE MCAssetAssignment --------------------------
(***************************************************************************)
(* AssetAssignment for TLC: processes and departments are interchangeable  *)
(* (no liveness is checked).                                               *)
(***************************************************************************)
EXTENDS AssetAssignment, TLC

Symmetry == Permutations(Worker) \cup Permutations(Dept)

=============================================================================
