--------------------------- MODULE MCAssetDisposal ---------------------------
(***************************************************************************)
(* AssetDisposal for TLC: no definition treats two server processes, or    *)
(* two days, differently, so states that differ by a permutation of them   *)
(* are explored once (no liveness is checked).                             *)
(***************************************************************************)
EXTENDS AssetDisposal, TLC

Symmetry == Permutations(Worker) \cup Permutations(Date) \cup Permutations(Disposal)

=============================================================================
