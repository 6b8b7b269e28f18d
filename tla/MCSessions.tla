----------------------------- MODULE MCSessions -----------------------------
(***************************************************************************)
(* Sessions for TLC: event loops are interchangeable (no liveness is      *)
(* checked).                                                               *)
(***************************************************************************)
EXTENDS Sessions, TLC

Symmetry == Permutations(Loop)

=============================================================================
