---------------------------- MODULE MCReporting -----------------------------
(***************************************************************************)
(* Reporting for TLC: slots, processes, users, assets and departments are  *)
(* interchangeable, and no liveness is checked.                            *)
(***************************************************************************)
EXTENDS Reporting

Symmetry ==
    Permutations(Slot) \cup Permutations(Process) \cup Permutations(User)
      \cup Permutations(Asset) \cup Permutations(Dept)

=============================================================================
