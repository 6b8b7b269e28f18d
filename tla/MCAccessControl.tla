-------------------------- MODULE MCAccessControl ---------------------------
(***************************************************************************)
(* AccessControl for TLC: slots, processes, departments, roles and assets  *)
(* are interchangeable, and no liveness is checked.                        *)
(***************************************************************************)
EXTENDS AccessControl, TLC

Symmetry ==
    Permutations(Slot) \cup Permutations(Process) \cup Permutations(Dept)
      \cup Permutations(Role) \cup Permutations(Asset)

=============================================================================
