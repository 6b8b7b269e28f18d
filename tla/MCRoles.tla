------------------------------ MODULE MCRoles ------------------------------
(***************************************************************************)
(* Roles for TLC: slots, processes and users are interchangeable, and no   *)
(* liveness is checked.                                                    *)
(***************************************************************************)
EXTENDS Roles, TLC

Symmetry == Permutations(Slot) \cup Permutations(Process) \cup Permutations(User) \cup Permutations(Role)

=============================================================================
