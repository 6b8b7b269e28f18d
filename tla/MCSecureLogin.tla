--------------------------- MODULE MCSecureLogin ----------------------------
(***************************************************************************)
(* SecureLogin for TLC: slots, processes and users are interchangeable,    *)
(* and no liveness is checked.                                             *)
(***************************************************************************)
EXTENDS SecureLogin, TLC

Symmetry == Permutations(Slot) \cup Permutations(Process) \cup Permutations(User)

=============================================================================
