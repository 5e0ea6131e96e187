---------------------------- MODULE MCSharedVaults ----------------------------
(* The instance of SharedVaults that TLC checks: interchangeable users. *)
EXTENDS SharedVaults, TLC

UserSymmetry == Permutations(Users)

=============================================================================
