---------------------------- MODULE MCSharedFiles -----------------------------
(* The instance of SharedFiles that TLC checks: interchangeable tabs. *)
EXTENDS SharedFiles, TLC

ClientSymmetry == Permutations(Clients)

=============================================================================
