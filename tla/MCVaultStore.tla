----------------------------- MODULE MCVaultStore -----------------------------
(* The instance of VaultStore that TLC checks: two clients, interchangeable. *)
EXTENDS VaultStore, TLC

ClientSymmetry == Permutations(Clients)

=============================================================================
