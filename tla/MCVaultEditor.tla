---- MODULE MCVaultEditor ----
(* Two entries, one of which only a KeePass file or a conflict brings, with the
   attachment the user also has, and in a folder of its own. *)
EXTENDS VaultEditor, TLC
CONSTANTS a, c, f, g, doc
BroughtFile == c :> [folder |-> g, files |-> {doc}]
====
