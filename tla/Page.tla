---- MODULE Page ----
(* What the models of one browser page have in common. *)
CONSTANT None       \* no vault, folder, entry or draft; nothing asked or sent
====
