---- MODULE VaultRegister ----
(* What the personal vault promises its sessions: a copy that only grows. A
   write takes in everything the copy it replaces holds, unless the user agreed,
   after being told of a newer version, to put their own copy over it. *)
EXTENDS Integers
CONSTANT Contents      \* the edits a copy may hold
VARIABLES version, head, agreed
rvars == <<version, head, agreed>>

Init == version = 1 /\ head = {} /\ agreed = FALSE

Extend == /\ head' \in {c \in SUBSET Contents : head \subseteq c}
          /\ version' = version + 1
          /\ agreed' = FALSE

Agree == agreed' = TRUE /\ UNCHANGED <<version, head>>

Replace == /\ agreed
           /\ head' \in SUBSET Contents
           /\ version' = version + 1
           /\ agreed' = FALSE

Next == Extend \/ Agree \/ Replace

Spec == Init /\ [][Next]_rvars
====
