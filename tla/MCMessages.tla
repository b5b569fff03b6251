----------------------------- MODULE MCMessages -----------------------------
(* Users, emojis, sends, stored messages and handlers are interchangeable. *)
EXTENDS Messages, TLC

Alike == Permutations(Users) \cup Permutations(Emojis) \cup Permutations(Sends)
         \cup Permutations(Messages) \cup Permutations(Tasks)
=============================================================================
