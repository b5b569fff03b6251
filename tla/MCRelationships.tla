--------------------------- MODULE MCRelationships ---------------------------
(* Users, records and handlers are interchangeable. *)
EXTENDS Relationships, TLC

Alike == Permutations(Users) \cup Permutations(Records) \cup Permutations(Tasks)
=============================================================================
