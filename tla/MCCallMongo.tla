----------------------------- MODULE MCCallMongo -----------------------------
(* History in MongoDB: the handlers of one call interleave at their awaits. *)
EXTENDS CallSignalling, TLC

CONSTANTS ana, bob, c1, a1

MCCallId == a1 :> c1
MCCaller == a1 :> ana
MCCallee == a1 :> bob
MCProcesses == Permutations(Tasks) \cup Permutations(Instances)

\* Blocks are covered by the other runs.
NoBlock == blocked = {}

\* Bounds the two-process run: a process crashes or one is without Redis, and
\* the caller may leave.
OneFault ==
  NoBlock /\ bob \notin offlineDue /\ crashes + Cardinality(Instances \ linked) <= 1

\* No guard reads a history record.
NoHistory == << local, redisVars, timer, task, placed, connected, offlineDue,
                blocked, faultVars >>
=============================================================================
