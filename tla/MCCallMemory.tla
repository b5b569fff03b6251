---------------------------- MODULE MCCallMemory ----------------------------
(* The in-memory deployment: one process, handlers run to completion.  Two *)
(* users call each other, and the first call id is also sent twice.        *)
EXTENDS CallSignalling, TLC

CONSTANTS ana, bob, c1, c2, a1, a2, a3

MCCallId == a1 :> c1 @@ a2 :> c2 @@ a3 :> c1
MCCaller == a1 :> ana @@ a2 :> bob @@ a3 :> ana
MCCallee == a1 :> bob @@ a2 :> ana @@ a3 :> bob
=============================================================================
