----------------------------- MODULE CallHistory -----------------------------
(***************************************************************************)
(* What call signalling promises its two users: the pair of history        *)
(* records of a call changes as one, along the life of the call, and stops *)
(* changing when the call is over.                                         *)
(***************************************************************************)
CONSTANTS Attempts

VARIABLE history    \* [Attempts -> the pair of statuses the two sides show]

Pair(out, in) == [outgoing |-> out, incoming |-> in]

Unplaced == Pair("none", "none")
Ringing  == Pair("ringing", "ringing")
Answered == Pair("accepted", "accepted")
Missed   == Pair("missed", "missed")
Ended    == Pair("ended", "ended")
Declined == Pair("ended", "rejected")

Move(a, from, to) ==
  /\ history[a] = from
  /\ history' = [history EXCEPT ![a] = to]

Init == history = [a \in Attempts |-> Unplaced]

\* call:start, with the callee online or not
Place(a) == Move(a, Unplaced, Ringing) \/ Move(a, Unplaced, Missed)

Answer(a) == Move(a, Ringing, Answered)

\* call:reject, which the server takes after an answer too
Decline(a) == Move(a, Ringing, Declined) \/ Move(a, Answered, Declined)

\* call:end or a participant gone
HangUp(a) == Move(a, Ringing, Missed) \/ Move(a, Answered, Ended)

\* The ring timer.  It is left armed by an answer, so it ends answered calls
\* as well.
Expire(a) == Move(a, Ringing, Missed) \/ Move(a, Answered, Missed)

Next == \E a \in Attempts :
  Place(a) \/ Answer(a) \/ Decline(a) \/ HangUp(a) \/ Expire(a)

Spec == Init /\ [][Next]_history
=============================================================================
