------------------------------ MODULE Presence ------------------------------
(***************************************************************************)
(* The stored online flag of one user (server/sockets/index.js): set when  *)
(* a socket connects, cleared 750 ms after the last one has gone.  An      *)
(* administrator may lock the user, which closes the sockets               *)
(* (controllers/moderationController.js).                                  *)
(*                                                                         *)
(* Over the memory store a connection and a timer each run in one piece.   *)
(* Over MongoDB they stop at every await.                                  *)
(***************************************************************************)
CONSTANTS
  Sockets,   \* connections the user may open
  Timers,    \* grace timers (a finished one may be taken again)
  None       \* no timer

VARIABLES
  store,     \* "memory" or "mongo": where the flag is kept
  flag,      \* the stored flag and who wrote it: see Flags
  phase,     \* [Sockets -> how far the connection handler is]
  room,      \* open sockets that have joined the user's room
  missed,    \* sockets that closed before their disconnect handler existed
  grace,     \* [Timers -> how far the grace timer is]
  pending,   \* the timer pendingOffline holds
  locked,    \* the user's disabled flag
  locking,   \* a lock is under way: the flag is written, sockets still open
  crossing   \* connections that were under way when a lock closed the sockets

presenceVars == << store, flag, phase, room, missed, grace, pending, locked,
                   locking, crossing >>
lockVars == << locked, locking, crossing >>

\* Online since a sign-in or a connection; offline by sign-out, lock or timer.
Flags == {"login", "socket", "out", "left"}

Init ==
  /\ store \in {"memory", "mongo"}
  /\ flag = "out"
  /\ phase = [s \in Sockets |-> "new"]
  /\ room = {}
  /\ missed = {}
  /\ grace = [t \in Timers |-> "free"]
  /\ pending = None
  /\ locked = FALSE
  /\ locking = FALSE
  /\ crossing = {}

Working == \/ \E s \in Sockets : phase[s] \in {"asking", "writing"}
           \/ \E t \in Timers : grace[t] \in {"empty", "written"}
           \/ locking

\* Over the memory store no other handler starts before this one is done.
CanStart == store = "mongo" \/ ~Working

\* clearPendingOffline stops the timer it finds, unless it has already fired.
Cleared == [t \in Timers |-> IF t = pending /\ grace[t] = "armed" THEN "free"
                                                                 ELSE grace[t]]

-----------------------------------------------------------------------------
\* login, register, and the ends of sessions and accounts write the flag too.
SignIn  == CanStart /\ flag' = "login"
           /\ UNCHANGED << store, phase, room, missed, grace, pending, lockVars >>
SignOut == CanStart /\ flag' = "out"
           /\ UNCHANGED << store, phase, room, missed, grace, pending, lockVars >>

\* A handshake finds the user unlocked, and the connection asks for the user's
\* other sockets ...
Connect(s) ==
  /\ CanStart
  /\ ~locked
  /\ phase[s] = "new"
  /\ phase' = [phase EXCEPT ![s] = "asking"]
  /\ UNCHANGED << store, flag, room, missed, grace, pending, lockVars >>

\* ... stops the grace timer and joins, if it is still open ...
Join(s) ==
  /\ phase[s] = "asking"
  /\ phase' = [phase EXCEPT ![s] = "writing"]
  /\ room' = IF s \in missed THEN room ELSE room \cup {s}
  /\ grace' = Cleared
  /\ pending' = None
  /\ UNCHANGED << store, flag, missed, lockVars >>

\* ... writes the flag, and only then listens to the socket.
WriteOnline(s) ==
  /\ phase[s] = "writing"
  /\ phase' = [phase EXCEPT ![s] = "live"]
  /\ flag' = "socket"
  /\ UNCHANGED << store, room, missed, grace, pending, lockVars >>

\* A socket that closes while its handler waits leaves the room unnoticed.
CloseEarly(s) ==
  /\ store = "mongo"
  /\ phase[s] \in {"asking", "writing"}
  /\ s \notin missed
  /\ missed' = missed \cup {s}
  /\ room' = room \ {s}
  /\ UNCHANGED << store, flag, phase, grace, pending, lockVars >>

DisconnectOnce(s, t) ==                                             \* mutant
  /\ CanStart
  /\ phase[s] = "live" /\ s \in room
  /\ room' = room \ {s}
  /\ grace[t] = "free"
  /\ pending' = IF pending = None THEN t ELSE pending
  /\ grace' = IF pending = None THEN [grace EXCEPT ![t] = "armed"] ELSE grace
  /\ UNCHANGED << store, flag, phase, missed, lockVars >>

\* disconnect: scheduleOffline replaces the timer of an earlier socket.
Disconnect(s, t) ==
  /\ CanStart
  /\ phase[s] = "live" /\ s \in room
  /\ room' = room \ {s}
  /\ Cleared[t] = "free"
  /\ grace' = [Cleared EXCEPT ![t] = "armed"]
  /\ pending' = t
  /\ UNCHANGED << store, flag, phase, missed, lockVars >>

\* The timer asks who is online, and stops at once when it finds a socket.
\* Behind Redis the question may fail, which counts as nobody.
Fire(t) ==
  /\ CanStart
  /\ grace[t] = "armed"
  /\ \/ /\ room # {}
        /\ grace' = [grace EXCEPT ![t] = "free"]
     \/ /\ room = {} \/ store = "mongo"
        /\ grace' = [grace EXCEPT ![t] = "empty"]
  /\ UNCHANGED << store, flag, phase, room, missed, pending, lockVars >>

WriteOffline(t) ==
  /\ grace[t] = "empty"
  /\ flag' = "left"
  /\ grace' = [grace EXCEPT ![t] = "written"]
  /\ UNCHANGED << store, phase, room, missed, pending, lockVars >>

\* After the user's calls are finished the entry goes, whosever it is.
Finish(t) ==
  /\ grace[t] = "written"
  /\ grace' = [grace EXCEPT ![t] = "free"]
  /\ pending' = None
  /\ UNCHANGED << store, flag, phase, room, missed, lockVars >>

-----------------------------------------------------------------------------
\* updateUserStatus stores the lock ...
Lock ==
  /\ CanStart
  /\ ~locking
  /\ locked' = TRUE
  /\ locking' = TRUE
  /\ flag' = "out"
  /\ UNCHANGED << store, phase, room, missed, grace, pending, crossing >>

DropNothing(t) ==                                                   \* mutant
  /\ locking
  /\ locking' = FALSE
  /\ crossing' = {s \in Sockets : phase[s] = "asking"}
  /\ Cleared[t] = "free"
  /\ UNCHANGED << store, phase, room, flag, locked, missed, grace, pending >>

\* ... and revokes the sessions, which clears the flag again.  Then it closes
\* the sockets in the room: those with a disconnect handler start the timer.
DropSockets(t) ==
  /\ locking
  /\ locking' = FALSE
  /\ flag' = "out"
  /\ crossing' = {s \in Sockets : phase[s] = "asking"}
  /\ room' = {}
  /\ missed' = missed \cup {s \in room : phase[s] = "writing"}
  /\ Cleared[t] = "free"
  /\ IF \E s \in room : phase[s] = "live"
       THEN grace' = [Cleared EXCEPT ![t] = "armed"] /\ pending' = t
       ELSE UNCHANGED << grace, pending >>
  /\ UNCHANGED << store, phase, locked >>

Unlock ==
  /\ CanStart
  /\ locked
  /\ locked' = FALSE
  /\ UNCHANGED << store, flag, phase, room, missed, grace, pending, locking,
                  crossing >>

Next ==
  \/ SignIn \/ SignOut \/ Lock \/ Unlock
  \/ \E s \in Sockets : Connect(s) \/ Join(s) \/ WriteOnline(s) \/ CloseEarly(s)
  \/ \E s \in Sockets, t \in Timers : Disconnect(s, t)
  \/ \E t \in Timers :
       Fire(t) \/ WriteOffline(t) \/ Finish(t) \/ DropSockets(t)

Spec == Init /\ [][Next]_presenceVars

-----------------------------------------------------------------------------
TypeOK ==
  /\ store \in {"memory", "mongo"}
  /\ flag \in Flags
  /\ phase \in [Sockets -> {"new", "asking", "writing", "live"}]
  /\ room \subseteq Sockets /\ missed \subseteq Sockets
  /\ grace \in [Timers -> {"free", "armed", "empty", "written"}]
  /\ pending \in Timers \cup {None}
  /\ locked \in BOOLEAN /\ locking \in BOOLEAN /\ crossing \subseteq Sockets

Quiet == ~Working /\ \A t \in Timers : grace[t] # "armed"

LockedIsOut == /\ locked /\ ~locking => room \subseteq crossing
               /\ store = "memory" => crossing = {}

\* The stored flag follows the sockets (server/sockets/index.js:36-45, 235-246):
\* a socket whose disconnect handler ran leaves nobody online, whatever
\* connections and timers crossed it, and over the memory store no timer turns
\* a connected user offline.  And a lock leaves the user no socket, but for
\* connections that were between handshake and join when it closed them; over
\* the memory store there are none (controllers/moderationController.js:35-52).
FlagFollowsSockets ==
  /\ Quiet /\ room = {} /\ missed = {} => flag # "socket"
  /\ store = "memory" /\ ~Working /\ room # {} => flag # "left"
  /\ LockedIsOut
=============================================================================
