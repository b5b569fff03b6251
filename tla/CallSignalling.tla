--------------------------- MODULE CallSignalling ---------------------------
(***************************************************************************)
(* One-to-one call signalling of the Socket.IO server                      *)
(* (server/sockets/index.js) over the call history of the data service.    *)
(*                                                                         *)
(* A socket event or a timer callback is a task.  A task advances in       *)
(* segments: a segment is what the handler runs between two awaits.  Which *)
(* awaits really let another task in depends on the deployment: with the   *)
(* in-memory store every await resolves in the microtask queue, so a       *)
(* handler runs to completion; with MongoDB an await on the history or on  *)
(* a conversation suspends; with Redis every access to a session does too. *)
(*                                                                         *)
(* A process may lose Redis and get it back (redisClient() is null in      *)
(* between), and works with its own map alone meanwhile.  A command that   *)
(* is under way when that happens is rejected; nothing handles the         *)
(* rejection, so that the process ends: that is a Crash.  With Redis       *)
(* configured the model lets an await suspend also while Redis is away.    *)
(*                                                                         *)
(* A call has one caller, one callee and one session, and each side has    *)
(* its own history record.                                                 *)
(***************************************************************************)
EXTENDS Naturals, FiniteSets

CONSTANTS
  Users,        \* user ids
  Calls,        \* call ids chosen by clients
  Attempts,     \* call:start events; two attempts may carry the same call id
  Instances,    \* server processes
  Tasks,        \* slots for handlers in progress (bounds concurrency)
  CallId,       \* [Attempts -> Calls]
  Caller,       \* [Attempts -> Users]
  Callee,       \* [Attempts -> Users]
  UseMongo,     \* the history is in MongoDB rather than in memory
  UseRedis,     \* sessions are shared through Redis
  MaxCrashes,   \* bound on the number of process crashes
  None          \* absence of a session or of an instance

Sides    == {"outgoing", "incoming"}
Statuses == {"none", "ringing", "accepted", "missed", "ended", "rejected"}
Final    == {"missed", "ended", "rejected"}

\* The part of a session that decides anything: the attempt that created it
\* (which fixes the participants and the record ids) and whether acceptedAt
\* is set.
Session == [attempt : Attempts, accepted : BOOLEAN]

ASSUME CallAssumption ==
  /\ CallId \in [Attempts -> Calls]
  /\ Caller \in [Attempts -> Users]
  /\ Callee \in [Attempts -> Users]
  /\ \A a \in Attempts : Caller[a] # Callee[a]
  /\ UseMongo \in BOOLEAN
  /\ UseRedis \in BOOLEAN
  /\ MaxCrashes \in Nat
  /\ None \notin Session
  /\ None \notin Instances

\* Redis is only deployed beside MongoDB, and processes that do not share
\* sessions through Redis are not deployed together (README, deployment 4).
ASSUME DeploymentAssumption ==
  /\ UseRedis => UseMongo
  /\ ~UseRedis => \A i, j \in Instances : i = j

VARIABLES
  record,       \* [Attempts -> [Sides -> Statuses]]: the two history records
  local,        \* activeCalls of every process
  shared,       \* the session keys in Redis
  index,        \* the set of active call ids in Redis
  linked,       \* the processes whose Redis client is ready
  orphaned,     \* keys whose session the process that held it has left behind
  timer,        \* callTimers of every process: is the ring timer armed?
  task,         \* the handlers in progress
  placed,       \* attempts whose call:start has arrived
  connected,    \* users with at least one socket
  offlineDue,   \* users with a grace period running (pendingOffline)
  blocked,      \* pairs of users with a block between them
  crashes       \* number of crashes so far

redisVars == << shared, index, orphaned >>
faultVars == << crashes, linked >>
vars == << record, local, redisVars, timer, task, placed, connected, offlineDue,
           blocked, faultVars >>

-----------------------------------------------------------------------------
(* Tasks and scheduling *)

Pcs == {"idle", "create", "arm", "acceptCheck", "accept", "rejectCheck",
        "endCheck", "timeout", "presence", "sweep", "sweepFinish", "finish"}

Both(status) == [s \in Sides |-> status]

TaskState ==
  [pc    : Pcs,
   home  : Instances \cup {None},   \* the process that runs it
   held  : Session \cup {None},     \* the session it has read or built
   copy  : BOOLEAN,                 \* ... parsed from Redis, not the map's object
   todo  : SUBSET Sides,            \* history writes still under way
   plan  : [Sides -> Statuses],     \* the statuses it writes
   gone  : Users \cup {None},       \* the user a disconnect sweep is about
   queue : SUBSET Calls]            \* calls a disconnect sweep has yet to visit

Idle == [pc |-> "idle", home |-> None, held |-> None, copy |-> FALSE, todo |-> {},
         plan |-> Both("none"), gone |-> None, queue |-> {}]

\* A read or a write of the history, of a conversation, of a block or of the
\* stored presence.
MongoWaits == {"create", "acceptCheck", "accept", "rejectCheck", "endCheck",
               "presence", "finish"}

\* Does a handler at pc really give up the event loop?
Suspended(pc) == UseRedis \/ (UseMongo /\ pc \in MongoWaits)

\* No handler other than t holds the event loop of process i.
LoopFree(t, i) ==
  \A u \in Tasks \ {t} : task[u].home = i => Suspended(task[u].pc)

\* A new handler may start in slot t of process i.
CanStart(t, i) == task[t].pc = "idle" /\ LoopFree(t, i)

\* Handler t may run its segment that begins at pc.
CanRun(t, pc) == task[t].pc = pc /\ LoopFree(t, task[t].home)

AllLoopsFree == \A t \in Tasks : task[t].pc = "idle" \/ Suspended(task[t].pc)

Become(t, state) == task' = [task EXCEPT ![t] = state]

-----------------------------------------------------------------------------
(* Sessions *)

CallOf(session)       == CallId[session.attempt]
Participants(session) == {Caller[session.attempt], Callee[session.attempt]}
Pair(a)               == {Caller[a], Callee[a]}

\* The key is there and process i can ask for it.
FromRedis(i, c) == i \in linked /\ shared[c] # None

\* readActiveCall: the Redis key when there is one, else the process's map.
ReadActiveCall(i, c) == IF FromRedis(i, c) THEN shared[c] ELSE local[i][c]

StoreRedisOnly(i, session) ==                                       \* mutant
  IF i \in linked
    THEN /\ shared' = [shared EXCEPT ![CallOf(session)] = session]
         /\ UNCHANGED << local, index, orphaned >>
    ELSE local' = [local EXCEPT ![i][CallOf(session)] = session] /\ UNCHANGED redisVars

\* storeActiveCall: the process's map and, as long as it can, Redis.
StoreActiveCall(i, session) ==
  /\ local' = [local EXCEPT ![i][CallOf(session)] = session]
  /\ IF i \in linked
       THEN /\ shared' = [shared EXCEPT ![CallOf(session)] = session]
            /\ index' = index \cup {CallOf(session)}
            /\ orphaned' = orphaned \ {CallOf(session)}
       ELSE UNCHANGED redisVars

KeepLocalSession(i, c) ==                                           \* mutant
  shared' = [shared EXCEPT ![c] = None] /\ UNCHANGED << local, index, orphaned >>

\* The keys of sessions that process i holds.
KeysHeldBy(i) == {c \in Calls : local[i][c] # None /\ shared[c] # None}

\* removeActiveCall: the process's map and, as long as it can, Redis.  The key
\* of a session that is removed without Redis stays there.
RemoveActiveCall(i, c) ==
  /\ local' = [local EXCEPT ![i][c] = None]
  /\ IF i \in linked
       THEN /\ shared' = [shared EXCEPT ![c] = None]
            /\ index' = index \ {c}
            /\ orphaned' = orphaned \ {c}
       ELSE /\ orphaned' = orphaned \cup (KeysHeldBy(i) \cap {c})
            /\ UNCHANGED << shared, index >>

\* activeCallSessions: the ids of the index while the process has Redis, those
\* of its map otherwise.
ListedCalls(i) ==
  {c \in IF i \in linked THEN index ELSE Calls : ReadActiveCall(i, c) # None}

PlacedCallsOf(i, u) ==                                              \* mutant
  {c \in ListedCalls(i) : u = Caller[ReadActiveCall(i, c).attempt]}

\* ... narrowed to the calls user u takes part in.
ActiveCallsOf(i, u) ==
  {c \in ListedCalls(i) : u \in Participants(ReadActiveCall(i, c))}

-----------------------------------------------------------------------------
(* History records *)

\* createCall checks the block again and creates nothing when it finds one.
CreateCall(a, side, status) ==
  record' = IF Pair(a) \in blocked THEN record
            ELSE [record EXCEPT ![a][side] = status]

\* updateCall overwrites whatever the record holds; a side without a record
\* id is skipped.
UpdateCall(a, side, status) ==
  record' = IF record[a][side] = "none" THEN record
            ELSE [record EXCEPT ![a][side] = status]

-----------------------------------------------------------------------------
Init ==
  /\ record = [a \in Attempts |-> Both("none")]
  /\ local = [i \in Instances |-> [c \in Calls |-> None]]
  /\ shared = [c \in Calls |-> None]
  /\ index = {}
  /\ linked = (IF UseRedis THEN Instances ELSE {})
  /\ orphaned = {}
  /\ timer = [i \in Instances |-> [c \in Calls |-> FALSE]]
  /\ task = [t \in Tasks |-> Idle]
  /\ placed = {}
  /\ connected = {}
  /\ offlineDue = {}
  /\ blocked = {}
  /\ crashes = 0

-----------------------------------------------------------------------------
(* call:start *)

StartAnyId(t, i, a) ==                                              \* mutant
  /\ CanStart(t, i)
  /\ a \notin placed
  /\ Caller[a] \in connected
  /\ Pair(a) \notin blocked
  /\ placed' = placed \cup {a}
  /\ Become(t, [Idle EXCEPT
       !.pc = "create", !.home = i, !.todo = Sides,
       !.held = [attempt |-> a, accepted |-> FALSE],
       !.plan = Both(IF Callee[a] \in connected THEN "ringing" ELSE "missed")])
  /\ UNCHANGED << record, local, redisVars, timer, connected, offlineDue,
                  blocked, faultVars >>

\* The checks of call:start: sender connected, no block, no session under
\* this id.  A start that fails one of them changes nothing.
CallStart(t, i, a) ==
  /\ CanStart(t, i)
  /\ a \notin placed
  /\ Caller[a] \in connected
  /\ Pair(a) \notin blocked
  /\ ReadActiveCall(i, CallId[a]) = None
  /\ placed' = placed \cup {a}
  /\ Become(t, [Idle EXCEPT
       !.pc = "create", !.home = i, !.todo = Sides,
       !.held = [attempt |-> a, accepted |-> FALSE],
       !.plan = Both(IF Callee[a] \in connected THEN "ringing" ELSE "missed")])
  /\ UNCHANGED << record, local, redisVars, timer, connected, offlineDue,
                  blocked, faultVars >>

\* One of the two parallel createCall takes effect.
CreateRecord(t, side) ==
  /\ CanRun(t, "create")
  /\ side \in task[t].todo
  /\ CreateCall(task[t].held.attempt, side, task[t].plan[side])
  /\ Become(t, [task[t] EXCEPT !.todo = @ \ {side}])
  /\ UNCHANGED << local, redisVars, timer, placed, connected, offlineDue,
                  blocked, faultVars >>

\* The callee is online: call:incoming goes out and the session is stored in
\* the same segment.
RingCallee(t) ==
  /\ CanRun(t, "create")
  /\ task[t].todo = {}
  /\ task[t].plan = Both("ringing")
  /\ StoreActiveCall(task[t].home, task[t].held)
  /\ Become(t, [task[t] EXCEPT !.pc = "arm"])
  /\ UNCHANGED << record, timer, placed, connected, offlineDue, blocked,
                  faultVars >>

\* The callee is offline: call:unavailable, and no session.
ReportUnavailable(t) ==
  /\ CanRun(t, "create")
  /\ task[t].todo = {}
  /\ task[t].plan = Both("missed")
  /\ Become(t, Idle)
  /\ UNCHANGED << record, local, redisVars, timer, placed, connected,
                  offlineDue, blocked, faultVars >>

ArmNothing(t) ==                                                    \* mutant
  /\ CanRun(t, "arm")
  /\ Become(t, Idle)
  /\ UNCHANGED << record, local, redisVars, timer, placed, connected,
                  offlineDue, blocked, faultVars >>

ArmCallTimeout(t) ==
  /\ CanRun(t, "arm")
  /\ timer' = [timer EXCEPT ![task[t].home][CallOf(task[t].held)] = TRUE]
  /\ Become(t, Idle)
  /\ UNCHANGED << record, local, redisVars, placed, connected, offlineDue,
                  blocked, faultVars >>

-----------------------------------------------------------------------------
(* finishCall, shared by reject, end, timeout and the disconnect sweep *)

FinishSame(outcome) == Both(outcome)                                \* mutant
FinishUnknown(outcome) ==                                           \* mutant
  Both(IF outcome = "rejected" THEN "declined" ELSE outcome)

FinishPlan(outcome) ==
  IF outcome = "rejected"
    THEN [s \in Sides |-> IF s = "incoming" THEN "rejected" ELSE "ended"]
    ELSE Both(outcome)

AlwaysEnded(session) == "ended"                                     \* mutant

HangUpOutcome(session) == IF session.accepted THEN "ended" ELSE "missed"

\* Clears this process's timer and sends both history updates off.
BeginFinish(t, outcome) ==
  /\ timer' = [timer EXCEPT ![task[t].home][CallOf(task[t].held)] = FALSE]
  /\ Become(t, [task[t] EXCEPT !.pc = "finish", !.todo = Sides,
                               !.plan = FinishPlan(outcome)])
  /\ UNCHANGED << record, local, redisVars, placed, connected, offlineDue,
                  blocked, faultVars >>

\* One of the two parallel updateCall of an accept or of a finish takes
\* effect.
UpdateRecord(t, side) ==
  /\ CanRun(t, "accept") \/ CanRun(t, "finish")
  /\ side \in task[t].todo
  /\ UpdateCall(task[t].held.attempt, side, task[t].plan[side])
  /\ Become(t, [task[t] EXCEPT !.todo = @ \ {side}])
  /\ UNCHANGED << local, redisVars, timer, placed, connected, offlineDue,
                  blocked, faultVars >>

\* A task that is done with one call visits the rest of its queue, if any.
Onward(t, rest) ==
  IF rest = {} THEN Idle
  ELSE [Idle EXCEPT !.pc = "sweep", !.home = task[t].home, !.queue = rest]

FinishDone(t) ==
  /\ CanRun(t, "finish")
  /\ task[t].todo = {}
  /\ RemoveActiveCall(task[t].home, CallOf(task[t].held))
  /\ Become(t, Onward(t, task[t].queue))
  /\ UNCHANGED << record, timer, placed, connected, offlineDue, blocked,
                  faultVars >>

-----------------------------------------------------------------------------
(* call:accept, call:reject, call:end *)

\* The session is read first; a call without one is ignored.
OpenSession(t, i, c, senders, pc) ==
  /\ CanStart(t, i)
  /\ ReadActiveCall(i, c) # None
  /\ senders \cap connected # {}
  /\ Become(t, [Idle EXCEPT !.pc = pc, !.home = i,
                            !.held = ReadActiveCall(i, c), !.copy = FromRedis(i, c)])
  /\ UNCHANGED << record, local, redisVars, timer, placed, connected,
                  offlineDue, blocked, faultVars >>

AcceptRequest(t, i, c) ==
  OpenSession(t, i, c, {Callee[ReadActiveCall(i, c).attempt]}, "acceptCheck")

RejectRequest(t, i, c) ==
  OpenSession(t, i, c, {Callee[ReadActiveCall(i, c).attempt]}, "rejectCheck")

EndRequest(t, i, c) ==
  OpenSession(t, i, c, Participants(ReadActiveCall(i, c)), "endCheck")

\* canSignalCall said no: accept and reject return.
Refuse(t) ==
  /\ CanRun(t, "acceptCheck") \/ CanRun(t, "rejectCheck")
  /\ Pair(task[t].held.attempt) \in blocked
  /\ Become(t, Idle)
  /\ UNCHANGED << record, local, redisVars, timer, placed, connected,
                  offlineDue, blocked, faultVars >>

\* session.acceptedAt is assigned.  A session read from the map is one object,
\* shared by activeCalls and by every handler of the process that has read it
\* there; one read from Redis is a copy of its own.
Answered(session, a) ==
  IF session # None /\ session.attempt = a
    THEN [session EXCEPT !.accepted = TRUE] ELSE session

AcceptAnswer(t) ==
  /\ CanRun(t, "acceptCheck")
  /\ Pair(task[t].held.attempt) \notin blocked
  /\ LET a     == task[t].held.attempt
         home  == task[t].home
         reply == [task[t] EXCEPT !.pc = "accept", !.todo = Sides,
                                  !.plan = Both("accepted"),
                                  !.held = Answered(@, a)]
     IN  IF task[t].copy
           THEN Become(t, reply) /\ UNCHANGED local
           ELSE /\ task' = [u \in Tasks |->
                     IF u = t THEN reply
                     ELSE IF task[u].home = home /\ ~task[u].copy
                       THEN [task[u] EXCEPT !.held = Answered(@, a)]
                       ELSE task[u]]
                /\ local' = [local EXCEPT ![home] =
                     [c \in Calls |-> Answered(local[home][c], a)]]
  /\ UNCHANGED << record, redisVars, timer, placed, connected, offlineDue, blocked,
                  faultVars >>

\* The answered session is stored again, whatever became of the call while
\* the records were written; the ring timer is left as it is.
AcceptStore(t) ==
  /\ CanRun(t, "accept")
  /\ task[t].todo = {}
  /\ StoreActiveCall(task[t].home, task[t].held)
  /\ Become(t, Idle)
  /\ UNCHANGED << record, timer, placed, connected, offlineDue, blocked,
                  faultVars >>

RejectFinish(t) ==
  /\ CanRun(t, "rejectCheck")
  /\ Pair(task[t].held.attempt) \notin blocked
  /\ BeginFinish(t, "rejected")

EndFinish(t) ==
  /\ CanRun(t, "endCheck")
  /\ BeginFinish(t, HangUpOutcome(task[t].held))

-----------------------------------------------------------------------------
(* The ring timer *)

\* The callback of armCallTimeout finds a session.
RingTimeout(t, i, c) ==
  /\ CanStart(t, i)
  /\ timer[i][c]
  /\ ReadActiveCall(i, c) # None
  /\ timer' = [timer EXCEPT ![i][c] = FALSE]
  /\ Become(t, [Idle EXCEPT !.pc = "timeout", !.home = i,
                            !.held = ReadActiveCall(i, c), !.copy = FromRedis(i, c)])
  /\ UNCHANGED << record, local, redisVars, placed, connected, offlineDue,
                  blocked, faultVars >>

\* The callback finds none and returns.
StaleTimeout(t, i, c) ==
  /\ CanStart(t, i)
  /\ timer[i][c]
  /\ ReadActiveCall(i, c) = None
  /\ timer' = [timer EXCEPT ![i][c] = FALSE]
  /\ UNCHANGED << record, local, redisVars, task, placed, connected, offlineDue,
                  blocked, faultVars >>

TimeoutFinish(t) == CanRun(t, "timeout") /\ BeginFinish(t, "missed")

-----------------------------------------------------------------------------
(* Disconnects *)

\* A first socket of u connects; clearPendingOffline drops the grace timer.
Connect(u) ==
  /\ AllLoopsFree
  /\ u \notin connected
  /\ connected' = connected \cup {u}
  /\ offlineDue' = offlineDue \ {u}
  /\ UNCHANGED << record, local, redisVars, timer, task, placed, blocked,
                  faultVars >>

\* The last socket of u disconnects; scheduleOffline starts a grace timer.
Disconnect(u) ==
  /\ AllLoopsFree
  /\ u \in connected
  /\ connected' = connected \ {u}
  /\ offlineDue' = offlineDue \cup {u}
  /\ UNCHANGED << record, local, redisVars, timer, task, placed, blocked,
                  faultVars >>

\* The grace timer fires and u is still offline; the presence is written.
GoOffline(t, i, u) ==
  /\ CanStart(t, i)
  /\ u \in offlineDue
  /\ offlineDue' = offlineDue \ {u}
  /\ Become(t, [Idle EXCEPT !.pc = "presence", !.home = i, !.gone = u])
  /\ UNCHANGED << record, local, redisVars, timer, placed, connected, blocked,
                  faultVars >>

\* The calls the user takes part in by now, back or not, are listed once and
\* then finished one after the other.  Listed ids without a session are dropped
\* from the index.
SweepStart(t) ==
  /\ CanRun(t, "presence")
  /\ LET i == task[t].home
     IN  /\ Become(t, Onward(t, ActiveCallsOf(i, task[t].gone)))
         /\ index' = IF i \in linked THEN ListedCalls(i) ELSE index
  /\ UNCHANGED << record, local, shared, orphaned, timer, placed, connected,
                  offlineDue, blocked, faultVars >>

\* The next listed call is read again and skipped if it is gone.
SweepNext(t, c) ==
  /\ CanRun(t, "sweep")
  /\ c \in task[t].queue
  /\ LET session == ReadActiveCall(task[t].home, c)
         rest    == task[t].queue \ {c}
     IN  Become(t, IF session = None THEN Onward(t, rest)
                   ELSE [task[t] EXCEPT !.pc = "sweepFinish", !.held = session,
                                        !.copy = FromRedis(task[t].home, c),
                                        !.queue = rest])
  /\ UNCHANGED << record, local, redisVars, timer, placed, connected,
                  offlineDue, blocked, faultVars >>

SweepFinish(t) ==
  /\ CanRun(t, "sweepFinish")
  /\ BeginFinish(t, HangUpOutcome(task[t].held))

-----------------------------------------------------------------------------
(* Blocks, crashes and key expiry *)

\* One side of a pair blocks the other over HTTP.
Block(a) ==
  /\ AllLoopsFree
  /\ blocked' = blocked \cup {Pair(a)}
  /\ UNCHANGED << record, local, redisVars, timer, task, placed, connected,
                  offlineDue, faultVars >>

\* ... or lifts the last block between the two.
Unblock(a) ==
  /\ AllLoopsFree
  /\ blocked' = blocked \ {Pair(a)}
  /\ UNCHANGED << record, local, redisVars, timer, task, placed, connected,
                  offlineDue, faultVars >>

\* Process i dies: its maps, its timers and its handlers are gone, and what it
\* held is left to Redis.  Users move to another process or reconnect after the
\* restart.
Crash(i) ==
  /\ crashes < MaxCrashes
  /\ crashes' = crashes + 1
  /\ local' = [local EXCEPT ![i] = [c \in Calls |-> None]]
  /\ timer' = [timer EXCEPT ![i] = [c \in Calls |-> FALSE]]
  /\ task' = [t \in Tasks |-> IF task[t].home = i THEN Idle ELSE task[t]]
  /\ orphaned' = orphaned \cup KeysHeldBy(i)
  /\ UNCHANGED << record, shared, index, linked, placed, connected, offlineDue,
                  blocked >>

\* The Redis client of process i is no longer ready, or ready again.
LoseRedis(i) ==
  /\ i \in linked
  /\ linked' = linked \ {i}
  /\ UNCHANGED << record, local, redisVars, timer, task, placed, connected,
                  offlineDue, blocked, crashes >>

RegainRedis(i) ==
  /\ UseRedis
  /\ i \notin linked
  /\ linked' = linked \cup {i}
  /\ UNCHANGED << record, local, redisVars, timer, task, placed, connected,
                  offlineDue, blocked, crashes >>

\* A session key expires.  Its lifetime is longer than the ring timeout, so
\* a key does not as long as the timer armed for its session or a handler at
\* work on it is there.
ExpireKey(c) ==
  /\ shared[c] # None
  /\ \A i \in Instances : timer[i][c] /\ local[i][c] # None =>
       local[i][c].attempt # shared[c].attempt
  /\ \A t \in Tasks : task[t].held # None => task[t].held.attempt # shared[c].attempt
  /\ shared' = [shared EXCEPT ![c] = None]
  /\ orphaned' = orphaned \ {c}
  /\ UNCHANGED << record, local, index, timer, task, placed, connected, offlineDue,
                  blocked, faultVars >>

\* The index expires: every store has renewed it together with a key.
ExpireIndex ==
  /\ index # {}
  /\ \A c \in Calls : shared[c] = None
  /\ index' = {}
  /\ UNCHANGED << record, local, shared, orphaned, timer, task, placed, connected,
                  offlineDue, blocked, faultVars >>

-----------------------------------------------------------------------------
\* The segments of a handler that is already running.
TaskStep(t) ==
  \/ \E side \in Sides : CreateRecord(t, side) \/ UpdateRecord(t, side)
  \/ RingCallee(t)
  \/ ReportUnavailable(t)
  \/ ArmCallTimeout(t)
  \/ FinishDone(t)
  \/ Refuse(t)
  \/ AcceptAnswer(t)
  \/ AcceptStore(t)
  \/ RejectFinish(t)
  \/ EndFinish(t)
  \/ TimeoutFinish(t)
  \/ SweepStart(t)
  \/ \E c \in Calls : SweepNext(t, c)
  \/ SweepFinish(t)

\* What clients may or may not send.
ClientStep ==
  \/ \E t \in Tasks, i \in Instances :
       \/ \E a \in Attempts : CallStart(t, i, a)
       \/ \E c \in Calls : \/ AcceptRequest(t, i, c)
                           \/ RejectRequest(t, i, c)
                           \/ EndRequest(t, i, c)
  \/ \E u \in Users : Connect(u) \/ Disconnect(u)
  \/ \E a \in Attempts : Block(a) \/ Unblock(a)

TimerStep(i, c) == \E t \in Tasks : RingTimeout(t, i, c) \/ StaleTimeout(t, i, c)
GraceStep(u)    == \E t \in Tasks, i \in Instances : GoOffline(t, i, u)

Next ==
  \/ \E t \in Tasks : TaskStep(t)
  \/ ClientStep
  \/ \E i \in Instances, c \in Calls : TimerStep(i, c)
  \/ \E u \in Users : GraceStep(u)
  \/ \E i \in Instances : Crash(i) \/ LoseRedis(i) \/ RegainRedis(i)
  \/ \E c \in Calls : ExpireKey(c)
  \/ ExpireIndex

Spec == Init /\ [][Next]_vars

\* A started handler is resumed when its await settles.  A timer that is due
\* is run by the event loop however many requests keep arriving in between;
\* its guard is false while another handler holds the loop, hence SF.
Fairness ==
  /\ \A t \in Tasks : WF_vars(TaskStep(t))
  /\ \A i \in Instances, c \in Calls : SF_vars(TimerStep(i, c))
  /\ \A u \in Users : SF_vars(GraceStep(u))

FairSpec == Spec /\ Fairness

-----------------------------------------------------------------------------
(* Properties *)

\* Every variable keeps the shape the code gives it.
TypeOK ==
  /\ record \in [Attempts -> [Sides -> Statuses]]
  /\ local \in [Instances -> [Calls -> Session \cup {None}]]
  /\ shared \in [Calls -> Session \cup {None}]
  /\ index \subseteq Calls
  /\ linked \subseteq (IF UseRedis THEN Instances ELSE {})
  /\ orphaned \subseteq Calls
  /\ timer \in [Instances -> [Calls -> BOOLEAN]]
  /\ task \in [Tasks -> TaskState]
  /\ placed \subseteq Attempts
  /\ connected \subseteq Users
  /\ offlineDue \subseteq Users
  /\ blocked \subseteq SUBSET Users
  /\ crashes \in 0 .. MaxCrashes

\* A running handler knows its process and, unless it is between two calls of
\* a sweep or about to start one, its session; an accept holds the session as
\* it has answered it.  Only with Redis does it hold a copy.
TasksOK ==
  \A t \in Tasks :
    /\ task[t].copy => UseRedis
    /\ task[t].pc # "idle" =>
         /\ task[t].home \in Instances
         /\ task[t].pc \notin {"presence", "sweep"} => task[t].held \in Session
         /\ task[t].pc = "accept" => task[t].held.accepted

\* Sessions are stored under their own call id.
KeysOK ==
  \A c \in Calls :
    /\ shared[c] # None => CallOf(shared[c]) = c
    /\ \A i \in Instances : local[i][c] # None => CallOf(local[i][c]) = c

\* Handler t is bound to end or to time-limit call c on process i.
Guards(t, i, c) ==
  /\ task[t].pc \in {"arm", "timeout", "finish"}
  /\ task[t].home = i
  /\ CallOf(task[t].held) = c

\* The ring timer of call c is armed on process i, or a handler stands in for it.
Guarded(i, c) == timer[i][c] \/ \E t \in Tasks : Guards(t, i, c)

\* An unanswered call never rings for ever: as long as a process holds an
\* unanswered session, its ring timer is armed or a handler of that process
\* is about to arm it or to remove the session.  Every path that clears the
\* timer (finishCall, the timer callback) has to lead to a removal.
UnansweredIsGuarded ==
  \A i \in Instances, c \in Calls :
    local[i][c] # None /\ ~local[i][c].accepted => Guarded(i, c)

\* The inductive invariant behind UnansweredIsGuarded.
GuardInv == TypeOK /\ TasksOK /\ KeysOK /\ UnansweredIsGuarded

\* An unanswered session that the processes see through Redis is held by one of
\* them that will end its ringing, whatever processes crash and wherever Redis
\* is away: only those keys are left behind whose own holder crashed or ended
\* the call without Redis (sockets/index.js:203-211, 276-293).
SharedHasOwner ==
  \A c \in Calls : shared[c] # None /\ ~shared[c].accepted /\ c \notin orphaned =>
    \E i \in Instances : local[i][c] # None /\ Guarded(i, c)

\* A handler is at work on attempt a.
Busy(a) == \E t \in Tasks : task[t].held # None /\ task[t].held.attempt = a

\* The two records of a call tell the same story once no handler is at work
\* on it: the pairs finishCall, call:accept and call:start write.
AgreedPairs ==
  {Both(status) : status \in Statuses \ {"rejected"}}
    \cup {[s \in Sides |-> IF s = "incoming" THEN "rejected" ELSE "ended"]}

HistoriesAgree ==
  \A a \in Attempts : Busy(a) \/ record[a] \in AgreedPairs

\* A rejection reaches both histories: the caller's record is closed when the
\* callee's says "rejected".
RejectReachesBoth ==
  \A a \in Attempts :
    record[a]["incoming"] = "rejected" => Busy(a) \/ record[a]["outgoing"] = "ended"

\* A record that says "ringing" or "accepted" belongs to a call the server
\* still knows: nobody would ever correct it otherwise.  And an armed timer
\* belongs to a stored session: no timer is left behind to hit a later call
\* that reuses the id (sockets/index.js:72-101, 213-227).
OpenRecordHasSession ==
  /\ \A a \in Attempts :
       (\E s \in Sides : record[a][s] \in {"ringing", "accepted"}) =>
         \/ Busy(a)
         \/ \E i \in Instances : local[i][CallId[a]] # None
                                 /\ local[i][CallId[a]].attempt = a
  /\ \A i \in Instances, c \in Calls : timer[i][c] => local[i][c] # None

\* Nothing is in progress and no grace period is running.
AtRest == offlineDue = {} /\ \A t \in Tasks : task[t].pc = "idle"

\* An answered call is over once a participant has been gone for longer than
\* the grace period: it does not stay "accepted" with nobody there.
NoAbandonedCall ==
  AtRest => \A a \in Attempts, s \in Sides :
              record[a][s] = "accepted" => Pair(a) \subseteq connected

\* An answered call is never turned into a missed one.
AnsweredIsNotMissed ==
  [][\A a \in Attempts : record[a]["outgoing"] = "accepted" =>
                           record'[a]["outgoing"] # "missed"]_record

\* A ringing call stops ringing: somebody answers or ends it or the timer
\* does.
RingingEnds ==
  \A a \in Attempts : record[a]["outgoing"] = "ringing"
                        ~> record[a]["outgoing"] # "ringing"

\* A session of a user who is gone for good is eventually removed.
GoneUserHasNoCall ==
  \A u \in Users, i \in Instances :
    <>[](u \notin connected) => <>[](ActiveCallsOf(i, u) = {})

\* The in-memory deployment.  Its history goes with the process, so that a
\* crash begins a new behaviour.
InMemory == ~UseMongo /\ MaxCrashes = 0

\* What the two records of a stored session say, and how it may be finished.
OpenPair(session)  == Both(IF session.accepted THEN "accepted" ELSE "ringing")
EndingsOf(session) ==
  {FinishPlan(outcome) : outcome \in {"missed", "rejected", HangUpOutcome(session)}}
ClosedPairs == {FinishPlan(outcome) : outcome \in {"missed", "rejected", "ended"}}

\* The records in the middle of handler t: its plan where it has written.
Written(t, before) ==
  [s \in Sides |-> IF s \in task[t].todo THEN before[s] ELSE task[t].plan[s]]

\* Process i holds the session of attempt a.
Stores(i, a) == local[i][CallId[a]] # None /\ local[i][CallId[a]].attempt = a

\* One handler at most is under way: an await on the in-memory store does not
\* let another one in.
OneRuns ==
  \A t \in Tasks :
    /\ task[t].pc = "idle" => task[t] = Idle
    /\ task[t].pc # "idle" => \A u \in Tasks \ {t} : task[u] = Idle

\* What handler t has read is still so: the session it holds is the stored one,
\* and the records are those of the session as far as t has not written them.
StillSo(t) ==
  LET session == task[t].held
      i       == task[t].home
      pair    == record[session.attempt]
  IN
  /\ task[t].pc \in {"presence", "sweep"} => session = None
  /\ task[t].pc \notin {"sweep", "sweepFinish", "finish"} => task[t].queue = {}
  /\ task[t].pc = "create" =>
       /\ session.attempt \in placed /\ ~session.accepted
       /\ local[i][CallOf(session)] = None
       /\ Participants(session) \notin blocked
       /\ \/ task[t].plan = Both("missed")
          \/ task[t].plan = Both("ringing") /\ Participants(session) \subseteq connected
       /\ pair = Written(t, Both("none"))
  /\ task[t].pc \notin {"idle", "presence", "sweep", "create"} =>
       session = local[i][CallOf(session)]
  /\ task[t].pc \in {"arm", "acceptCheck", "rejectCheck", "endCheck", "timeout",
                     "sweepFinish"} => pair = OpenPair(session)
  /\ task[t].pc = "accept" =>
       /\ task[t].plan = Both("accepted")
       /\ \E status \in {"ringing", "accepted"} : pair = Written(t, Both(status))
  /\ task[t].pc = "finish" =>
       /\ ~timer[i][CallOf(session)]
       /\ task[t].plan \in EndingsOf(session)
       /\ pair = Written(t, OpenPair(session))

\* The records of an attempt that no handler is at work on: there are none
\* before it is placed, those of its session while there is one, and a
\* closed pair afterwards.
AttemptOK(a) ==
  /\ a \notin placed =>
       /\ ~Busy(a) /\ record[a] = Both("none")
       /\ \A i \in Instances : ~Stores(i, a)
  /\ ~Busy(a) =>
       /\ \A i \in Instances : Stores(i, a) => record[a] = OpenPair(local[i][CallId[a]])
       /\ a \in placed /\ (\A i \in Instances : ~Stores(i, a)) => record[a] \in ClosedPairs

\* No timer is left behind to hit a later call that reuses the id.
TimerHasSession ==
  \A i \in Instances, c \in Calls : timer[i][c] => local[i][c] # None

\* A disconnect sweep for user u is at or before call c.
Visits(t, u, c) ==
  \/ task[t].pc = "presence" /\ task[t].gone = u
  \/ c \in task[t].queue
  \/ task[t].pc \in {"sweepFinish", "finish"} /\ CallOf(task[t].held) = c

\* A participant without a socket will be found out: the grace period runs, or
\* a handler is on its way to remove the session.
GoneIsNoticed ==
  \A i \in Instances, c \in Calls, u \in Users :
    /\ local[i][c] # None
    /\ u \in Participants(local[i][c]) \ connected
    => u \in offlineDue \/ \E t \in Tasks : Visits(t, u, c)

\* The inductive invariant behind the in-memory properties, beside GuardInv.
MemoryInv ==
  /\ OneRuns
  /\ \A t \in Tasks : StillSo(t)
  /\ \A a \in Attempts : AttemptOK(a)
  /\ TimerHasSession
  /\ GoneIsNoticed

\* The pair of records as a user's two histories would show it if a handler's
\* two writes took effect with the second: while one is outstanding, the side
\* it will change still shows what both sides did.
Pending(t, a) ==
  /\ task[t].held # None /\ task[t].held.attempt = a
  /\ task[t].pc \in {"create", "accept", "finish"}
  /\ task[t].todo # {}

HistoryOf(a) ==
  IF \E t \in Tasks : Pending(t, a)
    THEN LET t == CHOOSE u \in Tasks : Pending(u, a)
         IN  Both(record[a][CHOOSE s \in task[t].todo : TRUE])
    ELSE record[a]

\* In the in-memory deployment the signalling implements the abstract call
\* history: however handlers, timers and disconnects follow each other, the
\* two records of a call move together along the life of the call.
Lifecycle == INSTANCE CallHistory
             WITH history <- [a \in Attempts |-> HistoryOf(a)]
ImplementsCallHistory == Lifecycle!Spec
=============================================================================
