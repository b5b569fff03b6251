-------------------------- MODULE CallMemoryProofs --------------------------
(***************************************************************************)
(* Machine-checked facts about CallSignalling in the in-memory deployment, *)
(* for any number of users, calls, attempts and handler slots: the two     *)
(* histories of a call agree and move along one life cycle.                *)
(***************************************************************************)
EXTENDS CallSignallingProofs

-----------------------------------------------------------------------------
(* One process, one handler. *)

LEMMA OneProcess ==
  ASSUME InMemory
  PROVE  /\ ~UseRedis /\ \A i, j \in Instances : i = j
         /\ \A pc : ~Suspended(pc)
  BY DeploymentAssumption DEF InMemory, Suspended

\* No process asks Redis, and no handler holds a copy.
LEMMA NoRedis ==
  ASSUME InMemory, GuardInv
  PROVE  /\ linked = {} /\ \A t \in Tasks : task[t].copy = FALSE
         /\ \A i, c : ~FromRedis(i, c) /\ ReadActiveCall(i, c) = local[i][c]
         /\ \A i : ListedCalls(i) = {c \in Calls : local[i][c] # None}
<1>1. linked = {}  BY OneProcess DEF GuardInv, TypeOK
<1>2. \A t \in Tasks : task[t].copy \in BOOLEAN /\ ~task[t].copy
  BY OneProcess, TaskType DEF GuardInv, TasksOK
<1>3. \A i, c : ~FromRedis(i, c) /\ ReadActiveCall(i, c) = local[i][c]
  BY <1>1 DEF FromRedis, ReadActiveCall
<1>. QED  BY <1>1, <1>2, <1>3 DEF ListedCalls

\* A slot that is not in use.
LEMMA IdleFields ==
  /\ Idle.pc = "idle" /\ Idle.home = None /\ Idle.held = None
  /\ Idle.todo = {} /\ Idle.queue = {}
  BY DEF Idle

\* Where a handler may start, and where nothing but a handler may step, none
\* is under way.
LEMMA NoneRuns ==
  ASSUME InMemory, TypeOK, TasksOK, OneRuns,
         \/ AllLoopsFree
         \/ \E t \in Tasks, i \in Instances : CanStart(t, i)
  PROVE  \A u \in Tasks : task[u] = Idle
<1>1. CASE AllLoopsFree
  BY <1>1, OneProcess DEF AllLoopsFree, OneRuns
<1>2. ASSUME NEW t \in Tasks, NEW i \in Instances, CanStart(t, i)
      PROVE  \A u \in Tasks : task[u] = Idle
  <2>1. \A u \in Tasks \ {t} : task[u].home # i
    BY <1>2, OneProcess DEF CanStart, LoopFree
  <2>2. \A u \in Tasks : task[u].pc = "idle"
    BY <1>2, <2>1, OneProcess DEF CanStart, TasksOK
  <2>. QED  BY <2>2 DEF OneRuns
<1>. QED  BY <1>1, <1>2

\* The handler under way is the only one.
LEMMA AloneRuns ==
  ASSUME InMemory, TypeOK, TasksOK, OneRuns, NEW t \in Tasks, task[t].pc # "idle"
  PROVE  /\ \A u \in Tasks \ {t} : task[u] = Idle
         /\ task[t].home \in Instances /\ \A i \in Instances : i = task[t].home
  BY OneProcess DEF OneRuns, TasksOK

LEMMA BecomeAlone ==
  ASSUME TypeOK, NEW t \in Tasks, \A u \in Tasks \ {t} : task[u] = Idle,
         NEW state, Become(t, state), state.pc = "idle" => state = Idle
  PROVE  /\ task'[t] = state
         /\ \A u \in Tasks \ {t} : task'[u] = Idle
         /\ OneRuns'
<1>1. task'[t] = state /\ \A u \in Tasks \ {t} : task'[u] = Idle
  BY DEF TypeOK, Become
<1>. QED  BY <1>1, IdleFields DEF OneRuns

\* A slot that is not in use has nothing to be still so.
LEMMA AloneStill ==
  ASSUME NEW t \in Tasks, \A u \in Tasks \ {t} : task'[u] = Idle, StillSo(t)'
  PROVE  \A u \in Tasks : StillSo(u)'
<1>1. ASSUME NEW u \in Tasks, u # t PROVE StillSo(u)'
  <2>1. task'[u].pc = "idle"  BY <1>1 DEF Idle
  <2>. QED  BY <1>1, <2>1 DEF StillSo, Idle
<1>. QED  BY <1>1

\* A handler is at work on the attempt of the session it holds only.
LEMMA AloneBusy ==
  ASSUME NEW t \in Tasks, \A u \in Tasks \ {t} : task[u] = Idle, NEW a
  PROVE  Busy(a) <=> task[t].held # None /\ task[t].held.attempt = a
  BY DEF Busy, Idle

LEMMA AloneBusyNext ==
  ASSUME NEW t \in Tasks, \A u \in Tasks \ {t} : task'[u] = Idle, NEW a
  PROVE  Busy(a)' <=> task'[t].held # None /\ task'[t].held.attempt = a
  BY DEF Busy, Idle

\* An attempt stays as it was where neither its records nor its session
\* change and no handler takes it up or drops it.
LEMMA AttemptFrame ==
  ASSUME NEW a \in Attempts, AttemptOK(a),
         record'[a] = record[a], a \in placed' <=> a \in placed,
         Busy(a)' => Busy(a), Busy(a) => Busy(a)',
         \A i \in Instances : Stores(i, a)' <=> Stores(i, a),
         \A i \in Instances : Stores(i, a) => local'[i][CallId[a]] = local[i][CallId[a]]
  PROVE  AttemptOK(a)'
  BY DEF AttemptOK

\* A sweep is not lost where sessions stay in place and no handler that is on
\* its way to one turns away.
LEMMA GoneFrame ==
  ASSUME GoneIsNoticed,
         \A i \in Instances, c \in Calls :
           local'[i][c] # None => local[i][c] # None
                                  /\ Participants(local'[i][c]) = Participants(local[i][c]),
         connected \subseteq connected', offlineDue \ connected' \subseteq offlineDue',
         \A i \in Instances, c \in Calls, u \in Users, t \in Tasks :
           local'[i][c] # None /\ Visits(t, u, c) => \E v \in Tasks : Visits(v, u, c)'
  PROVE  GoneIsNoticed'
<1>. SUFFICES ASSUME NEW i \in Instances, NEW c \in Calls, NEW u \in Users,
                     local'[i][c] # None, u \in Participants(local'[i][c]) \ connected'
              PROVE  u \in offlineDue' \/ \E t \in Tasks : Visits(t, u, c)'
  BY DEF GoneIsNoticed, Participants
<1>1. u \in offlineDue \/ \E t \in Tasks : Visits(t, u, c)
  BY DEF GoneIsNoticed
<1>. QED  BY <1>1

-----------------------------------------------------------------------------
(* What a step has to show. *)

\* A handler at work on a session.
LEMMA Holding ==
  ASSUME InMemory, GuardInv, MemoryInv, NEW t \in Tasks,
         task[t].pc \notin {"idle", "presence", "sweep"}
  PROVE  /\ \A u \in Tasks \ {t} : task[u] = Idle
         /\ task[t].home \in Instances /\ \A i \in Instances : i = task[t].home
         /\ task[t].held \in Session /\ task[t].held # None
         /\ task[t].held.attempt \in Attempts /\ CallOf(task[t].held) \in Calls
         /\ CallOf(task[t].held) = CallId[task[t].held.attempt]
         /\ Busy(task[t].held.attempt) /\ task[t].held.attempt \in placed
         /\ StillSo(t)
<1>1. /\ \A u \in Tasks \ {t} : task[u] = Idle
      /\ task[t].home \in Instances /\ \A i \in Instances : i = task[t].home
      /\ StillSo(t)
  BY AloneRuns DEF GuardInv, MemoryInv
<1>2. task[t].held \in Session  BY DEF GuardInv, TasksOK
<1>3. task[t].held # None  BY <1>2, CallAssumption
<1>4. /\ task[t].held.attempt \in Attempts
      /\ CallOf(task[t].held) = CallId[task[t].held.attempt]
      /\ CallOf(task[t].held) \in Calls
  BY <1>2, CallAssumption DEF Session, CallOf
<1>5. Busy(task[t].held.attempt)  BY <1>3 DEF Busy
<1>. QED  BY <1>1, <1>2, <1>3, <1>4, <1>5 DEF MemoryInv, AttemptOK

\* The session of an attempt is where its call id leads.
LEMMA StoredAt ==
  ASSUME GuardInv, NEW i \in Instances, NEW c \in Calls, local[i][c] # None
  PROVE  /\ local[i][c] \in Session /\ local[i][c].attempt \in Attempts
         /\ CallId[local[i][c].attempt] = c /\ Stores(i, local[i][c].attempt)
<1>1. local[i][c] \in Session  BY DEF GuardInv, TypeOK
<1>. QED  BY <1>1, CallAssumption DEF GuardInv, KeysOK, CallOf, Stores, Session

\* A step of one handler that concerns one attempt.
Concerns(t, a) ==
  /\ \A u \in Tasks \ {t} : task[u] = Idle /\ task'[u] = Idle
  /\ task'[t].pc = "idle" => task'[t] = Idle
  /\ task[t].held # None => task[t].held.attempt = a
  /\ task'[t].held # None => task'[t].held.attempt = a
  /\ \A b \in Attempts \ {a} : record'[b] = record[b] /\ (b \in placed' <=> b \in placed)
  /\ \A i \in Instances, c \in Calls :
       \/ local'[i][c] = local[i][c]
       \/ /\ local[i][c] # None => local[i][c].attempt = a
          /\ local'[i][c] # None => local'[i][c].attempt = a

Settled ==
  /\ OneRuns
  /\ \A t \in Tasks : StillSo(t)
  /\ \A a \in Attempts : AttemptOK(a)

LEMMA Handled ==
  ASSUME GuardInv, MemoryInv, NEW t \in Tasks, NEW a \in Attempts, Concerns(t, a),
         StillSo(t)', AttemptOK(a)'
  PROVE  Settled'
<1>1. \A u \in Tasks \ {t} : task[u] = Idle /\ task'[u] = Idle
  BY DEF Concerns
<1>2. OneRuns'  BY <1>1, IdleFields DEF OneRuns, Concerns
<1>3. \A u \in Tasks : StillSo(u)'  BY <1>1, AloneStill
<1>4. ASSUME NEW b \in Attempts, b # a PROVE AttemptOK(b)'
  <2>1. ~Busy(b) /\ ~Busy(b)'
    BY <1>1, <1>4, AloneBusy, AloneBusyNext DEF Concerns
  <2>2. CallId[b] \in Calls  BY CallAssumption
  <2>3. \A i \in Instances : /\ Stores(i, b)' <=> Stores(i, b)
                             /\ Stores(i, b) => local'[i][CallId[b]] = local[i][CallId[b]]
    BY <1>4, <2>2 DEF Stores, Concerns
  <2>4. AttemptOK(b)  BY DEF MemoryInv
  <2>5. record'[b] = record[b] /\ (b \in placed' <=> b \in placed)
    BY <1>4 DEF Concerns
  <2>. QED  BY <2>1, <2>3, <2>4, <2>5, AttemptFrame
<1>. QED  BY <1>2, <1>3, <1>4 DEF Settled

\* A step that concerns none.
LEMMA Unhandled ==
  ASSUME GuardInv, MemoryInv, NEW t \in Tasks,
         \A u \in Tasks \ {t} : task[u] = Idle /\ task'[u] = Idle,
         task'[t].pc = "idle" => task'[t] = Idle,
         task'[t].pc \in {"idle", "presence", "sweep"},
         task'[t].pc = "presence" => task'[t].queue = {},
         task[t].held = None, task'[t].held = None,
         record' = record, placed' = placed, local' = local
  PROVE  Settled'
<1>1. OneRuns'  BY IdleFields DEF OneRuns
<1>2. StillSo(t)'  BY DEF StillSo, Idle
<1>3. \A u \in Tasks : StillSo(u)'  BY <1>2, AloneStill
<1>4. ASSUME NEW b \in Attempts PROVE AttemptOK(b)'
  <2>1. ~Busy(b) /\ ~Busy(b)'  BY AloneBusy, AloneBusyNext
  <2>2. AttemptOK(b)  BY DEF MemoryInv
  <2>3. \A i \in Instances : /\ Stores(i, b)' <=> Stores(i, b)
                             /\ Stores(i, b) => local'[i][CallId[b]] = local[i][CallId[b]]
    BY DEF Stores
  <2>. QED  BY <2>1, <2>2, <2>3, AttemptFrame
<1>. QED  BY <1>1, <1>3, <1>4 DEF Settled

\* While a handler is at work on an attempt that is placed, nothing more is
\* asked of it.
LEMMA AtWork ==
  ASSUME NEW t \in Tasks, NEW a \in Attempts, a \in placed',
         task'[t].held # None, task'[t].held.attempt = a
  PROVE  AttemptOK(a)'
  BY DEF AttemptOK, Busy

-----------------------------------------------------------------------------
(* The steps of a handler. *)

\* A handler's state with some fields replaced.
LEMMA Replaced ==
  ASSUME TypeOK, NEW t \in Tasks, NEW state, Become(t, state)
  PROVE  task'[t] = state /\ \A u \in Tasks \ {t} : task'[u] = task[u]
  BY DEF TypeOK, Become

LEMMA MemoryCreate ==
  ASSUME InMemory, GuardInv, MemoryInv, NEW t \in Tasks, NEW side \in Sides,
         CreateRecord(t, side)
  PROVE  MemoryInv'
<1>0. PICK a : a = task[t].held.attempt  OBVIOUS
<1>. USE <1>0
<1>1. task[t].pc = "create" /\ side \in task[t].todo
  BY DEF CreateRecord, CanRun
<1>2. /\ \A u \in Tasks \ {t} : task[u] = Idle
      /\ task[t].held # None /\ a \in Attempts /\ a \in placed /\ StillSo(t)
  BY <1>1, Holding
<1>3. /\ \A u \in Tasks \ {t} : task'[u] = Idle
      /\ task'[t] = [task[t] EXCEPT !.todo = @ \ {side}]
  BY <1>2, Replaced DEF CreateRecord, GuardInv
<1>4. /\ task'[t].pc = "create" /\ task'[t].home = task[t].home
      /\ task'[t].held = task[t].held /\ task'[t].todo = task[t].todo \ {side}
      /\ task'[t].plan = task[t].plan /\ task'[t].queue = task[t].queue
      /\ task'[t].gone = task[t].gone
  BY <1>1, <1>3, TaskType DEF GuardInv, TaskState
<1>5. record' = [record EXCEPT ![a][side] = task[t].plan[side]]
  BY <1>1, <1>2 DEF CreateRecord, CreateCall, StillSo, Participants, Pair
<1>6. UNCHANGED << local, timer, placed, connected, offlineDue, blocked >>
  BY DEF CreateRecord
<1>7. StillSo(t)'
  <2>1. record[a] = Written(t, Both("none"))  BY <1>1, <1>2 DEF StillSo
  <2>2. record'[a] = [record[a] EXCEPT ![side] = task[t].plan[side]]
    BY <1>2, <1>5 DEF GuardInv, TypeOK
  <2>3. record'[a] = Written(t, Both("none"))'
    BY <2>1, <2>2, <1>4 DEF Written
  <2>. QED  BY <1>1, <1>2, <1>4, <1>6, <2>3 DEF StillSo, CallOf, Participants
<1>8. Settled'
  <2>1. AttemptOK(a)'  BY <1>2, <1>4, <1>6, AtWork
  <2>2. \A b \in Attempts \ {a} : record'[b] = record[b]
    BY <1>2, <1>5 DEF GuardInv, TypeOK
  <2>3. Concerns(t, a)  BY <1>2, <1>3, <1>4, <1>6, <2>2 DEF Concerns
  <2>. QED  BY <1>2, <1>7, <2>1, <2>3, Handled
<1>9. TimerHasSession'  BY <1>6 DEF MemoryInv, TimerHasSession
<1>10. GoneIsNoticed'
  <2>1. \A u \in Users, c \in Calls, v \in Tasks : Visits(v, u, c) => Visits(v, u, c)'
    BY <1>1, <1>2, <1>3, <1>4 DEF Visits, Idle
  <2>. QED  BY <1>6, <2>1, GoneFrame DEF MemoryInv
<1>. QED  BY <1>8, <1>9, <1>10 DEF MemoryInv, Settled

LEMMA MemoryUpdate ==
  ASSUME InMemory, GuardInv, MemoryInv, NEW t \in Tasks, NEW side \in Sides,
         UpdateRecord(t, side)
  PROVE  MemoryInv'
<1>0. PICK a : a = task[t].held.attempt  OBVIOUS
<1>. USE <1>0
<1>1. task[t].pc \in {"accept", "finish"} /\ side \in task[t].todo
  BY DEF UpdateRecord, CanRun
<1>2. /\ \A u \in Tasks \ {t} : task[u] = Idle
      /\ task[t].held # None /\ a \in Attempts /\ a \in placed /\ StillSo(t)
  BY <1>1, Holding
<1>3. /\ \A u \in Tasks \ {t} : task'[u] = Idle
      /\ task'[t] = [task[t] EXCEPT !.todo = @ \ {side}]
  BY <1>2, Replaced DEF UpdateRecord, GuardInv
<1>4. /\ task'[t].pc = task[t].pc /\ task'[t].home = task[t].home
      /\ task'[t].held = task[t].held /\ task'[t].todo = task[t].todo \ {side}
      /\ task'[t].plan = task[t].plan /\ task'[t].queue = task[t].queue
      /\ task'[t].gone = task[t].gone
  BY <1>3, TaskType DEF GuardInv, TaskState
<1>5. \E status \in {"ringing", "accepted"} :
        /\ record[a] = Written(t, Both(status))
        /\ task[t].pc = "finish" => Both(status) = OpenPair(task[t].held)
  BY <1>1, <1>2 DEF StillSo, OpenPair
<1>6. PICK status \in {"ringing", "accepted"} :
        /\ record[a] = Written(t, Both(status))
        /\ task[t].pc = "finish" => Both(status) = OpenPair(task[t].held)
  BY <1>5
<1>7. record[a][side] # "none"
  BY <1>1, <1>6 DEF Written, Both
<1>8. record' = [record EXCEPT ![a][side] = task[t].plan[side]]
  BY <1>7 DEF UpdateRecord, UpdateCall
<1>9. UNCHANGED << local, timer, placed, connected, offlineDue, blocked >>
  BY DEF UpdateRecord
<1>10. record'[a] = Written(t, Both(status))'
  <2>1. record'[a] = [record[a] EXCEPT ![side] = task[t].plan[side]]
    BY <1>2, <1>8 DEF GuardInv, TypeOK
  <2>. QED  BY <1>6, <2>1, <1>4 DEF Written
<1>11. StillSo(t)'
  <2>1. task[t].pc = "finish" => record'[a] = Written(t, OpenPair(task[t].held))'
    BY <1>4, <1>6, <1>10 DEF Written
  <2>2. task[t].pc = "accept" =>
          \E st \in {"ringing", "accepted"} : record'[a] = Written(t, Both(st))'
    BY <1>10
  <2>. QED
    BY <1>1, <1>2, <1>4, <1>9, <2>1, <2>2 DEF StillSo, CallOf, EndingsOf
<1>12. Settled'
  <2>1. AttemptOK(a)'  BY <1>2, <1>4, <1>9, AtWork
  <2>2. \A b \in Attempts \ {a} : record'[b] = record[b]
    BY <1>2, <1>8 DEF GuardInv, TypeOK
  <2>3. Concerns(t, a)  BY <1>1, <1>2, <1>3, <1>4, <1>9, <2>2 DEF Concerns
  <2>. QED  BY <1>2, <1>11, <2>1, <2>3, Handled
<1>13. TimerHasSession'  BY <1>9 DEF MemoryInv, TimerHasSession
<1>14. GoneIsNoticed'
  <2>1. \A u \in Users, c \in Calls, v \in Tasks : Visits(v, u, c) => Visits(v, u, c)'
    BY <1>1, <1>2, <1>3, <1>4 DEF Visits, Idle
  <2>. QED  BY <1>9, <2>1, GoneFrame DEF MemoryInv
<1>. QED  BY <1>12, <1>13, <1>14 DEF MemoryInv, Settled

LEMMA MemoryRing ==
  ASSUME InMemory, GuardInv, MemoryInv, NEW t \in Tasks, RingCallee(t)
  PROVE  MemoryInv'
<1>0. PICK a : a = task[t].held.attempt  OBVIOUS
<1>. USE <1>0
<1>. DEFINE held == task[t].held
            h    == task[t].home
            d    == CallOf(held)
<1>1. task[t].pc = "create" /\ task[t].todo = {} /\ task[t].plan = Both("ringing")
  BY DEF RingCallee, CanRun
<1>2. /\ \A u \in Tasks \ {t} : task[u] = Idle
      /\ h \in Instances /\ \A i \in Instances : i = h
      /\ held # None /\ a \in Attempts /\ a \in placed /\ StillSo(t)
      /\ d \in Calls /\ d = CallId[a]
  BY <1>1, Holding
<1>3. /\ \A u \in Tasks \ {t} : task'[u] = Idle
      /\ task'[t] = [task[t] EXCEPT !.pc = "arm"]
  BY <1>2, Replaced DEF RingCallee, GuardInv
<1>4. /\ task'[t].pc = "arm" /\ task'[t].home = h /\ task'[t].held = held
      /\ task'[t].queue = task[t].queue
  BY <1>3, TaskType DEF GuardInv, TaskState
<1>5. \A i \in Instances, c \in Calls :
        local'[i][c] = IF i = h /\ c = d THEN held ELSE local[i][c]
  BY <1>2 DEF RingCallee, StoreActiveCall, GuardInv, TypeOK
<1>6. UNCHANGED << record, timer, placed, connected, offlineDue, blocked >>
  BY DEF RingCallee
<1>7. /\ local[h][d] = None /\ ~held.accepted
      /\ Participants(held) \subseteq connected /\ task[t].queue = {}
      /\ record[a] = Written(t, Both("none"))
  <2>1. Both("ringing") # Both("missed")
    <3>1. Both("ringing")["outgoing"] # Both("missed")["outgoing"]
      BY DEF Both, Sides
    <3>. QED  BY <3>1
  <2>. QED  BY <1>1, <1>2, <2>1 DEF StillSo
<1>8. record[a] = OpenPair(held)
  BY <1>1, <1>7 DEF Written, OpenPair, Both
<1>9. StillSo(t)'
  BY <1>2, <1>4, <1>5, <1>6, <1>7, <1>8 DEF StillSo, CallOf, OpenPair
<1>10. Settled'
  <2>1. AttemptOK(a)'  BY <1>2, <1>4, <1>6, AtWork
  <2>2. \A i \in Instances, c \in Calls :
          \/ local'[i][c] = local[i][c]
          \/ local[i][c] = None /\ local'[i][c].attempt = a
    BY <1>5, <1>7
  <2>3. \A u \in Tasks \ {t} : task[u] = Idle /\ task'[u] = Idle
    BY <1>2, <1>3
  <2>4. Concerns(t, a)  BY <1>4, <1>6, <2>2, <2>3 DEF Concerns
  <2>. QED  BY <1>2, <1>9, <2>1, <2>4, Handled
<1>11. TimerHasSession'  BY <1>2, <1>5, <1>6 DEF MemoryInv, TimerHasSession
<1>12. GoneIsNoticed'
  <2>. SUFFICES ASSUME NEW i \in Instances, NEW c \in Calls, NEW u \in Users,
                       local'[i][c] # None, u \in Participants(local'[i][c]) \ connected'
                PROVE  u \in offlineDue' \/ \E v \in Tasks : Visits(v, u, c)'
    BY DEF GoneIsNoticed, Participants
  <2>1. local'[i][c] = local[i][c]  BY <1>5, <1>6, <1>7
  <2>2. u \in offlineDue \/ \E v \in Tasks : Visits(v, u, c)
    BY <1>6, <2>1 DEF MemoryInv, GoneIsNoticed
  <2>3. \A v \in Tasks : ~Visits(v, u, c)
    BY <1>1, <1>2, <1>7 DEF Visits, Idle
  <2>. QED  BY <1>6, <2>2, <2>3
<1>. QED  BY <1>10, <1>11, <1>12 DEF MemoryInv, Settled

\* A handler lets go of a session as it found it.
LEMMA Released ==
  ASSUME InMemory, GuardInv, MemoryInv, NEW t \in Tasks,
         task[t].pc \in {"arm", "acceptCheck", "rejectCheck", "accept"},
         record[task[t].held.attempt] = OpenPair(task[t].held),
         Become(t, Idle),
         UNCHANGED << record, local, placed, connected, offlineDue >>
  PROVE  Settled' /\ GoneIsNoticed'
<1>0. PICK a : a = task[t].held.attempt  OBVIOUS
<1>. USE <1>0
<1>. DEFINE held == task[t].held
<1>1. /\ \A u \in Tasks \ {t} : task[u] = Idle
      /\ \A i \in Instances : i = task[t].home
      /\ held # None /\ a \in Attempts /\ a \in placed /\ StillSo(t)
      /\ CallOf(held) = CallId[a]
  BY Holding
<1>2. task'[t] = Idle /\ \A u \in Tasks \ {t} : task'[u] = Idle
  BY <1>1, Replaced DEF GuardInv
<1>3. held = local[task[t].home][CallId[a]] /\ task[t].queue = {}
  BY <1>1 DEF StillSo
<1>4. StillSo(t)'  BY <1>2 DEF StillSo, Idle
<1>5. AttemptOK(a)'
  <2>1. ASSUME NEW i \in Instances
        PROVE  Stores(i, a)' /\ local'[i][CallId[a]] = held
    <3>1. i = task[t].home  BY <1>1
    <3>2. local'[i][CallId[a]] = held  BY <1>3, <3>1
    <3>. QED  BY <1>1, <3>2 DEF Stores
  <2>2. \A i \in Instances : record'[a] = OpenPair(local[i][CallId[a]])'
    BY <2>1 DEF OpenPair
  <2>3. ~(a \in placed' /\ \A i \in Instances : ~Stores(i, a)')
    BY <1>1, <2>1, Holding
  <2>4. a \in placed'  BY <1>1
  <2>. QED  BY <2>2, <2>3, <2>4 DEF AttemptOK
<1>6. Settled'
  <2>1. task'[t].held = None  BY <1>2 DEF Idle
  <2>2. Concerns(t, a)  BY <1>1, <1>2, <2>1 DEF Concerns
  <2>. QED  BY <1>1, <1>4, <1>5, <2>2, Handled
<1>7. GoneIsNoticed'
  <2>1. \A u \in Users, c \in Calls : ~Visits(t, u, c)
    BY <1>3 DEF Visits
  <2>2. \A u \in Users, c \in Calls, v \in Tasks \ {t} : ~Visits(v, u, c)
    BY <1>1 DEF Visits, Idle
  <2>. QED  BY <2>1, <2>2, GoneFrame DEF MemoryInv
<1>. QED  BY <1>6, <1>7

LEMMA MemoryArm ==
  ASSUME InMemory, GuardInv, MemoryInv, NEW t \in Tasks, ArmCallTimeout(t)
  PROVE  MemoryInv'
<1>1. task[t].pc = "arm"  BY DEF ArmCallTimeout, CanRun
<1>2. task[t].held = local[task[t].home][CallOf(task[t].held)] /\ task[t].held # None
      /\ record[task[t].held.attempt] = OpenPair(task[t].held)
  BY <1>1, Holding DEF StillSo
<1>3. TimerHasSession'
  BY <1>2 DEF MemoryInv, TimerHasSession, ArmCallTimeout, GuardInv, TypeOK
<1>. QED  BY <1>1, <1>2, <1>3, Released DEF MemoryInv, Settled, ArmCallTimeout

LEMMA MemoryRefuse ==
  ASSUME InMemory, GuardInv, MemoryInv, NEW t \in Tasks, Refuse(t)
  PROVE  MemoryInv'
<1>1. task[t].pc \in {"acceptCheck", "rejectCheck"}  BY DEF Refuse, CanRun
<1>2. record[task[t].held.attempt] = OpenPair(task[t].held)
  BY <1>1, Holding DEF StillSo
<1>3. TimerHasSession'  BY DEF MemoryInv, TimerHasSession, Refuse
<1>. QED  BY <1>1, <1>2, <1>3, Released DEF MemoryInv, Settled, Refuse

\* The session that is stored again is stored already.
LEMMA MemoryAcceptStore ==
  ASSUME InMemory, GuardInv, MemoryInv, NEW t \in Tasks, AcceptStore(t)
  PROVE  MemoryInv'
<1>1. task[t].pc = "accept" /\ task[t].todo = {}  BY DEF AcceptStore, CanRun
<1>2. StillSo(t)  BY <1>1, Holding
<1>3. task[t].held.accepted  BY <1>1 DEF GuardInv, TasksOK
<1>4. record[task[t].held.attempt] = OpenPair(task[t].held)
  BY <1>1, <1>2, <1>3 DEF StillSo, Written, OpenPair, Both
<1>5. local' = local
  BY <1>1, <1>2 DEF StillSo, AcceptStore, StoreActiveCall, GuardInv, TypeOK
<1>6. TimerHasSession'  BY <1>5 DEF MemoryInv, TimerHasSession, AcceptStore
<1>. QED  BY <1>1, <1>4, <1>5, <1>6, Released DEF MemoryInv, Settled, AcceptStore

LEMMA MemoryUnavailable ==
  ASSUME InMemory, GuardInv, MemoryInv, NEW t \in Tasks, ReportUnavailable(t)
  PROVE  MemoryInv'
<1>0. PICK a : a = task[t].held.attempt  OBVIOUS
<1>. USE <1>0
<1>1. task[t].pc = "create" /\ task[t].todo = {} /\ task[t].plan = Both("missed")
  BY DEF ReportUnavailable, CanRun
<1>2. /\ \A u \in Tasks \ {t} : task[u] = Idle
      /\ \A i \in Instances : i = task[t].home
      /\ task[t].held # None /\ a \in Attempts /\ a \in placed /\ StillSo(t)
      /\ CallOf(task[t].held) = CallId[a]
  BY <1>1, Holding
<1>3. task'[t] = Idle /\ \A u \in Tasks \ {t} : task'[u] = Idle
  BY <1>2, Replaced DEF GuardInv, ReportUnavailable
<1>4. UNCHANGED << record, local, timer, placed, connected, offlineDue >>
  BY DEF ReportUnavailable
<1>5. StillSo(t)'  BY <1>3 DEF StillSo, Idle
<1>6. AttemptOK(a)'
  <2>1. record[a] = FinishPlan("missed")
    BY <1>1, <1>2 DEF StillSo, Written, FinishPlan, Both
  <2>2. ASSUME NEW i \in Instances PROVE ~Stores(i, a)'
    <3>1. i = task[t].home /\ local[task[t].home][CallId[a]] = None
      BY <1>1, <1>2 DEF StillSo
    <3>. QED  BY <1>4, <3>1 DEF Stores
  <2>. QED  BY <1>2, <1>4, <2>1, <2>2 DEF AttemptOK, ClosedPairs
<1>7. Settled'
  <2>1. task'[t].held = None  BY <1>3 DEF Idle
  <2>2. Concerns(t, a)  BY <1>2, <1>3, <1>4, <2>1 DEF Concerns
  <2>. QED  BY <1>2, <1>5, <1>6, <2>2, Handled
<1>8. TimerHasSession'  BY <1>4 DEF MemoryInv, TimerHasSession
<1>9. GoneIsNoticed'
  <2>1. \A u \in Users, c \in Calls, v \in Tasks : ~Visits(v, u, c)
    BY <1>1, <1>2 DEF Visits, Idle, StillSo
  <2>. QED  BY <1>4, <2>1, GoneFrame DEF MemoryInv
<1>. QED  BY <1>7, <1>8, <1>9 DEF MemoryInv, Settled

LEMMA OnwardFields ==
  ASSUME NEW t \in Tasks, NEW rest
  PROVE  /\ Onward(t, rest).pc \in {"idle", "sweep"} /\ Onward(t, rest).held = None
         /\ Onward(t, rest).queue = rest
         /\ Onward(t, rest).pc = "idle" => Onward(t, rest) = Idle
  BY DEF Onward, Idle

LEMMA MemoryFinishDone ==
  ASSUME InMemory, GuardInv, MemoryInv, NEW t \in Tasks, FinishDone(t)
  PROVE  MemoryInv'
<1>0. PICK a : a = task[t].held.attempt  OBVIOUS
<1>. USE <1>0
<1>. DEFINE held == task[t].held
            h    == task[t].home
            d    == CallOf(held)
<1>1. task[t].pc = "finish" /\ task[t].todo = {}  BY DEF FinishDone, CanRun
<1>2. /\ \A u \in Tasks \ {t} : task[u] = Idle
      /\ h \in Instances /\ \A i \in Instances : i = h
      /\ held # None /\ a \in Attempts /\ a \in placed /\ StillSo(t)
      /\ d \in Calls /\ d = CallId[a]
  BY <1>1, Holding
<1>3. /\ task'[t] = Onward(t, task[t].queue)
      /\ \A u \in Tasks \ {t} : task'[u] = Idle
  BY <1>2, Replaced DEF GuardInv, FinishDone
<1>4. /\ task'[t].pc \in {"idle", "sweep"} /\ task'[t].held = None
      /\ task'[t].queue = task[t].queue
      /\ task'[t].pc = "idle" => task'[t] = Idle
  BY <1>3, OnwardFields
<1>5. \A i \in Instances, c \in Calls :
        local'[i][c] = IF c = d THEN None ELSE local[i][c]
  BY <1>2 DEF FinishDone, RemoveActiveCall, GuardInv, TypeOK
<1>6. UNCHANGED << record, timer, placed, connected, offlineDue, blocked >>
  BY DEF FinishDone
<1>7. StillSo(t)'  BY <1>4 DEF StillSo, Idle
<1>8. AttemptOK(a)'
  <2>1. record[a] = task[t].plan /\ task[t].plan \in EndingsOf(held)
    BY <1>1, <1>2 DEF StillSo, Written, GuardInv, TypeOK, TaskState
  <2>2. record[a] \in ClosedPairs
    BY <2>1, HangUpType DEF EndingsOf, ClosedPairs
  <2>3. ASSUME NEW i \in Instances PROVE ~Stores(i, a)'
    <3>1. local'[i][CallId[a]] = None  BY <1>2, <1>5
    <3>. QED  BY <3>1 DEF Stores
  <2>. QED  BY <1>2, <1>6, <2>2, <2>3 DEF AttemptOK
<1>9. Settled'
  <2>1. \A i \in Instances, c \in Calls :
          \/ local'[i][c] = local[i][c]
          \/ /\ local[i][c] # None => local[i][c].attempt = a
             /\ local'[i][c] = None
    BY <1>1, <1>2, <1>5 DEF StillSo
  <2>2. \A u \in Tasks \ {t} : task[u] = Idle /\ task'[u] = Idle
    BY <1>2, <1>3
  <2>3. Concerns(t, a)  BY <1>4, <1>6, <2>1, <2>2 DEF Concerns
  <2>. QED  BY <1>2, <1>7, <1>8, <2>3, Handled
<1>10. TimerHasSession'
  BY <1>1, <1>2, <1>5, <1>6 DEF MemoryInv, TimerHasSession, StillSo
<1>11. GoneIsNoticed'
  <2>1. \A u \in Users, c \in Calls, v \in Tasks :
          c # d /\ Visits(v, u, c) => Visits(t, u, c)'
    BY <1>1, <1>2, <1>4 DEF Visits, Idle
  <2>. QED  BY <1>5, <1>6, <2>1, GoneFrame DEF MemoryInv
<1>. QED  BY <1>9, <1>10, <1>11 DEF MemoryInv, Settled

LEMMA MemoryBeginFinish ==
  ASSUME InMemory, GuardInv, MemoryInv, NEW t \in Tasks, NEW outcome,
         task[t].pc \in {"rejectCheck", "endCheck", "timeout", "sweepFinish"},
         FinishPlan(outcome) \in EndingsOf(task[t].held),
         BeginFinish(t, outcome)
  PROVE  MemoryInv'
<1>0. PICK a : a = task[t].held.attempt  OBVIOUS
<1>. USE <1>0
<1>. DEFINE held == task[t].held
            h    == task[t].home
            d    == CallOf(held)
<1>1. /\ \A u \in Tasks \ {t} : task[u] = Idle
      /\ h \in Instances /\ \A i \in Instances : i = h
      /\ held # None /\ a \in Attempts /\ a \in placed /\ StillSo(t)
      /\ d \in Calls /\ d = CallId[a]
  BY Holding
<1>2. /\ \A u \in Tasks \ {t} : task'[u] = Idle
      /\ task'[t] = [task[t] EXCEPT !.pc = "finish", !.todo = Sides,
                                    !.plan = FinishPlan(outcome)]
  BY <1>1, Replaced DEF BeginFinish, GuardInv
<1>3. /\ task'[t].pc = "finish" /\ task'[t].home = h /\ task'[t].held = held
      /\ task'[t].todo = Sides /\ task'[t].plan = FinishPlan(outcome)
      /\ task'[t].queue = task[t].queue
  BY <1>2, TaskType DEF GuardInv, TaskState
<1>4. UNCHANGED << record, local, placed, connected, offlineDue, blocked >>
  BY DEF BeginFinish
<1>5. \A i \in Instances, c \in Calls :
        timer'[i][c] = IF c = d THEN FALSE ELSE timer[i][c]
  BY <1>1 DEF BeginFinish, GuardInv, TypeOK
<1>6. StillSo(t)'
  <2>1. record[a] = OpenPair(held) /\ held = local[h][d]
    BY <1>1 DEF StillSo
  <2>2. OpenPair(held) = Written(t, OpenPair(held))'
    BY <1>3 DEF Written, OpenPair, Both
  <2>3. CallOf(held) = d /\ ~timer'[h][d]  BY <1>1, <1>5
  <2>. QED
    BY <1>1, <1>3, <1>4, <2>1, <2>2, <2>3 DEF StillSo, CallOf, EndingsOf, OpenPair
<1>7. Settled'
  <2>1. AttemptOK(a)'  BY <1>1, <1>3, <1>4, AtWork
  <2>2. \A u \in Tasks \ {t} : task[u] = Idle /\ task'[u] = Idle
    BY <1>1, <1>2
  <2>3. Concerns(t, a)  BY <1>3, <1>4, <2>2 DEF Concerns
  <2>. QED  BY <1>1, <1>6, <2>1, <2>3, Handled
<1>8. TimerHasSession'  BY <1>4, <1>5 DEF MemoryInv, TimerHasSession
<1>9. GoneIsNoticed'
  <2>1. \A u \in Users, c \in Calls, v \in Tasks : Visits(v, u, c) => Visits(v, u, c)'
    <3>1. \A v \in Tasks \ {t} : task'[v] = task[v]  BY <1>1, <1>2
    <3>. QED  BY <1>3, <3>1 DEF Visits, CallOf
  <2>. QED  BY <1>4, <2>1, GoneFrame DEF MemoryInv
<1>. QED  BY <1>7, <1>8, <1>9 DEF MemoryInv, Settled

LEMMA HangUpEndings ==
  ASSUME NEW session
  PROVE  \A outcome \in {"missed", "rejected", HangUpOutcome(session)} :
           FinishPlan(outcome) \in EndingsOf(session)
  BY DEF EndingsOf

LEMMA MemoryFinish ==
  ASSUME InMemory, GuardInv, MemoryInv, NEW t \in Tasks,
         RejectFinish(t) \/ EndFinish(t) \/ TimeoutFinish(t) \/ SweepFinish(t)
  PROVE  MemoryInv'
<1>1. CASE RejectFinish(t)
  BY <1>1, MemoryBeginFinish, HangUpEndings DEF RejectFinish, CanRun
<1>2. CASE EndFinish(t)
  BY <1>2, MemoryBeginFinish, HangUpEndings DEF EndFinish, CanRun
<1>3. CASE TimeoutFinish(t)
  BY <1>3, MemoryBeginFinish, HangUpEndings DEF TimeoutFinish, CanRun
<1>4. CASE SweepFinish(t)
  BY <1>4, MemoryBeginFinish, HangUpEndings DEF SweepFinish, CanRun
<1>. QED  BY <1>1, <1>2, <1>3, <1>4

\* An accept touches no other slot: none is in use.
LEMMA AnswerTask ==
  ASSUME InMemory, GuardInv, MemoryInv, NEW t \in Tasks, AcceptAnswer(t)
  PROVE  /\ task'[t] = [task[t] EXCEPT !.pc = "accept", !.todo = Sides,
                                       !.plan = Both("accepted"),
                                       !.held = Answered(@, task[t].held.attempt)]
         /\ \A u \in Tasks \ {t} : task'[u] = Idle
<1>. DEFINE a     == task[t].held.attempt
            reply == [task[t] EXCEPT !.pc = "accept", !.todo = Sides,
                                     !.plan = Both("accepted"),
                                     !.held = Answered(@, a)]
<1>1. task[t].pc = "acceptCheck"  BY DEF AcceptAnswer, CanRun
<1>2. /\ \A u \in Tasks \ {t} : task[u] = Idle
      /\ task[t].home \in Instances
  BY <1>1, Holding
<1>3. task' = [u \in Tasks |->
                IF u = t THEN reply
                ELSE IF task[u].home = task[t].home /\ ~task[u].copy
                  THEN [task[u] EXCEPT !.held = Answered(@, a)]
                  ELSE task[u]]
  BY NoRedis DEF AcceptAnswer
<1>. HIDE DEF reply
<1>4. task'[t] = reply  BY <1>3
<1>5. \A u \in Tasks \ {t} : task'[u] = Idle
  <2>. TAKE u \in Tasks \ {t}
  <2>1. task[u].home # task[t].home
    BY <1>2, IdleFields, CallAssumption
  <2>. QED  BY <1>2, <1>3, <2>1
<1>. QED  BY <1>4, <1>5 DEF reply

LEMMA MemoryAnswer ==
  ASSUME InMemory, GuardInv, MemoryInv, NEW t \in Tasks, AcceptAnswer(t)
  PROVE  MemoryInv'
<1>0. PICK a : a = task[t].held.attempt  OBVIOUS
<1>. USE <1>0
<1>. DEFINE held == task[t].held
            h    == task[t].home
            d    == CallOf(held)
<1>1. task[t].pc = "acceptCheck"  BY DEF AcceptAnswer, CanRun
<1>2. /\ \A u \in Tasks \ {t} : task[u] = Idle
      /\ h \in Instances /\ \A i \in Instances : i = h
      /\ held \in Session /\ held # None
      /\ a \in Attempts /\ a \in placed /\ StillSo(t)
      /\ d \in Calls /\ d = CallId[a]
  BY <1>1, Holding
<1>3. /\ task'[t] = [task[t] EXCEPT !.pc = "accept", !.todo = Sides,
                                     !.plan = Both("accepted"),
                                     !.held = Answered(@, a)]
      /\ local' = [i \in Instances |-> [c \in Calls |-> Answered(local[i][c], a)]]
  <2>1. local \in [Instances -> [Calls -> Session \cup {None}]]
    BY DEF GuardInv, TypeOK
  <2>2. local' = [local EXCEPT ![h] = [c \in Calls |-> Answered(local[h][c], a)]]
    BY NoRedis DEF AcceptAnswer
  <2>3. local' = [i \in Instances |-> [c \in Calls |-> Answered(local[i][c], a)]]
    BY <1>2, <2>1, <2>2
  <2>. QED  BY <2>3, AnswerTask
<1>4. \A u \in Tasks \ {t} : task'[u] = Idle
  BY <1>1, AnswerTask
<1>5. /\ task'[t].pc = "accept" /\ task'[t].home = h
      /\ task'[t].held = Answered(held, a)
      /\ task'[t].todo = Sides /\ task'[t].plan = Both("accepted")
      /\ task'[t].queue = task[t].queue
  BY <1>3, TaskType DEF GuardInv, TaskState
<1>6. /\ Answered(held, a) \in Session /\ Answered(held, a).attempt = a
      /\ Answered(held, a) # None
  BY <1>2, CallAssumption DEF Answered, Session
<1>7. \A i \in Instances, c \in Calls :
        /\ local[i][c] \in Session \cup {None}
        /\ local'[i][c] = Answered(local[i][c], a)
  BY <1>3 DEF GuardInv, TypeOK
<1>8. \A i \in Instances, c \in Calls :
        /\ local'[i][c] # None => local[i][c] # None
        /\ local[i][c] # None => /\ local'[i][c] # None
                                 /\ local'[i][c].attempt = local[i][c].attempt
  <2>1. \A s \in Session :
          /\ Answered(s, a) # None /\ s # None
          /\ Answered(s, a).attempt = s.attempt
    BY CallAssumption DEF Answered, Session
  <2>2. Answered(None, a) = None  BY DEF Answered
  <2>. QED  BY <1>7, <2>1, <2>2
<1>9. UNCHANGED << record, timer, placed, connected, offlineDue, blocked >>
  BY DEF AcceptAnswer
<1>10. StillSo(t)'
  <2>1. /\ record[a] = OpenPair(held) /\ held = local[h][d] /\ task[t].queue = {}
    BY <1>1, <1>2 DEF StillSo
  <2>2. CallOf(Answered(held, a)) = d  BY <1>2, <1>6 DEF CallOf
  <2>3. Answered(held, a) = local'[h][d]
    BY <1>2, <1>7, <2>1
  <2>4. PICK status \in {"ringing", "accepted"} : record[a] = Both(status)
    BY <2>1 DEF OpenPair
  <2>5. record'[a] = Written(t, Both(status))'
    BY <1>5, <1>9, <2>4 DEF Written, Both
  <2>. QED
    BY <1>5, <1>6, <2>1, <2>2, <2>3, <2>5 DEF StillSo, CallOf
<1>11. Settled'
  <2>1. AttemptOK(a)'  BY <1>2, <1>5, <1>6, <1>9, AtWork
  <2>2. \A i \in Instances, c \in Calls :
          \/ local'[i][c] = local[i][c]
          \/ local[i][c].attempt = a /\ local'[i][c].attempt = a
    BY <1>7, <1>8 DEF Answered
  <2>3. \A u \in Tasks \ {t} : task[u] = Idle /\ task'[u] = Idle
    BY <1>2, <1>4
  <2>4. Concerns(t, a)  BY <1>5, <1>6, <1>9, <2>2, <2>3 DEF Concerns
  <2>. QED  BY <1>2, <1>10, <2>1, <2>4, Handled
<1>12. TimerHasSession'  BY <1>8, <1>9 DEF MemoryInv, TimerHasSession
<1>13. GoneIsNoticed'
  <2>1. \A u \in Users, c \in Calls : ~Visits(t, u, c)
    BY <1>1, <1>2 DEF Visits, StillSo
  <2>2. \A u \in Users, c \in Calls, v \in Tasks \ {t} : ~Visits(v, u, c)
    BY <1>2 DEF Visits, Idle
  <2>3. \A i \in Instances, c \in Calls :
          local'[i][c] # None => local[i][c] # None
                                 /\ Participants(local'[i][c]) = Participants(local[i][c])
    BY <1>8 DEF Participants
  <2>. QED  BY <1>9, <2>1, <2>2, <2>3, GoneFrame DEF MemoryInv
<1>. QED  BY <1>11, <1>12, <1>13 DEF MemoryInv, Settled

\* A handler without a session takes up a stored one.
LEMMA PickedUp ==
  ASSUME InMemory, GuardInv, MemoryInv, NEW t \in Tasks, NEW h \in Instances,
         NEW c \in Calls, local[h][c] # None, task[t].held = None,
         \A u \in Tasks \ {t} : task[u] = Idle /\ task'[u] = Idle,
         task'[t].pc \in {"acceptCheck", "rejectCheck", "endCheck", "timeout",
                          "sweepFinish"},
         task'[t].home = h, task'[t].held = local[h][c],
         task'[t].pc # "sweepFinish" => task'[t].queue = {},
         record' = record, local' = local, placed' = placed
  PROVE  Settled'
<1>0. PICK a : a = local[h][c].attempt  OBVIOUS
<1>1. /\ local[h][c] \in Session /\ a \in Attempts
      /\ CallId[a] = c /\ Stores(h, a)
  BY <1>0, StoredAt
<1>2. ~Busy(a)  BY AloneBusy
<1>3. a \in placed /\ record[a] = OpenPair(local[h][c])
  BY <1>1, <1>2 DEF MemoryInv, AttemptOK
<1>4. CallOf(local[h][c]) = c  BY <1>0, <1>1 DEF CallOf
<1>5. StillSo(t)'
  BY <1>0, <1>3, <1>4 DEF StillSo, CallOf, OpenPair
<1>6. AttemptOK(a)'  BY <1>0, <1>1, <1>3, AtWork
<1>7. Concerns(t, a)  BY <1>0 DEF Concerns
<1>. QED  BY <1>1, <1>5, <1>6, <1>7, Handled

LEMMA MemorySweepStart ==
  ASSUME InMemory, GuardInv, MemoryInv, NEW t \in Tasks, SweepStart(t)
  PROVE  MemoryInv'
<1>. DEFINE due == ActiveCallsOf(task[t].home, task[t].gone)
<1>1. task[t].pc = "presence"  BY DEF SweepStart, CanRun
<1>2. /\ \A u \in Tasks \ {t} : task[u] = Idle
      /\ \A i \in Instances : i = task[t].home
      /\ task[t].held = None /\ task[t].queue = {}
  BY <1>1, AloneRuns DEF GuardInv, MemoryInv, StillSo
<1>3. task'[t] = Onward(t, due) /\ \A u \in Tasks \ {t} : task'[u] = Idle
  BY <1>2, Replaced DEF GuardInv, SweepStart
<1>4. /\ task'[t].pc \in {"idle", "sweep"} /\ task'[t].held = None
      /\ task'[t].queue = due
      /\ task'[t].pc = "idle" => task'[t] = Idle
  BY <1>3, OnwardFields
<1>5. UNCHANGED << record, local, timer, placed, connected, offlineDue >>
  BY DEF SweepStart
<1>6. Settled'
  BY <1>2, <1>3, <1>4, <1>5, Unhandled
<1>7. TimerHasSession'  BY <1>5 DEF MemoryInv, TimerHasSession
<1>8. GoneIsNoticed'
  <2>. SUFFICES ASSUME NEW i \in Instances, NEW c \in Calls, NEW u \in Users,
                       local[i][c] # None, u \in Participants(local[i][c]) \ connected
                PROVE  u \in offlineDue \/ \E v \in Tasks : Visits(v, u, c)'
    BY <1>5 DEF GoneIsNoticed, Participants
  <2>1. u \in offlineDue \/ \E v \in Tasks : Visits(v, u, c)
    BY DEF MemoryInv, GoneIsNoticed
  <2>2. ASSUME Visits(t, u, c) PROVE Visits(t, u, c)'
    <3>1. u = task[t].gone  BY <1>1, <1>2, <2>2 DEF Visits
    <3>2. c \in due
      <4>1. i = task[t].home  BY <1>2
      <4>2. local[task[t].home][c] # None
            /\ task[t].gone \in Participants(local[task[t].home][c])
        BY <3>1, <4>1
      <4>. QED  BY <4>1, <4>2, NoRedis DEF ActiveCallsOf
    <3>. QED  BY <1>4, <3>2 DEF Visits
  <2>3. \A v \in Tasks \ {t} : ~Visits(v, u, c)
    BY <1>2 DEF Visits, Idle
  <2>. QED  BY <2>1, <2>2, <2>3
<1>. QED  BY <1>6, <1>7, <1>8 DEF MemoryInv, Settled

LEMMA MemorySweepNext ==
  ASSUME InMemory, GuardInv, MemoryInv, NEW t \in Tasks, NEW c \in Calls,
         SweepNext(t, c)
  PROVE  MemoryInv'
<1>. DEFINE h == task[t].home
            rest == task[t].queue \ {c}
<1>1. task[t].pc = "sweep"  BY DEF SweepNext, CanRun
<1>2. /\ \A u \in Tasks \ {t} : task[u] = Idle
      /\ h \in Instances /\ \A i \in Instances : i = h
      /\ task[t].held = None
  BY <1>1, AloneRuns DEF GuardInv, MemoryInv, StillSo
<1>3. ReadActiveCall(h, c) = local[h][c] /\ FromRedis(h, c) \in BOOLEAN
  BY NoRedis DEF FromRedis
<1>4. UNCHANGED << record, local, timer, placed, connected, offlineDue >>
  BY DEF SweepNext
<1>5. \A u \in Tasks \ {t} : task'[u] = Idle
  BY <1>2, Replaced DEF GuardInv, SweepNext
<1>6. TimerHasSession'  BY <1>4 DEF MemoryInv, TimerHasSession
<1>7. \A u \in Users, d \in Calls :
        Visits(t, u, d) => d = c \/ d \in rest
  BY <1>1 DEF Visits
<1>8. \A u \in Users, d \in Calls, v \in Tasks \ {t} : ~Visits(v, u, d)
  BY <1>2 DEF Visits, Idle
<1>9. CASE local[h][c] = None
  <2>1. task'[t] = Onward(t, rest)
    BY <1>3, <1>9, Replaced DEF GuardInv, SweepNext
  <2>2. /\ task'[t].pc \in {"idle", "sweep"} /\ task'[t].held = None
        /\ task'[t].queue = rest
        /\ task'[t].pc = "idle" => task'[t] = Idle
    BY <2>1, OnwardFields
  <2>3. Settled'
    BY <1>2, <1>4, <1>5, <2>2, Unhandled
  <2>4. GoneIsNoticed'
    <3>1. ASSUME NEW i \in Instances, NEW d \in Calls, NEW u \in Users, NEW v \in Tasks,
                 local'[i][d] # None, Visits(v, u, d)
          PROVE  Visits(t, u, d)'
      <4>1. d # c  BY <1>2, <1>4, <1>9, <3>1
      <4>2. d \in rest  BY <1>7, <1>8, <3>1, <4>1
      <4>. QED  BY <2>2, <4>2 DEF Visits
    <3>. QED  BY <1>4, <3>1, GoneFrame DEF MemoryInv
  <2>. QED  BY <1>6, <2>3, <2>4 DEF MemoryInv, Settled
<1>10. CASE local[h][c] # None
  <2>1. task'[t] = [task[t] EXCEPT !.pc = "sweepFinish", !.held = local[h][c],
                                   !.copy = FromRedis(h, c), !.queue = rest]
    BY <1>3, <1>10, Replaced DEF GuardInv, SweepNext
  <2>2. /\ task'[t].pc = "sweepFinish" /\ task'[t].held = local[h][c]
        /\ task'[t].queue = rest /\ task'[t].home = h
    BY <2>1, TaskType DEF GuardInv, TaskState
  <2>3. Settled'
    BY <1>2, <1>4, <1>5, <1>10, <2>2, PickedUp
  <2>4. GoneIsNoticed'
    <3>1. CallOf(local[h][c]) = c
      BY <1>2, <1>10, StoredAt DEF CallOf
    <3>2. \A d \in Calls, u \in Users : Visits(t, u, d) => Visits(t, u, d)'
      BY <1>7, <2>2, <3>1 DEF Visits, CallOf
    <3>. QED  BY <1>4, <1>8, <3>2, GoneFrame DEF MemoryInv
  <2>. QED  BY <1>6, <2>3, <2>4 DEF MemoryInv, Settled
<1>. QED  BY <1>9, <1>10

-----------------------------------------------------------------------------
(* The steps that find no handler under way. *)

LEMMA NothingVisits ==
  ASSUME \A t \in Tasks : task[t] = Idle
  PROVE  \A t \in Tasks, u \in Users, c \in Calls : ~Visits(t, u, c)
  BY DEF Visits, Idle

LEMMA MemoryStart ==
  ASSUME InMemory, GuardInv, MemoryInv, NEW t \in Tasks, NEW i \in Instances,
         NEW a \in Attempts, CallStart(t, i, a)
  PROVE  MemoryInv'
<1>. DEFINE held == [attempt |-> a, accepted |-> FALSE]
            plan == Both(IF Callee[a] \in connected THEN "ringing" ELSE "missed")
<1>1. \A u \in Tasks : task[u] = Idle
  BY NoneRuns DEF CallStart, GuardInv, MemoryInv
<1>2. /\ \A u \in Tasks \ {t} : task'[u] = Idle
      /\ task'[t] = [Idle EXCEPT !.pc = "create", !.home = i, !.todo = Sides,
                                 !.held = held, !.plan = plan]
  BY <1>1, Replaced DEF CallStart, GuardInv
<1>3. /\ task'[t].pc = "create" /\ task'[t].home = i /\ task'[t].todo = Sides
      /\ task'[t].held = held /\ task'[t].plan = plan /\ task'[t].queue = {}
  <2>. HIDE DEF held, plan
  <2>. QED  BY <1>2 DEF Idle
<1>4. UNCHANGED << record, local, timer, connected, offlineDue, blocked >>
      /\ placed' = placed \cup {a}
  BY DEF CallStart
<1>5. /\ record[a] = Both("none") /\ local[i][CallId[a]] = None
      /\ Caller[a] \in connected /\ {Caller[a], Callee[a]} \notin blocked
  <2>1. CallId[a] \in Calls  BY CallAssumption
  <2>2. a \notin placed /\ ReadActiveCall(i, CallId[a]) = None
        /\ Caller[a] \in connected /\ {Caller[a], Callee[a]} \notin blocked
    BY DEF CallStart, Pair
  <2>3. AttemptOK(a)  BY DEF MemoryInv
  <2>. QED  BY <2>1, <2>2, <2>3, ReadNone DEF AttemptOK
<1>6. held.attempt = a /\ held.accepted = FALSE /\ held # None
  <2>1. held \in Session  BY DEF Session
  <2>2. held.attempt = a /\ held.accepted = FALSE  OBVIOUS
  <2>3. held # None  BY <2>1, CallAssumption
  <2>. QED  BY <2>2, <2>3
<1>7. StillSo(t)'
  <2>1. record'[a] = Written(t, Both("none"))'
    BY <1>3, <1>4, <1>5 DEF Written, Both
  <2>2. \/ plan = Both("missed")
        \/ plan = Both("ringing") /\ {Caller[a], Callee[a]} \subseteq connected
    BY <1>5
  <2>. HIDE DEF held, plan
  <2>. QED
    BY <1>3, <1>4, <1>5, <1>6, <2>1, <2>2 DEF StillSo, CallOf, Participants
<1>8. Settled'
  <2>1. AttemptOK(a)'  BY <1>3, <1>4, <1>6, AtWork
  <2>2. \A u \in Tasks \ {t} : task[u] = Idle /\ task'[u] = Idle
    BY <1>1, <1>2
  <2>3. task[t].held = None  BY <1>1 DEF Idle
  <2>. HIDE DEF held
  <2>4. Concerns(t, a)
    BY <1>3, <1>4, <1>6, <2>2, <2>3 DEF Concerns
  <2>. QED  BY <1>7, <2>1, <2>4, Handled
<1>9. TimerHasSession'  BY <1>4 DEF MemoryInv, TimerHasSession
<1>10. GoneIsNoticed'  BY <1>1, <1>4, NothingVisits, GoneFrame DEF MemoryInv
<1>. QED  BY <1>8, <1>9, <1>10 DEF MemoryInv, Settled

\* A request or the ring timer takes up a stored session.
LEMMA MemoryTakeUp ==
  ASSUME InMemory, GuardInv, MemoryInv, NEW t \in Tasks, NEW h \in Instances,
         NEW c \in Calls, CanStart(t, h), local[h][c] # None,
         NEW pc \in {"acceptCheck", "rejectCheck", "endCheck", "timeout"}, NEW copy,
         Become(t, [Idle EXCEPT !.pc = pc, !.home = h, !.held = local[h][c],
                                !.copy = copy]),
         UNCHANGED << record, local, placed, connected, offlineDue >>
  PROVE  Settled' /\ GoneIsNoticed'
<1>1. \A u \in Tasks : task[u] = Idle
  BY NoneRuns DEF GuardInv, MemoryInv
<1>2. /\ \A u \in Tasks \ {t} : task'[u] = Idle
      /\ task'[t] = [Idle EXCEPT !.pc = pc, !.home = h, !.held = local[h][c],
                                 !.copy = copy]
  BY <1>1, Replaced DEF GuardInv
<1>3. /\ task'[t].pc = pc /\ task'[t].home = h /\ task'[t].held = local[h][c]
      /\ task'[t].queue = {} /\ task[t].held = None
  BY <1>1, <1>2 DEF Idle
<1>4. \A u \in Tasks \ {t} : task[u] = Idle /\ task'[u] = Idle
  BY <1>1, <1>2
<1>5. record' = record /\ local' = local /\ placed' = placed
  OBVIOUS
<1>6. Settled'  BY <1>3, <1>4, <1>5, PickedUp
<1>7. GoneIsNoticed'  BY <1>1, NothingVisits, GoneFrame DEF MemoryInv
<1>. QED  BY <1>6, <1>7

LEMMA MemoryRequest ==
  ASSUME InMemory, GuardInv, MemoryInv, NEW t \in Tasks, NEW i \in Instances,
         NEW c \in Calls,
         AcceptRequest(t, i, c) \/ RejectRequest(t, i, c) \/ EndRequest(t, i, c)
  PROVE  MemoryInv'
<1>1. PICK pc \in {"acceptCheck", "rejectCheck", "endCheck"} :
        \E senders : OpenSession(t, i, c, senders, pc)
  BY DEF AcceptRequest, RejectRequest, EndRequest
<1>2. PICK senders : OpenSession(t, i, c, senders, pc)
  BY <1>1
<1>3. ReadActiveCall(i, c) = local[i][c]  BY NoRedis
<1>4. Settled' /\ GoneIsNoticed'
  BY <1>2, <1>3, MemoryTakeUp DEF OpenSession
<1>5. TimerHasSession'
  BY <1>2 DEF OpenSession, MemoryInv, TimerHasSession
<1>. QED  BY <1>4, <1>5 DEF MemoryInv, Settled

LEMMA MemoryTimeout ==
  ASSUME InMemory, GuardInv, MemoryInv, NEW t \in Tasks, NEW i \in Instances,
         NEW c \in Calls, RingTimeout(t, i, c)
  PROVE  MemoryInv'
<1>1. ReadActiveCall(i, c) = local[i][c]  BY NoRedis
<1>2. Settled' /\ GoneIsNoticed'
  BY <1>1, MemoryTakeUp DEF RingTimeout
<1>3. TimerHasSession'
  BY DEF RingTimeout, MemoryInv, TimerHasSession, GuardInv, TypeOK
<1>. QED  BY <1>2, <1>3 DEF MemoryInv, Settled

\* No armed timer finds its session gone.
LEMMA NeverStale ==
  ASSUME InMemory, GuardInv, MemoryInv, NEW t \in Tasks, NEW i \in Instances, NEW c \in Calls
  PROVE  ~StaleTimeout(t, i, c)
  BY NoRedis DEF StaleTimeout, MemoryInv, TimerHasSession

\* A step that leaves calls and handlers alone.
LEMMA Untouched ==
  ASSUME MemoryInv, UNCHANGED << record, local, timer, task, placed >>,
         (\A t \in Tasks : task[t] = Idle) \/ UNCHANGED << connected, blocked >>
  PROVE  Settled' /\ TimerHasSession'
<1>1. OneRuns' /\ TimerHasSession'
  BY DEF MemoryInv, OneRuns, TimerHasSession
<1>2. ASSUME NEW a \in Attempts PROVE AttemptOK(a)'
  <2>1. Busy(a)' <=> Busy(a)  BY DEF Busy
  <2>2. \A i \in Instances : Stores(i, a)' <=> Stores(i, a)  BY DEF Stores
  <2>3. record'[a] = record[a] /\ (a \in placed' <=> a \in placed)  OBVIOUS
  <2>. QED  BY <2>1, <2>2, <2>3, AttemptFrame DEF MemoryInv
<1>3. ASSUME NEW t \in Tasks PROVE StillSo(t)'
  <2>1. CASE task[t] = Idle  BY <2>1 DEF StillSo, Idle
  <2>2. CASE UNCHANGED << connected, blocked >>
    <3>1. StillSo(t)  BY DEF MemoryInv
    <3>2. task' = task /\ record' = record /\ local' = local /\ timer' = timer
          /\ placed' = placed /\ connected' = connected /\ blocked' = blocked
      BY <2>2
    <3>3. \A before : Written(t, before)' = Written(t, before)
      BY <3>2 DEF Written
    <3>. QED
      BY <3>1, <3>2, <3>3 DEF StillSo, CallOf, Participants, OpenPair, EndingsOf
  <2>. QED  BY <2>1, <2>2
<1>. QED  BY <1>1, <1>2, <1>3 DEF Settled

LEMMA MemorySockets ==
  ASSUME InMemory, GuardInv, MemoryInv, NEW u \in Users, Connect(u) \/ Disconnect(u)
  PROVE  MemoryInv'
<1>1. \A t \in Tasks : task[t] = Idle
  BY NoneRuns DEF Connect, Disconnect, GuardInv, MemoryInv
<1>2. UNCHANGED << record, local, timer, task, placed >>
  BY DEF Connect, Disconnect
<1>3. Settled' /\ TimerHasSession'  BY <1>1, <1>2, Untouched
<1>4. GoneIsNoticed'
  <2>. SUFFICES ASSUME NEW i \in Instances, NEW c \in Calls, NEW v \in Users,
                       local[i][c] # None, v \in Participants(local[i][c]) \ connected'
                PROVE  v \in offlineDue'
    BY <1>2 DEF GoneIsNoticed, Participants
  <2>1. v \notin connected => v \in offlineDue
    BY <1>1, NothingVisits DEF MemoryInv, GoneIsNoticed
  <2>. QED  BY <2>1 DEF Connect, Disconnect
<1>. QED  BY <1>3, <1>4 DEF MemoryInv, Settled

LEMMA MemoryBlock ==
  ASSUME InMemory, GuardInv, MemoryInv, NEW a \in Attempts, Block(a) \/ Unblock(a)
  PROVE  MemoryInv'
<1>1. \A t \in Tasks : task[t] = Idle
  BY NoneRuns DEF Block, Unblock, GuardInv, MemoryInv
<1>2. UNCHANGED << record, local, timer, task, placed, connected, offlineDue >>
  BY DEF Block, Unblock
<1>3. Settled' /\ TimerHasSession'  BY <1>1, <1>2, Untouched
<1>4. GoneIsNoticed'  BY <1>1, <1>2, NothingVisits, GoneFrame DEF MemoryInv
<1>. QED  BY <1>3, <1>4 DEF MemoryInv, Settled

LEMMA MemoryOffline ==
  ASSUME InMemory, GuardInv, MemoryInv, NEW t \in Tasks, NEW h \in Instances,
         NEW u \in Users, GoOffline(t, h, u)
  PROVE  MemoryInv'
<1>1. \A v \in Tasks : task[v] = Idle
  BY NoneRuns DEF GoOffline, GuardInv, MemoryInv
<1>2. /\ \A v \in Tasks \ {t} : task'[v] = Idle
      /\ task'[t] = [Idle EXCEPT !.pc = "presence", !.home = h, !.gone = u]
  BY <1>1, Replaced DEF GoOffline, GuardInv
<1>3. /\ task'[t].pc = "presence" /\ task'[t].gone = u /\ task'[t].held = None
      /\ task'[t].queue = {} /\ task[t].held = None
  BY <1>1, <1>2 DEF Idle
<1>4. UNCHANGED << record, local, timer, placed, connected >>
  BY DEF GoOffline
<1>5. \A v \in Tasks \ {t} : task[v] = Idle /\ task'[v] = Idle
  BY <1>1, <1>2
<1>6. Settled'  BY <1>3, <1>4, <1>5, Unhandled
<1>7. TimerHasSession'  BY <1>4 DEF MemoryInv, TimerHasSession
<1>8. GoneIsNoticed'
  <2>. SUFFICES ASSUME NEW i \in Instances, NEW c \in Calls, NEW v \in Users,
                       local[i][c] # None, v \in Participants(local[i][c]) \ connected
                PROVE  v \in offlineDue' \/ \E w \in Tasks : Visits(w, v, c)'
    BY <1>4 DEF GoneIsNoticed, Participants
  <2>1. v \in offlineDue
    BY <1>1, NothingVisits DEF MemoryInv, GoneIsNoticed
  <2>2. v = u => Visits(t, v, c)'  BY <1>3 DEF Visits
  <2>3. v # u => v \in offlineDue'  BY <2>1 DEF GoOffline
  <2>. QED  BY <2>2, <2>3
<1>. QED  BY <1>6, <1>7, <1>8 DEF MemoryInv, Settled

LEMMA MemoryStutter ==
  ASSUME MemoryInv,
         UNCHANGED << record, local, timer, task, placed, connected, offlineDue, blocked >>
  PROVE  MemoryInv'
<1>1. Settled' /\ TimerHasSession'  BY Untouched
<1>2. \A t \in Tasks, u \in Users, c \in Calls : Visits(t, u, c) => Visits(t, u, c)'
  BY DEF Visits, CallOf
<1>3. GoneIsNoticed'  BY <1>2, GoneFrame DEF MemoryInv
<1>. QED  BY <1>1, <1>3 DEF MemoryInv, Settled

-----------------------------------------------------------------------------
(* The invariant, and what it is for. *)

LEMMA MemoryTaskStep ==
  ASSUME InMemory, GuardInv, MemoryInv, NEW t \in Tasks, TaskStep(t)
  PROVE  MemoryInv'
  BY MemoryCreate, MemoryUpdate, MemoryRing, MemoryUnavailable, MemoryArm,
     MemoryFinishDone, MemoryRefuse, MemoryAnswer, MemoryAcceptStore, MemoryFinish,
     MemorySweepStart, MemorySweepNext
  DEF TaskStep

LEMMA MemoryStep ==
  ASSUME InMemory, GuardInv, MemoryInv, [Next]_vars
  PROVE  MemoryInv'
<1>1. ASSUME NEW t \in Tasks, TaskStep(t) PROVE MemoryInv'
  BY <1>1, MemoryTaskStep
<1>2. ASSUME ClientStep PROVE MemoryInv'
  BY <1>2, MemoryStart, MemoryRequest, MemorySockets, MemoryBlock DEF ClientStep
<1>3. ASSUME NEW i \in Instances, NEW c \in Calls, TimerStep(i, c) PROVE MemoryInv'
  BY <1>3, MemoryTimeout, NeverStale DEF TimerStep
<1>4. ASSUME NEW u \in Users, GraceStep(u) PROVE MemoryInv'
  BY <1>4, MemoryOffline DEF GraceStep
<1>5. ASSUME NEW i \in Instances PROVE ~Crash(i)
  BY DEF GuardInv, TypeOK, InMemory, Crash
<1>6. ASSUME NEW c \in Calls, ExpireKey(c) PROVE MemoryInv'
  BY <1>6, MemoryStutter DEF ExpireKey
<1>7. CASE UNCHANGED vars
  BY <1>7, MemoryStutter DEF vars
<1>8. ASSUME NEW i \in Instances, LoseRedis(i) \/ RegainRedis(i) PROVE MemoryInv'
  BY <1>8, MemoryStutter DEF LoseRedis, RegainRedis
<1>9. CASE ExpireIndex
  BY <1>9, MemoryStutter DEF ExpireIndex
<1>. QED
  BY <1>1, <1>2, <1>3, <1>4, <1>5, <1>6, <1>7, <1>8, <1>9 DEF Next

LEMMA MemoryInit ==
  ASSUME Init
  PROVE  MemoryInv
<1>1. \A t \in Tasks : task[t] = Idle  BY DEF Init
<1>2. OneRuns /\ \A t \in Tasks : StillSo(t)
  BY <1>1, IdleFields DEF OneRuns, StillSo
<1>3. ASSUME NEW a \in Attempts PROVE AttemptOK(a)
  <2>1. ~Busy(a)  BY <1>1 DEF Busy, Idle
  <2>2. \A i \in Instances : ~Stores(i, a)
    BY CallAssumption DEF Init, Stores
  <2>. QED  BY <2>1, <2>2 DEF Init, AttemptOK
<1>4. TimerHasSession /\ GoneIsNoticed
  BY DEF Init, TimerHasSession, GoneIsNoticed
<1>. QED  BY <1>2, <1>3, <1>4 DEF MemoryInv

\* In the in-memory deployment one handler runs at a time, what it has read is
\* still so when it writes, the records of a call are those of its session, and
\* no user leaves a call unnoticed (sockets/index.js:72-271).
THEOREM MemoryInvariant ==
  ASSUME InMemory
  PROVE  Spec => [](GuardInv /\ MemoryInv)
<1>1. Init => MemoryInv  BY MemoryInit
<1>2. GuardInv /\ MemoryInv /\ [Next]_vars => MemoryInv'  BY MemoryStep
<1>3. Spec => []GuardInv  BY GuardInvariant
<1>. QED  BY <1>1, <1>2, <1>3, PTL DEF Spec

\* The two history records of a call agree whenever no handler is at work on
\* it (finishCall, call:accept and call:start, sockets/index.js:72-271).
THEOREM MemoryHistoriesAgree ==
  ASSUME InMemory
  PROVE  Spec => []HistoriesAgree
<1>1. ASSUME MemoryInv PROVE HistoriesAgree
  <2>1. \A session : OpenPair(session) \in AgreedPairs
    BY DEF OpenPair, AgreedPairs, Statuses
  <2>2. ClosedPairs \subseteq AgreedPairs
    <3>1. FinishPlan("rejected") \in AgreedPairs  BY DEF FinishPlan, AgreedPairs
    <3>2. \A outcome \in {"missed", "ended"} : FinishPlan(outcome) \in AgreedPairs
      BY DEF FinishPlan, AgreedPairs, Statuses
    <3>. QED  BY <3>1, <3>2 DEF ClosedPairs
  <2>3. Both("none") \in AgreedPairs  BY DEF AgreedPairs, Statuses
  <2>. SUFFICES ASSUME NEW a \in Attempts, ~Busy(a) PROVE record[a] \in AgreedPairs
    BY DEF HistoriesAgree
  <2>4. AttemptOK(a)  BY <1>1 DEF MemoryInv
  <2>. QED  BY <2>1, <2>2, <2>3, <2>4 DEF AttemptOK
<1>2. Spec => []MemoryInv  BY MemoryInvariant, PTL
<1>. QED  BY <1>1, <1>2, PTL

\* A record that says a call rings or runs belongs to a session the process
\* still has, and an armed ring timer to a stored session: nothing is left
\* open that nobody would close (sockets/index.js:72-101, 213-227).
THEOREM MemoryOpenRecords ==
  ASSUME InMemory
  PROVE  Spec => []OpenRecordHasSession
<1>1. ASSUME MemoryInv PROVE OpenRecordHasSession
  <2>1. \A s \in Sides : /\ Both("none")[s] \notin {"ringing", "accepted"}
                         /\ \A pair \in ClosedPairs : pair[s] \notin {"ringing", "accepted"}
    BY DEF ClosedPairs, FinishPlan, Both
  <2>2. ASSUME NEW a \in Attempts, NEW s \in Sides,
               record[a][s] \in {"ringing", "accepted"}, ~Busy(a)
        PROVE  \E i \in Instances : Stores(i, a)
    BY <1>1, <2>1, <2>2 DEF MemoryInv, AttemptOK
  <2>. QED  BY <1>1, <2>2 DEF OpenRecordHasSession, MemoryInv, TimerHasSession, Stores
<1>2. Spec => []MemoryInv  BY MemoryInvariant, PTL
<1>. QED  BY <1>1, <1>2, PTL

\* When nothing is under way and no grace period runs, both participants of a
\* call that is recorded as running are connected: the disconnect sweep misses
\* none (sockets/index.js:213-271).
THEOREM MemoryNoAbandonedCall ==
  ASSUME InMemory
  PROVE  Spec => []NoAbandonedCall
<1>1. ASSUME MemoryInv PROVE NoAbandonedCall
  <2>. SUFFICES ASSUME AtRest, NEW a \in Attempts, NEW s \in Sides,
                       record[a][s] = "accepted"
                PROVE  Pair(a) \subseteq connected
    BY DEF NoAbandonedCall
  <2>1. \A t \in Tasks : task[t] = Idle
    BY <1>1 DEF AtRest, MemoryInv, OneRuns
  <2>2. ~Busy(a)  BY <2>1 DEF Busy, Idle
  <2>3. /\ Both("none")[s] # "accepted"
        /\ \A pair \in ClosedPairs : pair[s] # "accepted"
    BY DEF ClosedPairs, FinishPlan, Both
  <2>4. PICK i \in Instances : Stores(i, a)
    BY <1>1, <2>2, <2>3 DEF MemoryInv, AttemptOK
  <2>5. Pair(a) = Participants(local[i][CallId[a]]) /\ Pair(a) \subseteq Users
        /\ CallId[a] \in Calls
    BY <2>4, CallAssumption DEF Stores, Participants, Pair
  <2>6. \A u \in Pair(a) \ connected : u \in offlineDue
    BY <1>1, <2>1, <2>4, <2>5, NothingVisits DEF MemoryInv, GoneIsNoticed, Stores
  <2>. QED  BY <2>6 DEF AtRest
<1>2. Spec => []MemoryInv  BY MemoryInvariant, PTL
<1>. QED  BY <1>1, <1>2, PTL

-----------------------------------------------------------------------------
(* The life cycle of a call. *)

\* The history that two users see while a handler is between its two writes,
\* before and after a step.
LEMMA HistoryPending ==
  ASSUME NEW t \in Tasks, NEW a, NEW status,
         \A u \in Tasks \ {t} : task[u] = Idle,
         Pending(t, a), task[t].todo \subseteq Sides,
         record[a] = Written(t, Both(status))
  PROVE  HistoryOf(a) = Both(status)
<1>1. \A u \in Tasks : Pending(u, a) <=> u = t  BY DEF Pending, Idle
<1>2. (CHOOSE u \in Tasks : Pending(u, a)) = t  BY <1>1
<1>3. \A s \in task[t].todo : record[a][s] = status  BY DEF Written, Both
<1>4. record[a][CHOOSE s \in task[t].todo : TRUE] = status
  BY <1>3 DEF Pending
<1>. QED  BY <1>1, <1>2, <1>4 DEF HistoryOf

LEMMA HistoryPendingNext ==
  ASSUME NEW t \in Tasks, NEW a, NEW status,
         \A u \in Tasks \ {t} : task'[u] = Idle,
         Pending(t, a)', task'[t].todo \subseteq Sides,
         record'[a] = Written(t, Both(status))'
  PROVE  HistoryOf(a)' = Both(status)
<1>1. \A u \in Tasks : Pending(u, a)' <=> u = t  BY DEF Pending, Idle
<1>2. (CHOOSE u \in Tasks : Pending(u, a)') = t  BY <1>1
<1>3. \A s \in task'[t].todo : record'[a][s] = status  BY DEF Written, Both
<1>4. record'[a][CHOOSE s \in task'[t].todo : TRUE] = status
  BY <1>3 DEF Pending
<1>. QED  BY <1>1, <1>2, <1>4 DEF HistoryOf

\* A step that starts or ends no writes shows the users nothing new.
LEMMA Quiet ==
  ASSUME GuardInv', MemoryInv', record' = record,
         \A u \in Tasks, b \in Attempts : ~Pending(u, b),
         \A u \in Tasks : \/ task'[u] = task[u]
                          \/ task'[u].pc \notin {"create", "accept", "finish"}
                          \/ task'[u].todo = Sides
  PROVE  \A b \in Attempts : HistoryOf(b)' = HistoryOf(b)
<1>. TAKE b \in Attempts
<1>1. HistoryOf(b) = record[b]  BY DEF HistoryOf
<1>2. CASE \A u \in Tasks : ~Pending(u, b)'
  BY <1>1, <1>2 DEF HistoryOf
<1>3. ASSUME NEW u \in Tasks, Pending(u, b)' PROVE HistoryOf(b)' = HistoryOf(b)
  <2>1. task'[u].todo = Sides  BY <1>3 DEF Pending
  <2>2. \A v \in Tasks \ {u} : task'[v] = Idle
    BY <1>3 DEF MemoryInv, OneRuns, Pending
  <2>3. PICK status : record'[b] = Written(u, Both(status))'
    BY <1>3 DEF MemoryInv, StillSo, Pending, OpenPair
  <2>4. record'[b] = Both(status)  BY <2>1, <2>3 DEF Written, Both
  <2>. QED  BY <1>1, <1>3, <2>1, <2>2, <2>3, <2>4, HistoryPendingNext
<1>. QED  BY <1>2, <1>3

\* What a handler may make of two records that say the same.
Follows(before) ==
  IF before = "none" THEN {Both("ringing"), Both("missed")}
  ELSE {Both("accepted"), FinishPlan("missed"), FinishPlan("rejected")}
         \cup (IF before = "accepted" THEN {FinishPlan("ended")} ELSE {})

\* One of a handler's two writes takes effect.
LEMMA Writes ==
  ASSUME InMemory, GuardInv, MemoryInv, NEW t \in Tasks, NEW side \in Sides,
         CreateRecord(t, side) \/ UpdateRecord(t, side),
         NEW a, a = task[t].held.attempt
  PROVE  /\ a \in Attempts /\ Pending(t, a) /\ side \in task[t].todo
         /\ task[t].todo \subseteq Sides
         /\ \A u \in Tasks \ {t} : task[u] = Idle /\ task'[u] = Idle
         /\ task'[t].pc = task[t].pc /\ task'[t].held = task[t].held
         /\ task'[t].todo = task[t].todo \ {side} /\ task'[t].plan = task[t].plan
         /\ record' = [record EXCEPT ![a][side] = task[t].plan[side]]
         /\ \E before \in {"none", "ringing", "accepted"} :
              record[a] = Written(t, Both(before)) /\ task[t].plan \in Follows(before)
<1>. DEFINE held == task[t].held
<1>1. task[t].pc \in {"create", "accept", "finish"} /\ side \in task[t].todo
  BY DEF CreateRecord, UpdateRecord, CanRun
<1>2. /\ \A u \in Tasks \ {t} : task[u] = Idle
      /\ held # None /\ a \in Attempts /\ StillSo(t)
  BY <1>1, Holding
<1>3. /\ \A u \in Tasks \ {t} : task'[u] = Idle
      /\ task'[t] = [task[t] EXCEPT !.todo = @ \ {side}]
  BY <1>2, Replaced DEF CreateRecord, UpdateRecord, GuardInv
<1>4. /\ task'[t].pc = task[t].pc /\ task'[t].held = task[t].held
      /\ task'[t].todo = task[t].todo \ {side} /\ task'[t].plan = task[t].plan
      /\ task[t].todo \subseteq Sides
  BY <1>3, TaskType DEF GuardInv, TaskState
<1>5. \E before \in {"none", "ringing", "accepted"} :
        record[a] = Written(t, Both(before)) /\ task[t].plan \in Follows(before)
  <2>1. CASE task[t].pc = "create"
    BY <1>2, <2>1 DEF StillSo, Follows
  <2>2. CASE task[t].pc = "accept"
    BY <1>2, <2>2 DEF StillSo, Follows
  <2>3. CASE task[t].pc = "finish"
    <3>1. record[a] = Written(t, OpenPair(held)) /\ task[t].plan \in EndingsOf(held)
      BY <1>2, <2>3 DEF StillSo
    <3>2. CASE held.accepted
      BY <3>1, <3>2 DEF OpenPair, EndingsOf, HangUpOutcome, Follows
    <3>3. CASE ~held.accepted
      BY <3>1, <3>3 DEF OpenPair, EndingsOf, HangUpOutcome, Follows
    <3>. QED  BY <3>2, <3>3
  <2>. QED  BY <1>1, <2>1, <2>2, <2>3
<1>6. record' = [record EXCEPT ![a][side] = task[t].plan[side]]
  <2>1. CASE CreateRecord(t, side)
    BY <1>2, <2>1
    DEF CreateRecord, CanRun, CreateCall, StillSo, Participants, Pair
  <2>2. CASE UpdateRecord(t, side)
    <3>1. \E status \in {"ringing", "accepted"} : record[a] = Written(t, Both(status))
      BY <1>2, <2>2 DEF StillSo, OpenPair, UpdateRecord, CanRun
    <3>2. record[a][side] # "none"  BY <1>1, <3>1 DEF Written, Both
    <3>. QED  BY <2>2, <3>2 DEF UpdateRecord, UpdateCall
  <2>. QED  BY <2>1, <2>2
<1>7. Pending(t, a)  BY <1>1, <1>2 DEF Pending
<1>. QED  BY <1>1, <1>2, <1>3, <1>4, <1>5, <1>6, <1>7

\* What follows is a move of the life cycle.
LEMMA FollowsIsMove ==
  ASSUME NEW before \in {"none", "ringing", "accepted"}, NEW after \in Follows(before),
         NEW a \in Attempts, HistoryOf(a) = Both(before), HistoryOf(a)' = after,
         \A b \in Attempts \ {a} : HistoryOf(b)' = HistoryOf(b)
  PROVE  \/ HistoryOf(a)' = HistoryOf(a)
         \/ Lifecycle!Next
<1>. DEFINE H == [b \in Attempts |-> HistoryOf(b)]
<1>1. H[a] = Both(before) /\ H' = [H EXCEPT ![a] = after]
  OBVIOUS
<1>2. /\ Lifecycle!Unplaced = Both("none") /\ Lifecycle!Ringing = Both("ringing")
      /\ Lifecycle!Answered = Both("accepted")
      /\ Lifecycle!Missed = Both("missed") /\ Lifecycle!Ended = Both("ended")
      /\ Lifecycle!Missed = FinishPlan("missed")
      /\ Lifecycle!Ended = FinishPlan("ended")
      /\ Lifecycle!Declined = FinishPlan("rejected")
  BY DEF Lifecycle!Unplaced, Lifecycle!Ringing, Lifecycle!Answered, Lifecycle!Missed,
         Lifecycle!Ended, Lifecycle!Declined, Lifecycle!Pair, Both, FinishPlan, Sides
<1>3. CASE before = "none"
  <2>1. Lifecycle!Place(a)
    BY <1>1, <1>2, <1>3 DEF Follows, Lifecycle!Place, Lifecycle!Move
  <2>. QED  BY <2>1 DEF Lifecycle!Next
<1>4. CASE before = "ringing"
  <2>1. Lifecycle!Answer(a) \/ Lifecycle!Expire(a) \/ Lifecycle!Decline(a)
    BY <1>1, <1>2, <1>4
    DEF Follows, Lifecycle!Answer, Lifecycle!Expire, Lifecycle!Decline, Lifecycle!Move
  <2>. QED  BY <2>1 DEF Lifecycle!Next
<1>5. CASE before = "accepted" /\ after # Both("accepted")
  <2>1. Lifecycle!HangUp(a) \/ Lifecycle!Expire(a) \/ Lifecycle!Decline(a)
    BY <1>1, <1>2, <1>5
    DEF Follows, Lifecycle!HangUp, Lifecycle!Expire, Lifecycle!Decline, Lifecycle!Move
  <2>. QED  BY <2>1 DEF Lifecycle!Next
<1>. QED  BY <1>3, <1>4, <1>5

LEMMA WriteIsMove ==
  ASSUME InMemory, GuardInv, MemoryInv, NEW t \in Tasks, NEW side \in Sides,
         CreateRecord(t, side) \/ UpdateRecord(t, side)
  PROVE  \/ \A b \in Attempts : HistoryOf(b)' = HistoryOf(b)
         \/ Lifecycle!Next
<1>1. PICK a : a = task[t].held.attempt  OBVIOUS
<1>2. /\ a \in Attempts /\ Pending(t, a) /\ side \in task[t].todo
      /\ task[t].todo \subseteq Sides
      /\ \A u \in Tasks \ {t} : task[u] = Idle /\ task'[u] = Idle
      /\ task'[t].pc = task[t].pc /\ task'[t].held = task[t].held
      /\ task'[t].todo = task[t].todo \ {side} /\ task'[t].plan = task[t].plan
      /\ record' = [record EXCEPT ![a][side] = task[t].plan[side]]
      /\ \E before \in {"none", "ringing", "accepted"} :
           record[a] = Written(t, Both(before)) /\ task[t].plan \in Follows(before)
  BY <1>1, Writes
<1>3. PICK before \in {"none", "ringing", "accepted"} :
        record[a] = Written(t, Both(before)) /\ task[t].plan \in Follows(before)
  BY <1>2
<1>4. HistoryOf(a) = Both(before)  BY <1>2, <1>3, HistoryPending
<1>5. record'[a] = Written(t, Both(before))'
  <2>1. record'[a] = [record[a] EXCEPT ![side] = task[t].plan[side]]
    BY <1>2 DEF GuardInv, TypeOK
  <2>. QED  BY <1>2, <1>3, <2>1 DEF Written
<1>6. \A b \in Attempts \ {a} : HistoryOf(b)' = HistoryOf(b)
  <2>. TAKE b \in Attempts \ {a}
  <2>1. \A u \in Tasks : ~Pending(u, b) /\ ~Pending(u, b)'
    BY <1>1, <1>2 DEF Pending, Idle
  <2>2. record'[b] = record[b]  BY <1>2 DEF GuardInv, TypeOK
  <2>. QED  BY <2>1, <2>2 DEF HistoryOf
<1>7. CASE task'[t].todo # {}
  <2>1. Pending(t, a)'  BY <1>2, <1>7 DEF Pending
  <2>2. HistoryOf(a)' = Both(before)
    BY <1>2, <1>5, <2>1, HistoryPendingNext
  <2>. QED  BY <1>4, <1>6, <2>2
<1>8. CASE task'[t].todo = {}
  <2>1. \A u \in Tasks : ~Pending(u, a)'
    BY <1>2, <1>8 DEF Pending, Idle
  <2>2. record'[a] = task[t].plan
    BY <1>2, <1>5, <1>8, TaskType DEF Written, GuardInv
  <2>3. HistoryOf(a)' = task[t].plan  BY <2>1, <2>2 DEF HistoryOf
  <2>. QED  BY <1>2, <1>3, <1>4, <1>6, <2>3, FollowsIsMove
<1>. QED  BY <1>7, <1>8

\* The other segments of a handler start and end outside its writes.
LEMMA OtherSegment ==
  ASSUME InMemory, GuardInv, MemoryInv, MemoryInv', GuardInv', NEW t \in Tasks, TaskStep(t),
         ~\E side \in Sides : CreateRecord(t, side) \/ UpdateRecord(t, side)
  PROVE  \A b \in Attempts : HistoryOf(b)' = HistoryOf(b)
<1>1. record' = record
  BY DEF TaskStep, RingCallee, ReportUnavailable, ArmCallTimeout, FinishDone, Refuse,
         AcceptAnswer, AcceptStore, RejectFinish, EndFinish, TimeoutFinish, SweepStart,
         SweepNext, SweepFinish, BeginFinish
<1>2. /\ task[t].pc # "idle"
      /\ task[t].pc \in {"create", "accept", "finish"} => task[t].todo = {}
  BY DEF TaskStep, RingCallee, ReportUnavailable, ArmCallTimeout, FinishDone, Refuse,
         AcceptAnswer, AcceptStore, RejectFinish, EndFinish, TimeoutFinish, SweepStart,
         SweepNext, SweepFinish, CanRun
<1>3. \A u \in Tasks \ {t} : task[u] = Idle
  BY <1>2, AloneRuns DEF GuardInv, MemoryInv
<1>4. \A u \in Tasks, b \in Attempts : ~Pending(u, b)
  BY <1>2, <1>3 DEF Pending, Idle
<1>5. \/ task'[t].pc \notin {"create", "accept", "finish"}
      \/ task'[t].todo = Sides
  <2>1. CASE RingCallee(t)
    BY <2>1, Replaced, TaskType DEF RingCallee, GuardInv, TaskState
  <2>2. CASE ReportUnavailable(t) \/ ArmCallTimeout(t) \/ Refuse(t) \/ AcceptStore(t)
    BY <2>2, Replaced
    DEF ReportUnavailable, ArmCallTimeout, Refuse, AcceptStore, GuardInv, Idle
  <2>3. CASE FinishDone(t) \/ SweepStart(t)
    BY <2>3, Replaced, OnwardFields DEF FinishDone, SweepStart, GuardInv
  <2>4. CASE AcceptAnswer(t)
    <3>1. task'[t] = [task[t] EXCEPT !.pc = "accept", !.todo = Sides,
                        !.plan = Both("accepted"),
                        !.held = Answered(@, task[t].held.attempt)]
      BY <2>4, AnswerTask
    <3>. QED  BY <3>1, TaskType DEF GuardInv, TaskState
  <2>5. CASE RejectFinish(t) \/ EndFinish(t) \/ TimeoutFinish(t) \/ SweepFinish(t)
    <3>1. PICK outcome : BeginFinish(t, outcome)
      BY <2>5 DEF RejectFinish, EndFinish, TimeoutFinish, SweepFinish
    <3>2. task'[t] = [task[t] EXCEPT !.pc = "finish", !.todo = Sides,
                                     !.plan = FinishPlan(outcome)]
      BY <3>1, Replaced DEF BeginFinish, GuardInv
    <3>. QED  BY <3>2, TaskType DEF GuardInv, TaskState
  <2>6. ASSUME NEW c \in Calls, SweepNext(t, c)
        PROVE  task'[t].pc \notin {"create", "accept", "finish"}
    <3>1. CASE ReadActiveCall(task[t].home, c) = None
      BY <2>6, <3>1, Replaced, OnwardFields DEF SweepNext, GuardInv
    <3>2. CASE ReadActiveCall(task[t].home, c) # None
      <4>. DEFINE session == ReadActiveCall(task[t].home, c)
                  rest    == task[t].queue \ {c}
                  copy    == FromRedis(task[t].home, c)
      <4>1. Become(t, [task[t] EXCEPT !.pc = "sweepFinish", !.held = session,
                                      !.copy = copy, !.queue = rest])
        BY <2>6, <3>2 DEF SweepNext
      <4>. HIDE DEF session, rest, copy
      <4>2. task'[t] = [task[t] EXCEPT !.pc = "sweepFinish", !.held = session,
                                       !.copy = copy, !.queue = rest]
        BY <4>1, Replaced DEF GuardInv
      <4>. QED  BY <4>2, TaskType DEF GuardInv, TaskState
    <3>. QED  BY <3>1, <3>2
  <2>. QED  BY <2>1, <2>2, <2>3, <2>4, <2>5, <2>6 DEF TaskStep
<1>6. ASSUME NEW u \in Tasks, u # t PROVE task'[u].pc \notin {"create", "accept", "finish"}
  <2>1. CASE AcceptAnswer(t)
    BY <1>6, <2>1, AnswerTask, IdleFields
  <2>2. CASE \E state : Become(t, state)
    BY <1>3, <1>6, <2>2, Replaced DEF GuardInv, Idle
  <2>3. AcceptAnswer(t) \/ \E state : Become(t, state)
    BY DEF TaskStep, RingCallee, ReportUnavailable, ArmCallTimeout, FinishDone, Refuse,
           AcceptStore, RejectFinish, EndFinish, TimeoutFinish, SweepStart,
           SweepNext, SweepFinish, BeginFinish
  <2>. QED  BY <2>1, <2>2, <2>3
<1>. QED  BY <1>1, <1>4, <1>5, <1>6, Quiet

LEMMA MoveStep ==
  ASSUME InMemory, GuardInv, MemoryInv, MemoryInv', GuardInv', [Next]_vars
  PROVE  \/ \A b \in Attempts : HistoryOf(b)' = HistoryOf(b)
         \/ Lifecycle!Next
<1>1. ASSUME NEW t \in Tasks, TaskStep(t)
      PROVE  (\A b \in Attempts : HistoryOf(b)' = HistoryOf(b)) \/ Lifecycle!Next
  BY <1>1, WriteIsMove, OtherSegment
<1>2. CASE UNCHANGED << record, task >>
  BY <1>2 DEF HistoryOf, Pending
<1>3. ASSUME record' = record, \A u \in Tasks : task[u] = Idle,
             NEW t \in Tasks, NEW state, Become(t, state),
             state.pc \notin {"accept", "finish", "create"} \/ state.todo = Sides
      PROVE  \A b \in Attempts : HistoryOf(b)' = HistoryOf(b)
  <2>1. \A u \in Tasks, b \in Attempts : ~Pending(u, b)
    BY <1>3 DEF Pending, Idle
  <2>2. \A u \in Tasks : task'[u] = task[u] \/ task'[u] = state
    BY <1>3, Replaced DEF GuardInv
  <2>. QED  BY <1>3, <2>1, <2>2, Quiet
<1>4. ASSUME NEW t \in Tasks, NEW i \in Instances, NEW a \in Attempts, CallStart(t, i, a)
      PROVE  \A b \in Attempts : HistoryOf(b)' = HistoryOf(b)
  <2>. DEFINE held == [attempt |-> a, accepted |-> FALSE]
              plan == Both(IF Callee[a] \in connected THEN "ringing" ELSE "missed")
              state == [Idle EXCEPT !.pc = "create", !.home = i, !.todo = Sides,
                                    !.held = held, !.plan = plan]
  <2>1. \A u \in Tasks : task[u] = Idle
    BY <1>4, NoneRuns DEF CallStart, GuardInv, MemoryInv
  <2>2. Become(t, state) /\ record' = record  BY <1>4 DEF CallStart
  <2>3. state.todo = Sides
    <3>. HIDE DEF held, plan
    <3>. QED  BY DEF Idle
  <2>. HIDE DEF state
  <2>. QED  BY <1>3, <2>1, <2>2, <2>3
<1>5. ASSUME NEW t \in Tasks, NEW i \in Instances, NEW c \in Calls,
             \/ AcceptRequest(t, i, c) \/ RejectRequest(t, i, c) \/ EndRequest(t, i, c)
             \/ RingTimeout(t, i, c)
      PROVE  \A b \in Attempts : HistoryOf(b)' = HistoryOf(b)
  <2>1. PICK pc \in {"acceptCheck", "rejectCheck", "endCheck", "timeout"} :
          /\ CanStart(t, i) /\ record' = record
          /\ Become(t, [Idle EXCEPT !.pc = pc, !.home = i, !.held = ReadActiveCall(i, c),
                                    !.copy = FromRedis(i, c)])
    BY <1>5 DEF AcceptRequest, RejectRequest, EndRequest, RingTimeout, OpenSession
  <2>2. \A u \in Tasks : task[u] = Idle
    BY <2>1, NoneRuns DEF GuardInv, MemoryInv
  <2>3. [Idle EXCEPT !.pc = pc, !.home = i, !.held = ReadActiveCall(i, c),
                     !.copy = FromRedis(i, c)].pc = pc
    BY DEF Idle
  <2>. QED  BY <1>3, <2>1, <2>2, <2>3
<1>6. ASSUME NEW t \in Tasks, NEW i \in Instances, NEW u \in Users, GoOffline(t, i, u)
      PROVE  \A b \in Attempts : HistoryOf(b)' = HistoryOf(b)
  <2>1. \A v \in Tasks : task[v] = Idle
    BY <1>6, NoneRuns DEF GoOffline, GuardInv, MemoryInv
  <2>2. [Idle EXCEPT !.pc = "presence", !.home = i, !.gone = u].pc = "presence"
    BY DEF Idle
  <2>. QED  BY <1>3, <1>6, <2>1, <2>2 DEF GoOffline
<1>7. ASSUME NEW i \in Instances PROVE ~Crash(i)
  BY DEF GuardInv, TypeOK, InMemory, Crash
<1>8. ASSUME \/ \E u \in Users : Connect(u) \/ Disconnect(u)
             \/ \E a \in Attempts : Block(a) \/ Unblock(a)
             \/ \E t \in Tasks, i \in Instances, c \in Calls : StaleTimeout(t, i, c)
             \/ \E c \in Calls : ExpireKey(c)
             \/ \E i \in Instances : LoseRedis(i) \/ RegainRedis(i)
             \/ ExpireIndex
             \/ UNCHANGED vars
      PROVE  UNCHANGED << record, task >>
  BY <1>8 DEF Connect, Disconnect, Block, Unblock, StaleTimeout, ExpireKey, LoseRedis,
              RegainRedis, ExpireIndex, vars
<1>. QED
  BY <1>1, <1>2, <1>4, <1>5, <1>6, <1>7, <1>8
  DEF Next, ClientStep, TimerStep, GraceStep

\* The in-memory signalling implements the abstract call history: whatever
\* order handlers, timers and disconnects come in, the two records of a call
\* move together, and only along the life of a call (sockets/index.js:72-271).
THEOREM MemoryImplementsHistory ==
  ASSUME InMemory
  PROVE  Spec => ImplementsCallHistory
<1>1. Init => Lifecycle!Init
  <2>. SUFFICES ASSUME Init PROVE Lifecycle!Init
    OBVIOUS
  <2>1. \A t \in Tasks, a \in Attempts : ~Pending(t, a)
    BY DEF Init, Pending, Idle
  <2>2. \A a \in Attempts : HistoryOf(a) = Both("none")
    BY <2>1 DEF HistoryOf, Init
  <2>3. Both("none") = Lifecycle!Unplaced
    BY DEF Both, Sides, Lifecycle!Unplaced, Lifecycle!Pair
  <2>. QED  BY <2>2, <2>3 DEF Lifecycle!Init
<1>2. /\ GuardInv /\ MemoryInv /\ [Next]_vars
      /\ GuardInv' /\ MemoryInv'
      => [Lifecycle!Next]_[a \in Attempts |-> HistoryOf(a)]
  BY MoveStep
<1>3. Spec => [](GuardInv /\ MemoryInv)  BY MemoryInvariant
<1>. QED
  BY <1>1, <1>2, <1>3, PTL DEF Spec, ImplementsCallHistory, Lifecycle!Spec
=============================================================================
