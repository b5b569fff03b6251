------------------------- MODULE CallSignallingProofs -------------------------
(***************************************************************************)
(* Machine-checked facts about CallSignalling, for every deployment the    *)
(* assumptions of that module allow: any number of users, calls, attempts, *)
(* processes and handlers, with or without MongoDB and Redis, with any     *)
(* number of crashes.                                                      *)
(***************************************************************************)
EXTENDS CallSignalling, TLAPS

USE DEF redisVars, faultVars

\* The states a handler moves through are task states.
LEMMA IdleType == Idle \in TaskState
  BY DEF Idle, TaskState, Pcs, Both, Statuses

LEMMA BothType == \A status \in Statuses : Both(status) \in [Sides -> Statuses]
  BY DEF Both

LEMMA FinishPlanType ==
  \A outcome \in {"missed", "ended", "rejected"} :
    FinishPlan(outcome) \in [Sides -> Statuses]
  BY DEF FinishPlan, Both, Statuses

LEMMA BecomeType ==
  ASSUME TypeOK, NEW t \in Tasks, NEW state \in TaskState, Become(t, state)
  PROVE  task' \in [Tasks -> TaskState]
  BY DEF TypeOK, Become

LEMMA TaskType ==
  ASSUME TypeOK, NEW t \in Tasks
  PROVE  /\ task[t] \in TaskState
         /\ task[t].pc \in Pcs
         /\ task[t].home \in Instances \cup {None}
         /\ task[t].held \in Session \cup {None}
         /\ task[t].copy \in BOOLEAN
         /\ task[t].todo \in SUBSET Sides
         /\ task[t].plan \in [Sides -> Statuses]
         /\ task[t].queue \in SUBSET Calls
<1>1. task[t] \in TaskState  BY DEF TypeOK
<1>. QED  BY <1>1 DEF TaskState

\* Each way a handler's state is rewritten in place gives a task state.
LEMMA RewritePc ==
  ASSUME NEW st \in TaskState, NEW pc \in Pcs
  PROVE  [st EXCEPT !.pc = pc] \in TaskState
  BY DEF TaskState

LEMMA RewriteTodo ==
  ASSUME NEW st \in TaskState, NEW todo \in SUBSET Sides
  PROVE  [st EXCEPT !.todo = todo] \in TaskState
  BY DEF TaskState

LEMMA RewriteHeld ==
  ASSUME NEW st \in TaskState, NEW held \in Session \cup {None}
  PROVE  [st EXCEPT !.held = held] \in TaskState
  BY DEF TaskState

LEMMA RewriteVisit ==
  ASSUME NEW st \in TaskState, NEW pc \in Pcs, NEW copy \in BOOLEAN,
         NEW held \in Session \cup {None}, NEW queue \in SUBSET Calls
  PROVE  [st EXCEPT !.pc = pc, !.held = held, !.copy = copy, !.queue = queue]
           \in TaskState
  BY DEF TaskState

LEMMA RewritePlan ==
  ASSUME NEW st \in TaskState, NEW pc \in Pcs, NEW todo \in SUBSET Sides,
         NEW plan \in [Sides -> Statuses]
  PROVE  [st EXCEPT !.pc = pc, !.todo = todo, !.plan = plan] \in TaskState
  BY DEF TaskState

\* What readActiveCall returns is a session or nothing.
LEMMA ReadType ==
  ASSUME TypeOK, NEW i \in Instances, NEW c \in Calls
  PROVE  /\ ReadActiveCall(i, c) \in Session \cup {None}
         /\ FromRedis(i, c) \in BOOLEAN /\ (FromRedis(i, c) => UseRedis)
  BY DEF TypeOK, ReadActiveCall, FromRedis

LEMMA HangUpType ==
  ASSUME NEW session PROVE HangUpOutcome(session) \in {"missed", "ended"}
  BY DEF HangUpOutcome

\* finishCall keeps the types, whatever the outcome.
LEMMA BeginFinishType ==
  ASSUME TypeOK, NEW t \in Tasks, NEW outcome \in {"missed", "ended", "rejected"},
         BeginFinish(t, outcome)
  PROVE  TypeOK'
<1>1. [task[t] EXCEPT !.pc = "finish", !.todo = Sides,
                      !.plan = FinishPlan(outcome)] \in TaskState
  BY FinishPlanType, TaskType, RewritePlan, "finish" \in Pcs DEF Pcs
<1>2. task' \in [Tasks -> TaskState]
  BY <1>1, BecomeType DEF BeginFinish
<1>3. timer' \in [Instances -> [Calls -> BOOLEAN]]
  BY DEF TypeOK, BeginFinish
<1>. QED
  BY <1>2, <1>3 DEF TypeOK, BeginFinish

LEMMA OnwardType ==
  ASSUME TypeOK, NEW t \in Tasks, NEW rest \in SUBSET Calls
  PROVE  Onward(t, rest) \in TaskState
  BY IdleType DEF TypeOK, Onward, TaskState, Pcs, Idle

\* The three requests that read a session first.
LEMMA OpenSessionType ==
  ASSUME TypeOK, NEW t \in Tasks, NEW i \in Instances, NEW c \in Calls,
         NEW senders, NEW pc \in {"acceptCheck", "rejectCheck", "endCheck"},
         OpenSession(t, i, c, senders, pc)
  PROVE  TypeOK'
<1>1. [Idle EXCEPT !.pc = pc, !.home = i, !.held = ReadActiveCall(i, c),
                   !.copy = FromRedis(i, c)] \in TaskState
  BY IdleType, ReadType DEF TaskState, Pcs, Idle
<1>2. task' \in [Tasks -> TaskState]
  BY <1>1, BecomeType DEF OpenSession
<1>. QED
  BY <1>2 DEF TypeOK, OpenSession

\* A segment of a running handler keeps the types.
LEMMA TaskStepType ==
  ASSUME TypeOK, TasksOK, NEW t \in Tasks, TaskStep(t)
  PROVE  TypeOK'
<1>. USE CallAssumption
<1>1. ASSUME NEW side \in Sides, CreateRecord(t, side) PROVE TypeOK'
  <2>1. [task[t] EXCEPT !.todo = @ \ {side}] \in TaskState
    <3>1. task[t].todo \ {side} \in SUBSET Sides
      BY TaskType
    <3>. HIDE DEF TaskState
    <3>. QED  BY <3>1, TaskType, RewriteTodo
  <2>2. task' \in [Tasks -> TaskState]
    BY <1>1, <2>1, BecomeType DEF CreateRecord
  <2>3. task[t].plan[side] \in Statuses
    BY DEF TypeOK, TaskState
  <2>4. record' \in [Attempts -> [Sides -> Statuses]]
    BY <1>1, <2>3 DEF TypeOK, CreateRecord, CreateCall
  <2>. QED  BY <1>1, <2>2, <2>4 DEF TypeOK, CreateRecord
<1>2. ASSUME NEW side \in Sides, UpdateRecord(t, side) PROVE TypeOK'
  <2>1. [task[t] EXCEPT !.todo = @ \ {side}] \in TaskState
    <3>1. task[t].todo \ {side} \in SUBSET Sides
      BY TaskType
    <3>. HIDE DEF TaskState
    <3>. QED  BY <3>1, TaskType, RewriteTodo
  <2>2. task' \in [Tasks -> TaskState]
    BY <1>2, <2>1, BecomeType DEF UpdateRecord
  <2>3. task[t].plan[side] \in Statuses
    BY DEF TypeOK, TaskState
  <2>4. record' \in [Attempts -> [Sides -> Statuses]]
    BY <1>2, <2>3 DEF TypeOK, UpdateRecord, UpdateCall
  <2>. QED  BY <1>2, <2>2, <2>4 DEF TypeOK, UpdateRecord
<1>3. ASSUME RingCallee(t) PROVE TypeOK'
  <2>1. [task[t] EXCEPT !.pc = "arm"] \in TaskState
    BY TaskType, RewritePc, "arm" \in Pcs DEF Pcs
  <2>2. task' \in [Tasks -> TaskState]
    BY <1>3, <2>1, BecomeType DEF RingCallee
  <2>3. task[t].held \in Session /\ CallOf(task[t].held) \in Calls
    BY <1>3 DEF RingCallee, CanRun, TasksOK, CallOf, Session
  <2>. QED  BY <1>3, <2>2, <2>3 DEF TypeOK, RingCallee, StoreActiveCall
<1>4. ASSUME ReportUnavailable(t) PROVE TypeOK'
  <2>1. task' \in [Tasks -> TaskState]
    BY <1>4, IdleType, BecomeType DEF ReportUnavailable
  <2>. QED  BY <1>4, <2>1 DEF TypeOK, ReportUnavailable
<1>5. ASSUME ArmCallTimeout(t) PROVE TypeOK'
  <2>1. task' \in [Tasks -> TaskState]
    BY <1>5, IdleType, BecomeType DEF ArmCallTimeout
  <2>. QED  BY <1>5, <2>1 DEF TypeOK, ArmCallTimeout
<1>6. ASSUME FinishDone(t) PROVE TypeOK'
  <2>1. Onward(t, task[t].queue) \in TaskState
    BY OnwardType DEF TypeOK, TaskState
  <2>2. task' \in [Tasks -> TaskState]
    BY <1>6, <2>1, BecomeType DEF FinishDone
  <2>. QED  BY <1>6, <2>2 DEF TypeOK, FinishDone, RemoveActiveCall, KeysHeldBy
<1>7. ASSUME Refuse(t) PROVE TypeOK'
  <2>1. task' \in [Tasks -> TaskState]
    BY <1>7, IdleType, BecomeType DEF Refuse
  <2>. QED  BY <1>7, <2>1 DEF TypeOK, Refuse
<1>8. ASSUME AcceptAnswer(t) PROVE TypeOK'
  <2>. DEFINE a == task[t].held.attempt
              reply == [task[t] EXCEPT !.pc = "accept", !.todo = Sides,
                                       !.plan = Both("accepted"),
                                       !.held = Answered(@, a)]
  <2>1. \A s \in Session \cup {None} : Answered(s, a) \in Session \cup {None}
    BY DEF Answered, Session
  <2>2. reply \in TaskState
    <3>1. Both("accepted") \in [Sides -> Statuses]
      BY BothType DEF Statuses
    <3>2. [task[t] EXCEPT !.pc = "accept", !.todo = Sides,
                          !.plan = Both("accepted")] \in TaskState
      BY <3>1, TaskType, RewritePlan, "accept" \in Pcs DEF Pcs
    <3>3. Answered(task[t].held, a) \in Session \cup {None}
      BY <2>1, TaskType
    <3>. QED  BY <3>2, <3>3, RewriteHeld
  <2>3. \A u \in Tasks : [task[u] EXCEPT !.held = Answered(@, a)] \in TaskState
    <3>. TAKE u \in Tasks
    <3>1. Answered(task[u].held, a) \in Session \cup {None}
      BY <2>1, TaskType
    <3>. QED  BY <3>1, TaskType, RewriteHeld
  <2>4. task' \in [Tasks -> TaskState]
    <3>1. CASE task[t].copy
      BY <1>8, <3>1, <2>2, BecomeType DEF AcceptAnswer
    <3>2. CASE ~task[t].copy
      <4>. HIDE DEF a, reply
      <4>1. \A u \in Tasks : task[u] \in TaskState  BY TaskType
      <4>2. task' = [u \in Tasks |-> IF u = t THEN reply
                     ELSE IF task[u].home = task[t].home /\ ~task[u].copy
                       THEN [task[u] EXCEPT !.held = Answered(@, a)]
                       ELSE task[u]]
        BY <1>8, <3>2 DEF AcceptAnswer, a, reply
      <4>. QED  BY <4>1, <4>2, <2>2, <2>3
    <3>. QED  BY <3>1, <3>2
  <2>5. local' \in [Instances -> [Calls -> Session \cup {None}]]
    <3>1. CASE task[t].copy  BY <1>8, <3>1 DEF AcceptAnswer, TypeOK
    <3>2. CASE ~task[t].copy
      <4>. DEFINE h == task[t].home
      <4>1. local' = [local EXCEPT ![h] = [c \in Calls |-> Answered(local[h][c], a)]]
        BY <1>8, <3>2 DEF AcceptAnswer
      <4>2. h \in Instances
        BY <1>8 DEF AcceptAnswer, CanRun, TasksOK
      <4>3. \A c \in Calls : local[h][c] \in Session \cup {None}
        BY <4>2 DEF TypeOK
      <4>4. [c \in Calls |-> Answered(local[h][c], a)] \in [Calls -> Session \cup {None}]
        BY <4>3, <2>1
      <4>. QED  BY <4>1, <4>4 DEF TypeOK
    <3>. QED  BY <3>1, <3>2
  <2>. QED  BY <1>8, <2>4, <2>5 DEF TypeOK, AcceptAnswer
<1>9. ASSUME AcceptStore(t) PROVE TypeOK'
  <2>1. task' \in [Tasks -> TaskState]
    BY <1>9, IdleType, BecomeType DEF AcceptStore
  <2>2. task[t].held \in Session /\ CallOf(task[t].held) \in Calls
    BY <1>9 DEF AcceptStore, CanRun, TasksOK, CallOf, Session
  <2>. QED  BY <1>9, <2>1, <2>2 DEF TypeOK, AcceptStore, StoreActiveCall
<1>10. ASSUME RejectFinish(t) PROVE TypeOK'
  BY <1>10, BeginFinishType DEF RejectFinish
<1>11. ASSUME EndFinish(t) PROVE TypeOK'
  BY <1>11, BeginFinishType, HangUpType DEF EndFinish
<1>12. ASSUME TimeoutFinish(t) PROVE TypeOK'
  BY <1>12, BeginFinishType DEF TimeoutFinish
<1>13. ASSUME NEW c \in Calls, SweepNext(t, c) PROVE TypeOK'
  <2>. DEFINE session == ReadActiveCall(task[t].home, c)
              rest    == task[t].queue \ {c}
  <2>1. rest \in SUBSET Calls  BY TaskType
  <2>2. session \in Session \cup {None}
    BY <1>13, TaskType, ReadType DEF SweepNext, CanRun, TasksOK
  <2>3. [task[t] EXCEPT !.pc = "sweepFinish", !.held = session,
           !.copy = FromRedis(task[t].home, c), !.queue = rest] \in TaskState
    <3>1. FromRedis(task[t].home, c) \in BOOLEAN
      BY <1>13, TaskType, ReadType DEF SweepNext, CanRun, TasksOK
    <3>. QED
      BY <2>1, <2>2, <3>1, TaskType, RewriteVisit, "sweepFinish" \in Pcs DEF Pcs
  <2>4. task' \in [Tasks -> TaskState]
    BY <1>13, <2>1, <2>3, OnwardType, BecomeType DEF SweepNext
  <2>. QED  BY <1>13, <2>4 DEF TypeOK, SweepNext
<1>14. ASSUME SweepFinish(t) PROVE TypeOK'
  BY <1>14, BeginFinishType, HangUpType DEF SweepFinish
<1>15. ASSUME SweepStart(t) PROVE TypeOK'
  <2>1. /\ ListedCalls(task[t].home) \in SUBSET Calls
        /\ ActiveCallsOf(task[t].home, task[t].gone) \in SUBSET Calls
    BY DEF ActiveCallsOf, ListedCalls, TypeOK
  <2>2. task' \in [Tasks -> TaskState]
    BY <1>15, <2>1, OnwardType, BecomeType DEF SweepStart
  <2>. QED  BY <1>15, <2>1, <2>2 DEF TypeOK, SweepStart
<1>. QED
  BY <1>1, <1>2, <1>3, <1>4, <1>5, <1>6, <1>7, <1>8, <1>9, <1>10, <1>11,
     <1>12, <1>13, <1>14, <1>15 DEF TaskStep

LEMMA ClientStepType ==
  ASSUME TypeOK, ClientStep
  PROVE  TypeOK'
<1>. USE CallAssumption
<1>1. ASSUME NEW t \in Tasks, NEW i \in Instances, NEW a \in Attempts,
             CallStart(t, i, a)
      PROVE  TypeOK'
  <2>. DEFINE status == IF Callee[a] \in connected THEN "ringing" ELSE "missed"
              held   == [attempt |-> a, accepted |-> FALSE]
  <2>1. Both(status) \in [Sides -> Statuses]
    BY DEF Both, Statuses
  <2>2. [Idle EXCEPT !.pc = "create", !.home = i, !.todo = Sides,
           !.held = held, !.plan = Both(status)] \in TaskState
    BY <2>1 DEF TaskState, Idle, Pcs, Session
  <2>3. task' \in [Tasks -> TaskState]
    BY <1>1, <2>2, BecomeType DEF CallStart
  <2>. QED  BY <1>1, <2>3 DEF TypeOK, CallStart
<1>2. ASSUME NEW t \in Tasks, NEW i \in Instances, NEW c \in Calls,
             AcceptRequest(t, i, c) \/ RejectRequest(t, i, c) \/ EndRequest(t, i, c)
      PROVE  TypeOK'
  BY <1>2, OpenSessionType DEF AcceptRequest, RejectRequest, EndRequest
<1>3. ASSUME NEW u \in Users, Connect(u) \/ Disconnect(u) PROVE TypeOK'
  BY <1>3 DEF TypeOK, Connect, Disconnect
<1>4. ASSUME NEW a \in Attempts, Block(a) \/ Unblock(a) PROVE TypeOK'
  <2>1. Pair(a) \subseteq Users  BY DEF Pair
  <2>. QED  BY <1>4, <2>1 DEF TypeOK, Block, Unblock
<1>. QED  BY <1>1, <1>2, <1>3, <1>4 DEF ClientStep

LEMMA SystemStepType ==
  ASSUME TypeOK,
         \/ \E i \in Instances, c \in Calls : TimerStep(i, c)
         \/ \E u \in Users : GraceStep(u)
         \/ \E i \in Instances : Crash(i) \/ LoseRedis(i) \/ RegainRedis(i)
         \/ \E c \in Calls : ExpireKey(c)
         \/ ExpireIndex
  PROVE  TypeOK'
<1>. USE CallAssumption
<1>1. ASSUME NEW i \in Instances, NEW c \in Calls, NEW t \in Tasks,
             RingTimeout(t, i, c)
      PROVE  TypeOK'
  <2>1. [Idle EXCEPT !.pc = "timeout", !.home = i, !.held = ReadActiveCall(i, c),
                     !.copy = FromRedis(i, c)] \in TaskState
    BY IdleType, ReadType DEF TaskState, Pcs, Idle
  <2>2. task' \in [Tasks -> TaskState]
    BY <1>1, <2>1, BecomeType DEF RingTimeout
  <2>. QED  BY <1>1, <2>2 DEF TypeOK, RingTimeout
<1>2. ASSUME NEW i \in Instances, NEW c \in Calls, NEW t \in Tasks,
             StaleTimeout(t, i, c)
      PROVE  TypeOK'
  BY <1>2 DEF TypeOK, StaleTimeout
<1>3. ASSUME NEW u \in Users, NEW t \in Tasks, NEW i \in Instances,
             GoOffline(t, i, u)
      PROVE  TypeOK'
  <2>2. [Idle EXCEPT !.pc = "presence", !.home = i, !.gone = u] \in TaskState
    BY IdleType DEF TaskState, Pcs, Idle
  <2>3. task' \in [Tasks -> TaskState]
    BY <1>3, <2>2, BecomeType DEF GoOffline
  <2>. QED  BY <1>3, <2>3 DEF TypeOK, GoOffline
<1>4. ASSUME NEW i \in Instances, Crash(i) PROVE TypeOK'
  <2>1. task' \in [Tasks -> TaskState]
    BY <1>4, IdleType, TaskType DEF Crash
  <2>2. crashes' \in 0 .. MaxCrashes
    BY <1>4 DEF TypeOK, Crash
  <2>. QED  BY <1>4, <2>1, <2>2 DEF TypeOK, Crash, KeysHeldBy
<1>5. ASSUME NEW c \in Calls, ExpireKey(c) PROVE TypeOK'
  BY <1>5 DEF TypeOK, ExpireKey
<1>6. ASSUME NEW i \in Instances, LoseRedis(i) \/ RegainRedis(i) PROVE TypeOK'
  BY <1>6 DEF TypeOK, LoseRedis, RegainRedis
<1>7. ASSUME ExpireIndex PROVE TypeOK'
  BY <1>7 DEF TypeOK, ExpireIndex
<1>. QED
  BY <1>1, <1>2, <1>3, <1>4, <1>5, <1>6, <1>7 DEF TimerStep, GraceStep

-----------------------------------------------------------------------------
(* Running handlers keep hold of what they need. *)

StateOK(st) ==
  /\ st.copy => UseRedis
  /\ st.pc # "idle" =>
       /\ st.home \in Instances
       /\ st.pc \notin {"presence", "sweep"} => st.held \in Session
       /\ st.pc = "accept" => st.held.accepted

LEMMA BecomeOK ==
  ASSUME TypeOK, TasksOK, NEW t \in Tasks, NEW state, StateOK(state),
         Become(t, state)
  PROVE  TasksOK'
  BY DEF TypeOK, TasksOK, StateOK, Become

LEMMA IdleOK == StateOK(Idle)
  BY DEF StateOK, Idle

LEMMA ReadNone ==
  ASSUME NEW i \in Instances, NEW c \in Calls, ReadActiveCall(i, c) = None
  PROVE  local[i][c] = None
  BY DEF ReadActiveCall, FromRedis

LEMMA BeginFinishOK ==
  ASSUME TypeOK, TasksOK, NEW t \in Tasks, NEW outcome,
         task[t].pc \in {"rejectCheck", "endCheck", "timeout", "sweepFinish"},
         BeginFinish(t, outcome)
  PROVE  TasksOK'
<1>. DEFINE state == [task[t] EXCEPT !.pc = "finish", !.todo = Sides,
                                     !.plan = FinishPlan(outcome)]
<1>1. StateOK(state)
  BY TaskType DEF TasksOK, StateOK, TaskState
<1>. QED  BY <1>1, BecomeOK DEF BeginFinish

LEMMA OpenSessionOK ==
  ASSUME TypeOK, TasksOK, NEW t \in Tasks, NEW i \in Instances, NEW c \in Calls,
         NEW senders, NEW pc \in {"acceptCheck", "rejectCheck", "endCheck"},
         OpenSession(t, i, c, senders, pc)
  PROVE  TasksOK'
<1>. DEFINE state == [Idle EXCEPT !.pc = pc, !.home = i,
                                  !.held = ReadActiveCall(i, c),
                                  !.copy = FromRedis(i, c)]
<1>1. StateOK(state)
  BY ReadType DEF OpenSession, StateOK, Idle
<1>. QED  BY <1>1, BecomeOK DEF OpenSession

LEMMA OnwardOK ==
  ASSUME TasksOK, NEW t \in Tasks, task[t].pc # "idle", NEW rest
  PROVE  StateOK(Onward(t, rest))
  BY DEF TasksOK, StateOK, Onward, Idle

LEMMA TasksStep ==
  ASSUME TypeOK, TasksOK, NEW t \in Tasks, TaskStep(t)
  PROVE  TasksOK'
<1>1. ASSUME NEW side \in Sides, CreateRecord(t, side) \/ UpdateRecord(t, side)
      PROVE  TasksOK'
  <2>1. StateOK([task[t] EXCEPT !.todo = @ \ {side}])
    BY TaskType DEF TasksOK, StateOK, TaskState
  <2>. QED  BY <1>1, <2>1, BecomeOK DEF CreateRecord, UpdateRecord
<1>2. ASSUME RingCallee(t) PROVE TasksOK'
  <2>1. StateOK([task[t] EXCEPT !.pc = "arm"])
    BY <1>2, TaskType DEF TasksOK, StateOK, TaskState, RingCallee, CanRun
  <2>. QED  BY <1>2, <2>1, BecomeOK DEF RingCallee
<1>3. ASSUME ReportUnavailable(t) \/ ArmCallTimeout(t) \/ Refuse(t) \/ AcceptStore(t)
      PROVE  TasksOK'
  BY <1>3, IdleOK, BecomeOK
     DEF ReportUnavailable, ArmCallTimeout, Refuse, AcceptStore
<1>4. ASSUME FinishDone(t) PROVE TasksOK'
  BY <1>4, OnwardOK, BecomeOK DEF FinishDone, CanRun
<1>5. ASSUME AcceptAnswer(t) PROVE TasksOK'
  <2>. DEFINE a == task[t].held.attempt
              reply == [task[t] EXCEPT !.pc = "accept", !.todo = Sides,
                                       !.plan = Both("accepted"),
                                       !.held = Answered(@, a)]
  <2>1. \A s \in Session : Answered(s, a) \in Session
                             /\ (s.accepted => Answered(s, a).accepted)
    BY DEF Answered, Session
  <2>2. task[t].held \in Session /\ task[t].home \in Instances
    BY <1>5 DEF AcceptAnswer, CanRun, TasksOK
  <2>3. Answered(task[t].held, a).accepted
    BY <2>2, CallAssumption DEF Answered, Session
  <2>4. StateOK(reply)
    BY <2>1, <2>2, <2>3, TaskType DEF StateOK, TaskState, TasksOK
  <2>5. CASE task[t].copy
    BY <1>5, <2>4, <2>5, BecomeOK DEF AcceptAnswer
  <2>6. CASE ~task[t].copy
    <3>1. task' = [u \in Tasks |-> IF u = t THEN reply
                   ELSE IF task[u].home = task[t].home /\ ~task[u].copy
                     THEN [task[u] EXCEPT !.held = Answered(@, a)]
                     ELSE task[u]]
      BY <1>5, <2>6 DEF AcceptAnswer
    <3>2. ASSUME NEW u \in Tasks, u # t
          PROVE  StateOK([task[u] EXCEPT !.held = Answered(@, a)]) /\ StateOK(task[u])
      BY <2>1, TaskType DEF TasksOK, StateOK, TaskState
    <3>. HIDE DEF reply
    <3>3. \A u \in Tasks : StateOK(task'[u])
      BY <2>4, <3>1, <3>2
    <3>. QED  BY <3>3 DEF TasksOK, StateOK
  <2>. QED  BY <2>5, <2>6
<1>6. ASSUME RejectFinish(t) \/ EndFinish(t) \/ TimeoutFinish(t) \/ SweepFinish(t)
      PROVE  TasksOK'
  BY <1>6, BeginFinishOK
     DEF RejectFinish, EndFinish, TimeoutFinish, SweepFinish, CanRun
<1>7. ASSUME NEW c \in Calls, SweepNext(t, c) PROVE TasksOK'
  <2>. DEFINE session == ReadActiveCall(task[t].home, c)
              rest    == task[t].queue \ {c}
  <2>1. task[t].home \in Instances /\ task[t].pc # "idle"
    BY <1>7 DEF SweepNext, CanRun, TasksOK
  <2>2. /\ session \in Session \cup {None}
        /\ FromRedis(task[t].home, c) => UseRedis
    BY <2>1, ReadType
  <2>3. CASE session = None
    BY <1>7, <2>1, <2>3, OnwardOK, BecomeOK DEF SweepNext
  <2>4. CASE session # None
    <3>1. StateOK([task[t] EXCEPT !.pc = "sweepFinish", !.held = session,
                                  !.copy = FromRedis(task[t].home, c),
                                  !.queue = rest])
      BY <2>1, <2>2, <2>4, TaskType DEF StateOK, TaskState
    <3>. QED  BY <1>7, <2>4, <3>1, BecomeOK DEF SweepNext
  <2>. QED  BY <2>3, <2>4
<1>8. ASSUME SweepStart(t) PROVE TasksOK'
  <2>1. task[t].pc # "idle"  BY <1>8 DEF SweepStart, CanRun
  <2>2. StateOK(Onward(t, ActiveCallsOf(task[t].home, task[t].gone)))
    BY <2>1, OnwardOK
  <2>. QED  BY <1>8, <2>2, BecomeOK DEF SweepStart
<1>. QED  BY <1>1, <1>2, <1>3, <1>4, <1>5, <1>6, <1>7, <1>8 DEF TaskStep

LEMMA TasksOther ==
  ASSUME TypeOK, TasksOK,
         \/ ClientStep
         \/ \E i \in Instances, c \in Calls : TimerStep(i, c)
         \/ \E u \in Users : GraceStep(u)
         \/ \E i \in Instances : Crash(i) \/ LoseRedis(i) \/ RegainRedis(i)
         \/ \E c \in Calls : ExpireKey(c)
         \/ ExpireIndex
  PROVE  TasksOK'
<1>1. ASSUME NEW t \in Tasks, NEW i \in Instances, NEW a \in Attempts,
             CallStart(t, i, a)
      PROVE  TasksOK'
  <2>. DEFINE status == IF Callee[a] \in connected THEN "ringing" ELSE "missed"
              state  == [Idle EXCEPT !.pc = "create", !.home = i, !.todo = Sides,
                           !.held = [attempt |-> a, accepted |-> FALSE],
                           !.plan = Both(status)]
  <2>1. StateOK(state)  BY DEF StateOK, Idle, Session
  <2>. QED  BY <1>1, <2>1, BecomeOK DEF CallStart
<1>2. ASSUME NEW t \in Tasks, NEW i \in Instances, NEW c \in Calls,
             AcceptRequest(t, i, c) \/ RejectRequest(t, i, c) \/ EndRequest(t, i, c)
      PROVE  TasksOK'
  BY <1>2, OpenSessionOK DEF AcceptRequest, RejectRequest, EndRequest
<1>3. ASSUME NEW u \in Users, Connect(u) \/ Disconnect(u) PROVE TasksOK'
  BY <1>3 DEF TasksOK, Connect, Disconnect
<1>4. ASSUME NEW a \in Attempts, Block(a) \/ Unblock(a) PROVE TasksOK'
  BY <1>4 DEF TasksOK, Block, Unblock
<1>5. ASSUME NEW i \in Instances, NEW c \in Calls, NEW t \in Tasks,
             RingTimeout(t, i, c)
      PROVE  TasksOK'
  <2>1. StateOK([Idle EXCEPT !.pc = "timeout", !.home = i,
                             !.held = ReadActiveCall(i, c), !.copy = FromRedis(i, c)])
    BY <1>5, ReadType DEF RingTimeout, StateOK, Idle
  <2>. QED  BY <1>5, <2>1, BecomeOK DEF RingTimeout
<1>6. ASSUME NEW i \in Instances, NEW c \in Calls, NEW t \in Tasks,
             StaleTimeout(t, i, c)
      PROVE  TasksOK'
  BY <1>6 DEF TasksOK, StaleTimeout
<1>7. ASSUME NEW u \in Users, NEW t \in Tasks, NEW i \in Instances,
             GoOffline(t, i, u)
      PROVE  TasksOK'
  <2>1. StateOK([Idle EXCEPT !.pc = "presence", !.home = i, !.gone = u])
    BY DEF StateOK, Idle
  <2>. QED  BY <1>7, <2>1, BecomeOK DEF GoOffline
<1>8. ASSUME NEW i \in Instances, Crash(i) PROVE TasksOK'
  BY <1>8 DEF TasksOK, Crash, Idle
<1>9. ASSUME NEW c \in Calls, ExpireKey(c) PROVE TasksOK'
  BY <1>9 DEF TasksOK, ExpireKey
<1>10. ASSUME NEW i \in Instances, LoseRedis(i) \/ RegainRedis(i) PROVE TasksOK'
  BY <1>10 DEF TasksOK, LoseRedis, RegainRedis
<1>11. ASSUME ExpireIndex PROVE TasksOK'
  BY <1>11 DEF TasksOK, ExpireIndex
<1>. QED
  BY <1>1, <1>2, <1>3, <1>4, <1>5, <1>6, <1>7, <1>8, <1>9, <1>10, <1>11
     DEF ClientStep, TimerStep, GraceStep

-----------------------------------------------------------------------------
(* Sessions are stored under their own call id. *)

LEMMA StoreKeys ==
  ASSUME TypeOK, KeysOK, NEW i \in Instances, NEW session \in Session,
         StoreActiveCall(i, session)
  PROVE  KeysOK'
<1>1. ASSUME NEW j \in Instances, NEW c \in Calls
      PROVE  local'[j][c] = IF j = i /\ c = CallOf(session)
                              THEN session ELSE local[j][c]
  BY DEF TypeOK, StoreActiveCall
<1>2. ASSUME NEW c \in Calls
      PROVE  shared'[c] = IF i \in linked /\ c = CallOf(session)
                            THEN session ELSE shared[c]
  BY DEF TypeOK, StoreActiveCall
<1>. QED  BY <1>1, <1>2 DEF KeysOK, CallOf

\* The steps that store, answer or remove a session are few.
LEMMA SessionsStay ==
  ASSUME Next,
         ~\E t \in Tasks : \/ RingCallee(t) \/ AcceptStore(t)
                          \/ FinishDone(t) \/ AcceptAnswer(t),
         ~\E i \in Instances : Crash(i),
         ~\E c \in Calls : ExpireKey(c)
  PROVE  UNCHANGED << local, shared, orphaned >>
<1>1. ASSUME NEW t \in Tasks, TaskStep(t)
      PROVE  UNCHANGED << local, shared, orphaned >>
  BY <1>1 DEF TaskStep, CreateRecord, UpdateRecord, ReportUnavailable,
       ArmCallTimeout, Refuse, RejectFinish, EndFinish, TimeoutFinish, SweepStart,
       SweepNext, SweepFinish, BeginFinish
<1>2. ClientStep => UNCHANGED << local, shared, orphaned >>
  BY DEF ClientStep, CallStart, AcceptRequest, RejectRequest, EndRequest,
       OpenSession, Connect, Disconnect, Block, Unblock
<1>3. \A i \in Instances, c \in Calls :
        TimerStep(i, c) => UNCHANGED << local, shared, orphaned >>
  BY DEF TimerStep, RingTimeout, StaleTimeout
<1>4. \A u \in Users : GraceStep(u) => UNCHANGED << local, shared, orphaned >>
  BY DEF GraceStep, GoOffline
<1>5. \A i \in Instances : LoseRedis(i) \/ RegainRedis(i) =>
        UNCHANGED << local, shared, orphaned >>
  BY DEF LoseRedis, RegainRedis
<1>6. ExpireIndex => UNCHANGED << local, shared, orphaned >>
  BY DEF ExpireIndex
<1>. QED  BY <1>1, <1>2, <1>3, <1>4, <1>5, <1>6 DEF Next

\* An answer marks sessions and leaves them where they are.
LEMMA AnsweredSame ==
  ASSUME TypeOK, TasksOK, NEW t \in Tasks, AcceptAnswer(t),
         NEW i \in Instances, NEW c \in Calls
  PROVE  /\ local'[i][c] # None <=> local[i][c] # None
         /\ local[i][c] # None => /\ local'[i][c].attempt = local[i][c].attempt
                                  /\ local[i][c].accepted => local'[i][c].accepted
<1>1. local[i][c] \in Session \cup {None}
  BY DEF TypeOK
<1>2. local'[i][c] \in {local[i][c], Answered(local[i][c], task[t].held.attempt)}
  BY DEF TypeOK, AcceptAnswer
<1>. QED  BY <1>1, <1>2, CallAssumption DEF Answered, Session

LEMMA KeysStep ==
  ASSUME TypeOK, TasksOK, KeysOK, Next
  PROVE  KeysOK'
<1>1. ASSUME NEW t \in Tasks, RingCallee(t) \/ AcceptStore(t) PROVE KeysOK'
  <2>1. task[t].home \in Instances /\ task[t].held \in Session
    BY <1>1 DEF TasksOK, RingCallee, AcceptStore, CanRun
  <2>. QED  BY <1>1, <2>1, StoreKeys DEF RingCallee, AcceptStore
<1>2. ASSUME NEW t \in Tasks, FinishDone(t) PROVE KeysOK'
  <2>1. ASSUME NEW j \in Instances, NEW c \in Calls
        PROVE  local'[j][c] \in {None, local[j][c]} /\ shared'[c] \in {None, shared[c]}
    BY <1>2 DEF TypeOK, FinishDone, RemoveActiveCall
  <2>2. ASSUME NEW c \in Calls PROVE shared'[c] \in {None, shared[c]}
    BY <1>2 DEF TypeOK, FinishDone, RemoveActiveCall
  <2>. QED  BY <2>1, <2>2 DEF KeysOK, CallOf
<1>3. ASSUME NEW t \in Tasks, AcceptAnswer(t) PROVE KeysOK'
  <2>1. shared' = shared  BY <1>3 DEF AcceptAnswer
  <2>2. ASSUME NEW i \in Instances, NEW c \in Calls, local'[i][c] # None
        PROVE  CallOf(local'[i][c]) = c
    <3>1. local[i][c] # None /\ local'[i][c].attempt = local[i][c].attempt
      BY <1>3, <2>2, AnsweredSame
    <3>. QED  BY <3>1 DEF KeysOK, CallOf
  <2>. QED  BY <2>1, <2>2 DEF KeysOK, CallOf
<1>4. ASSUME NEW i \in Instances, Crash(i) PROVE KeysOK'
  <2>1. ASSUME NEW j \in Instances, NEW c \in Calls
        PROVE  local'[j][c] \in {None, local[j][c]}
    BY <1>4 DEF TypeOK, Crash
  <2>. QED  BY <1>4, <2>1 DEF KeysOK, CallOf, Crash
<1>5. ASSUME NEW d \in Calls, ExpireKey(d) PROVE KeysOK'
  <2>1. ASSUME NEW c \in Calls PROVE shared'[c] \in {None, shared[c]}
    BY <1>5 DEF TypeOK, ExpireKey
  <2>. QED  BY <1>5, <2>1 DEF KeysOK, CallOf, ExpireKey
<1>6. CASE UNCHANGED << local, shared >>
  BY <1>6 DEF KeysOK, CallOf
<1>. QED  BY <1>1, <1>2, <1>3, <1>4, <1>5, <1>6, SessionsStay

-----------------------------------------------------------------------------
(* No unanswered session is left to ring without an end. *)

GuardPcs == {"arm", "timeout", "finish"}

\* No step takes its guard from a session that stays where it is.
GuardsStay ==
  \A i \in Instances, c \in Calls :
    Guarded(i, c) /\ local[i][c] # None /\ local'[i][c] # None => Guarded(i, c)'

\* A handler that guards nothing changes state; the timers stay.
LEMMA GuardFrame ==
  ASSUME TypeOK, NEW t \in Tasks, NEW state,
         Become(t, state), task[t].pc \notin GuardPcs, timer' = timer
  PROVE  GuardsStay
<1>1. \A u \in Tasks : u # t => task'[u] = task[u]
  BY DEF TypeOK, Become
<1>2. \A i \in Instances, c \in Calls, u \in Tasks : Guards(u, i, c) => Guards(u, i, c)'
  BY <1>1 DEF Guards, GuardPcs, CallOf
<1>. QED  BY <1>2 DEF GuardsStay, Guarded

\* finishCall clears a timer but guards what the timer guarded.
LEMMA GuardFinish ==
  ASSUME TypeOK, TasksOK, NEW t \in Tasks, NEW outcome,
         task[t].pc \in {"rejectCheck", "endCheck", "timeout", "sweepFinish"},
         BeginFinish(t, outcome)
  PROVE  GuardsStay
<1>. DEFINE h == task[t].home
            d == CallOf(task[t].held)
<1>1. \A u \in Tasks : u # t => task'[u] = task[u]
  BY DEF TypeOK, Become, BeginFinish
<1>2. task'[t].pc = "finish" /\ task'[t].home = h /\ task'[t].held = task[t].held
  BY TaskType DEF TypeOK, Become, BeginFinish, TaskState
<1>3. \A i \in Instances, c \in Calls : i = h /\ c = d => Guards(t, i, c)'
  BY <1>2 DEF Guards, CallOf
<1>4. SUFFICES ASSUME NEW i \in Instances, NEW c \in Calls, Guarded(i, c)
               PROVE  Guarded(i, c)'
  BY DEF GuardsStay
<1>5. CASE i = h /\ c = d
  BY <1>3, <1>5 DEF Guarded
<1>6. CASE ~(i = h /\ c = d)
  <2>1. timer'[i][c] = timer[i][c]
    BY <1>6 DEF TypeOK, BeginFinish
  <2>2. ~Guards(t, i, c)
    BY <1>6 DEF Guards
  <2>3. \A u \in Tasks : Guards(u, i, c) => Guards(u, i, c)'
    BY <1>1, <2>2 DEF Guards, CallOf
  <2>. QED  BY <1>4, <2>1, <2>3 DEF Guarded
<1>. QED  BY <1>5, <1>6

LEMMA GuardTaskStep ==
  ASSUME GuardInv, NEW t \in Tasks, TaskStep(t)
  PROVE  GuardsStay
<1>. USE DEF GuardInv
<1>. DEFINE h == task[t].home
            d == CallOf(task[t].held)
<1>1. ASSUME NEW side \in Sides, CreateRecord(t, side) PROVE GuardsStay
  BY <1>1, GuardFrame DEF CreateRecord, CanRun, GuardPcs
<1>2. ASSUME NEW side \in Sides, UpdateRecord(t, side) PROVE GuardsStay
  <2>1. \A u \in Tasks : u # t => task'[u] = task[u]
    BY <1>2 DEF TypeOK, Become, UpdateRecord
  <2>2. /\ task'[t].pc = task[t].pc
        /\ task'[t].home = task[t].home
        /\ task'[t].held = task[t].held
    BY <1>2, TaskType DEF TypeOK, Become, UpdateRecord, TaskState
  <2>3. \A i \in Instances, c \in Calls, u \in Tasks : Guards(u, i, c) => Guards(u, i, c)'
    BY <2>1, <2>2 DEF Guards, CallOf
  <2>. QED  BY <1>2, <2>3 DEF GuardsStay, Guarded, UpdateRecord
<1>3. ASSUME RingCallee(t) PROVE GuardsStay
  BY <1>3, GuardFrame DEF RingCallee, CanRun, GuardPcs
<1>4. ASSUME ReportUnavailable(t) \/ Refuse(t) PROVE GuardsStay
  BY <1>4, GuardFrame DEF ReportUnavailable, Refuse, CanRun, GuardPcs
<1>5. ASSUME ArmCallTimeout(t) PROVE GuardsStay
  <2>1. \A u \in Tasks : u # t => task'[u] = task[u]
    BY <1>5 DEF TypeOK, Become, ArmCallTimeout
  <2>2. ASSUME NEW i \in Instances, NEW c \in Calls, i = h, c = d
        PROVE  timer'[i][c]
    BY <1>5, <2>2 DEF TypeOK, ArmCallTimeout
  <2>3. ASSUME NEW i \in Instances, NEW c \in Calls, ~(i = h /\ c = d)
        PROVE  /\ timer'[i][c] = timer[i][c]
               /\ \A u \in Tasks : Guards(u, i, c) => Guards(u, i, c)'
    BY <1>5, <2>1, <2>3 DEF TypeOK, ArmCallTimeout, Guards, CallOf
  <2>. QED  BY <2>2, <2>3 DEF GuardsStay, Guarded
<1>6. ASSUME FinishDone(t) PROVE GuardsStay
  <2>1. \A u \in Tasks : u # t => task'[u] = task[u]
    BY <1>6 DEF TypeOK, Become, FinishDone
  <2>2. ASSUME NEW i \in Instances, NEW c \in Calls, i = h, c = d
        PROVE  local'[i][c] = None
    BY <1>6, <2>2 DEF TypeOK, FinishDone, RemoveActiveCall
  <2>3. ASSUME NEW i \in Instances, NEW c \in Calls, ~(i = h /\ c = d)
        PROVE  \A u \in Tasks : Guards(u, i, c) => Guards(u, i, c)'
    BY <1>6, <2>1, <2>3 DEF FinishDone, Guards, CallOf
  <2>4. timer' = timer  BY <1>6 DEF FinishDone
  <2>. QED  BY <2>2, <2>3, <2>4 DEF GuardsStay, Guarded
<1>7. ASSUME AcceptAnswer(t) PROVE GuardsStay
  <2>1. timer' = timer /\ task[t].pc = "acceptCheck"
    BY <1>7 DEF AcceptAnswer, CanRun
  <2>2. ASSUME NEW u \in Tasks, NEW i \in Instances, NEW c \in Calls,
               Guards(u, i, c)
        PROVE  Guards(u, i, c)'
    <3>. DEFINE a == task[t].held.attempt
    <3>1. u # t  BY <2>1, <2>2 DEF Guards
    <3>2. task[u].held \in Session
      BY <2>2 DEF Guards, TasksOK
    <3>3. Answered(task[u].held, a).attempt = task[u].held.attempt
      BY <3>2 DEF Answered, Session
    <3>4. task'[u] \in {task[u], [task[u] EXCEPT !.held = Answered(@, a)]}
      BY <1>7, <3>1 DEF AcceptAnswer, TypeOK, Become
    <3>5. /\ task'[u].pc = task[u].pc
          /\ task'[u].home = task[u].home
          /\ task'[u].held.attempt = task[u].held.attempt
      BY <3>3, <3>4, TaskType DEF TaskState
    <3>. QED  BY <2>2, <3>5 DEF Guards, CallOf
  <2>. QED  BY <2>1, <2>2 DEF GuardsStay, Guarded
<1>8. ASSUME AcceptStore(t) PROVE GuardsStay
  BY <1>8, GuardFrame DEF AcceptStore, CanRun, GuardPcs
<1>9. ASSUME RejectFinish(t) \/ EndFinish(t) \/ TimeoutFinish(t) \/ SweepFinish(t)
      PROVE  GuardsStay
  BY <1>9, GuardFinish
     DEF RejectFinish, EndFinish, TimeoutFinish, SweepFinish, CanRun
<1>10. ASSUME NEW c \in Calls, SweepNext(t, c) PROVE GuardsStay
  BY <1>10, GuardFrame DEF SweepNext, CanRun, GuardPcs
<1>11. ASSUME SweepStart(t) PROVE GuardsStay
  BY <1>11, GuardFrame DEF SweepStart, CanRun, GuardPcs
<1>. QED
  BY <1>1, <1>2, <1>3, <1>4, <1>5, <1>6, <1>7, <1>8, <1>9, <1>10, <1>11 DEF TaskStep

LEMMA GuardOther ==
  ASSUME GuardInv,
         \/ ClientStep
         \/ \E i \in Instances, c \in Calls : TimerStep(i, c)
         \/ \E u \in Users : GraceStep(u)
         \/ \E i \in Instances : Crash(i) \/ LoseRedis(i) \/ RegainRedis(i)
         \/ \E c \in Calls : ExpireKey(c)
         \/ ExpireIndex
  PROVE  GuardsStay
<1>. USE DEF GuardInv
<1>1. ASSUME NEW t \in Tasks, NEW i \in Instances, NEW a \in Attempts,
             CallStart(t, i, a)
      PROVE  GuardsStay
  BY <1>1, GuardFrame DEF CallStart, CanStart, GuardPcs
<1>2. ASSUME NEW t \in Tasks, NEW i \in Instances, NEW c \in Calls,
             AcceptRequest(t, i, c) \/ RejectRequest(t, i, c) \/ EndRequest(t, i, c)
      PROVE  GuardsStay
  BY <1>2, GuardFrame
     DEF AcceptRequest, RejectRequest, EndRequest, OpenSession, CanStart, GuardPcs
<1>3. ASSUME UNCHANGED << timer, task >> PROVE GuardsStay
  BY <1>3 DEF GuardsStay, Guarded, Guards, CallOf
<1>4. ASSUME NEW h \in Instances, NEW d \in Calls, NEW t \in Tasks,
             RingTimeout(t, h, d)
      PROVE  GuardsStay
  <2>1. \A u \in Tasks : u # t => task'[u] = task[u]
    BY <1>4 DEF TypeOK, Become, RingTimeout
  <2>2. /\ task'[t].pc = "timeout"
        /\ task'[t].home = h
        /\ task'[t].held = ReadActiveCall(h, d)
    BY <1>4 DEF TypeOK, Become, RingTimeout, Idle
  <2>3. SUFFICES ASSUME NEW i \in Instances, NEW c \in Calls, Guarded(i, c)
                 PROVE  Guarded(i, c)'
    BY DEF GuardsStay
  <2>4. \A u \in Tasks : Guards(u, i, c) => Guards(u, i, c)'
    BY <1>4, <2>1 DEF Guards, CallOf, RingTimeout, CanStart
  <2>5. CASE i = h /\ c = d
    <3>1. CallOf(ReadActiveCall(h, d)) = d
      BY <1>4 DEF RingTimeout, ReadActiveCall, FromRedis, KeysOK
    <3>. QED  BY <2>2, <2>5, <3>1 DEF Guarded, Guards, CallOf
  <2>6. CASE ~(i = h /\ c = d)
    <3>1. timer'[i][c] = timer[i][c]
      BY <1>4, <2>6 DEF TypeOK, RingTimeout
    <3>. QED  BY <2>3, <2>4, <3>1 DEF Guarded
  <2>. QED  BY <2>5, <2>6
<1>5. ASSUME NEW h \in Instances, NEW d \in Calls, NEW t \in Tasks,
             StaleTimeout(t, h, d)
      PROVE  GuardsStay
  <2>1. local[h][d] = None
    BY <1>5, ReadNone DEF StaleTimeout
  <2>2. ASSUME NEW i \in Instances, NEW c \in Calls, ~(i = h /\ c = d)
        PROVE  timer'[i][c] = timer[i][c]
    BY <1>5, <2>2 DEF TypeOK, StaleTimeout
  <2>3. UNCHANGED << local, task >>
    BY <1>5 DEF StaleTimeout
  <2>. QED  BY <2>1, <2>2, <2>3 DEF GuardsStay, Guarded, Guards, CallOf
<1>6. ASSUME NEW u \in Users, NEW t \in Tasks, NEW i \in Instances,
             GoOffline(t, i, u)
      PROVE  GuardsStay
  BY <1>6, GuardFrame DEF GoOffline, CanStart, GuardPcs
<1>7. ASSUME NEW h \in Instances, Crash(h) PROVE GuardsStay
  <2>1. ASSUME NEW i \in Instances, NEW c \in Calls, local'[i][c] # None
        PROVE  i # h /\ timer'[i][c] = timer[i][c]
    BY <1>7, <2>1 DEF TypeOK, Crash
  <2>2. ASSUME NEW i \in Instances, i # h, NEW c \in Calls, NEW u \in Tasks,
               Guards(u, i, c)
        PROVE  Guards(u, i, c)'
    BY <1>7, <2>2 DEF Guards, CallOf, Crash
  <2>. QED  BY <2>1, <2>2 DEF GuardsStay, Guarded
<1>8. CASE \E u \in Users : Connect(u) \/ Disconnect(u)
  BY <1>3, <1>8 DEF Connect, Disconnect
<1>9. CASE \E a \in Attempts : Block(a) \/ Unblock(a)
  BY <1>3, <1>9 DEF Block, Unblock
<1>10. CASE \E i \in Instances : LoseRedis(i) \/ RegainRedis(i)
  BY <1>3, <1>10 DEF LoseRedis, RegainRedis
<1>11. CASE (\E c \in Calls : ExpireKey(c)) \/ ExpireIndex
  BY <1>3, <1>11 DEF ExpireKey, ExpireIndex
<1>. QED
  BY <1>1, <1>2, <1>4, <1>5, <1>6, <1>7, <1>8, <1>9, <1>10, <1>11
     DEF ClientStep, TimerStep, GraceStep

LEMMA GuardStep == ASSUME GuardInv, Next PROVE GuardsStay
BY GuardTaskStep, GuardOther DEF Next

\* A session just stored is guarded by the handler that is about to arm its timer.
LEMMA RingGuarded ==
  ASSUME GuardInv, NEW t \in Tasks, RingCallee(t),
         NEW i \in Instances, i = task[t].home, NEW c \in Calls, c = CallOf(task[t].held)
  PROVE  Guarded(i, c)'
<1>1. /\ task'[t].pc = "arm" /\ task'[t].home = task[t].home
      /\ task'[t].held = task[t].held
  BY TaskType DEF GuardInv, TypeOK, Become, RingCallee, TaskState
<1>2. Guards(t, i, c)'
  BY <1>1 DEF Guards, CallOf
<1>. QED  BY <1>2 DEF Guarded

LEMMA UnansweredStep == ASSUME GuardInv, Next PROVE UnansweredIsGuarded'
<1>. USE DEF GuardInv
<1>1. SUFFICES ASSUME NEW i \in Instances, NEW c \in Calls,
                      local'[i][c] # None, ~local'[i][c].accepted
               PROVE  Guarded(i, c)'
  BY DEF UnansweredIsGuarded
<1>2. ASSUME local[i][c] # None, ~local[i][c].accepted PROVE Guarded(i, c)'
  BY <1>1, <1>2, GuardStep DEF GuardsStay, UnansweredIsGuarded
<1>3. ASSUME local'[i][c] = local[i][c] PROVE Guarded(i, c)'
  BY <1>1, <1>2, <1>3
<1>4. ASSUME NEW t \in Tasks, RingCallee(t) PROVE Guarded(i, c)'
  <2>1. CASE i = task[t].home /\ c = CallOf(task[t].held)
    BY <1>4, <2>1, RingGuarded
  <2>2. CASE ~(i = task[t].home /\ c = CallOf(task[t].held))
    BY <1>3, <1>4, <2>2 DEF TypeOK, RingCallee, StoreActiveCall
  <2>. QED  BY <2>1, <2>2
<1>5. ASSUME NEW t \in Tasks, AcceptStore(t) PROVE Guarded(i, c)'
  <2>1. task[t].held.accepted
    BY <1>5 DEF AcceptStore, CanRun, TasksOK
  <2>2. local'[i][c] \in {task[t].held, local[i][c]}
    BY <1>5 DEF TypeOK, AcceptStore, StoreActiveCall
  <2>. QED  BY <1>1, <1>3, <2>1, <2>2
<1>6. ASSUME NEW t \in Tasks, FinishDone(t) PROVE Guarded(i, c)'
  <2>1. local'[i][c] \in {None, local[i][c]}
    BY <1>6 DEF TypeOK, FinishDone, RemoveActiveCall
  <2>. QED  BY <1>1, <1>3, <2>1
<1>7. ASSUME NEW t \in Tasks, AcceptAnswer(t) PROVE Guarded(i, c)'
  BY <1>1, <1>2, <1>7, AnsweredSame
<1>8. ASSUME NEW h \in Instances, Crash(h) PROVE Guarded(i, c)'
  <2>1. local'[i][c] \in {None, local[i][c]}
    BY <1>8 DEF TypeOK, Crash
  <2>. QED  BY <1>1, <1>3, <2>1
<1>9. ASSUME NEW d \in Calls, ExpireKey(d) PROVE Guarded(i, c)'
  BY <1>3, <1>9 DEF ExpireKey
<1>. QED  BY <1>3, <1>4, <1>5, <1>6, <1>7, <1>8, <1>9, SessionsStay

-----------------------------------------------------------------------------
LEMMA GuardInit == Init => GuardInv
<1>. SUFFICES ASSUME Init PROVE GuardInv
  OBVIOUS
<1>1. TypeOK
  BY IdleType, CallAssumption DEF Init, TypeOK, Both, Statuses
<1>2. TasksOK /\ KeysOK /\ UnansweredIsGuarded
  BY DEF Init, TasksOK, KeysOK, UnansweredIsGuarded, Idle
<1>. QED  BY <1>1, <1>2 DEF GuardInv

LEMMA GuardNext == GuardInv /\ [Next]_vars => GuardInv'
<1>. SUFFICES ASSUME GuardInv, [Next]_vars PROVE GuardInv'
  OBVIOUS
<1>. USE DEF GuardInv
<1>1. CASE Next
  <2>1. TypeOK'
    BY <1>1, TaskStepType, ClientStepType, SystemStepType DEF Next
  <2>2. TasksOK'
    BY <1>1, TasksStep, TasksOther DEF Next
  <2>3. KeysOK'
    BY <1>1, KeysStep
  <2>4. UnansweredIsGuarded'
    BY <1>1, UnansweredStep
  <2>. QED  BY <2>1, <2>2, <2>3, <2>4
<1>2. CASE UNCHANGED vars
  <2>1. TypeOK'  BY <1>2 DEF vars, TypeOK
  <2>2. TasksOK' /\ KeysOK'  BY <1>2 DEF vars, TasksOK, KeysOK, CallOf
  <2>3. UnansweredIsGuarded'
    BY <1>2 DEF vars, UnansweredIsGuarded, Guarded, Guards, CallOf
  <2>. QED  BY <2>1, <2>2, <2>3
<1>. QED  BY <1>1, <1>2

\* The conjunction of types, task facts, keys and guards is an invariant of
\* the signalling in every deployment.
THEOREM GuardInvariant == Spec => []GuardInv
  BY GuardInit, GuardNext, PTL DEF Spec

\* Type correctness: sessions, records, timers and handler states keep the
\* shapes sockets/index.js gives them.
THEOREM TypeCorrect == Spec => []TypeOK
<1>1. GuardInv => TypeOK  BY DEF GuardInv
<1>. QED  BY <1>1, GuardInvariant, PTL

\* In every deployment, with any number of concurrent handlers, duplicate
\* call ids and crashes, a process that holds an unanswered session has its
\* ring timer armed or a handler about to arm it or to remove the session.
THEOREM NoEndlessRinging == Spec => []UnansweredIsGuarded
<1>1. GuardInv => UnansweredIsGuarded  BY DEF GuardInv
<1>. QED  BY <1>1, GuardInvariant, PTL

-----------------------------------------------------------------------------
(* Whoever holds a session that others see ends its ringing. *)

Holds(i, c) == local[i][c] # None /\ Guarded(i, c)
Owed(c)     == shared[c] # None /\ ~shared[c].accepted /\ c \notin orphaned

LEMMA OwnerStep ==
  ASSUME GuardInv, SharedHasOwner, Next
  PROVE  SharedHasOwner'
<1>. USE DEF GuardInv
<1>1. SUFFICES ASSUME NEW c \in Calls, Owed(c)'
               PROVE  \E i \in Instances : Holds(i, c)'
  BY DEF SharedHasOwner, Owed, Holds
<1>2. ASSUME Owed(c), \A i \in Instances : Holds(i, c) => local'[i][c] # None
      PROVE  \E i \in Instances : Holds(i, c)'
  <2>1. PICK i \in Instances : Holds(i, c)
    BY <1>2 DEF SharedHasOwner, Owed, Holds
  <2>2. Guarded(i, c)'
    BY <1>2, <2>1, GuardStep DEF GuardsStay, Holds
  <2>. QED  BY <1>2, <2>1, <2>2 DEF Holds
<1>3. ASSUME NEW t \in Tasks, RingCallee(t) \/ AcceptStore(t)
      PROVE  \E i \in Instances : Holds(i, c)'
  <2>. DEFINE h == task[t].home
              d == CallOf(task[t].held)
  <2>1. /\ h \in Instances /\ task[t].held \in Session
        /\ AcceptStore(t) => task[t].held.accepted
    BY <1>3 DEF TasksOK, RingCallee, AcceptStore, CanRun
  <2>2. \A i \in Instances : local[i][c] # None => local'[i][c] # None
    BY <1>3, <2>1, CallAssumption DEF TypeOK, RingCallee, AcceptStore, StoreActiveCall
  <2>3. CASE h \in linked /\ c = d
    <3>1. shared'[c] = task[t].held
      BY <1>3, <2>3 DEF TypeOK, RingCallee, AcceptStore, StoreActiveCall
    <3>2. RingCallee(t)  BY <1>1, <1>3, <2>1, <3>1 DEF Owed
    <3>3. local'[h][c] # None
      BY <2>1, <2>3, <3>2, CallAssumption DEF TypeOK, RingCallee, StoreActiveCall
    <3>. QED  BY <2>1, <2>3, <3>2, <3>3, RingGuarded DEF Holds
  <2>4. CASE ~(h \in linked /\ c = d)
    <3>1. Owed(c)
      BY <1>1, <1>3, <2>4
         DEF TypeOK, RingCallee, AcceptStore, StoreActiveCall, Owed
    <3>. QED  BY <1>2, <2>2, <3>1 DEF Holds
  <2>. QED  BY <2>3, <2>4
<1>4. ASSUME NEW t \in Tasks, FinishDone(t) PROVE \E i \in Instances : Holds(i, c)'
  <2>. DEFINE h == task[t].home
              d == CallOf(task[t].held)
  <2>1. /\ Owed(c)
        /\ c = d => h \notin linked /\ ~(local[h][c] # None /\ shared[c] # None)
    BY <1>1, <1>4 DEF TypeOK, FinishDone, RemoveActiveCall, KeysHeldBy, Owed
  <2>2. \A i \in Instances : ~(i = h /\ c = d) => local'[i][c] = local[i][c]
    BY <1>4 DEF TypeOK, FinishDone, RemoveActiveCall
  <2>. QED  BY <1>2, <2>1, <2>2 DEF Holds, Owed
<1>5. ASSUME NEW t \in Tasks, AcceptAnswer(t) PROVE \E i \in Instances : Holds(i, c)'
  <2>1. Owed(c)  BY <1>1, <1>5 DEF AcceptAnswer, Owed
  <2>. QED  BY <1>2, <1>5, <2>1, AnsweredSame DEF Holds
<1>6. ASSUME NEW h \in Instances, Crash(h) PROVE \E i \in Instances : Holds(i, c)'
  <2>1. Owed(c) /\ local[h][c] = None
    BY <1>1, <1>6 DEF Crash, KeysHeldBy, Owed
  <2>2. \A i \in Instances : i # h => local'[i][c] = local[i][c]
    BY <1>6 DEF TypeOK, Crash
  <2>. QED  BY <1>2, <2>1, <2>2 DEF Holds
<1>7. ASSUME NEW d \in Calls, ExpireKey(d) PROVE \E i \in Instances : Holds(i, c)'
  <2>1. Owed(c) /\ local' = local
    BY <1>1, <1>7 DEF TypeOK, ExpireKey, Owed
  <2>. QED  BY <1>2, <2>1 DEF Holds
<1>8. CASE UNCHANGED << local, shared, orphaned >>
  BY <1>1, <1>2, <1>8 DEF Owed, Holds
<1>. QED  BY <1>3, <1>4, <1>5, <1>6, <1>7, <1>8, SessionsStay

\* In every deployment, with any number of processes, crashes and losses of
\* Redis, an unanswered session that processes share through Redis is held by one
\* of them that will end its ringing, unless the process that held it crashed or
\* ended the call while it had lost Redis (sockets/index.js:72-148, 203-227,
\* 266-303).
THEOREM SharedSessionHasOwner == Spec => []SharedHasOwner
<1>1. Init => SharedHasOwner  BY DEF Init, SharedHasOwner
<1>2. GuardInv /\ SharedHasOwner /\ [Next]_vars => SharedHasOwner'
  <2>1. ASSUME SharedHasOwner, UNCHANGED vars PROVE SharedHasOwner'
    BY <2>1 DEF SharedHasOwner, Guarded, Guards, CallOf, vars
  <2>. QED  BY <2>1, OwnerStep
<1>. QED  BY <1>1, <1>2, GuardInvariant, PTL DEF Spec
=============================================================================
