------------------------- MODULE RelationshipsProofs -------------------------
(***************************************************************************)
(* Machine-checked facts about Relationships, for any number of users,     *)
(* records and handlers.  PairInv holds over both stores; AloneInv is what *)
(* is true besides over memory, where one handler runs at a time.          *)
(***************************************************************************)
EXTENDS Relationships, TLAPS

\* A record in use is between two different users.
RecordsOK ==
  \A r \in Records :
    \/ friendship[r] = Unused
    \/ /\ friendship[r].status \in Statuses
       /\ friendship[r].from \in Users /\ friendship[r].to \in Users
       /\ friendship[r].from # friendship[r].to

\* What a running handler works on.
TaskPair(t) ==
  /\ ~Free(t) => /\ task[t].actor \in Users /\ task[t].target \in Users
                 /\ task[t].actor # task[t].target
  /\ task[t].pc \in {"read", "write"} => task[t].action \in Answers \cup {"request"}
  /\ task[t].pc = "write" /\ task[t].action # "request" =>
       /\ task[t].record \in Records
       /\ Between(task[t].record, task[t].actor, task[t].target)

PairInv ==
  /\ TypeOK
  /\ RecordsOK
  /\ \A t \in Tasks : TaskPair(t)
  /\ UseMongo => OneOpen

-----------------------------------------------------------------------------
(* Both stores *)

LEMMA IdleTyped == Idle \in TaskState
BY DEF Idle, TaskState

LEMMA TaskTyped ==
  ASSUME TypeOK, NEW t \in Tasks
  PROVE  /\ task \in [Tasks -> TaskState]
         /\ task[t] \in TaskState
         /\ task[t].action \in Answers \cup {"request", "block"}
         /\ task[t].record \in Records \cup {None}
BY DEF TypeOK, TaskState

LEMMA NewStatusTyped ==
  ASSUME NEW action \in Answers
  PROVE  /\ NewStatus(action) \in Statuses
         /\ NewStatus(action) \in OpenStatuses <=> action = "accept"
         /\ action = "accept" => NewStatus(action) = "accepted"
BY DEF Answers, NewStatus, Statuses, OpenStatuses

LEMMA PairInit == Init => PairInv
<1>. SUFFICES ASSUME Init PROVE PairInv
  OBVIOUS
<1>1. TypeOK
  BY IdleTyped DEF Init, TypeOK, Friendships, Unused, Statuses, OpenStatuses
<1>2. RecordsOK  BY DEF Init, RecordsOK
<1>3. \A t \in Tasks : TaskPair(t)  BY DEF Init, TaskPair, Free, Idle
<1>4. OneOpen  BY DEF Init, OneOpen, Open, Unused, OpenStatuses
<1>. QED  BY <1>1, <1>2, <1>3, <1>4 DEF PairInv

\* Handlers that start or read; only their own slot changes.
LEMMA QuietPair ==
  ASSUME PairInv, NEW t \in Tasks, NEW state \in TaskState,
         task' = [task EXCEPT ![t] = state],
         UNCHANGED << friendship, latest >>,
         blocks' \subseteq Users \X Users,
         TaskPair(t)'
  PROVE  PairInv'
<1>. USE DEF PairInv
<1>1. TypeOK'  BY DEF TypeOK
<1>2. RecordsOK'  BY DEF RecordsOK
<1>3. \A u \in Tasks : TaskPair(u)'
  <2>1. \A u \in Tasks \ {t} : task'[u] = task[u]  BY DEF TypeOK
  <2>. QED  BY <2>1 DEF TaskPair, Free, Between
<1>4. UseMongo => OneOpen'  BY DEF OneOpen, Open, Between
<1>. QED  BY <1>1, <1>2, <1>3, <1>4

\* Writes of records keep the users of a record in use.
LEMMA WritingPair ==
  ASSUME PairInv, NEW t \in Tasks, TypeOK', RecordsOK',
         \A u \in Tasks : task'[u] = task[u] \/ task'[u] = Idle,
         \A r \in Records : \/ friendship[r] = Unused
                            \/ /\ friendship'[r].from = friendship[r].from
                               /\ friendship'[r].to = friendship[r].to,
         UseMongo => OneOpen'
  PROVE  PairInv'
<1>1. ASSUME NEW u \in Tasks PROVE TaskPair(u)'
  <2>1. CASE task'[u] = Idle  BY <2>1 DEF TaskPair, Free, Idle
  <2>2. CASE task'[u] = task[u]
    BY <2>2, RelationshipAssumption DEF PairInv, TaskPair, Free, Between, Unused
  <2>. QED  BY <2>1, <2>2
<1>. QED  BY <1>1 DEF PairInv

LEMMA PairNext == ASSUME PairInv, [Next]_vars PROVE PairInv'
<1>. USE RelationshipAssumption
<1>0. TypeOK /\ RecordsOK  BY DEF PairInv
<1>1. CASE UNCHANGED vars
  BY <1>1
  DEF vars, PairInv, TypeOK, RecordsOK, TaskPair, OneOpen, Free, Between, Open
<1>2. ASSUME NEW t \in Tasks, NEW a \in Users, NEW b \in Users,
             NEW action \in Answers \cup {"request"}, FriendAction(t, a, b, action)
      PROVE  PairInv'
  <2>. DEFINE state == [pc |-> "read", action |-> action, actor |-> a, target |-> b,
                        record |-> None]
  <2>1. state \in TaskState  BY DEF TaskState
  <2>2. task' = [task EXCEPT ![t] = state] /\ UNCHANGED << friendship, latest, blocks >>
        /\ a # b
    BY <1>2 DEF FriendAction
  <2>3. task'[t] = state  BY <1>0, <2>2 DEF TypeOK
  <2>4. TaskPair(t)'  BY <2>2, <2>3 DEF TaskPair
  <2>. HIDE DEF state
  <2>. QED  BY <1>0, <2>1, <2>2, <2>4, QuietPair DEF TypeOK
<1>3. ASSUME NEW t \in Tasks, ReadRecords(t) PROVE PairInv'
  <2>. DEFINE a == task[t].actor
              b == task[t].target
  <2>1. UNCHANGED << friendship, latest, blocks >> /\ task[t].pc = "read"
    BY <1>3 DEF ReadRecords
  <2>2. TaskPair(t) /\ task[t].action \in Answers \cup {"request"}
    BY <2>1 DEF PairInv, TaskPair
  <2>3. CASE Finish(t)
    <3>1. task' = [task EXCEPT ![t] = Idle] /\ task'[t] = Idle
      BY <1>0, <2>3 DEF Finish, TypeOK
    <3>2. TaskPair(t)'  BY <3>1 DEF TaskPair, Idle, Free
    <3>. QED  BY <1>0, <2>1, <3>1, <3>2, IdleTyped, QuietPair DEF TypeOK
  <2>4. ASSUME task[t].action = "request", task' = [task EXCEPT ![t].pc = "write"]
        PROVE  PairInv'
    <3>1. [task[t] EXCEPT !.pc = "write"] \in TaskState
      BY <1>0, TaskTyped DEF TaskState
    <3>2. task' = [task EXCEPT ![t] = [task[t] EXCEPT !.pc = "write"]]
      BY <2>4
    <3>3. /\ task'[t].pc = "write" /\ task'[t].action = "request"
          /\ task'[t].actor = a /\ task'[t].target = b
      BY <1>0, <2>4, TaskTyped DEF TaskState
    <3>4. TaskPair(t)'  BY <2>1, <2>2, <3>3 DEF TaskPair, Free
    <3>. QED  BY <1>0, <2>1, <3>1, <3>2, <3>4, QuietPair DEF TypeOK
  <2>5. ASSUME NEW r \in Addressed(task[t].action, a, b),
               task[t].action # "request",
               task' = [task EXCEPT ![t].pc = "write", ![t].record = r]
        PROVE  PairInv'
    <3>1. r \in Records /\ Between(r, a, b)
      BY <1>0, <2>2, <2>5 DEF Addressed, LatestBetween, Between, TypeOK, Answers
    <3>2. [task[t] EXCEPT !.pc = "write", !.record = r] \in TaskState
      BY <1>0, <3>1, TaskTyped DEF TaskState
    <3>3. task' = [task EXCEPT ![t] = [task[t] EXCEPT !.pc = "write", !.record = r]]
      BY <1>0, <2>5, TaskTyped DEF TaskState
    <3>4. /\ task'[t].pc = "write" /\ task'[t].action = task[t].action
          /\ task'[t].actor = a /\ task'[t].target = b /\ task'[t].record = r
      BY <1>0, <3>3, TaskTyped DEF TaskState
    <3>5. TaskPair(t)'  BY <2>1, <2>2, <3>1, <3>4 DEF TaskPair, Free, Between
    <3>. QED  BY <1>0, <2>1, <3>2, <3>3, <3>5, QuietPair DEF TypeOK
  <2>. QED  BY <1>3, <2>3, <2>4, <2>5 DEF ReadRecords
<1>4. ASSUME NEW t \in Tasks, CreateRequest(t) PROVE PairInv'
  <2>. DEFINE a == task[t].actor
              b == task[t].target
  <2>0. Finish(t) /\ UNCHANGED blocks /\ task[t].pc = "write"
    BY <1>4 DEF CreateRequest
  <2>1. /\ task' \in [Tasks -> TaskState]
        /\ \A u \in Tasks : task'[u] = task[u] \/ task'[u] = Idle
    BY <1>0, <2>0, IdleTyped DEF Finish, TypeOK
  <2>2. a \in Users /\ b \in Users /\ a # b
    BY <2>0 DEF PairInv, TaskPair, Free
  <2>3. CASE UNCHANGED << friendship, latest >>
    <3>1. TypeOK' /\ RecordsOK' /\ (UseMongo => OneOpen')
      BY <2>0, <2>1, <2>3
      DEF PairInv, TypeOK, RecordsOK, OneOpen, Open, Between
    <3>. QED  BY <2>1, <2>3, <3>1, WritingPair
  <2>4. ASSUME NEW r \in Records, friendship[r] = Unused,
               UseMongo => OpenBetween(a, b) = {},
               friendship' = [friendship EXCEPT
                                ![r] = [from |-> a, to |-> b, status |-> "pending"]],
               latest' = (latest \ LatestBetween(a, b)) \cup {r}
        PROVE  PairInv'
    <3>1. /\ friendship'[r] = [from |-> a, to |-> b, status |-> "pending"]
          /\ \A q \in Records \ {r} : friendship'[q] = friendship[q]
      BY <1>0, <2>4 DEF TypeOK
    <3>2. TypeOK'
      BY <1>0, <2>0, <2>1, <2>2, <2>4
      DEF TypeOK, Friendships, Statuses, OpenStatuses
    <3>3. RecordsOK'
      BY <1>0, <2>2, <3>1 DEF RecordsOK, Statuses, OpenStatuses
    <3>4. UseMongo => OneOpen'
      BY <2>4, <3>1 DEF PairInv, OneOpen, OpenBetween, Open, Between
    <3>. QED  BY <2>1, <2>4, <3>1, <3>2, <3>3, <3>4, WritingPair
  <2>. QED  BY <1>4, <2>3, <2>4 DEF CreateRequest
<1>5. ASSUME NEW t \in Tasks, Answer(t) PROVE PairInv'
  <2>. DEFINE a == task[t].actor
              b == task[t].target
              r == task[t].record
              status == NewStatus(task[t].action)
  <2>0. Finish(t) /\ UNCHANGED blocks /\ task[t].pc = "write" /\ task[t].action # "request"
    BY <1>5 DEF Answer
  <2>1. /\ task' \in [Tasks -> TaskState]
        /\ \A u \in Tasks : task'[u] = task[u] \/ task'[u] = Idle
    BY <1>0, <2>0, IdleTyped DEF Finish, TypeOK
  <2>2. /\ a \in Users /\ b \in Users /\ a # b /\ task[t].action \in Answers
        /\ r \in Records /\ Between(r, a, b)
    BY <2>0 DEF PairInv, TaskPair, Free
  <2>3. CASE UNCHANGED << friendship, latest >>
    <3>1. TypeOK' /\ RecordsOK' /\ (UseMongo => OneOpen')
      BY <2>0, <2>1, <2>3
      DEF PairInv, TypeOK, RecordsOK, OneOpen, Open, Between
    <3>. QED  BY <2>1, <2>3, <3>1, WritingPair
  <2>4. ASSUME UseMongo /\ status \in OpenStatuses => OpenBetween(a, b) \ {r} = {},
               friendship' = [friendship EXCEPT ![r].status = status],
               latest' = (latest \ LatestBetween(a, b)) \cup {r}
        PROVE  PairInv'
    <3>1. status \in Statuses  BY <2>2, NewStatusTyped
    <3>. HIDE DEF status
    <3>2. /\ friendship'[r].from = friendship[r].from
          /\ friendship'[r].to = friendship[r].to
          /\ friendship'[r].status = status
          /\ friendship'[r] \in Friendships
          /\ \A q \in Records \ {r} : friendship'[q] = friendship[q]
      BY <1>0, <2>2, <2>4, <3>1 DEF TypeOK, Friendships
    <3>3. TypeOK'
      BY <1>0, <2>0, <2>1, <2>2, <2>4, <3>2 DEF TypeOK
    <3>4. RecordsOK'
      BY <1>0, <2>2, <3>1, <3>2 DEF RecordsOK, Unused, Between
    <3>5. UseMongo => OneOpen'
      BY <2>2, <2>4, <3>2 DEF PairInv, OneOpen, OpenBetween, Open, Between
    <3>. QED  BY <2>1, <3>2, <3>3, <3>4, <3>5, WritingPair
  <2>. QED  BY <1>5, <2>3, <2>4 DEF Answer
<1>6. ASSUME NEW a \in Users, NEW b \in Users, CloseAll(a, b), a # b,
             blocks' \subseteq Users \X Users,
             task' \in [Tasks -> TaskState], Tasks # {},
             \A u \in Tasks : task'[u] = task[u] \/ task'[u] = Idle
      PROVE  PairInv'
  <2>1. \A r \in Records :
          /\ friendship'[r] \in Friendships
          /\ friendship'[r].from = friendship[r].from
          /\ friendship'[r].to = friendship[r].to
          /\ \/ friendship'[r] = friendship[r]
             \/ friendship'[r].status = "cancelled" /\ Open(r)
    <3>1. ASSUME NEW r \in Records
          PROVE  /\ friendship[r] \in Friendships
                 /\ \/ friendship'[r] = friendship[r]
                    \/ /\ friendship'[r] = [friendship[r] EXCEPT !.status = "cancelled"]
                       /\ Open(r)
      BY <1>0, <1>6 DEF CloseAll, OpenBetween, TypeOK
    <3>. QED  BY <3>1 DEF Friendships, Statuses, OpenStatuses
  <2>2. TypeOK'
    BY <1>0, <1>6, <2>1 DEF TypeOK, CloseAll, OpenBetween, LatestBetween
  <2>3. RecordsOK'
    BY <1>0, <2>1 DEF RecordsOK, Statuses, Open, Unused, OpenStatuses
  <2>4. UseMongo => OneOpen'
    BY <2>1 DEF PairInv, OneOpen, Open, Between, OpenStatuses
  <2>. QED  BY <1>6, <2>1, <2>2, <2>3, <2>4, WritingPair
<1>7. ASSUME NEW t \in Tasks, NEW a \in Users, NEW b \in Users, Block(t, a, b)
      PROVE  PairInv'
  <2>1. a # b /\ blocks' \subseteq Users \X Users
    BY <1>0, <1>7 DEF Block, TypeOK
  <2>2. CASE CloseAll(a, b) /\ UNCHANGED task
    BY <1>0, <1>6, <2>1, <2>2 DEF TypeOK
  <2>3. CASE ~(CloseAll(a, b) /\ UNCHANGED task)
    <3>. DEFINE state == [pc |-> "cancelOpen", action |-> "block", actor |-> a,
                          target |-> b, record |-> None]
    <3>1. state \in TaskState  BY DEF TaskState
    <3>2. task' = [task EXCEPT ![t] = state] /\ UNCHANGED << friendship, latest >>
      BY <1>7, <2>3 DEF Block
    <3>3. task'[t] = state  BY <1>0, <3>2 DEF TypeOK
    <3>4. TaskPair(t)'  BY <2>1, <3>3 DEF TaskPair
    <3>. HIDE DEF state
    <3>. QED  BY <2>1, <3>1, <3>2, <3>4, QuietPair
  <2>. QED  BY <2>2, <2>3
<1>8. ASSUME NEW t \in Tasks, CancelOpen(t) PROVE PairInv'
  <2>1. /\ task[t].actor \in Users /\ task[t].target \in Users
        /\ task[t].actor # task[t].target
    BY <1>8 DEF CancelOpen, PairInv, TaskPair, Free
  <2>2. /\ task' \in [Tasks -> TaskState]
        /\ \A u \in Tasks : task'[u] = task[u] \/ task'[u] = Idle
    BY <1>0, <1>8, IdleTyped DEF CancelOpen, Finish, TypeOK
  <2>. QED  BY <1>0, <1>6, <1>8, <2>1, <2>2 DEF CancelOpen, TypeOK
<1>9. ASSUME NEW t \in Tasks, NEW a \in Users, NEW b \in Users, Unblock(t, a, b)
      PROVE  PairInv'
  BY <1>0, <1>9
  DEF Unblock, PairInv, TypeOK, RecordsOK, TaskPair, OneOpen, Free, Between, Open
<1>. QED
  BY <1>1, <1>2, <1>3, <1>4, <1>5, <1>7, <1>8, <1>9 DEF Next, TaskStep, UserStep

\* The variables keep their types over either store.
THEOREM RelationshipTypes == Spec => []TypeOK
<1>1. PairInv => TypeOK  BY DEF PairInv
<1>. QED  BY <1>1, PairInit, PairNext, PTL DEF Spec

-----------------------------------------------------------------------------
(* Over memory: one handler at a time *)

Alone == \A t, u \in Tasks : ~Free(t) /\ ~Free(u) => t = u

\* The open record of a pair is the one that was updated last.
LatestIsOpen ==
  \A r \in Records : Open(r) =>
    /\ r \in latest
    /\ \A q \in latest : Between(q, friendship[r].from, friendship[r].to) => q = r

\* What a running handler has checked is still so.
TaskAlone(t) ==
  LET a == task[t].actor
      b == task[t].target
  IN  /\ task[t].pc \in {"read", "write"} => ~BlockedBetween(a, b)
      /\ task[t].pc = "write" /\ task[t].action = "request" => OpenBetween(a, b) = {}
      /\ task[t].pc = "write" /\ task[t].action # "request" =>
           LET status == friendship[task[t].record].status
           IN  IF task[t].action = "remove" THEN status = "accepted" ELSE status = "pending"

AloneInv ==
  /\ PairInv
  /\ Alone
  /\ LatestIsOpen
  /\ BlockedNotFriends
  /\ \A t \in Tasks : TaskAlone(t)

LEMMA AloneInit == Init => AloneInv
<1>. SUFFICES ASSUME Init PROVE AloneInv
  OBVIOUS
<1>1. PairInv  BY PairInit
<1>2. \A t \in Tasks : Free(t)  BY DEF Init, Free, Idle
<1>3. \A r \in Records : ~Open(r)  BY DEF Init, Open, Unused, OpenStatuses
<1>. QED
  BY <1>1, <1>2, <1>3
  DEF AloneInv, Alone, LatestIsOpen, BlockedNotFriends, TaskAlone, Free

\* A step after which only handler t may run.
LEMMA AloneStep ==
  ASSUME AloneInv, PairInv', NEW t \in Tasks,
         \A u \in Tasks \ {t} : Free(u) /\ task'[u] = task[u],
         LatestIsOpen', BlockedNotFriends', TaskAlone(t)'
  PROVE  AloneInv'
<1>1. \A u \in Tasks \ {t} : Free(u)'  BY DEF Free
<1>2. Alone'  BY <1>1 DEF Alone
<1>3. \A u \in Tasks \ {t} : TaskAlone(u)'  BY <1>1 DEF TaskAlone, Free
<1>. QED  BY <1>2, <1>3 DEF AloneInv

LEMMA IdleAlone == ASSUME NEW t \in Tasks, task'[t] = Idle PROVE TaskAlone(t)'
BY DEF TaskAlone, Idle

LEMMA RequestAlone ==
  ASSUME AloneInv, ~UseMongo, PairInv',
         NEW t \in Tasks, NEW a \in Users, NEW b \in Users,
         NEW action \in Answers \cup {"request"}, FriendAction(t, a, b, action)
  PROVE  AloneInv'
<1>1. /\ \A u \in Tasks : Free(u)
      /\ ~BlockedBetween(a, b)
      /\ task' = [task EXCEPT ![t] = [pc |-> "read", action |-> action, actor |-> a,
                                      target |-> b, record |-> None]]
      /\ UNCHANGED << friendship, latest, blocks >>
  BY DEF FriendAction, CanStart
<1>2. /\ task'[t].pc = "read" /\ task'[t].actor = a /\ task'[t].target = b
      /\ \A u \in Tasks \ {t} : Free(u) /\ task'[u] = task[u]
  BY <1>1 DEF AloneInv, PairInv, TypeOK
<1>3. LatestIsOpen'  BY <1>1 DEF AloneInv, LatestIsOpen, Open, Between
<1>4. BlockedNotFriends'
  BY <1>1, <1>2 DEF AloneInv, BlockedNotFriends, BlockedBetween, Open, Settled, Free
<1>5. TaskAlone(t)'  BY <1>1, <1>2 DEF TaskAlone, BlockedBetween
<1>. QED  BY <1>2, <1>3, <1>4, <1>5, AloneStep

LEMMA ReadAlone ==
  ASSUME AloneInv, PairInv', NEW t \in Tasks, ReadRecords(t)
  PROVE  AloneInv'
<1>. DEFINE a == task[t].actor
            b == task[t].target
<1>1. /\ task[t].pc = "read" /\ UNCHANGED << friendship, latest, blocks >>
      /\ TypeOK /\ TaskAlone(t) /\ TaskPair(t)
  BY DEF ReadRecords, AloneInv, PairInv
<1>2. \A u \in Tasks \ {t} : Free(u)
  BY <1>1 DEF AloneInv, Alone, Free
<1>3. LatestIsOpen'  BY <1>1 DEF AloneInv, LatestIsOpen, Open, Between
<1>4. ASSUME \A u \in Tasks : task'[u].pc # "cancelOpen" PROVE BlockedNotFriends'
  BY <1>1, <1>2, <1>4
  DEF AloneInv, BlockedNotFriends, BlockedBetween, Open, Settled, Free
<1>5. ~BlockedBetween(a, b)  BY <1>1 DEF TaskAlone
<1>6. CASE Finish(t)
  <2>1. /\ task'[t] = Idle
        /\ \A u \in Tasks \ {t} : Free(u) /\ task'[u] = task[u]
    BY <1>1, <1>2, <1>6 DEF Finish, TypeOK
  <2>2. \A u \in Tasks : task'[u].pc # "cancelOpen"  BY <2>1 DEF Free, Idle
  <2>. QED  BY <1>3, <1>4, <2>1, <2>2, IdleAlone, AloneStep
<1>7. ASSUME task[t].action = "request", task' = [task EXCEPT ![t].pc = "write"],
             ~ \E r \in LatestBetween(a, b) : Open(r)
      PROVE  AloneInv'
  <2>1. /\ task'[t].pc = "write" /\ task'[t].action = "request"
        /\ task'[t].actor = a /\ task'[t].target = b
        /\ \A u \in Tasks \ {t} : Free(u) /\ task'[u] = task[u]
    BY <1>1, <1>2, <1>7, TaskTyped DEF TaskState
  <2>2. \A u \in Tasks : task'[u].pc # "cancelOpen"  BY <2>1 DEF Free
  <2>3. OpenBetween(a, b) = {}
    BY <1>7 DEF AloneInv, LatestIsOpen, OpenBetween, LatestBetween
  <2>4. TaskAlone(t)'
    BY <1>1, <1>5, <2>1, <2>3
    DEF TaskAlone, OpenBetween, BlockedBetween, Open, Between
  <2>. QED  BY <1>3, <1>4, <2>1, <2>2, <2>4, AloneStep
<1>8. ASSUME NEW r \in Addressed(task[t].action, a, b), task[t].action # "request",
             task' = [task EXCEPT ![t].pc = "write", ![t].record = r]
      PROVE  AloneInv'
  <2>1. task[t].action \in Answers  BY <1>1, <1>8 DEF TaskPair
  <2>2. IF task[t].action = "remove" THEN friendship[r].status = "accepted"
                                     ELSE friendship[r].status = "pending"
    BY <1>8, <2>1 DEF Addressed, Answers
  <2>3. r \in Records
    BY <1>1, <1>8, <2>1 DEF Addressed, Answers, LatestBetween, TypeOK
  <2>4. /\ task'[t].pc = "write" /\ task'[t].action = task[t].action
        /\ task'[t].actor = a /\ task'[t].target = b /\ task'[t].record = r
        /\ \A u \in Tasks \ {t} : Free(u) /\ task'[u] = task[u]
    BY <1>1, <1>2, <1>8, <2>3, TaskTyped DEF TaskState
  <2>5. \A u \in Tasks : task'[u].pc # "cancelOpen"  BY <2>4 DEF Free
  <2>6. TaskAlone(t)'
    <3>1. friendship'[task'[t].record].status = friendship[r].status
      BY <1>1, <2>4
    <3>2. ~BlockedBetween(task[t].actor, task[t].target)'
      BY <1>1, <1>5, <2>4 DEF BlockedBetween
    <3>3. task'[t].action # "request"  BY <1>8, <2>4
    <3>. QED  BY <2>2, <2>4, <3>1, <3>2, <3>3 DEF TaskAlone
  <2>. QED  BY <1>3, <1>4, <2>4, <2>5, <2>6, AloneStep
<1>. QED  BY <1>6, <1>7, <1>8 DEF ReadRecords

\* A write by the handler that runs alone.
LEMMA WriteAlone ==
  ASSUME AloneInv, PairInv', NEW t \in Tasks, ~Free(t), Finish(t),
         LatestIsOpen',
         \A r \in Records :
           \/ friendship'[r] = friendship[r]
           \/ ~Open(r)'
           \/ ~BlockedBetween(friendship'[r].from, friendship'[r].to),
         task[t].pc # "cancelOpen",
         UNCHANGED blocks
  PROVE  AloneInv'
<1>1. \A u \in Tasks \ {t} : Free(u)  BY DEF AloneInv, Alone
<1>2. /\ task'[t] = Idle
      /\ \A u \in Tasks \ {t} : Free(u) /\ task'[u] = task[u]
  BY <1>1 DEF Finish, AloneInv, PairInv, TypeOK
<1>3. \A u \in Tasks : task[u].pc # "cancelOpen" /\ task'[u].pc # "cancelOpen"
  BY <1>2 DEF Free, Idle
<1>4. BlockedNotFriends'
  BY <1>3 DEF AloneInv, BlockedNotFriends, BlockedBetween, Open, Settled
<1>. QED  BY <1>2, <1>4, IdleAlone, AloneStep

LEMMA CreateAlone ==
  ASSUME AloneInv, ~UseMongo, PairInv', NEW t \in Tasks, CreateRequest(t)
  PROVE  AloneInv'
<1>. DEFINE a == task[t].actor
            b == task[t].target
<1>1. /\ task[t].pc = "write" /\ Finish(t) /\ ~Free(t) /\ UNCHANGED blocks
      /\ TypeOK /\ TaskAlone(t) /\ task[t].action = "request"
  BY DEF CreateRequest, AloneInv, PairInv, Free
<1>2. PICK r \in Records :
        /\ friendship' = [friendship EXCEPT
                            ![r] = [from |-> a, to |-> b, status |-> "pending"]]
        /\ latest' = (latest \ LatestBetween(a, b)) \cup {r}
  BY DEF CreateRequest
<1>3. /\ friendship'[r] = [from |-> a, to |-> b, status |-> "pending"]
      /\ \A q \in Records \ {r} : friendship'[q] = friendship[q]
  BY <1>1, <1>2 DEF TypeOK
<1>4. OpenBetween(a, b) = {} /\ ~BlockedBetween(a, b)
  BY <1>1 DEF TaskAlone
<1>5. \A q \in Records \ {r} : Open(q) => ~Between(q, a, b)
  BY <1>4 DEF OpenBetween
<1>6. LatestIsOpen'
  <2>1. SUFFICES ASSUME NEW q \in Records, Open(q)'
                 PROVE  /\ q \in latest'
                        /\ \A p \in latest' :
                             Between(p, friendship[q].from, friendship[q].to)' => p = q
    BY DEF LatestIsOpen
  <2>2. CASE q = r
    BY <1>1, <1>2, <1>3, <2>2 DEF LatestBetween, Between, TypeOK
  <2>3. CASE q # r
    <3>1. Open(q) /\ ~Between(q, a, b) /\ friendship'[q] = friendship[q]
      BY <1>3, <1>5, <2>1, <2>3 DEF Open
    <3>2. q \in latest /\ \A p \in latest :
            Between(p, friendship[q].from, friendship[q].to) => p = q
      BY <3>1 DEF AloneInv, LatestIsOpen
    <3>3. q \in latest'  BY <1>2, <3>1, <3>2 DEF LatestBetween
    <3>4. ~Between(r, friendship[q].from, friendship[q].to)'
      BY <1>3, <3>1 DEF Between
    <3>. QED  BY <1>1, <1>2, <1>3, <3>1, <3>2, <3>3, <3>4 DEF Between, TypeOK
  <2>. QED  BY <2>2, <2>3
<1>. QED  BY <1>1, <1>3, <1>4, <1>6, WriteAlone

LEMMA AnswerAlone ==
  ASSUME AloneInv, ~UseMongo, PairInv', NEW t \in Tasks, Answer(t)
  PROVE  AloneInv'
<1>. DEFINE a == task[t].actor
            b == task[t].target
            r == task[t].record
            status == NewStatus(task[t].action)
<1>1. /\ task[t].pc = "write" /\ Finish(t) /\ ~Free(t) /\ UNCHANGED blocks
      /\ TypeOK /\ TaskAlone(t) /\ TaskPair(t) /\ task[t].action # "request"
      /\ friendship' = [friendship EXCEPT ![r].status = status]
      /\ latest' = (latest \ LatestBetween(a, b)) \cup {r}
  BY DEF Answer, AloneInv, PairInv, Free
<1>2. r \in Records /\ Between(r, a, b) /\ Open(r) /\ ~BlockedBetween(a, b)
  BY <1>1 DEF TaskAlone, TaskPair, Open, OpenStatuses
<1>. HIDE DEF status
<1>3. /\ friendship'[r].from = friendship[r].from
      /\ friendship'[r].to = friendship[r].to
      /\ \A q \in Records \ {r} : friendship'[q] = friendship[q]
  BY <1>1, <1>2 DEF TypeOK, Friendships
<1>4. /\ r \in latest
      /\ \A q \in latest : Between(q, friendship[r].from, friendship[r].to) => q = r
  BY <1>2 DEF AloneInv, LatestIsOpen
<1>5. LatestBetween(a, b) = {r}
  BY <1>2, <1>4 DEF LatestBetween, Between
<1>6. latest' = latest  BY <1>1, <1>4, <1>5
<1>7. \A q \in Records : Open(q)' => Open(q)
  BY <1>2, <1>3 DEF Open
<1>8. \A q \in Records : /\ friendship'[q].from = friendship[q].from
                         /\ friendship'[q].to = friendship[q].to
  BY <1>3
<1>9. LatestIsOpen'
  BY <1>1, <1>6, <1>7, <1>8 DEF AloneInv, LatestIsOpen, Between, TypeOK
<1>10. ~BlockedBetween(friendship'[r].from, friendship'[r].to)
  BY <1>2, <1>3 DEF Between, BlockedBetween
<1>. QED  BY <1>1, <1>3, <1>9, <1>10, WriteAlone

LEMMA BlockAlone ==
  ASSUME AloneInv, ~UseMongo, PairInv',
         NEW t \in Tasks, NEW a \in Users, NEW b \in Users, Block(t, a, b)
  PROVE  AloneInv'
<1>1. /\ \A u \in Tasks : Free(u)
      /\ blocks' = blocks \cup {<< a, b >>}
      /\ task' = [task EXCEPT ![t] = [pc |-> "cancelOpen", action |-> "block",
                    actor |-> a, target |-> b, record |-> None]]
      /\ UNCHANGED << friendship, latest >>
  BY DEF Block, CanStart
<1>2. /\ task'[t].pc = "cancelOpen" /\ task'[t].actor = a /\ task'[t].target = b
      /\ \A u \in Tasks \ {t} : Free(u) /\ task'[u] = task[u]
  BY <1>1 DEF AloneInv, PairInv, TypeOK
<1>3. LatestIsOpen'  BY <1>1 DEF AloneInv, LatestIsOpen, Open, Between
<1>4. BlockedNotFriends'
  <2>1. SUFFICES ASSUME NEW r \in Records, Open(r),
                        {a, b} # {friendship[r].from, friendship[r].to}
                 PROVE  ~BlockedBetween(friendship[r].from, friendship[r].to)'
    BY <1>1, <1>2 DEF BlockedNotFriends, Settled, Open
  <2>2. ~BlockedBetween(friendship[r].from, friendship[r].to)
    BY <1>1, <2>1 DEF AloneInv, BlockedNotFriends, Settled, Free
  <2>. QED  BY <1>1, <2>1, <2>2 DEF BlockedBetween
<1>5. TaskAlone(t)'  BY <1>2 DEF TaskAlone
<1>. QED  BY <1>2, <1>3, <1>4, <1>5, AloneStep

LEMMA CancelAlone ==
  ASSUME AloneInv, PairInv', NEW t \in Tasks, CancelOpen(t)
  PROVE  AloneInv'
<1>. DEFINE a == task[t].actor
            b == task[t].target
<1>1. /\ task[t].pc = "cancelOpen" /\ Finish(t) /\ UNCHANGED blocks /\ CloseAll(a, b)
      /\ TypeOK
  BY DEF CancelOpen, AloneInv, PairInv
<1>2. \A u \in Tasks \ {t} : Free(u)
  BY <1>1 DEF AloneInv, Alone, Free
<1>3. /\ task'[t] = Idle
      /\ \A u \in Tasks \ {t} : Free(u) /\ task'[u] = task[u]
  BY <1>1, <1>2 DEF Finish, TypeOK
<1>4. \A r \in Records :
        /\ friendship'[r].from = friendship[r].from
        /\ friendship'[r].to = friendship[r].to
        /\ Open(r)' => Open(r) /\ ~Between(r, a, b)
  <2>1. ASSUME NEW r \in Records, r \notin OpenBetween(a, b)
        PROVE  friendship'[r] = friendship[r]
    BY <1>1, <2>1 DEF CloseAll
  <2>2. ASSUME NEW r \in Records, r \in OpenBetween(a, b)
        PROVE  friendship'[r] = [friendship[r] EXCEPT !.status = "cancelled"]
    BY <1>1, <2>2 DEF CloseAll
  <2>. QED
    BY <1>1, <2>1, <2>2
    DEF OpenBetween, Open, TypeOK, Friendships, OpenStatuses
<1>5. latest' = latest
  <2>1. CASE OpenBetween(a, b) = {}  BY <1>1, <2>1 DEF CloseAll
  <2>2. ASSUME NEW r \in OpenBetween(a, b) PROVE latest' = latest
    <3>1. r \in Records /\ Open(r) /\ Between(r, a, b)  BY <2>2 DEF OpenBetween
    <3>2. /\ r \in latest
          /\ \A q \in latest : Between(q, friendship[r].from, friendship[r].to) => q = r
      BY <3>1 DEF AloneInv, LatestIsOpen
    <3>3. LatestBetween(a, b) = {r}
      BY <3>1, <3>2 DEF LatestBetween, Between
    <3>4. \A q \in OpenBetween(a, b) : q = r
      <4>1. ASSUME NEW q \in OpenBetween(a, b) PROVE q = r
        <5>1. q \in Records /\ Open(q) /\ Between(q, a, b)  BY DEF OpenBetween
        <5>2. q \in latest  BY <5>1 DEF AloneInv, LatestIsOpen
        <5>3. Between(q, friendship[r].from, friendship[r].to)
          BY <3>1, <5>1 DEF Between
        <5>. QED  BY <3>2, <5>2, <5>3
      <4>. QED  BY <4>1
    <3>5. OpenBetween(a, b) = {r}  BY <2>2, <3>4
    <3>. QED  BY <1>1, <3>2, <3>3, <3>5 DEF CloseAll
  <2>. QED  BY <2>1, <2>2
<1>6. LatestIsOpen'
  BY <1>1, <1>4, <1>5 DEF AloneInv, LatestIsOpen, Between, TypeOK
<1>7. BlockedNotFriends'
  <2>1. SUFFICES ASSUME NEW r \in Records, Open(r)'
                 PROVE  ~BlockedBetween(friendship[r].from, friendship[r].to)
    BY <1>1, <1>4 DEF BlockedNotFriends, BlockedBetween
  <2>2. Open(r) /\ ~Between(r, a, b)  BY <1>4, <2>1
  <2>3. {a, b} # {friendship[r].from, friendship[r].to}
    BY <2>2 DEF Between
  <2>4. Settled(friendship[r].from, friendship[r].to)
    BY <1>2, <2>3 DEF Settled, Free
  <2>. QED  BY <2>2, <2>4 DEF AloneInv, BlockedNotFriends
<1>. QED  BY <1>3, <1>6, <1>7, IdleAlone, AloneStep

LEMMA UnblockAlone ==
  ASSUME AloneInv, ~UseMongo, PairInv',
         NEW t \in Tasks, NEW a \in Users, NEW b \in Users, Unblock(t, a, b)
  PROVE  AloneInv'
<1>1. /\ \A u \in Tasks : Free(u)
      /\ blocks' \subseteq blocks
      /\ UNCHANGED << friendship, latest, task >>
  BY DEF Unblock, CanStart
<1>2. LatestIsOpen'  BY <1>1 DEF AloneInv, LatestIsOpen, Open, Between
<1>3. BlockedNotFriends'
  BY <1>1 DEF AloneInv, BlockedNotFriends, BlockedBetween, Open, Settled
<1>4. TaskAlone(t)'  BY <1>1 DEF TaskAlone, Free
<1>. QED  BY <1>1, <1>2, <1>3, <1>4, AloneStep

LEMMA AloneNext == ASSUME AloneInv, ~UseMongo, [Next]_vars PROVE AloneInv'
<1>1. PairInv'  BY PairNext DEF AloneInv
<1>2. CASE UNCHANGED vars
  BY <1>1, <1>2
  DEF vars, AloneInv, Alone, LatestIsOpen, BlockedNotFriends, TaskAlone, Free, Open,
      Between, OpenBetween, BlockedBetween, Settled
<1>3. ASSUME NEW t \in Tasks, TaskStep(t) PROVE AloneInv'
  BY <1>1, <1>3, ReadAlone, CreateAlone, AnswerAlone, CancelAlone DEF TaskStep
<1>4. ASSUME NEW t \in Tasks, NEW a \in Users, NEW b \in Users, UserStep(t, a, b)
      PROVE  AloneInv'
  BY <1>1, <1>4, RequestAlone, BlockAlone, UnblockAlone DEF UserStep
<1>. QED  BY <1>2, <1>3, <1>4 DEF Next

LEMMA AloneInvariant == ~UseMongo => (Spec => []AloneInv)
<1>. SUFFICES ASSUME ~UseMongo PROVE Spec => []AloneInv
  OBVIOUS
<1>1. Init => AloneInv  BY AloneInit
<1>2. AloneInv /\ [Next]_vars => AloneInv'  BY AloneNext
<1>. QED  BY <1>1, <1>2, PTL DEF Spec

\* Over either store a pair has at most one pending request or friendship.
THEOREM OneFriendshipPerPair == Spec => []OneOpen
<1>1. CASE UseMongo
  <2>1. PairInv => OneOpen  BY <1>1 DEF PairInv
  <2>. QED  BY <2>1, PairInit, PairNext, PTL DEF Spec
<1>2. CASE ~UseMongo
  <2>1. AloneInv => OneOpen  BY DEF AloneInv, LatestIsOpen, OneOpen
  <2>. QED  BY <1>2, <2>1, AloneInvariant, PTL
<1>. QED  BY <1>1, <1>2, RelationshipAssumption

\* Over memory a block leaves no request and no friendship.
THEOREM BlockEndsFriendship == ~UseMongo => (Spec => []BlockedNotFriends)
<1>1. AloneInv => BlockedNotFriends  BY DEF AloneInv
<1>. QED  BY <1>1, AloneInvariant, PTL

\* Over memory both profiles show what the store holds.
THEOREM ProfilesAgree == ~UseMongo => (Spec => []ShownAsStored)
<1>1. ASSUME AloneInv PROVE ShownAsStored
  <2>1. SUFFICES ASSUME NEW r \in Records, Open(r),
                        Settled(friendship[r].from, friendship[r].to)
                 PROVE  LET a == friendship[r].from
                            b == friendship[r].to
                        IN  IF friendship[r].status = "accepted"
                              THEN /\ Relationship(a, b) = {"friends"}
                                   /\ Relationship(b, a) = {"friends"}
                              ELSE /\ Relationship(a, b) = {"outgoing-pending"}
                                   /\ Relationship(b, a) = {"incoming-pending"}
    BY DEF ShownAsStored
  <2>. DEFINE a == friendship[r].from
              b == friendship[r].to
  <2>2. << a, b >> \notin blocks /\ << b, a >> \notin blocks
    BY <1>1, <2>1 DEF AloneInv, BlockedNotFriends, BlockedBetween
  <2>3. a # b
    BY <1>1, <2>1 DEF AloneInv, PairInv, RecordsOK, Open, Unused, OpenStatuses
  <2>4. LatestBetween(a, b) = {r} /\ LatestBetween(b, a) = {r}
    BY <1>1, <2>1 DEF AloneInv, LatestIsOpen, LatestBetween, Between
  <2>5. friendship[r].status \in {"pending", "accepted"}
    BY <2>1 DEF Open, OpenStatuses
  <2>6. CASE friendship[r].status = "accepted"
    BY <2>2, <2>4, <2>6 DEF Relationship
  <2>7. CASE friendship[r].status = "pending"
    <3>1. Relationship(a, b) = {"outgoing-pending"}
      BY <2>2, <2>4, <2>7 DEF Relationship
    <3>2. Relationship(b, a) = {"incoming-pending"}
      BY <2>2, <2>3, <2>4, <2>7 DEF Relationship
    <3>. QED  BY <2>7, <3>1, <3>2
  <2>. QED  BY <2>5, <2>6, <2>7
<1>. QED  BY <1>1, AloneInvariant, PTL

Lawful == {<< "unused", "pending" >>, << "pending", "accepted" >>,
           << "pending", "declined" >>, << "pending", "cancelled" >>,
           << "accepted", "cancelled" >>}

LEMMA LawfulStep ==
  ASSUME AloneInv, ~UseMongo, [Next]_vars, NEW r \in Records,
         friendship'[r] # friendship[r]
  PROVE  << friendship[r].status, friendship'[r].status >> \in Lawful
<1>0. TypeOK  BY DEF AloneInv, PairInv
<1>1. ASSUME NEW t \in Tasks, CreateRequest(t)
      PROVE  << friendship[r].status, friendship'[r].status >> \in Lawful
  <2>1. PICK q \in Records :
          /\ friendship[q] = Unused
          /\ friendship' = [friendship EXCEPT ![q] = [from |-> task[t].actor,
                              to |-> task[t].target, status |-> "pending"]]
    BY <1>1 DEF CreateRequest
  <2>. QED  BY <1>0, <2>1 DEF TypeOK, Unused, Lawful
<1>2. ASSUME NEW t \in Tasks, Answer(t)
      PROVE  << friendship[r].status, friendship'[r].status >> \in Lawful
  <2>. DEFINE status == NewStatus(task[t].action)
  <2>1. /\ task[t].pc = "write" /\ task[t].action # "request"
        /\ friendship' = [friendship EXCEPT ![task[t].record].status = status]
    BY <1>2 DEF Answer
  <2>2. task[t].action \in Answers /\ task[t].record \in Records
    BY <2>1 DEF AloneInv, PairInv, TaskPair
  <2>3. IF task[t].action = "remove" THEN friendship[task[t].record].status = "accepted"
                                     ELSE friendship[task[t].record].status = "pending"
    BY <2>1 DEF AloneInv, TaskAlone
  <2>4. /\ status \in {"accepted", "declined", "cancelled"}
        /\ task[t].action = "remove" => status = "cancelled"
    BY <2>2 DEF NewStatus, Answers
  <2>. HIDE DEF status
  <2>5. friendship[task[t].record] \in Friendships /\ r = task[t].record
    BY <1>0, <2>1, <2>2 DEF TypeOK
  <2>6. friendship'[r].status = status
    BY <1>0, <2>1, <2>5 DEF TypeOK, Friendships
  <2>. QED  BY <2>3, <2>4, <2>5, <2>6 DEF Lawful
<1>3. ASSUME NEW t \in Tasks, CancelOpen(t)
      PROVE  << friendship[r].status, friendship'[r].status >> \in Lawful
  <2>1. /\ Open(r)
        /\ friendship'[r] = [friendship[r] EXCEPT !.status = "cancelled"]
    BY <1>3 DEF CancelOpen, CloseAll, OpenBetween
  <2>. QED  BY <1>0, <2>1 DEF Open, OpenStatuses, TypeOK, Friendships, Lawful
<1>4. ~(UNCHANGED friendship)  OBVIOUS
<1>. QED
  BY <1>1, <1>2, <1>3, <1>4
  DEF Next, TaskStep, UserStep, vars, ReadRecords, FriendAction, Block, Unblock

\* Over memory a closed request or friendship is never revived.
THEOREM ClosedStaysClosed == ~UseMongo => (Spec => ClosedIsFinal)
<1>. SUFFICES ASSUME ~UseMongo PROVE Spec => ClosedIsFinal
  OBVIOUS
<1>1. AloneInv /\ [Next]_vars =>
        [\A r \in Records :
           friendship'[r] # friendship[r] =>
             << friendship[r].status, friendship'[r].status >> \in
               {<< "unused", "pending" >>, << "pending", "accepted" >>,
                << "pending", "declined" >>, << "pending", "cancelled" >>,
                << "accepted", "cancelled" >>}]_friendship
  BY LawfulStep DEF Lawful
<1>2. Spec => []AloneInv  BY AloneInvariant
<1>. QED  BY <1>1, <1>2, PTL DEF Spec, ClosedIsFinal
=============================================================================
