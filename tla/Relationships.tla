---------------------------- MODULE Relationships ----------------------------
(***************************************************************************)
(* Friend requests, friendships and blocks between users (friendAction in  *)
(* server/services/dataService.js and mongoDataService.js).                *)
(*                                                                         *)
(* Both stores run the same three segments: the check for a block, a read  *)
(* of the pair's friendship records, a write.  Over memory a handler is    *)
(* alone until it has answered.  Over MongoDB the segments of several      *)
(* handlers interleave, and a unique index admits one open record a pair.  *)
(***************************************************************************)
CONSTANTS
  Users,
  Records,       \* ids of friendship records (bounds the requests)
  Tasks,         \* slots for handlers in progress
  UseMongo,      \* the store is MongoDB
  Transactions,  \* and supports transactions (a replica set)
  None           \* no user, no record

ASSUME RelationshipAssumption ==
  /\ UseMongo \in BOOLEAN
  /\ Transactions \in BOOLEAN
  /\ None \notin Users
  /\ None \notin Records

VARIABLES
  friendship,  \* the friendship records
  latest,      \* of each pair of users, the record updated last
  blocks,      \* << user, blocked user >>
  task         \* the handlers in progress

vars == << friendship, latest, blocks, task >>

-----------------------------------------------------------------------------
OpenStatuses == {"pending", "accepted"}
Statuses == OpenStatuses \cup {"declined", "cancelled"}

Friendships ==
  [from   : Users \cup {None},
   to     : Users \cup {None},
   status : Statuses \cup {"unused"}]

Unused == [from |-> None, to |-> None, status |-> "unused"]

Answers == {"accept", "decline", "cancel", "remove"}

TaskState ==
  [pc     : {"idle", "read", "write", "cancelOpen"},
   action : Answers \cup {"request", "block"},
   actor  : Users \cup {None},
   target : Users \cup {None},
   record : Records \cup {None}]

Idle == [pc |-> "idle", action |-> "request", actor |-> None, target |-> None,
         record |-> None]

Free(t) == task[t].pc = "idle"

\* Over memory the handler before has answered.
CanStart(t) == IF UseMongo THEN Free(t) ELSE \A u \in Tasks : Free(u)

Finish(t) == task' = [task EXCEPT ![t] = Idle]

Open(r) == friendship[r].status \in OpenStatuses

BetweenOneWay(r, a, b) ==                                           \* mutant
  friendship[r].from = a /\ friendship[r].to = b

Between(r, a, b) ==
  \/ friendship[r].from = a /\ friendship[r].to = b
  \/ friendship[r].from = b /\ friendship[r].to = a

OpenBetween(a, b) == {r \in Records : Open(r) /\ Between(r, a, b)}

LatestBetween(a, b) == {r \in latest : Between(r, a, b)}

BlockedBetween(a, b) == << a, b >> \in blocks \/ << b, a >> \in blocks

\* What the profile of user b shows to user a.
Relationship(a, b) ==
  LET shown(r) ==
        CASE friendship[r].status = "accepted" -> "friends"
          [] friendship[r].status = "pending" /\ friendship[r].from = a -> "outgoing-pending"
          [] friendship[r].status = "pending" /\ friendship[r].from # a -> "incoming-pending"
          [] OTHER -> "none"
  IN  CASE << a, b >> \in blocks -> {"blocked"}
        [] << a, b >> \notin blocks /\ << b, a >> \in blocks -> {"blocked-by"}
        [] OTHER -> {shown(r) : r \in LatestBetween(a, b)}

\* Records closed for a block, all at once.
CloseAll(a, b) ==
  /\ friendship' = [r \in Records |->
       IF r \in OpenBetween(a, b) THEN [friendship[r] EXCEPT !.status = "cancelled"]
                                  ELSE friendship[r]]
  /\ latest' = IF OpenBetween(a, b) = {} THEN latest
               ELSE (latest \ LatestBetween(a, b)) \cup OpenBetween(a, b)

Init ==
  /\ friendship = [r \in Records |-> Unused]
  /\ latest = {}
  /\ blocks = {}
  /\ task = [t \in Tasks |-> Idle]

-----------------------------------------------------------------------------
\* friendAction: the actor and the target have not blocked each other.
FriendAction(t, a, b, action) ==
  /\ CanStart(t)
  /\ a # b
  /\ ~BlockedBetween(a, b)
  /\ task' = [task EXCEPT ![t] = [pc |-> "read", action |-> action, actor |-> a,
                                  target |-> b, record |-> None]]
  /\ UNCHANGED << friendship, latest, blocks >>

RemoveAnyRecord(action, a, b) ==                                    \* mutant
  IF action = "remove"
    THEN LatestBetween(a, b)
    ELSE {r \in Records : Between(r, a, b) /\ friendship[r].status = "pending"}

\* The record an answer is about: a pending request to or from the actor, or
\* the friendship as the latest record.
Addressed(action, a, b) ==
  CASE action \in {"accept", "decline"} ->
         {r \in Records : /\ friendship[r].from = b
                          /\ friendship[r].to = a
                          /\ friendship[r].status = "pending"}
    [] action = "cancel" ->
         {r \in Records : /\ friendship[r].from = a
                          /\ friendship[r].to = b
                          /\ friendship[r].status = "pending"}
    [] action = "remove" ->
         {r \in LatestBetween(a, b) : friendship[r].status = "accepted"}

RequestUnchecked(t) ==                                              \* mutant
  /\ task[t].pc = "read"
  /\ \/ /\ task[t].action = "request"
        /\ task' = [task EXCEPT ![t].pc = "write"]
     \/ /\ task[t].action # "request"
        /\ \E r \in Addressed(task[t].action, task[t].actor, task[t].target) :
             task' = [task EXCEPT ![t].pc = "write", ![t].record = r]
  /\ UNCHANGED << friendship, latest, blocks >>

\* sendFriendRequest and the answers read the pair's records ...
ReadRecords(t) ==
  /\ task[t].pc = "read"
  /\ LET a     == task[t].actor
         b     == task[t].target
         found == Addressed(task[t].action, a, b)
     IN  IF task[t].action = "request"
           THEN IF \E r \in LatestBetween(a, b) : Open(r)
                  THEN Finish(t)
                  ELSE task' = [task EXCEPT ![t].pc = "write"]
           ELSE \/ found = {} /\ Finish(t)
                \/ \E r \in found :
                     task' = [task EXCEPT ![t].pc = "write", ![t].record = r]
  /\ UNCHANGED << friendship, latest, blocks >>

\* ... and create a pending record, which the unique index may refuse ...
CreateRequest(t) ==
  /\ task[t].pc = "write"
  /\ task[t].action = "request"
  /\ LET a == task[t].actor
         b == task[t].target
     IN  IF UseMongo /\ OpenBetween(a, b) # {}
           THEN UNCHANGED << friendship, latest >>
           ELSE \E r \in Records :
                  /\ friendship[r] = Unused
                  /\ friendship' = [friendship EXCEPT
                       ![r] = [from |-> a, to |-> b, status |-> "pending"]]
                  /\ latest' = (latest \ LatestBetween(a, b)) \cup {r}
  /\ Finish(t)
  /\ UNCHANGED blocks

RemovedStatus(action) ==                                            \* mutant
  CASE action = "accept"  -> "accepted"
    [] action = "decline" -> "declined"
    [] action = "cancel"  -> "cancelled"
    [] action = "remove"  -> "removed"

NewStatus(action) ==
  CASE action = "accept"  -> "accepted"
    [] action = "decline" -> "declined"
    [] action \in {"cancel", "remove"} -> "cancelled"

\* ... or write the status of the record that was read, whatever became of it.
Answer(t) ==
  /\ task[t].pc = "write"
  /\ task[t].action # "request"
  /\ LET r      == task[t].record
         a      == task[t].actor
         b      == task[t].target
         status == NewStatus(task[t].action)
     IN  IF /\ UseMongo
            /\ status \in OpenStatuses
            /\ OpenBetween(a, b) \ {r} # {}
           THEN UNCHANGED << friendship, latest >>
           ELSE /\ friendship' = [friendship EXCEPT ![r].status = status]
                /\ latest' = (latest \ LatestBetween(a, b)) \cup {r}
  /\ Finish(t)
  /\ UNCHANGED blocks

BlockOnly(t, a, b) ==                                               \* mutant
  /\ CanStart(t)
  /\ a # b
  /\ blocks' = blocks \cup {<< a, b >>}
  /\ UNCHANGED << friendship, latest, task >>

\* blockUser inserts the block and closes the pair's open records, in one
\* transaction or one after the other.
Block(t, a, b) ==
  /\ CanStart(t)
  /\ a # b
  /\ blocks' = blocks \cup {<< a, b >>}
  /\ IF UseMongo /\ Transactions
       THEN CloseAll(a, b) /\ UNCHANGED task
       ELSE /\ task' = [task EXCEPT ![t] = [pc |-> "cancelOpen", action |-> "block",
                          actor |-> a, target |-> b, record |-> None]]
            /\ UNCHANGED << friendship, latest >>

CancelOpen(t) ==
  /\ task[t].pc = "cancelOpen"
  /\ CloseAll(task[t].actor, task[t].target)
  /\ Finish(t)
  /\ UNCHANGED blocks

Unblock(t, a, b) ==
  /\ CanStart(t)
  /\ << a, b >> \in blocks
  /\ blocks' = blocks \ {<< a, b >>}
  /\ UNCHANGED << friendship, latest, task >>

-----------------------------------------------------------------------------
TaskStep(t) == ReadRecords(t) \/ CreateRequest(t) \/ Answer(t) \/ CancelOpen(t)

UserStep(t, a, b) ==
  \/ \E action \in Answers \cup {"request"} : FriendAction(t, a, b, action)
  \/ Block(t, a, b)
  \/ Unblock(t, a, b)

Next ==
  \E t \in Tasks : TaskStep(t) \/ \E a, b \in Users : UserStep(t, a, b)

Spec == Init /\ [][Next]_vars

-----------------------------------------------------------------------------
(* Properties *)

\* Every variable keeps the shape the code gives it.
TypeOK ==
  /\ friendship \in [Records -> Friendships]
  /\ latest \subseteq Records
  /\ blocks \subseteq Users \X Users
  /\ task \in [Tasks -> TaskState]

\* A pair of users has at most one pending request or friendship, whoever of
\* the two asked.
OneOpen ==
  \A r, q \in Records :
    Open(r) /\ Open(q) /\ Between(q, friendship[r].from, friendship[r].to) => r = q

\* Nobody is closing the pair's records for a block.
Settled(a, b) ==
  \A t \in Tasks :
    task[t].pc = "cancelOpen" => {task[t].actor, task[t].target} # {a, b}

\* A block leaves no friendship and no request between the two users, and
\* none appears until it is lifted.
BlockedNotFriends ==
  \A r \in Records :
    LET a == friendship[r].from
        b == friendship[r].to
    IN  Open(r) /\ Settled(a, b) => ~BlockedBetween(a, b)

\* Two users are not friends while one of them blocks the other.
FriendsAreNotBlocked ==
  \A r \in Records :
    LET a == friendship[r].from
        b == friendship[r].to
    IN  friendship[r].status = "accepted" /\ Settled(a, b) => ~BlockedBetween(a, b)

\* What both profiles show is what the store holds: friends are shown as
\* friends to each other, and a request to its sender and its recipient.
ShownAsStored ==
  \A r \in Records :
    LET a == friendship[r].from
        b == friendship[r].to
    IN  Open(r) /\ Settled(a, b) =>
          IF friendship[r].status = "accepted"
            THEN Relationship(a, b) = {"friends"} /\ Relationship(b, a) = {"friends"}
            ELSE /\ Relationship(a, b) = {"outgoing-pending"}
                 /\ Relationship(b, a) = {"incoming-pending"}

\* A request that was declined or cancelled, and a friendship that ended, is
\* never revived; only a pending request becomes a friendship.
ClosedIsFinal ==
  [][\A r \in Records :
       friendship'[r] # friendship[r] =>
         << friendship[r].status, friendship'[r].status >> \in
           {<< "unused", "pending" >>, << "pending", "accepted" >>,
            << "pending", "declined" >>, << "pending", "cancelled" >>,
            << "accepted", "cancelled" >>}]_friendship
=============================================================================
