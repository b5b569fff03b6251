------------------------------ MODULE Messages ------------------------------
(***************************************************************************)
(* The messages of one conversation: sends that the client repeats until   *)
(* an answer arrives, delivery and reading, edits, deletions, reactions    *)
(* and pins (server/controllers/messageController.js, createMessage to     *)
(* markConversationRead of both data services, and the retries of          *)
(* client/src/components/chat/ChatPanel.jsx).                              *)
(*                                                                         *)
(* A change of a message is a read, a decision and a write.  Over memory   *)
(* nothing comes in between.  Over MongoDB anything may: the write sets    *)
(* what was decided on the message as it was read.                         *)
(***************************************************************************)
EXTENDS Naturals

CONSTANTS
  Users,     \* the participants
  Emojis,
  Sends,     \* client message ids
  Messages,  \* ids of stored messages (bounds the store)
  Tasks,     \* slots for handlers in progress
  Stores,    \* the deployments considered, of "memory", "mongo", "replica"
  Retries,   \* automatic retries of a send, 2 in the client
  MaxPosts,  \* requests sent for one client message id (bounds the retries)
  None       \* no user, no emoji, no send, no message

ASSUME MessageAssumption ==
  /\ Stores \subseteq {"memory", "mongo", "replica"}
  /\ Retries \in Nat
  /\ MaxPosts \in Nat
  /\ None \notin Users
  /\ None \notin Emojis
  /\ None \notin Sends
  /\ None \notin Messages

VARIABLES
  store,     \* the deployment: memory, a MongoDB server, a replica set
  blocked,   \* the two participants of a direct conversation have a block
  message,   \* the stored messages
  last,      \* the message the conversation was last touched for
  requests,  \* << send, number >> of the requests on their way to the server
  outbox,    \* the client's view of its sends
  task       \* the handlers in progress

clientVars == << requests, outbox >>
vars == << store, blocked, message, last, requests, outbox, task >>

-----------------------------------------------------------------------------
Statuses == {"sent", "delivered", "read"}

Reactions == SUBSET (Users \X Emojis)

\* key is the clientMessageId; "absent" is a message not yet created.
StoredMessages ==
  [key       : Sends \cup {None},
   sender    : Users \cup {None},
   status    : Statuses \cup {"absent"},
   readBy    : SUBSET Users,
   hasText   : BOOLEAN,
   unsent    : BOOLEAN,
   hidden    : SUBSET Users,
   reactions : Reactions,
   pinned    : BOOLEAN]

Absent == [key |-> None, sender |-> None, status |-> "absent", readBy |-> {},
           hasText |-> FALSE, unsent |-> FALSE, hidden |-> {}, reactions |-> {},
           pinned |-> FALSE]

SendingMessage(s, u) ==                                             \* mutant
  [Absent EXCEPT !.key = s, !.sender = u, !.status = "sending",
                 !.readBy = {u}, !.hasText = TRUE]

NewMessage(s, u) == [Absent EXCEPT !.key = s, !.sender = u, !.status = "sent",
                                   !.readBy = {u}, !.hasText = TRUE]

Outgoing ==
  [status   : {"new", "sending", "sent", "failed"},
   sender   : Users \cup {None},
   post     : 0..MaxPosts,
   failures : 0..Retries]

Unposted == [status |-> "new", sender |-> None, post |-> 0, failures |-> 0]

Changes == {"edit", "unsend", "hide", "react", "pin"}

TaskState ==
  [pc        : {"idle", "find", "insert", "touch", "deliver", "change", "read"},
   change    : Changes,
   user      : Users \cup {None},
   send      : Sends \cup {None},
   post      : 0..MaxPosts,
   message   : Messages \cup {None},
   hidden    : SUBSET Users,
   reactions : Reactions,
   pinned    : BOOLEAN]

Idle == [pc |-> "idle", change |-> "edit", user |-> None, send |-> None, post |-> 0,
         message |-> None, hidden |-> {}, reactions |-> {}, pinned |-> FALSE]

Free(t) == task[t].pc = "idle"

\* Over memory the handler before has answered.
CanStart(t) == IF store = "memory" THEN \A u \in Tasks : Free(u) ELSE Free(t)

Finish(t) == task' = [task EXCEPT ![t] = Idle]

Exists(m) == message[m].status # "absent"

WithKey(s) == {m \in Messages : Exists(m) /\ message[m].key = s}

Init ==
  /\ store \in Stores
  /\ blocked = FALSE
  /\ message = [m \in Messages |-> Absent]
  /\ last = None
  /\ requests = {}
  /\ outbox = [s \in Sends |-> Unposted]
  /\ task = [t \in Tasks |-> Idle]

-----------------------------------------------------------------------------
(* The client *)

\* One more request for a send, under the same client message id.
Request(s, out) ==
  /\ requests' = requests \cup {<< s, outbox[s].post + 1 >>}
  /\ outbox' = [outbox EXCEPT ![s] = [out EXCEPT !.post = outbox[s].post + 1]]
  /\ UNCHANGED << store, blocked, message, last, task >>

\* A user writes a message, or presses "Retry" under a failed one.
Post(s, u) ==
  /\ outbox[s].status = "new" \/ (outbox[s].status = "failed" /\ outbox[s].sender = u)
  /\ outbox[s].post < MaxPosts
  /\ Request(s, [outbox[s] EXCEPT !.status = "sending", !.sender = u, !.failures = 0])

\* The request was answered with an error or not at all: retry, then give up.
RequestFails(s) ==
  /\ outbox[s].status = "sending"
  /\ IF outbox[s].failures < Retries /\ outbox[s].post < MaxPosts
       THEN Request(s, [outbox[s] EXCEPT !.failures = @ + 1])
       ELSE /\ outbox' = [outbox EXCEPT ![s].status = "failed"]
            /\ UNCHANGED << store, blocked, message, last, requests, task >>

\* A request is lost on its way.
Lose(r) ==
  /\ requests' = requests \ {r}
  /\ UNCHANGED << store, blocked, message, last, outbox, task >>

\* The handler of a request answers; the answer may be lost, or arrive when the
\* client has given this request up.
Respond(t, status) ==
  LET s == task[t].send
  IN  /\ \/ UNCHANGED outbox
         \/ /\ outbox[s].status = "sending"
            /\ outbox[s].post = task[t].post
            /\ outbox' = [outbox EXCEPT ![s].status = status]
      /\ Finish(t)
      /\ UNCHANGED requests

-----------------------------------------------------------------------------
(* Sending a message *)

Creating(r) ==
  [pc |-> "find", change |-> "edit", user |-> outbox[r[1]].sender, send |-> r[1],
   post |-> r[2], message |-> None, hidden |-> {}, reactions |-> {}, pinned |-> FALSE]

\* create: a blocked conversation is refused before anything else.
Create(t, r) ==
  /\ CanStart(t)
  /\ r \in requests
  /\ requests' = requests \ {r}
  /\ IF blocked
       THEN /\ \/ UNCHANGED outbox
               \/ /\ outbox[r[1]].status = "sending"
                  /\ outbox[r[1]].post = r[2]
                  /\ outbox' = [outbox EXCEPT ![r[1]].status = "failed"]
            /\ UNCHANGED task
       ELSE /\ task' = [task EXCEPT ![t] = Creating(r)]
            /\ UNCHANGED outbox
  /\ UNCHANGED << store, blocked, message, last >>

FindNothing(t) ==                                                   \* mutant
  /\ task[t].pc = "find"
  /\ task' = [task EXCEPT ![t].pc = "insert"]
  /\ UNCHANGED << store, blocked, message, last, requests, outbox >>

\* createMessage: the block again, then the message an earlier request made.
FindExisting(t) ==
  /\ task[t].pc = "find"
  /\ LET found == WithKey(task[t].send)
     IN  \/ blocked /\ Respond(t, "failed")
         \/ /\ ~blocked
            /\ \/ /\ found = {}
                  /\ task' = [task EXCEPT ![t].pc = "insert"]
               \/ \E m \in found :
                    task' = [task EXCEPT ![t].pc = "deliver", ![t].message = m]
            /\ UNCHANGED << requests, outbox >>
  /\ UNCHANGED << store, blocked, message, last >>

TouchLater(t, m) ==                                                 \* mutant
  /\ last' = last
  /\ task' = [task EXCEPT ![t].pc = "touch", ![t].message = m]

\* The conversation is updated with the message or, on a MongoDB without
\* transactions, after it.
Touch(t, m) ==
  IF store = "mongo"
    THEN /\ last' = last
         /\ task' = [task EXCEPT ![t].pc = "touch", ![t].message = m]
    ELSE /\ last' = m
         /\ task' = [task EXCEPT ![t].pc = "deliver", ![t].message = m]

\* ... and inserts it.  The unique index refuses a second one: a transaction
\* starts over, without one the request fails.
Insert(t) ==
  /\ task[t].pc = "insert"
  /\ LET s == task[t].send
     IN  IF store # "memory" /\ WithKey(s) # {}
           THEN /\ \/ store = "replica" /\ task' = [task EXCEPT ![t].pc = "find"]
                   \/ store = "mongo" /\ Finish(t)
                /\ UNCHANGED << message, last >>
           ELSE \E m \in Messages :
                  /\ ~Exists(m)
                  /\ message' = [message EXCEPT ![m] = NewMessage(s, task[t].user)]
                  /\ Touch(t, m)
  /\ UNCHANGED << store, blocked, requests, outbox >>

TouchConversation(t) ==
  /\ task[t].pc = "touch"
  /\ last' = task[t].message
  /\ task' = [task EXCEPT ![t].pc = "deliver"]
  /\ UNCHANGED << store, blocked, message, requests, outbox >>

DeliverAnyway(m) ==                                                 \* mutant
  message' = [message EXCEPT ![m].status = "delivered"]

\* markMessageDelivered: a message that is "sent", and no other.
Deliver(m) ==
  message' = IF message[m].status = "sent"
               THEN [message EXCEPT ![m].status = "delivered"]
               ELSE message

\* create: mark the message if a recipient is online, then answer.
FinishCreate(t) ==
  /\ task[t].pc = "deliver"
  /\ Deliver(task[t].message) \/ UNCHANGED message
  /\ Respond(t, "sent")
  /\ UNCHANGED << store, blocked, last >>

-----------------------------------------------------------------------------
(* Changing a message *)

WithoutReactionOf(u, reactions) == {r \in reactions : r[1] # u}

\* What the handler writes is computed from the message it has read.
Decided(c, u, m, e) ==
  [pc |-> "change", change |-> c, user |-> u, send |-> None, post |-> 0, message |-> m,
   hidden    |-> IF c = "hide" THEN message[m].hidden \cup {u} ELSE {},
   reactions |-> IF c = "react"
                   THEN WithoutReactionOf(u, message[m].reactions)
                        \cup (IF e = None THEN {} ELSE {<< u, e >>})
                   ELSE {},
   pinned    |-> c = "pin" /\ ~message[m].pinned]

MayEditUnsent(c, u, m) ==                                           \* mutant
  c \in {"edit", "unsend"} => u = message[m].sender

\* The sender edits, not after unsending, and unsends; everyone does the rest.
May(c, u, m) ==
  /\ c \in {"edit", "unsend"} => u = message[m].sender
  /\ c = "edit" => ~message[m].unsent

\* updateMessage, deleteMessage, reactToMessage, togglePinnedMessage up to
\* their write: access, block and the message.
Change(t, c, u, m, e) ==
  /\ CanStart(t)
  /\ ~blocked
  /\ Exists(m)
  /\ May(c, u, m)
  /\ c # "react" => e = None
  /\ task' = [task EXCEPT ![t] = Decided(c, u, m, e)]
  /\ UNCHANGED << store, blocked, message, last, requests, outbox >>

HideForOne(t) ==                                                    \* mutant
  LET m == task[t].message
      c == task[t].change
  IN  CASE c = "edit"   -> [message[m] EXCEPT !.hasText = TRUE]
        [] c = "unsend" -> [message[m] EXCEPT !.hasText = FALSE, !.unsent = TRUE]
        [] c = "hide"   -> [message[m] EXCEPT !.hidden = {task[t].user}]
        [] c = "react"  -> [message[m] EXCEPT !.reactions = task[t].reactions]
        [] c = "pin"    -> [message[m] EXCEPT !.pinned = task[t].pinned]

\* The message after the write; fields that are not set keep their value.
Changed(t) ==
  LET m == task[t].message
      c == task[t].change
  IN  CASE c = "edit"   -> [message[m] EXCEPT !.hasText = TRUE]
        [] c = "unsend" -> [message[m] EXCEPT !.hasText = FALSE, !.unsent = TRUE]
        [] c = "hide"   -> [message[m] EXCEPT !.hidden = task[t].hidden]
        [] c = "react"  -> [message[m] EXCEPT !.reactions = task[t].reactions]
        [] c = "pin"    -> [message[m] EXCEPT !.pinned = task[t].pinned]

WriteChange(t) ==
  /\ task[t].pc = "change"
  /\ message' = [message EXCEPT ![task[t].message] = Changed(t)]
  /\ Finish(t)
  /\ UNCHANGED << store, blocked, last, requests, outbox >>

-----------------------------------------------------------------------------
(* Reading the conversation *)

\* markConversationRead up to its write: access and block.
Read(t, u) ==
  /\ CanStart(t)
  /\ ~blocked
  /\ task' = [task EXCEPT ![t] = [Idle EXCEPT !.pc = "read", !.user = u]]
  /\ UNCHANGED << store, blocked, message, last, requests, outbox >>

OwnToo(u) == {m \in Messages : Exists(m)}                           \* mutant

Received(u) == {m \in Messages : Exists(m) /\ message[m].sender # u}

MarkRead(t) ==
  /\ task[t].pc = "read"
  /\ message' = [m \in Messages |->
       IF m \in Received(task[t].user)
         THEN [message[m] EXCEPT !.status = "read", !.readBy = @ \cup {task[t].user}]
         ELSE message[m]]
  /\ Finish(t)
  /\ UNCHANGED << store, blocked, last, requests, outbox >>

-----------------------------------------------------------------------------
(* Surroundings *)

\* A user blocks the other in a direct conversation, or lifts the block.
Block ==
  /\ \A t \in Tasks : store = "memory" => Free(t)
  /\ blocked' = ~blocked
  /\ UNCHANGED << store, message, last, requests, outbox, task >>

\* The server process stops; MongoDB keeps what was written.
Crash ==
  /\ store # "memory"
  /\ \E t \in Tasks : ~Free(t)
  /\ task' = [t \in Tasks |-> Idle]
  /\ UNCHANGED << store, blocked, message, last, requests, outbox >>

-----------------------------------------------------------------------------
TaskStep(t) ==
  \/ FindExisting(t)
  \/ Insert(t)
  \/ TouchConversation(t)
  \/ FinishCreate(t)
  \/ WriteChange(t)
  \/ MarkRead(t)

UserStep(t, u) ==
  \/ Read(t, u)
  \/ \E c \in Changes, m \in Messages, e \in Emojis \cup {None} : Change(t, c, u, m, e)

Next ==
  \/ \E s \in Sends : RequestFails(s) \/ \E u \in Users : Post(s, u)
  \/ \E r \in requests : Lose(r) \/ \E t \in Tasks : Create(t, r)
  \/ \E t \in Tasks : TaskStep(t) \/ \E u \in Users : UserStep(t, u)
  \/ Block
  \/ Crash

Spec == Init /\ [][Next]_vars

-----------------------------------------------------------------------------
(* Properties *)

\* Every variable keeps the shape the code gives it.
TypeOK ==
  /\ store \in Stores
  /\ blocked \in BOOLEAN
  /\ message \in [Messages -> StoredMessages]
  /\ last \in Messages \cup {None}
  /\ requests \subseteq Sends \X (1..MaxPosts)
  /\ outbox \in [Sends -> Outgoing]
  /\ task \in [Tasks -> TaskState]

\* However often a send is repeated, and whatever became of the requests
\* before, it makes one message.
OneMessagePerSend ==
  \A m, n \in Messages :
    Exists(m) /\ Exists(n) /\ message[m].key = message[n].key => m = n

\* What the client shows as sent is stored, and the conversation has moved up
\* for it; only a MongoDB without transactions can stop in between.
SentIsStored ==
  \A s \in Sends :
    outbox[s].status = "sent" =>
      \E m \in Messages : /\ Exists(m)
                          /\ message[m].key = s
                          /\ message[m].sender = outbox[s].sender
                          /\ store # "mongo" => last # None

Rank(status) ==
  CASE status = "absent" -> 0 [] status = "sent" -> 1
    [] status = "delivered" -> 2 [] status = "read" -> 3

\* Sent, delivered, read: the state a sender sees never goes back, however
\* deliveries, repeated sends and readings are ordered.
DeliveryAdvances ==
  [][\A m \in Messages : Rank(message[m].status) <= Rank(message'[m].status)]_message

\* A message is "read" if and only if somebody other than its sender read it.
ReadHasReader ==
  \A m \in Messages :
    Exists(m) => ((message[m].status = "read") <=> (message[m].readBy # {message[m].sender}))

\* Over memory an unsent message has no text, also not from a later edit.
UnsentIsEmpty ==
  \A m \in Messages : store = "memory" /\ message[m].unsent => ~message[m].hasText

ReactionsOf(v, reactions) == {r \in reactions : r[1] = v}

\* Over memory what a user has deleted stays deleted for that user, and a
\* request changes the reaction of one user, whatever others do meanwhile.
MarksStay ==
  [][store = "memory" =>
       \A m \in Messages :
         /\ message[m].hidden \subseteq message'[m].hidden
         /\ \A u, v \in Users :
              /\ ReactionsOf(u, message[m].reactions) # ReactionsOf(u, message'[m].reactions)
              /\ ReactionsOf(v, message[m].reactions) # ReactionsOf(v, message'[m].reactions)
              => u = v]_message
=============================================================================
