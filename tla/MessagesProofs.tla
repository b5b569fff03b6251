--------------------------- MODULE MessagesProofs ---------------------------
(***************************************************************************)
(* Machine-checked facts about Messages, for any number of users, sends,   *)
(* stored messages and handlers.  SendInv holds in every deployment;       *)
(* AloneInv is what is true besides over memory.                           *)
(***************************************************************************)
EXTENDS Messages, TLAPS

(* Types *)

LEMMA IdleTyped == Idle \in TaskState
BY MessageAssumption DEF Idle, TaskState, Changes, Reactions

LEMMA TaskTyped ==
  ASSUME TypeOK, NEW t \in Tasks
  PROVE  /\ task[t] \in TaskState
         /\ task[t].user \in Users \cup {None}
         /\ task[t].send \in Sends \cup {None}
         /\ task[t].post \in 0..MaxPosts
         /\ task[t].message \in Messages \cup {None}
         /\ task[t].change \in Changes
         /\ task[t].hidden \in SUBSET Users
         /\ task[t].reactions \in Reactions
         /\ task[t].pinned \in BOOLEAN
BY DEF TypeOK, TaskState

LEMMA FinishTyped ==
  ASSUME TypeOK, NEW t \in Tasks, Finish(t)
  PROVE  /\ task' \in [Tasks -> TaskState]
         /\ task'[t] = Idle
         /\ \A u \in Tasks \ {t} : task'[u] = task[u]
BY IdleTyped DEF Finish, TypeOK

\* A handler that goes on with its work.
LEMMA MoveTyped ==
  ASSUME TypeOK, NEW t \in Tasks, NEW m \in Messages \cup {None},
         NEW pc \in {"find", "insert", "touch", "deliver"},
         task' = [task EXCEPT ![t] = [task[t] EXCEPT !.pc = pc, !.message = m]]
  PROVE  /\ task' \in [Tasks -> TaskState]
         /\ task'[t].pc = pc
         /\ task'[t].message = m
         /\ task'[t].send = task[t].send
         /\ task'[t].user = task[t].user
         /\ \A u \in Tasks \ {t} : task'[u] = task[u]
<1>1. [task[t] EXCEPT !.pc = pc, !.message = m] \in TaskState
  BY TaskTyped DEF TaskState
<1>2. task'[t] = [task[t] EXCEPT !.pc = pc, !.message = m]
  BY DEF TypeOK
<1>3. task' \in [Tasks -> TaskState]
  BY <1>1 DEF TypeOK
<1>4. \A u \in Tasks \ {t} : task'[u] = task[u]
  BY DEF TypeOK
<1>. QED  BY <1>2, <1>3, <1>4, TaskTyped DEF TaskState

\* A handler that starts.
LEMMA StartTyped ==
  ASSUME TypeOK, NEW t \in Tasks, NEW state \in TaskState,
         task' = [task EXCEPT ![t] = state]
  PROVE  /\ task' \in [Tasks -> TaskState]
         /\ task'[t] = state
         /\ \A u \in Tasks \ {t} : task'[u] = task[u]
BY DEF TypeOK

LEMMA OutgoingTyped ==
  ASSUME TypeOK, NEW s \in Sends, NEW status \in {"sending", "sent", "failed"},
         outbox' = [outbox EXCEPT ![s].status = status]
  PROVE  /\ outbox' \in [Sends -> Outgoing]
         /\ outbox'[s].status = status
         /\ outbox'[s].sender = outbox[s].sender
         /\ \A r \in Sends \ {s} : outbox'[r] = outbox[r]
BY DEF TypeOK, Outgoing

LEMMA NewMessageTyped ==
  ASSUME NEW s \in Sends \cup {None}, NEW u \in Users
  PROVE  /\ NewMessage(s, u) \in StoredMessages
         /\ NewMessage(s, u).key = s
         /\ NewMessage(s, u).sender = u
         /\ NewMessage(s, u).status = "sent"
         /\ NewMessage(s, u).readBy = {u}
         /\ NewMessage(s, u).hasText /\ ~NewMessage(s, u).unsent
         /\ NewMessage(s, u).hidden = {}
         /\ NewMessage(s, u).reactions = {}
BY DEF NewMessage, Absent, StoredMessages, Statuses, Reactions

LEMMA RequestSend ==
  ASSUME TypeOK, NEW r \in requests
  PROVE  r[1] \in Sends /\ r[2] \in 1..MaxPosts
BY DEF TypeOK

LEMMA StepTyped ==
  ASSUME TypeOK, NEW t \in Tasks, NEW pc \in {"find", "insert", "touch", "deliver"},
         task' = [task EXCEPT ![t].pc = pc]
  PROVE  /\ task' \in [Tasks -> TaskState]
         /\ task'[t].pc = pc
         /\ task'[t].message = task[t].message
         /\ task'[t].send = task[t].send
         /\ task'[t].user = task[t].user
         /\ \A u \in Tasks \ {t} : task'[u] = task[u]
<1>1. [task[t] EXCEPT !.pc = pc] \in TaskState
  BY TaskTyped DEF TaskState
<1>2. task' = [task EXCEPT ![t] = [task[t] EXCEPT !.pc = pc]]
  OBVIOUS
<1>3. task'[t] = [task[t] EXCEPT !.pc = pc]
  BY <1>2 DEF TypeOK
<1>4. task' \in [Tasks -> TaskState] /\ \A u \in Tasks \ {t} : task'[u] = task[u]
  BY <1>1, <1>2 DEF TypeOK
<1>. QED  BY <1>3, <1>4, TaskTyped DEF TaskState

LEMMA RequestTyped ==
  ASSUME TypeOK, NEW s \in Sends, NEW u \in Users \cup {None}, NEW n \in 0..Retries,
         outbox[s].post < MaxPosts,
         Request(s, [status |-> "sending", sender |-> u, post |-> outbox[s].post,
                     failures |-> n])
  PROVE  /\ TypeOK'
         /\ outbox'[s].status = "sending"
         /\ outbox'[s].sender = u
         /\ \A r \in Sends \ {s} : outbox'[r] = outbox[r]
         /\ requests' = requests \cup {<< s, outbox[s].post + 1 >>}
         /\ UNCHANGED << store, blocked, message, last, task >>
<1>. DEFINE out == [status |-> "sending", sender |-> u, post |-> outbox[s].post + 1,
                    failures |-> n]
<1>1. outbox[s].post \in 0..MaxPosts  BY DEF TypeOK, Outgoing
<1>2. outbox[s].post + 1 \in 1..MaxPosts  BY <1>1, MessageAssumption
<1>3. out \in Outgoing  BY <1>2, MessageAssumption DEF Outgoing
<1>. DEFINE old == [status |-> "sending", sender |-> u, post |-> outbox[s].post,
                    failures |-> n]
<1>4. outbox' = [outbox EXCEPT ![s] = out]
  <2>1. outbox' = [outbox EXCEPT ![s] = [old EXCEPT !.post = outbox[s].post + 1]]
    BY Zenon DEF Request
  <2>2. [old EXCEPT !.post = outbox[s].post + 1] = out
    OBVIOUS
  <2>. QED  BY <2>1, <2>2, Zenon
<1>. HIDE DEF out
<1>5. outbox' \in [Sends -> Outgoing]  BY <1>3, <1>4 DEF TypeOK
<1>6. outbox'[s] = out /\ \A r \in Sends \ {s} : outbox'[r] = outbox[r]
  BY <1>4 DEF TypeOK
<1>7. /\ requests' = requests \cup {<< s, outbox[s].post + 1 >>}
      /\ UNCHANGED << store, blocked, message, last, task >>
  BY DEF Request
<1>8. TypeOK'  BY <1>2, <1>5, <1>7 DEF TypeOK
<1>. QED  BY <1>6, <1>7, <1>8 DEF out

\* A send that is posted by hand.
LEMMA Reposted ==
  ASSUME NEW o \in Outgoing, NEW u \in Users
  PROVE  [o EXCEPT !.status = "sending", !.sender = u, !.failures = 0]
           = [status |-> "sending", sender |-> u, post |-> o.post, failures |-> 0]
<1>1. [o EXCEPT !.status = "sending"]
        = [status |-> "sending", sender |-> o.sender, post |-> o.post,
           failures |-> o.failures]
  BY DEF Outgoing
<1>2. [[status |-> "sending", sender |-> o.sender, post |-> o.post,
        failures |-> o.failures] EXCEPT !.sender = u]
        = [status |-> "sending", sender |-> u, post |-> o.post, failures |-> o.failures]
  OBVIOUS
<1>3. [[status |-> "sending", sender |-> u, post |-> o.post,
        failures |-> o.failures] EXCEPT !.failures = 0]
        = [status |-> "sending", sender |-> u, post |-> o.post, failures |-> 0]
  OBVIOUS
<1>. QED  BY <1>1, <1>2, <1>3, Zenon

\* The client's handling of an answer.
LEMMA RespondTyped ==
  ASSUME TypeOK, NEW t \in Tasks, task[t].send \in Sends,
         NEW status \in {"sent", "failed"}, Respond(t, status)
  PROVE  /\ task' \in [Tasks -> TaskState] /\ task'[t] = Idle
         /\ \A u \in Tasks \ {t} : task'[u] = task[u]
         /\ outbox' \in [Sends -> Outgoing]
         /\ requests' = requests
         /\ \A s \in Sends :
              /\ outbox'[s].sender = outbox[s].sender
              /\ \/ outbox'[s].status = outbox[s].status
                 \/ /\ s = task[t].send
                    /\ outbox[s].status = "sending"
                    /\ outbox'[s].status = status
<1>1. Finish(t) /\ requests' = requests  BY DEF Respond
<1>2. \/ outbox' = outbox
      \/ /\ outbox[task[t].send].status = "sending"
         /\ outbox' = [outbox EXCEPT ![task[t].send].status = status]
  BY DEF Respond
<1>3. outbox \in [Sends -> Outgoing]  BY DEF TypeOK
<1>. QED  BY <1>1, <1>2, <1>3, FinishTyped, OutgoingTyped

-----------------------------------------------------------------------------
(* Every deployment *)

Sending == {"find", "insert", "touch", "deliver"}

\* What a handler in progress works on.
HandlerOK(t) ==
  /\ task[t].pc \in Sending =>
       /\ task[t].send \in Sends
       /\ task[t].user \in Users
       /\ outbox[task[t].send].status # "new"
       /\ outbox[task[t].send].sender = task[t].user
  /\ task[t].pc \in {"touch", "deliver"} =>
       /\ task[t].message \in Messages
       /\ Exists(task[t].message)
       /\ message[task[t].message].key = task[t].send
  /\ task[t].pc = "change" =>
       /\ task[t].message \in Messages
       /\ Exists(task[t].message)
       /\ task[t].user \in Users
  /\ task[t].pc = "read" => task[t].user \in Users

\* A stored message belongs to the send it was made for.
MessageOK(m) ==
  Exists(m) =>
    /\ message[m].key \in Sends
    /\ message[m].sender \in Users
    /\ message[m].sender \in message[m].readBy
    /\ outbox[message[m].key].status # "new"
    /\ outbox[message[m].key].sender = message[m].sender

\* A send has a sender from its first request on, and a message when the
\* client takes it for sent.
OutboxOK(s) ==
  /\ outbox[s].status # "new" => outbox[s].sender \in Users
  /\ outbox[s].status = "sent" => \E m \in Messages : Exists(m) /\ message[m].key = s

SendInv ==
  /\ TypeOK
  /\ \A t \in Tasks : HandlerOK(t)
  /\ \A m \in Messages : MessageOK(m)
  /\ \A s \in Sends : OutboxOK(s)
  /\ \A r \in requests : outbox[r[1]].status # "new"
  /\ store # "memory" => OneMessagePerSend
  /\ ReadHasReader
  /\ (\E m \in Messages : Exists(m)) /\ store # "mongo" => last # None

\* What no step takes back.
Grows ==
  /\ store' = store
  /\ \A m \in Messages : Exists(m) =>
       Exists(m)' /\ message'[m].key = message[m].key
                  /\ message'[m].sender = message[m].sender
  /\ \A s \in Sends : outbox[s].status # "new" =>
       outbox'[s].status # "new" /\ outbox'[s].sender = outbox[s].sender

LEMMA CarryHandler ==
  ASSUME SendInv, Grows, NEW t \in Tasks, task'[t] = task[t] \/ task'[t] = Idle
  PROVE  HandlerOK(t)'
<1>1. CASE task'[t] = Idle  BY <1>1 DEF HandlerOK, Idle, Sending
<1>2. CASE task'[t] = task[t]
  BY <1>2 DEF SendInv, Grows, HandlerOK
<1>. QED  BY <1>1, <1>2

LEMMA CarryOutbox ==
  ASSUME SendInv, Grows, NEW s \in Sends,
         outbox'[s].sender = outbox[s].sender,
         \/ outbox'[s].status = outbox[s].status
         \/ outbox[s].status # "new" /\ outbox'[s].status # "sent"
  PROVE  OutboxOK(s)'
BY DEF SendInv, Grows, OutboxOK

\* A step that leaves the messages alone.
LEMMA SameMessages ==
  ASSUME SendInv, Grows, message' = message, TypeOK', last' = last,
         \A r \in requests' : outbox'[r[1]].status # "new",
         \A s \in Sends : OutboxOK(s)',
         \A t \in Tasks : HandlerOK(t)'
  PROVE  SendInv'
<1>1. \A m \in Messages : MessageOK(m)'
  BY DEF SendInv, Grows, MessageOK, Exists
<1>2. /\ store' # "memory" => OneMessagePerSend'
      /\ ReadHasReader'
      /\ (\E m \in Messages : Exists(m)') /\ store' # "mongo" => last' # None
  BY DEF SendInv, Grows, OneMessagePerSend, ReadHasReader, Exists
<1>. QED  BY <1>1, <1>2 DEF SendInv

\* A step that changes existing messages and neither client nor conversation.
LEMMA SameClient ==
  ASSUME SendInv, TypeOK', store' = store, last' = last, requests' = requests,
         \A s \in Sends : outbox'[s] = outbox[s],
         \A t \in Tasks : task'[t] = task[t] \/ task'[t] = Idle,
         \A m \in Messages : /\ Exists(m)' <=> Exists(m)
                             /\ message'[m].key = message[m].key
                             /\ message'[m].sender = message[m].sender
                             /\ message[m].readBy \subseteq message'[m].readBy,
         ReadHasReader'
  PROVE  SendInv'
<1>1. Grows  BY DEF Grows
<1>2. \A t \in Tasks : HandlerOK(t)'  BY <1>1, CarryHandler
<1>3. \A s \in Sends : OutboxOK(s)'  BY <1>1, CarryOutbox
<1>4. \A m \in Messages : MessageOK(m)'  BY DEF SendInv, MessageOK
<1>5. \A r \in requests' : outbox'[r[1]].status # "new"
  <2>1. \A r \in requests : r[1] \in Sends  BY RequestSend DEF SendInv
  <2>. QED  BY <2>1 DEF SendInv
<1>6. /\ store' # "memory" => OneMessagePerSend'
      /\ (\E m \in Messages : Exists(m)') /\ store' # "mongo" => last' # None
  BY DEF SendInv, OneMessagePerSend
<1>. QED  BY <1>2, <1>3, <1>4, <1>5, <1>6 DEF SendInv

LEMMA SendInit == Init => SendInv
<1>. SUFFICES ASSUME Init PROVE SendInv
  OBVIOUS
<1>1. Absent \in StoredMessages /\ Absent.status = "absent"
  BY DEF Absent, StoredMessages, Reactions
<1>2. Unposted \in Outgoing /\ Unposted.status = "new"
  BY MessageAssumption DEF Unposted, Outgoing
<1>3. TypeOK
  BY <1>1, <1>2, IdleTyped DEF Init, TypeOK
<1>4. \A m \in Messages : ~Exists(m)  BY <1>1 DEF Init, Exists
<1>5. \A s \in Sends : outbox[s].status = "new"  BY <1>2 DEF Init
<1>6. \A t \in Tasks : HandlerOK(t)  BY DEF Init, HandlerOK, Idle, Sending
<1>7. \A s \in Sends : OutboxOK(s)  BY <1>5 DEF OutboxOK
<1>. QED
  BY <1>3, <1>4, <1>6, <1>7 DEF Init, SendInv, MessageOK, OneMessagePerSend, ReadHasReader

LEMMA PostKeeps ==
  ASSUME SendInv, NEW s \in Sends, NEW u \in Users,
         Post(s, u) \/ RequestFails(s)
  PROVE  SendInv'
<1>0. TypeOK  BY DEF SendInv
<1>1. outbox[s] \in Outgoing  BY <1>0 DEF TypeOK
<1>2. ASSUME NEW v \in Users, NEW n \in 0..Retries,
             outbox[s].post < MaxPosts,
             outbox[s].status # "new" => outbox[s].sender = v,
             Request(s, [status |-> "sending", sender |-> v, post |-> outbox[s].post,
                         failures |-> n])
      PROVE  SendInv'
  <2>1. /\ TypeOK'
        /\ outbox'[s].status = "sending"
        /\ outbox'[s].sender = v
        /\ \A r \in Sends \ {s} : outbox'[r] = outbox[r]
        /\ requests' = requests \cup {<< s, outbox[s].post + 1 >>}
        /\ UNCHANGED << store, blocked, message, last, task >>
    BY <1>0, <1>2, RequestTyped
  <2>2. Grows  BY <1>2, <2>1 DEF Grows, Exists
  <2>3. \A t \in Tasks : HandlerOK(t)'  BY <2>1, <2>2, CarryHandler
  <2>4. ASSUME NEW r \in Sends PROVE OutboxOK(r)'
    <3>1. CASE r = s  BY <2>1, <3>1 DEF OutboxOK
    <3>2. CASE r # s  BY <2>1, <2>2, <3>2, CarryOutbox
    <3>. QED  BY <3>1, <3>2
  <2>5. ASSUME NEW r \in requests' PROVE outbox'[r[1]].status # "new"
    <3>1. CASE r \in requests
      <4>1. r[1] \in Sends  BY <1>0, <3>1, RequestSend
      <4>. QED  BY <2>1, <3>1, <4>1 DEF SendInv
    <3>2. CASE r = << s, outbox[s].post + 1 >>  BY <2>1, <3>2
    <3>. QED  BY <2>1, <3>1, <3>2
  <2>. QED  BY <2>1, <2>2, <2>3, <2>4, <2>5, SameMessages
<1>3. CASE Post(s, u)
  <2>1. /\ outbox[s].post < MaxPosts
        /\ outbox[s].status # "new" => outbox[s].sender = u
        /\ Request(s, [outbox[s] EXCEPT !.status = "sending", !.sender = u, !.failures = 0])
    BY <1>3 DEF Post
  <2>2. [outbox[s] EXCEPT !.status = "sending", !.sender = u, !.failures = 0]
          = [status |-> "sending", sender |-> u, post |-> outbox[s].post, failures |-> 0]
    BY <1>1, Reposted
  <2>3. 0 \in 0..Retries  BY MessageAssumption
  <2>. QED  BY <1>2, <2>1, <2>2, <2>3
<1>4. CASE RequestFails(s) /\ outbox[s].failures < Retries /\ outbox[s].post < MaxPosts
  <2>1. /\ outbox[s].status = "sending"
        /\ Request(s, [outbox[s] EXCEPT !.failures = @ + 1])
    BY <1>4 DEF RequestFails
  <2>2. [outbox[s] EXCEPT !.failures = @ + 1]
          = [status |-> "sending", sender |-> outbox[s].sender, post |-> outbox[s].post,
             failures |-> outbox[s].failures + 1]
    BY <1>1, <2>1 DEF Outgoing
  <2>3. outbox[s].failures + 1 \in 0..Retries
    BY <1>1, <1>4, MessageAssumption DEF Outgoing
  <2>4. outbox[s].sender \in Users  BY <2>1 DEF SendInv, OutboxOK
  <2>. DEFINE v == outbox[s].sender
              n == outbox[s].failures + 1
  <2>5. Request(s, [status |-> "sending", sender |-> v, post |-> outbox[s].post,
                    failures |-> n])
    BY <2>1, <2>2
  <2>6. outbox[s].post < MaxPosts /\ (outbox[s].status # "new" => outbox[s].sender = v)
    BY <1>4
  <2>7. v \in Users /\ n \in 0..Retries  BY <2>3, <2>4
  <2>. HIDE DEF v, n
  <2>. QED  BY <1>2, <2>5, <2>6, <2>7
<1>5. CASE RequestFails(s) /\ ~(outbox[s].failures < Retries /\ outbox[s].post < MaxPosts)
  <2>1. /\ outbox[s].status = "sending"
        /\ outbox' = [outbox EXCEPT ![s].status = "failed"]
        /\ UNCHANGED << store, blocked, message, last, requests, task >>
    BY <1>5 DEF RequestFails
  <2>2. /\ outbox' \in [Sends -> Outgoing]
        /\ outbox'[s].status = "failed"
        /\ outbox'[s].sender = outbox[s].sender
        /\ \A r \in Sends \ {s} : outbox'[r] = outbox[r]
    BY <1>0, <2>1, OutgoingTyped
  <2>3. Grows  BY <2>1, <2>2 DEF Grows, Exists
  <2>4. \A t \in Tasks : HandlerOK(t)'  BY <2>1, <2>3, CarryHandler
  <2>5. ASSUME NEW r \in Sends PROVE OutboxOK(r)'
    BY <2>1, <2>2, <2>3, CarryOutbox
  <2>6. ASSUME NEW r \in requests' PROVE outbox'[r[1]].status # "new"
    <3>1. r \in requests /\ r[1] \in Sends  BY <1>0, <2>1, RequestSend
    <3>. QED  BY <2>2, <3>1 DEF SendInv
  <2>7. TypeOK'  BY <1>0, <2>1, <2>2 DEF TypeOK
  <2>. QED  BY <2>1, <2>3, <2>4, <2>5, <2>6, <2>7, SameMessages
<1>. QED  BY <1>3, <1>4, <1>5

LEMMA LoseKeeps ==
  ASSUME SendInv, NEW r \in requests, Lose(r)
  PROVE  SendInv'
<1>1. /\ requests' = requests \ {r}
      /\ UNCHANGED << store, blocked, message, last, outbox, task >>
  BY DEF Lose
<1>2. Grows  BY <1>1 DEF Grows, Exists
<1>3. \A t \in Tasks : HandlerOK(t)'  BY <1>1, <1>2, CarryHandler
<1>4. \A s \in Sends : OutboxOK(s)'  BY <1>1, <1>2, CarryOutbox
<1>5. TypeOK'  BY <1>1 DEF SendInv, TypeOK
<1>6. \A q \in requests' : outbox'[q[1]].status # "new"  BY <1>1 DEF SendInv
<1>. QED  BY <1>1, <1>2, <1>3, <1>4, <1>5, <1>6, SameMessages

\* A handler that starts changes nothing but its slot.
LEMMA StartKeeps ==
  ASSUME SendInv, NEW t \in Tasks, NEW state \in TaskState,
         task' = [task EXCEPT ![t] = state],
         UNCHANGED << store, blocked, message, last, outbox >>,
         requests' \subseteq requests,
         HandlerOK(t)'
  PROVE  SendInv'
<1>0. TypeOK  BY DEF SendInv
<1>1. Grows  BY DEF Grows, Exists
<1>2. /\ task' \in [Tasks -> TaskState]
      /\ \A u \in Tasks \ {t} : task'[u] = task[u]
  BY <1>0, StartTyped
<1>3. \A u \in Tasks : HandlerOK(u)'  BY <1>1, <1>2, CarryHandler
<1>4. \A s \in Sends : OutboxOK(s)'  BY <1>1, CarryOutbox
<1>5. TypeOK'  BY <1>0, <1>2 DEF TypeOK
<1>6. \A r \in requests' : outbox'[r[1]].status # "new"  BY DEF SendInv
<1>. QED  BY <1>1, <1>3, <1>4, <1>5, <1>6, SameMessages

LEMMA CreateKeeps ==
  ASSUME SendInv, NEW t \in Tasks, NEW r \in requests, Create(t, r)
  PROVE  SendInv'
<1>0. TypeOK /\ outbox[r[1]].status # "new"  BY DEF SendInv
<1>1. r[1] \in Sends /\ r[2] \in 1..MaxPosts  BY <1>0, RequestSend
<1>2. /\ requests' = requests \ {r}
      /\ UNCHANGED << store, blocked, message, last >>
  BY DEF Create
<1>3. CASE UNCHANGED << outbox, task >>
  <2>1. Lose(r)  BY <1>2, <1>3 DEF Lose
  <2>. QED  BY <2>1, LoseKeeps
<1>4. CASE /\ outbox[r[1]].status = "sending"
           /\ outbox' = [outbox EXCEPT ![r[1]].status = "failed"]
           /\ UNCHANGED task
  <2>1. /\ outbox' \in [Sends -> Outgoing]
        /\ outbox'[r[1]].status = "failed"
        /\ outbox'[r[1]].sender = outbox[r[1]].sender
        /\ \A s \in Sends \ {r[1]} : outbox'[s] = outbox[s]
    BY <1>0, <1>1, <1>4, OutgoingTyped
  <2>2. Grows  BY <1>2, <2>1 DEF Grows, Exists
  <2>3. \A u \in Tasks : HandlerOK(u)'  BY <1>4, <2>2, CarryHandler
  <2>4. ASSUME NEW s \in Sends PROVE OutboxOK(s)'
    BY <1>0, <2>1, <2>2, CarryOutbox
  <2>5. ASSUME NEW q \in requests' PROVE outbox'[q[1]].status # "new"
    <3>1. q \in requests /\ q[1] \in Sends  BY <1>0, <1>2, RequestSend
    <3>. QED  BY <2>1, <3>1 DEF SendInv
  <2>6. TypeOK'  BY <1>0, <1>2, <1>4, <2>1 DEF TypeOK
  <2>. QED  BY <1>2, <2>2, <2>3, <2>4, <2>5, <2>6, SameMessages
<1>5. CASE task' = [task EXCEPT ![t] = Creating(r)] /\ UNCHANGED outbox
  <2>1. outbox[r[1]].sender \in Users  BY <1>0, <1>1 DEF SendInv, OutboxOK
  <2>2. r[2] \in 0..MaxPosts  BY <1>1
  <2>3. Creating(r) \in TaskState
    BY <1>1, <2>1, <2>2 DEF Creating, TaskState, Reactions, Changes
  <2>4. task'[t] = Creating(r)  BY <1>0, <1>5, <2>3, StartTyped
  <2>5. HandlerOK(t)'  BY <1>0, <1>1, <1>5, <2>1, <2>4 DEF HandlerOK, Creating
  <2>. QED  BY <1>2, <1>5, <2>3, <2>5, StartKeeps
<1>. QED  BY <1>3, <1>4, <1>5 DEF Create

\* An answer to the client: the message of the send exists if it is sent.
LEMMA RespondKeeps ==
  ASSUME SendInv, NEW t \in Tasks, task[t].pc \in Sending,
         NEW status \in {"sent", "failed"}, Respond(t, status),
         UNCHANGED << store, last >>,
         message' \in [Messages -> StoredMessages],
         status = "sent" => \E m \in Messages : Exists(m) /\ message[m].key = task[t].send
  PROVE  /\ Grows => \A u \in Tasks : HandlerOK(u)'
         /\ Grows => \A s \in Sends : OutboxOK(s)'
         /\ \A r \in requests' : outbox'[r[1]].status # "new"
         /\ blocked' = blocked => TypeOK'
         /\ \A s \in Sends : outbox[s].status # "new" =>
              outbox'[s].status # "new" /\ outbox'[s].sender = outbox[s].sender
<1>0. TypeOK /\ task[t].send \in Sends  BY DEF SendInv, HandlerOK
<1>1. /\ task' \in [Tasks -> TaskState] /\ task'[t] = Idle
      /\ \A u \in Tasks \ {t} : task'[u] = task[u]
      /\ outbox' \in [Sends -> Outgoing]
      /\ requests' = requests
      /\ \A s \in Sends :
           /\ outbox'[s].sender = outbox[s].sender
           /\ \/ outbox'[s].status = outbox[s].status
              \/ /\ s = task[t].send
                 /\ outbox[s].status = "sending"
                 /\ outbox'[s].status = status
  BY <1>0, RespondTyped
<1>2. Grows => \A u \in Tasks : HandlerOK(u)'  BY <1>1, CarryHandler
<1>3. ASSUME Grows, NEW s \in Sends PROVE OutboxOK(s)'
  <2>1. CASE \/ outbox'[s].status = outbox[s].status
             \/ outbox[s].status = "sending" /\ outbox'[s].status = "failed"
    BY <1>1, <1>3, <2>1, CarryOutbox
  <2>2. CASE s = task[t].send /\ outbox[s].status = "sending" /\ status = "sent"
    <3>1. \E m \in Messages : Exists(m)' /\ message'[m].key = s
      BY <1>3, <2>2 DEF Grows
    <3>2. outbox'[s].sender \in Users  BY <1>1, <2>2 DEF SendInv, OutboxOK
    <3>. QED  BY <3>1, <3>2 DEF OutboxOK
  <2>. QED  BY <1>1, <2>1, <2>2
<1>4. ASSUME NEW r \in requests' PROVE outbox'[r[1]].status # "new"
  <2>1. r \in requests /\ r[1] \in Sends  BY <1>0, <1>1, RequestSend
  <2>. QED  BY <1>1, <2>1 DEF SendInv
<1>5. blocked' = blocked => TypeOK'  BY <1>0, <1>1 DEF TypeOK
<1>6. \A s \in Sends : outbox[s].status # "new" =>
        outbox'[s].status # "new" /\ outbox'[s].sender = outbox[s].sender
  BY <1>1
<1>. QED  BY <1>2, <1>3, <1>4, <1>5, <1>6

\* A handler that goes on, the rest unchanged.
LEMMA MoveKeeps ==
  ASSUME SendInv, NEW t \in Tasks, task' \in [Tasks -> TaskState],
         \A u \in Tasks \ {t} : task'[u] = task[u], HandlerOK(t)',
         UNCHANGED << store, blocked, message, requests, outbox >>,
         last' = last \/ last' \in Messages
  PROVE  SendInv'
<1>1. Grows  BY DEF Grows, Exists
<1>2. \A u \in Tasks : HandlerOK(u)'  BY <1>1, CarryHandler
<1>3. \A s \in Sends : OutboxOK(s)'  BY <1>1, CarryOutbox
<1>4. TypeOK'  BY DEF SendInv, TypeOK
<1>5. \A r \in requests' : outbox'[r[1]].status # "new"  BY DEF SendInv
<1>6. CASE last' = last
  BY <1>1, <1>2, <1>3, <1>4, <1>5, <1>6, SameMessages
<1>7. CASE last' \in Messages
  <2>1. last' # None  BY <1>7, MessageAssumption
  <2>. QED
    BY <1>2, <1>3, <1>4, <1>5, <2>1
    DEF SendInv, MessageOK, OneMessagePerSend, ReadHasReader, Exists
<1>. QED  BY <1>6, <1>7

LEMMA FindKeeps == ASSUME SendInv, NEW t \in Tasks, FindExisting(t) PROVE SendInv'
<1>0. TypeOK /\ HandlerOK(t) /\ task[t].pc = "find"
  BY DEF SendInv, FindExisting
<1>1. UNCHANGED << store, blocked, message, last >>  BY DEF FindExisting
<1>2. CASE Respond(t, "failed")
  <2>1. /\ Grows => \A u \in Tasks : HandlerOK(u)'
        /\ Grows => \A s \in Sends : OutboxOK(s)'
        /\ \A r \in requests' : outbox'[r[1]].status # "new"
        /\ TypeOK'
        /\ \A s \in Sends : outbox[s].status # "new" =>
             outbox'[s].status # "new" /\ outbox'[s].sender = outbox[s].sender
    BY <1>0, <1>1, <1>2, RespondKeeps DEF Sending, TypeOK
  <2>2. Grows  BY <1>1, <2>1 DEF Grows, Exists
  <2>. QED  BY <1>1, <2>1, <2>2, SameMessages
<1>3. ASSUME task' = [task EXCEPT ![t].pc = "insert"], UNCHANGED << requests, outbox >>
      PROVE  SendInv'
  <2>1. /\ task' \in [Tasks -> TaskState]
        /\ task'[t].pc = "insert"
        /\ task'[t].send = task[t].send
        /\ task'[t].user = task[t].user
        /\ \A u \in Tasks \ {t} : task'[u] = task[u]
    BY <1>0, <1>3, StepTyped
  <2>2. HandlerOK(t)'  BY <1>0, <1>3, <2>1 DEF HandlerOK, Sending
  <2>. QED  BY <1>1, <1>3, <2>1, <2>2, MoveKeeps
<1>4. ASSUME NEW m \in WithKey(task[t].send), UNCHANGED << requests, outbox >>,
             task' = [task EXCEPT ![t].pc = "deliver", ![t].message = m]
      PROVE  SendInv'
  <2>1. m \in Messages /\ Exists(m) /\ message[m].key = task[t].send
    BY DEF WithKey
  <2>2. task' = [task EXCEPT ![t] = [task[t] EXCEPT !.pc = "deliver", !.message = m]]
    BY <1>4
  <2>3. /\ task' \in [Tasks -> TaskState]
        /\ task'[t].pc = "deliver"
        /\ task'[t].message = m
        /\ task'[t].send = task[t].send
        /\ task'[t].user = task[t].user
        /\ \A u \in Tasks \ {t} : task'[u] = task[u]
    BY <1>0, <2>1, <2>2, MoveTyped
  <2>4. HandlerOK(t)'
    BY <1>0, <1>1, <1>4, <2>1, <2>3 DEF HandlerOK, Sending, Exists
  <2>. QED  BY <1>1, <1>4, <2>3, <2>4, MoveKeeps
<1>. QED  BY <1>2, <1>3, <1>4 DEF FindExisting

\* The new message is the only one of its send: over MongoDB the index says so.
LEMMA InsertKeeps == ASSUME SendInv, NEW t \in Tasks, Insert(t) PROVE SendInv'
<1>0. TypeOK /\ HandlerOK(t) /\ task[t].pc = "insert"
  BY DEF SendInv, Insert
<1>1. UNCHANGED << store, blocked, requests, outbox >>  BY DEF Insert
<1>. DEFINE s == task[t].send
            u == task[t].user
<1>2. s \in Sends /\ u \in Users /\ outbox[s].status # "new" /\ outbox[s].sender = u
  BY <1>0 DEF HandlerOK, Sending
<1>3. ASSUME task' = [task EXCEPT ![t].pc = "find"], UNCHANGED << message, last >>
      PROVE  SendInv'
  <2>1. /\ task' \in [Tasks -> TaskState]
        /\ task'[t].pc = "find"
        /\ task'[t].send = s
        /\ task'[t].user = u
        /\ \A v \in Tasks \ {t} : task'[v] = task[v]
    BY <1>0, <1>3, StepTyped
  <2>2. HandlerOK(t)'  BY <1>1, <1>2, <2>1 DEF HandlerOK, Sending
  <2>. QED  BY <1>1, <1>3, <2>1, <2>2, MoveKeeps
<1>4. ASSUME Finish(t), UNCHANGED << message, last >> PROVE SendInv'
  <2>1. /\ task' \in [Tasks -> TaskState] /\ task'[t] = Idle
        /\ \A v \in Tasks \ {t} : task'[v] = task[v]
    BY <1>0, <1>4, FinishTyped
  <2>2. HandlerOK(t)'  BY <2>1 DEF HandlerOK, Idle, Sending
  <2>. QED  BY <1>1, <1>4, <2>1, <2>2, MoveKeeps
<1>5. ASSUME NEW m \in Messages, ~Exists(m),
             message' = [message EXCEPT ![m] = NewMessage(s, u)], Touch(t, m),
             store # "memory" => WithKey(s) = {}
      PROVE  SendInv'
  <2>1. /\ message' \in [Messages -> StoredMessages]
        /\ message'[m] = NewMessage(s, u)
        /\ \A n \in Messages \ {m} : message'[n] = message[n]
    BY <1>0, <1>2, <1>5, NewMessageTyped DEF TypeOK
  <2>2. /\ message'[m].key = s /\ message'[m].sender = u
        /\ message'[m].status = "sent" /\ message'[m].readBy = {u}
    BY <1>2, <2>1, NewMessageTyped
  <2>3. Exists(m)' /\ \A n \in Messages \ {m} : Exists(n)' <=> Exists(n)
    BY <2>1, <2>2 DEF Exists
  <2>4. Grows  BY <1>1, <1>5, <2>1, <2>3 DEF Grows
  <2>5. PICK pc \in {"touch", "deliver"} :
          task' = [task EXCEPT ![t].pc = pc, ![t].message = m]
    BY <1>5 DEF Touch
  <2>6. task' = [task EXCEPT ![t] = [task[t] EXCEPT !.pc = pc, !.message = m]]
    BY <2>5
  <2>7. /\ task' \in [Tasks -> TaskState]
        /\ task'[t].pc = pc
        /\ task'[t].message = m
        /\ task'[t].send = s
        /\ task'[t].user = u
        /\ \A v \in Tasks \ {t} : task'[v] = task[v]
    BY <1>0, <2>6, MoveTyped
  <2>8. HandlerOK(t)'
    BY <1>1, <1>2, <2>2, <2>3, <2>7 DEF HandlerOK, Sending
  <2>9. \A v \in Tasks : HandlerOK(v)'  BY <2>4, <2>7, <2>8, CarryHandler
  <2>10. \A r \in Sends : OutboxOK(r)'  BY <1>1, <2>4, CarryOutbox
  <2>11. ASSUME NEW n \in Messages PROVE MessageOK(n)'
    <3>1. CASE n = m  BY <1>1, <1>2, <2>2, <3>1 DEF MessageOK
    <3>2. CASE n # m  BY <1>1, <2>1, <2>3, <3>2 DEF SendInv, MessageOK
    <3>. QED  BY <3>1, <3>2
  <2>12. ReadHasReader'
    BY <2>1, <2>2, <2>3 DEF SendInv, ReadHasReader
  <2>13. store' # "memory" => OneMessagePerSend'
    BY <1>1, <1>5, <2>1, <2>2, <2>3 DEF SendInv, OneMessagePerSend, WithKey
  <2>14. last' \in Messages \cup {None} /\ (store' # "mongo" => last' # None)
    BY <1>0, <1>1, <1>5, MessageAssumption DEF Touch, TypeOK
  <2>15. TypeOK'  BY <1>0, <1>1, <2>1, <2>7, <2>14 DEF TypeOK
  <2>16. \A r \in requests' : outbox'[r[1]].status # "new"  BY <1>1 DEF SendInv
  <2>. QED
    BY <2>9, <2>10, <2>11, <2>12, <2>13, <2>14, <2>15, <2>16 DEF SendInv
<1>. QED  BY <1>3, <1>4, <1>5 DEF Insert

LEMMA TouchKeeps == ASSUME SendInv, NEW t \in Tasks, TouchConversation(t) PROVE SendInv'
<1>0. TypeOK /\ HandlerOK(t) /\ task[t].pc = "touch"
  BY DEF SendInv, TouchConversation
<1>1. /\ UNCHANGED << store, blocked, message, requests, outbox >>
      /\ last' = task[t].message
      /\ task' = [task EXCEPT ![t].pc = "deliver"]
  BY DEF TouchConversation
<1>2. /\ task' \in [Tasks -> TaskState]
      /\ task'[t].pc = "deliver"
      /\ task'[t].message = task[t].message
      /\ task'[t].send = task[t].send
      /\ task'[t].user = task[t].user
      /\ \A u \in Tasks \ {t} : task'[u] = task[u]
  BY <1>0, <1>1, StepTyped
<1>3. HandlerOK(t)' /\ last' \in Messages
  BY <1>0, <1>1, <1>2 DEF HandlerOK, Sending, Exists
<1>. QED  BY <1>1, <1>2, <1>3, MoveKeeps

\* What marking a message delivered may change.
LEMMA DeliverKeeps ==
  ASSUME TypeOK, NEW m \in Messages, Exists(m), Deliver(m) \/ UNCHANGED message
  PROVE  /\ message' \in [Messages -> StoredMessages]
         /\ \A n \in Messages :
              /\ message'[n].key = message[n].key
              /\ message'[n].sender = message[n].sender
              /\ message'[n].readBy = message[n].readBy
              /\ message'[n].hidden = message[n].hidden
              /\ message'[n].reactions = message[n].reactions
              /\ message'[n].unsent = message[n].unsent
              /\ message'[n].hasText = message[n].hasText
              /\ \/ message'[n].status = message[n].status
                 \/ message[n].status = "sent" /\ message'[n].status = "delivered"
<1>1. CASE message' = message  BY <1>1 DEF TypeOK
<1>2. CASE message' = [message EXCEPT ![m].status = "delivered"] /\ message[m].status = "sent"
  BY <1>2 DEF TypeOK, StoredMessages, Statuses
<1>. QED  BY <1>1, <1>2 DEF Deliver

LEMMA FinishCreateKeeps == ASSUME SendInv, NEW t \in Tasks, FinishCreate(t) PROVE SendInv'
<1>0. TypeOK /\ HandlerOK(t) /\ task[t].pc = "deliver"
  BY DEF SendInv, FinishCreate
<1>1. UNCHANGED << store, blocked, last >> /\ Respond(t, "sent")
  BY DEF FinishCreate
<1>. DEFINE m == task[t].message
<1>2. m \in Messages /\ Exists(m) /\ message[m].key = task[t].send
  BY <1>0 DEF HandlerOK
<1>3. /\ message' \in [Messages -> StoredMessages]
      /\ \A n \in Messages :
           /\ message'[n].key = message[n].key
           /\ message'[n].sender = message[n].sender
           /\ message'[n].readBy = message[n].readBy
           /\ \/ message'[n].status = message[n].status
              \/ message[n].status = "sent" /\ message'[n].status = "delivered"
  BY <1>0, <1>2, DeliverKeeps DEF FinishCreate
<1>4. \A n \in Messages : Exists(n)' <=> Exists(n)
  BY <1>3 DEF Exists
<1>5. /\ Grows => \A u \in Tasks : HandlerOK(u)'
      /\ Grows => \A s \in Sends : OutboxOK(s)'
      /\ \A r \in requests' : outbox'[r[1]].status # "new"
      /\ TypeOK'
      /\ \A s \in Sends : outbox[s].status # "new" =>
           outbox'[s].status # "new" /\ outbox'[s].sender = outbox[s].sender
  BY <1>0, <1>1, <1>2, <1>3, RespondKeeps DEF Sending
<1>6. Grows  BY <1>1, <1>3, <1>4, <1>5 DEF Grows
<1>7. \A n \in Messages : MessageOK(n)'
  BY <1>3, <1>4, <1>5 DEF SendInv, MessageOK
<1>8. ReadHasReader'  BY <1>3, <1>4 DEF SendInv, ReadHasReader
<1>9. /\ store' # "memory" => OneMessagePerSend'
      /\ (\E n \in Messages : Exists(n)') /\ store' # "mongo" => last' # None
  BY <1>1, <1>3, <1>4 DEF SendInv, OneMessagePerSend
<1>. QED  BY <1>5, <1>6, <1>7, <1>8, <1>9 DEF SendInv

LEMMA DecidedTyped ==
  ASSUME TypeOK, NEW c \in Changes, NEW u \in Users, NEW m \in Messages,
         NEW e \in Emojis \cup {None}
  PROVE  Decided(c, u, m, e) \in TaskState
<1>1. message[m].hidden \subseteq Users /\ message[m].reactions \in Reactions
  BY DEF TypeOK, StoredMessages
<1>2. Decided(c, u, m, e).hidden \in SUBSET Users
  BY <1>1 DEF Decided
<1>3. Decided(c, u, m, e).reactions \in Reactions
  BY <1>1 DEF Decided, WithoutReactionOf, Reactions
<1>4. Decided(c, u, m, e).pinned \in BOOLEAN
  BY DEF Decided
<1>5. Decided(c, u, m, e)
        = [pc |-> "change", change |-> c, user |-> u, send |-> None, post |-> 0,
           message |-> m, hidden |-> Decided(c, u, m, e).hidden,
           reactions |-> Decided(c, u, m, e).reactions,
           pinned |-> Decided(c, u, m, e).pinned]
  BY DEF Decided
<1>6. 0 \in 0..MaxPosts  BY MessageAssumption
<1>. QED  BY <1>2, <1>3, <1>4, <1>5, <1>6 DEF TaskState

LEMMA ChangeKeeps ==
  ASSUME SendInv, NEW t \in Tasks, NEW c \in Changes, NEW u \in Users,
         NEW m \in Messages, NEW e \in Emojis \cup {None}, Change(t, c, u, m, e)
  PROVE  SendInv'
<1>0. TypeOK  BY DEF SendInv
<1>1. /\ UNCHANGED << store, blocked, message, last, requests, outbox >>
      /\ Exists(m)
      /\ task' = [task EXCEPT ![t] = Decided(c, u, m, e)]
  BY DEF Change
<1>2. Decided(c, u, m, e) \in TaskState  BY <1>0, DecidedTyped
<1>3. task'[t] = Decided(c, u, m, e)  BY <1>0, <1>1, <1>2, StartTyped
<1>4. HandlerOK(t)'  BY <1>1, <1>3 DEF HandlerOK, Decided, Exists, Sending
<1>. QED  BY <1>1, <1>2, <1>4, StartKeeps

LEMMA ChangedTyped ==
  ASSUME SendInv, NEW t \in Tasks, task[t].pc = "change"
  PROVE  LET m == task[t].message
         IN  /\ m \in Messages /\ Exists(m)
             /\ Changed(t) \in StoredMessages
             /\ Changed(t).key = message[m].key
             /\ Changed(t).sender = message[m].sender
             /\ Changed(t).status = message[m].status
             /\ Changed(t).readBy = message[m].readBy
<1>. DEFINE m == task[t].message
            old == message[m]
<1>1. TypeOK /\ m \in Messages /\ Exists(m)  BY DEF SendInv, HandlerOK
<1>2. /\ old \in StoredMessages
      /\ task[t].change \in {"edit", "unsend", "hide", "react", "pin"}
      /\ task[t].hidden \in SUBSET Users
      /\ task[t].reactions \in Reactions /\ task[t].pinned \in BOOLEAN
  BY <1>1, TaskTyped DEF TypeOK, Changes
<1>3. PICK new \in {[old EXCEPT !.hasText = TRUE],
                    [old EXCEPT !.hasText = FALSE, !.unsent = TRUE],
                    [old EXCEPT !.hidden = task[t].hidden],
                    [old EXCEPT !.reactions = task[t].reactions],
                    [old EXCEPT !.pinned = task[t].pinned]} : new = Changed(t)
  BY <1>2 DEF Changed
<1>. HIDE DEF old
<1>4. /\ new \in StoredMessages
      /\ new.key = old.key /\ new.sender = old.sender
      /\ new.status = old.status /\ new.readBy = old.readBy
  BY <1>2, <1>3 DEF StoredMessages
<1>. QED  BY <1>1, <1>3, <1>4 DEF old

LEMMA WriteChangeKeeps == ASSUME SendInv, NEW t \in Tasks, WriteChange(t) PROVE SendInv'
<1>. DEFINE m == task[t].message
<1>0. TypeOK /\ task[t].pc = "change"  BY DEF SendInv, WriteChange
<1>1. /\ UNCHANGED << store, blocked, last, requests, outbox >>
      /\ message' = [message EXCEPT ![m] = Changed(t)]
      /\ Finish(t)
  BY DEF WriteChange
<1>2. /\ m \in Messages /\ Exists(m)
      /\ Changed(t) \in StoredMessages
      /\ Changed(t).key = message[m].key
      /\ Changed(t).sender = message[m].sender
      /\ Changed(t).status = message[m].status
      /\ Changed(t).readBy = message[m].readBy
  BY <1>0, ChangedTyped
<1>3. /\ message' \in [Messages -> StoredMessages]
      /\ \A n \in Messages :
           /\ message'[n].key = message[n].key
           /\ message'[n].sender = message[n].sender
           /\ message'[n].status = message[n].status
           /\ message'[n].readBy = message[n].readBy
  BY <1>0, <1>1, <1>2 DEF TypeOK
<1>4. \A n \in Messages : Exists(n)' <=> Exists(n)  BY <1>3 DEF Exists
<1>5. /\ task' \in [Tasks -> TaskState]
      /\ \A u \in Tasks : task'[u] = task[u] \/ task'[u] = Idle
  BY <1>0, <1>1, FinishTyped
<1>6. TypeOK'  BY <1>0, <1>1, <1>3, <1>5 DEF TypeOK
<1>7. ReadHasReader'  BY <1>3, <1>4 DEF SendInv, ReadHasReader
<1>. QED  BY <1>1, <1>3, <1>4, <1>5, <1>6, <1>7, SameClient

LEMMA ReadKeeps ==
  ASSUME SendInv, NEW t \in Tasks, NEW u \in Users, Read(t, u) PROVE SendInv'
<1>. DEFINE state == [Idle EXCEPT !.pc = "read", !.user = u]
<1>0. TypeOK  BY DEF SendInv
<1>1. /\ UNCHANGED << store, blocked, message, last, requests, outbox >>
      /\ task' = [task EXCEPT ![t] = state]
  BY DEF Read
<1>2. state \in TaskState /\ state.pc = "read" /\ state.user = u
  BY IdleTyped DEF TaskState
<1>. HIDE DEF state
<1>3. task'[t] = state  BY <1>0, <1>1, <1>2, StartTyped
<1>4. HandlerOK(t)'  BY <1>2, <1>3 DEF HandlerOK, Sending
<1>. QED  BY <1>1, <1>2, <1>4, StartKeeps

\* The reader is not the sender, so the message has a reader now.
LEMMA MarkReadKeeps == ASSUME SendInv, NEW t \in Tasks, MarkRead(t) PROVE SendInv'
<1>. DEFINE u == task[t].user
<1>0. TypeOK /\ task[t].pc = "read" /\ u \in Users
  BY DEF SendInv, MarkRead, HandlerOK
<1>1. /\ UNCHANGED << store, blocked, last, requests, outbox >>
      /\ message' = [m \in Messages |->
           IF m \in Received(u)
             THEN [message[m] EXCEPT !.status = "read", !.readBy = @ \cup {u}]
             ELSE message[m]]
      /\ Finish(t)
  BY DEF MarkRead
<1>2. ASSUME NEW m \in Messages
      PROVE  /\ message'[m] \in StoredMessages
             /\ message'[m].key = message[m].key
             /\ message'[m].sender = message[m].sender
             /\ \/ message'[m] = message[m]
                \/ /\ Exists(m) /\ message[m].sender # u
                   /\ message'[m].status = "read"
                   /\ message'[m].readBy = message[m].readBy \cup {u}
  <2>1. message[m] \in StoredMessages  BY <1>0 DEF TypeOK
  <2>2. CASE m \in Received(u)
    <3>1. message'[m] = [message[m] EXCEPT !.status = "read", !.readBy = @ \cup {u}]
      BY <1>1, <2>2
    <3>2. Exists(m) /\ message[m].sender # u  BY <2>2 DEF Received
    <3>. DEFINE r == [message[m] EXCEPT !.status = "read"]
                b == message[m].readBy \cup {u}
                w == [r EXCEPT !.readBy = b]
    <3>3. /\ r \in StoredMessages /\ r.status = "read" /\ r.key = message[m].key
          /\ r.sender = message[m].sender /\ r.readBy = message[m].readBy
      BY <2>1 DEF StoredMessages, Statuses
    <3>4. b \in SUBSET Users  BY <1>0, <2>1 DEF StoredMessages
    <3>5. message'[m] = w  BY <3>1, <3>3
    <3>. HIDE DEF r, b
    <3>6. /\ w \in StoredMessages /\ w.status = "read" /\ w.key = message[m].key
          /\ w.sender = message[m].sender /\ w.readBy = b
      BY <3>3, <3>4 DEF StoredMessages
    <3>. HIDE DEF w
    <3>. QED  BY <3>2, <3>5, <3>6 DEF b
  <2>3. CASE m \notin Received(u)  BY <1>1, <2>1, <2>3
  <2>. QED  BY <2>2, <2>3
<1>3. message' \in [Messages -> StoredMessages]  BY <1>1, <1>2
<1>4. \A m \in Messages : Exists(m)' <=> Exists(m)  BY <1>2 DEF Exists
<1>5. /\ task' \in [Tasks -> TaskState]
      /\ \A v \in Tasks : task'[v] = task[v] \/ task'[v] = Idle
  BY <1>0, <1>1, FinishTyped
<1>6. TypeOK'  BY <1>0, <1>1, <1>3, <1>5 DEF TypeOK
<1>7. ReadHasReader'  BY <1>2, <1>4 DEF SendInv, ReadHasReader
<1>. QED  BY <1>1, <1>2, <1>4, <1>5, <1>6, <1>7, SameClient

LEMMA SurroundingsKeep ==
  ASSUME SendInv, Block \/ Crash \/ UNCHANGED vars
  PROVE  SendInv'
<1>1. /\ UNCHANGED << store, message, last, requests, outbox >>
      /\ blocked' \in BOOLEAN
      /\ \A t \in Tasks : task'[t] = task[t] \/ task'[t] = Idle
      /\ task' \in [Tasks -> TaskState]
  BY IdleTyped DEF Block, Crash, vars, SendInv, TypeOK
<1>2. TypeOK'  BY <1>1 DEF SendInv, TypeOK
<1>3. \A m \in Messages : Exists(m)' <=> Exists(m)  BY <1>1 DEF Exists
<1>4. ReadHasReader'  BY <1>1, <1>3 DEF SendInv, ReadHasReader
<1>. QED  BY <1>1, <1>2, <1>3, <1>4, SameClient

LEMMA SendNext == ASSUME SendInv, [Next]_vars PROVE SendInv'
<1>1. ASSUME NEW s \in Sends, RequestFails(s) PROVE SendInv'
  <2>1. outbox[s].sender \in Users
    BY <1>1 DEF RequestFails, SendInv, OutboxOK
  <2>. QED  BY <1>1, <2>1, PostKeeps
<1>2. ASSUME NEW t \in Tasks, TaskStep(t) PROVE SendInv'
  BY <1>2, FindKeeps, InsertKeeps, TouchKeeps, FinishCreateKeeps, WriteChangeKeeps,
     MarkReadKeeps
  DEF TaskStep
<1>3. ASSUME NEW t \in Tasks, NEW u \in Users, UserStep(t, u) PROVE SendInv'
  BY <1>3, ReadKeeps, ChangeKeeps DEF UserStep
<1>. QED
  BY <1>1, <1>2, <1>3, PostKeeps, LoseKeeps, CreateKeeps, SurroundingsKeep DEF Next

LEMMA SendInvariant == Spec => []SendInv
BY SendInit, SendNext, PTL DEF Spec

\* In every deployment the state keeps the shape the code gives it.
THEOREM MessageTypes == Spec => []TypeOK
<1>1. SendInv => TypeOK  BY DEF SendInv
<1>. QED  BY <1>1, SendInvariant, PTL

\* A message is "read" exactly when somebody other than its sender has read
\* it: neither a repeated send nor a late delivery mark takes it back.
THEOREM ReadMeansReader == Spec => []ReadHasReader
<1>1. SendInv => ReadHasReader  BY DEF SendInv
<1>. QED  BY <1>1, SendInvariant, PTL

\* What a client shows as sent is stored, through retries, lost answers and
\* crashes of the server.
THEOREM SentMeansStored == Spec => []SentIsStored
<1>1. ASSUME SendInv, NEW s \in Sends, outbox[s].status = "sent"
      PROVE  \E m \in Messages : /\ Exists(m)
                                 /\ message[m].key = s
                                 /\ message[m].sender = outbox[s].sender
                                 /\ store # "mongo" => last # None
  <2>1. PICK m \in Messages : Exists(m) /\ message[m].key = s
    BY <1>1 DEF SendInv, OutboxOK
  <2>2. message[m].sender = outbox[s].sender
    BY <1>1, <2>1 DEF SendInv, MessageOK
  <2>3. store # "mongo" => last # None  BY <1>1, <2>1 DEF SendInv
  <2>. QED  BY <2>1, <2>2, <2>3
<1>2. SendInv => SentIsStored  BY <1>1 DEF SentIsStored
<1>. QED  BY <1>2, SendInvariant, PTL

-----------------------------------------------------------------------------
(* Delivery *)

\* The ways in which the state of a message changes.
StatusStep(m) ==
  \/ message'[m].status = message[m].status
  \/ message[m].status = "absent" /\ message'[m].status = "sent"
  \/ message[m].status = "sent" /\ message'[m].status = "delivered"
  \/ message[m].status # "absent" /\ message'[m].status = "read"

LEMMA StatusNext ==
  ASSUME SendInv, [Next]_vars, NEW m \in Messages
  PROVE  StatusStep(m)
<1>0. TypeOK  BY DEF SendInv
<1>1. ASSUME NEW t \in Tasks, Insert(t) PROVE StatusStep(m)
  <2>1. task[t].user \in Users /\ task[t].send \in Sends
    BY <1>1 DEF SendInv, HandlerOK, Sending, Insert
  <2>2. CASE message' = message  BY <2>2 DEF StatusStep
  <2>3. ASSUME NEW n \in Messages, ~Exists(n),
               message' = [message EXCEPT ![n] = NewMessage(task[t].send, task[t].user)]
        PROVE  StatusStep(m)
    <3>1. NewMessage(task[t].send, task[t].user).status = "sent"
      BY <2>1, NewMessageTyped
    <3>. QED  BY <1>0, <2>3, <3>1 DEF StatusStep, Exists, TypeOK
  <2>. QED  BY <1>1, <2>2, <2>3 DEF Insert
<1>2. ASSUME NEW t \in Tasks, FinishCreate(t) PROVE StatusStep(m)
  <2>1. task[t].message \in Messages /\ Exists(task[t].message)
    BY <1>2 DEF SendInv, HandlerOK, FinishCreate
  <2>. QED  BY <1>0, <1>2, <2>1, DeliverKeeps DEF FinishCreate, StatusStep
<1>3. ASSUME NEW t \in Tasks, WriteChange(t) PROVE StatusStep(m)
  <2>1. /\ message' = [message EXCEPT ![task[t].message] = Changed(t)]
        /\ task[t].pc = "change"
    BY <1>3 DEF WriteChange
  <2>2. task[t].message \in Messages /\ Changed(t).status = message[task[t].message].status
    BY <2>1, ChangedTyped
  <2>. QED  BY <1>0, <2>1, <2>2 DEF StatusStep, TypeOK
<1>4. ASSUME NEW t \in Tasks, MarkRead(t) PROVE StatusStep(m)
  <2>1. CASE m \in Received(task[t].user)
    <3>1. message[m] \in StoredMessages /\ message[m].status # "absent"
      BY <1>0, <2>1 DEF TypeOK, Received, Exists
    <3>2. message'[m] = [message[m] EXCEPT !.status = "read",
                                           !.readBy = @ \cup {task[t].user}]
      BY <1>4, <2>1 DEF MarkRead
    <3>3. message'[m].status = "read"
      BY <3>1, <3>2 DEF StoredMessages
    <3>. QED  BY <3>1, <3>3 DEF StatusStep
  <2>2. CASE m \notin Received(task[t].user)
    BY <1>4, <2>2 DEF MarkRead, StatusStep
  <2>. QED  BY <2>1, <2>2
<1>5. CASE message' = message  BY <1>5 DEF StatusStep
<1>6. ASSUME NEW t \in Tasks, TaskStep(t) PROVE StatusStep(m)
  BY <1>1, <1>2, <1>3, <1>4, <1>5, <1>6 DEF TaskStep, FindExisting, TouchConversation
<1>7. ASSUME NEW s \in Sends, RequestFails(s) \/ \E u \in Users : Post(s, u)
      PROVE  StatusStep(m)
  BY <1>5, <1>7 DEF RequestFails, Post, Request
<1>. QED
  BY <1>5, <1>6, <1>7
  DEF Next, UserStep, Change, Read, Lose, Create, Block, Crash, vars

\* In every deployment the state of a message advances: a delivery mark, a
\* repeated send or a reading that comes late never takes it back.
THEOREM DeliveryOnlyAdvances == Spec => DeliveryAdvances
<1>1. ASSUME SendInv, [Next]_vars
      PROVE  [\A m \in Messages :
                Rank(message[m].status) <= Rank(message'[m].status)]_message
  <2>1. ASSUME NEW m \in Messages
        PROVE  Rank(message[m].status) <= Rank(message'[m].status)
    <3>1. message[m].status \in Statuses \cup {"absent"}
      BY <1>1 DEF SendInv, TypeOK, StoredMessages
    <3>2. StatusStep(m)  BY <1>1, StatusNext
    <3>. QED  BY <3>1, <3>2 DEF StatusStep, Rank, Statuses
  <2>. QED  BY <2>1
<1>. QED  BY <1>1, SendInvariant, PTL DEF Spec, DeliveryAdvances

-----------------------------------------------------------------------------
(* Memory: one handler at a time *)

\* What a handler has read still holds when it writes.
CurrentTask(t) ==
  LET m == task[t].message
  IN  /\ task[t].pc = "insert" => WithKey(task[t].send) = {}
      /\ task[t].pc = "change" =>
           /\ task[t].change = "edit" => ~message[m].unsent
           /\ task[t].change = "hide" => message[m].hidden \subseteq task[t].hidden
           /\ task[t].change = "react" =>
                \A v \in Users \ {task[t].user} :
                  ReactionsOf(v, task[t].reactions) = ReactionsOf(v, message[m].reactions)

Blank(m) == ~Exists(m) => message[m].hidden = {} /\ message[m].reactions = {}

AloneInv ==
  store = "memory" =>
    /\ \A t, u \in Tasks : ~Free(t) /\ ~Free(u) => t = u
    /\ \A t \in Tasks : CurrentTask(t)
    /\ \A m \in Messages : Blank(m)
    /\ OneMessagePerSend
    /\ UnsentIsEmpty

LEMMA AloneInit == Init => AloneInv
<1>1. /\ Absent.status = "absent" /\ Absent.hidden = {} /\ Absent.reactions = {}
      /\ ~Absent.unsent
  BY DEF Absent
<1>2. Idle.pc = "idle"  BY DEF Idle
<1>. QED
  BY <1>1, <1>2
  DEF Init, AloneInv, Free, CurrentTask, Blank, OneMessagePerSend, UnsentIsEmpty, Exists

\* The others are idle, so only the handler that takes the step matters.
LEMMA AloneStep ==
  ASSUME AloneInv, store = "memory", store' = store, NEW t \in Tasks,
         \A u \in Tasks \ {t} : Free(u) /\ task'[u] = task[u],
         CurrentTask(t)',
         \A m \in Messages : Blank(m)',
         OneMessagePerSend', UnsentIsEmpty'
  PROVE  AloneInv'
<1>1. ASSUME NEW u \in Tasks PROVE CurrentTask(u)'
  <2>1. CASE u = t  BY <2>1
  <2>2. CASE u # t  BY <2>2 DEF Free, CurrentTask
  <2>. QED  BY <2>1, <2>2
<1>2. \A u, v \in Tasks : ~Free(u)' /\ ~Free(v)' => u = v  BY DEF Free
<1>. QED  BY <1>1, <1>2 DEF AloneInv

\* A step that changes no message.
LEMMA AloneQuiet ==
  ASSUME AloneInv, store = "memory", UNCHANGED << store, message >>, NEW t \in Tasks,
         \A u \in Tasks \ {t} : Free(u) /\ task'[u] = task[u],
         CurrentTask(t)'
  PROVE  AloneInv'
<1>1. /\ \A m \in Messages : Blank(m)'
      /\ OneMessagePerSend' /\ UnsentIsEmpty'
  BY DEF AloneInv, Blank, OneMessagePerSend, UnsentIsEmpty, Exists
<1>. QED  BY <1>1, AloneStep

\* A step of somebody else.
LEMMA AloneElse ==
  ASSUME AloneInv, store = "memory", UNCHANGED << store, message, task >>
  PROVE  AloneInv'
BY DEF AloneInv, Free, CurrentTask, Blank, OneMessagePerSend, UnsentIsEmpty, Exists,
       WithKey

LEMMA IdleCurrent == ASSUME NEW t \in Tasks, task'[t] = Idle PROVE CurrentTask(t)'
BY DEF CurrentTask, Idle

LEMMA OthersFree ==
  ASSUME AloneInv, store = "memory", NEW t \in Tasks, ~Free(t) \/ CanStart(t)
  PROVE  \A u \in Tasks \ {t} : Free(u)
BY DEF AloneInv, CanStart

LEMMA AloneStart ==
  ASSUME SendInv, AloneInv, store = "memory", NEW t \in Tasks, NEW u \in Users,
         UserStep(t, u)
  PROVE  AloneInv'
<1>0. TypeOK  BY DEF SendInv
<1>1. CASE Read(t, u)
  <2>. DEFINE state == [Idle EXCEPT !.pc = "read", !.user = u]
  <2>1. state \in TaskState /\ state.pc = "read"
    BY IdleTyped DEF TaskState
  <2>2. UNCHANGED << store, message >> /\ CanStart(t) /\ task' = [task EXCEPT ![t] = state]
    BY <1>1 DEF Read
  <2>. HIDE DEF state
  <2>3. task'[t].pc = "read" /\ \A v \in Tasks \ {t} : task'[v] = task[v]
    BY <1>0, <2>1, <2>2, StartTyped
  <2>4. CurrentTask(t)'  BY <2>3 DEF CurrentTask
  <2>. QED  BY <2>2, <2>3, <2>4, OthersFree, AloneQuiet
<1>2. ASSUME NEW c \in Changes, NEW m \in Messages, NEW e \in Emojis \cup {None},
             Change(t, c, u, m, e)
      PROVE  AloneInv'
  <2>1. /\ UNCHANGED << store, message >> /\ CanStart(t) /\ May(c, u, m)
        /\ task' = [task EXCEPT ![t] = Decided(c, u, m, e)]
    BY <1>2 DEF Change
  <2>2. Decided(c, u, m, e) \in TaskState  BY <1>0, DecidedTyped
  <2>3. /\ task'[t] = Decided(c, u, m, e)
        /\ \A v \in Tasks \ {t} : task'[v] = task[v]
    BY <1>0, <2>1, <2>2, StartTyped
  <2>4. /\ task'[t].pc = "change" /\ task'[t].change = c /\ task'[t].message = m
        /\ task'[t].user = u
        /\ c = "hide" => task'[t].hidden = message[m].hidden \cup {u}
        /\ c = "react" => task'[t].reactions = WithoutReactionOf(u, message[m].reactions)
                              \cup (IF e = None THEN {} ELSE {<< u, e >>})
    BY <2>3 DEF Decided
  <2>5. c = "edit" => ~message[m].unsent  BY <2>1 DEF May
  <2>6. ASSUME c = "react", NEW v \in Users \ {u}
        PROVE  ReactionsOf(v, task'[t].reactions) = ReactionsOf(v, message[m].reactions)
    BY <2>4, <2>6 DEF ReactionsOf, WithoutReactionOf
  <2>7. CurrentTask(t)'
    BY <2>1, <2>4, <2>5, <2>6 DEF CurrentTask, ReactionsOf
  <2>. QED  BY <2>1, <2>3, <2>7, OthersFree, AloneQuiet
<1>. QED  BY <1>1, <1>2 DEF UserStep

LEMMA AloneCreate ==
  ASSUME SendInv, AloneInv, store = "memory", NEW t \in Tasks, NEW r \in requests,
         Create(t, r)
  PROVE  AloneInv'
<1>0. TypeOK /\ UNCHANGED << store, message >> /\ CanStart(t)
  BY DEF SendInv, Create
<1>1. CASE UNCHANGED task  BY <1>0, <1>1, AloneElse
<1>2. CASE task' = [task EXCEPT ![t] = Creating(r)]
  <2>1. \A v \in Tasks \ {t} : task'[v] = task[v]  BY <1>0, <1>2 DEF TypeOK
  <2>2. task'[t] = Creating(r)  BY <1>0, <1>2 DEF TypeOK
  <2>3. CurrentTask(t)'  BY <2>2 DEF CurrentTask, Creating
  <2>. QED  BY <1>0, <2>1, <2>3, OthersFree, AloneQuiet
<1>. QED  BY <1>1, <1>2 DEF Create

\* Nothing comes between looking for the message and creating it.
LEMMA AloneSend ==
  ASSUME SendInv, AloneInv, store = "memory", NEW t \in Tasks,
         FindExisting(t) \/ Insert(t) \/ TouchConversation(t) \/ FinishCreate(t)
  PROVE  AloneInv'
<1>0. /\ TypeOK /\ HandlerOK(t) /\ task[t].pc \in Sending
      /\ task[t].send \in Sends /\ task[t].user \in Users
      /\ store' = store
  BY DEF SendInv, HandlerOK, Sending, FindExisting, Insert, TouchConversation, FinishCreate
<1>1. \A u \in Tasks \ {t} : Free(u)
  BY <1>0, OthersFree DEF Free, Sending
<1>2. ASSUME NEW status \in {"sent", "failed"}, Respond(t, status)
      PROVE  /\ task'[t] = Idle /\ CurrentTask(t)'
             /\ \A u \in Tasks \ {t} : task'[u] = task[u]
  BY <1>0, <1>2, FinishTyped, IdleCurrent DEF Respond
<1>3. CASE FindExisting(t)
  <2>1. UNCHANGED message  BY <1>3 DEF FindExisting
  <2>2. CASE Respond(t, "failed")
    BY <1>0, <1>1, <1>2, <2>1, <2>2, AloneQuiet
  <2>3. CASE WithKey(task[t].send) = {} /\ task' = [task EXCEPT ![t].pc = "insert"]
    <3>1. /\ task'[t].pc = "insert" /\ task'[t].send = task[t].send
          /\ \A u \in Tasks \ {t} : task'[u] = task[u]
      BY <1>0, <2>3, StepTyped
    <3>2. CurrentTask(t)'  BY <2>1, <2>3, <3>1 DEF CurrentTask, WithKey, Exists
    <3>. QED  BY <1>0, <1>1, <2>1, <3>1, <3>2, AloneQuiet
  <2>4. ASSUME NEW m \in WithKey(task[t].send),
               task' = [task EXCEPT ![t].pc = "deliver", ![t].message = m]
        PROVE  AloneInv'
    <3>1. task' = [task EXCEPT ![t] = [task[t] EXCEPT !.pc = "deliver", !.message = m]]
      BY <2>4
    <3>2. m \in Messages  BY DEF WithKey
    <3>3. task'[t].pc = "deliver" /\ \A u \in Tasks \ {t} : task'[u] = task[u]
      BY <1>0, <3>1, <3>2, MoveTyped
    <3>4. CurrentTask(t)'  BY <3>3 DEF CurrentTask
    <3>. QED  BY <1>0, <1>1, <2>1, <3>3, <3>4, AloneQuiet
  <2>. QED  BY <1>3, <2>2, <2>3, <2>4 DEF FindExisting
<1>4. CASE Insert(t)
  <2>1. WithKey(task[t].send) = {} /\ task[t].pc = "insert"
    BY <1>4 DEF AloneInv, CurrentTask, Insert
  <2>2. PICK m \in Messages :
          /\ ~Exists(m)
          /\ message' = [message EXCEPT ![m] = NewMessage(task[t].send, task[t].user)]
          /\ task' = [task EXCEPT ![t].pc = "deliver", ![t].message = m]
    BY <1>4 DEF Insert, Touch
  <2>3. task' = [task EXCEPT ![t] = [task[t] EXCEPT !.pc = "deliver", !.message = m]]
    BY <2>2
  <2>4. task'[t].pc = "deliver" /\ \A u \in Tasks \ {t} : task'[u] = task[u]
    BY <1>0, <2>3, MoveTyped
  <2>5. /\ message'[m] = NewMessage(task[t].send, task[t].user)
        /\ \A n \in Messages \ {m} : message'[n] = message[n]
    BY <1>0, <2>2 DEF TypeOK
  <2>6. /\ message'[m].key = task[t].send /\ message'[m].status = "sent"
        /\ ~message'[m].unsent
    BY <1>0, <2>5, NewMessageTyped
  <2>7. \A n \in Messages : Blank(n)'
    BY <2>5, <2>6 DEF AloneInv, Blank, Exists
  <2>8. OneMessagePerSend'
    BY <2>1, <2>5, <2>6 DEF AloneInv, OneMessagePerSend, WithKey, Exists
  <2>9. UnsentIsEmpty'  BY <1>0, <2>5, <2>6 DEF AloneInv, UnsentIsEmpty
  <2>10. CurrentTask(t)'  BY <2>4 DEF CurrentTask
  <2>. QED  BY <1>0, <1>1, <2>4, <2>7, <2>8, <2>9, <2>10, AloneStep
<1>5. CASE TouchConversation(t)
  <2>1. UNCHANGED message /\ task' = [task EXCEPT ![t].pc = "deliver"]
    BY <1>5 DEF TouchConversation
  <2>2. task'[t].pc = "deliver" /\ \A u \in Tasks \ {t} : task'[u] = task[u]
    BY <1>0, <2>1, StepTyped
  <2>3. CurrentTask(t)'  BY <2>2 DEF CurrentTask
  <2>. QED  BY <1>0, <1>1, <2>1, <2>2, <2>3, AloneQuiet
<1>6. CASE FinishCreate(t)
  <2>1. task[t].message \in Messages /\ Exists(task[t].message)
    BY <1>0, <1>6 DEF HandlerOK, FinishCreate
  <2>2. \A n \in Messages :
          /\ message'[n].key = message[n].key
          /\ message'[n].hidden = message[n].hidden
          /\ message'[n].reactions = message[n].reactions
          /\ message'[n].unsent = message[n].unsent
          /\ message'[n].hasText = message[n].hasText
          /\ \/ message'[n].status = message[n].status
             \/ message[n].status = "sent" /\ message'[n].status = "delivered"
    BY <1>0, <1>6, <2>1, DeliverKeeps DEF FinishCreate
  <2>3. \A n \in Messages : Exists(n)' <=> Exists(n)  BY <2>2 DEF Exists
  <2>4. /\ \A n \in Messages : Blank(n)'
        /\ OneMessagePerSend' /\ UnsentIsEmpty'
    BY <1>0, <2>2, <2>3 DEF AloneInv, Blank, OneMessagePerSend, UnsentIsEmpty
  <2>5. /\ CurrentTask(t)' /\ \A u \in Tasks \ {t} : task'[u] = task[u]
    BY <1>2, <1>6 DEF FinishCreate
  <2>. QED  BY <1>0, <1>1, <2>4, <2>5, AloneStep
<1>. QED  BY <1>3, <1>4, <1>5, <1>6

\* What each change sets, and what it leaves alone.
LEMMA ChangedFields ==
  ASSUME SendInv, NEW t \in Tasks, task[t].pc = "change"
  PROVE  LET old == message[task[t].message]
             new == Changed(t)
             c   == task[t].change
         IN  /\ new.hidden = IF c = "hide" THEN task[t].hidden ELSE old.hidden
             /\ new.reactions = IF c = "react" THEN task[t].reactions ELSE old.reactions
             /\ c = "unsend" => ~new.hasText
             /\ c = "edit" => new.unsent = old.unsent
             /\ c \notin {"edit", "unsend"} =>
                  new.unsent = old.unsent /\ new.hasText = old.hasText
<1>. DEFINE old == message[task[t].message]
            new == Changed(t)
            c   == task[t].change
<1>1. old \in StoredMessages  BY DEF SendInv, HandlerOK, TypeOK
<1>2. c \in {"edit", "unsend", "hide", "react", "pin"}
  BY TaskTyped DEF SendInv, Changes
<1>3. /\ c = "edit"   => new = [old EXCEPT !.hasText = TRUE]
      /\ c = "unsend" => new = [old EXCEPT !.hasText = FALSE, !.unsent = TRUE]
      /\ c = "hide"   => new = [old EXCEPT !.hidden = task[t].hidden]
      /\ c = "react"  => new = [old EXCEPT !.reactions = task[t].reactions]
      /\ c = "pin"    => new = [old EXCEPT !.pinned = task[t].pinned]
  BY DEF Changed
<1>. DEFINE Fields ==
       /\ new.hidden = IF c = "hide" THEN task[t].hidden ELSE old.hidden
       /\ new.reactions = IF c = "react" THEN task[t].reactions ELSE old.reactions
       /\ c = "unsend" => ~new.hasText
       /\ c = "edit" => new.unsent = old.unsent
       /\ c \notin {"edit", "unsend"} =>
            new.unsent = old.unsent /\ new.hasText = old.hasText
<1>. HIDE DEF old, new, c
<1>4. ASSUME c = "edit" PROVE Fields  BY <1>1, <1>3, <1>4 DEF StoredMessages
<1>5. ASSUME c = "unsend" PROVE Fields  BY <1>1, <1>3, <1>5 DEF StoredMessages
<1>6. ASSUME c = "hide" PROVE Fields  BY <1>1, <1>3, <1>6 DEF StoredMessages
<1>7. ASSUME c = "react" PROVE Fields  BY <1>1, <1>3, <1>7 DEF StoredMessages
<1>8. ASSUME c = "pin" PROVE Fields  BY <1>1, <1>3, <1>8 DEF StoredMessages
<1>9. Fields
  <2>. HIDE DEF Fields
  <2>. QED  BY <1>2, <1>4, <1>5, <1>6, <1>7, <1>8
<1>. QED  BY <1>9 DEF old, new, c

\* The message of a change is as the handler has read it.
LEMMA AloneWrite ==
  ASSUME SendInv, AloneInv, store = "memory", NEW t \in Tasks, WriteChange(t)
  PROVE  AloneInv'
<1>. DEFINE m == task[t].message
            new == Changed(t)
            c == task[t].change
<1>0. /\ TypeOK /\ task[t].pc = "change" /\ CurrentTask(t)
      /\ store' = store /\ Finish(t)
      /\ message' = [message EXCEPT ![m] = Changed(t)]
  BY DEF SendInv, AloneInv, WriteChange
<1>1. /\ m \in Messages /\ Exists(m)
      /\ new.key = message[m].key /\ new.status = message[m].status
  BY <1>0, ChangedTyped
<1>2. /\ message'[m] = new
      /\ \A n \in Messages \ {m} : message'[n] = message[n]
  BY <1>0, <1>1 DEF TypeOK
<1>3. /\ task'[t] = Idle /\ \A u \in Tasks \ {t} : task'[u] = task[u]
  BY <1>0, FinishTyped
<1>4. \A n \in Messages : (Exists(n)' <=> Exists(n)) /\ message'[n].key = message[n].key
  BY <1>1, <1>2 DEF Exists
<1>5. \A n \in Messages : Blank(n)'
  BY <1>1, <1>2, <1>4 DEF AloneInv, Blank
<1>6. OneMessagePerSend'  BY <1>4 DEF AloneInv, OneMessagePerSend
<1>7. /\ c = "unsend" => ~new.hasText
      /\ c = "edit" => new.unsent = message[m].unsent
      /\ c \notin {"edit", "unsend"} =>
           new.unsent = message[m].unsent /\ new.hasText = message[m].hasText
  BY <1>0, ChangedFields
<1>8. c = "edit" => ~message[m].unsent  BY <1>0 DEF CurrentTask
<1>9. UnsentIsEmpty'
  <2>1. new.unsent => ~new.hasText  BY <1>1, <1>7, <1>8 DEF AloneInv, UnsentIsEmpty
  <2>. QED  BY <1>0, <1>2, <2>1 DEF AloneInv, UnsentIsEmpty
<1>10. \A u \in Tasks \ {t} : Free(u)  BY <1>0, OthersFree DEF Free
<1>. QED  BY <1>0, <1>3, <1>5, <1>6, <1>9, <1>10, IdleCurrent, AloneStep

\* Reading changes the state and the readers of messages, and nothing else.
LEMMA MarkReadFields ==
  ASSUME TypeOK, NEW t \in Tasks, MarkRead(t), NEW m \in Messages
  PROVE  /\ message'[m].key = message[m].key
         /\ message'[m].hidden = message[m].hidden
         /\ message'[m].reactions = message[m].reactions
         /\ message'[m].unsent = message[m].unsent
         /\ message'[m].hasText = message[m].hasText
         /\ Exists(m)' <=> Exists(m)
<1>1. message[m] \in StoredMessages  BY DEF TypeOK
<1>2. CASE m \in Received(task[t].user)
  <2>1. message'[m] = [message[m] EXCEPT !.status = "read",
                                         !.readBy = @ \cup {task[t].user}]
    BY <1>2 DEF MarkRead
  <2>2. Exists(m)  BY <1>2 DEF Received
  <2>. QED  BY <1>1, <2>1, <2>2 DEF StoredMessages, Exists
<1>3. CASE m \notin Received(task[t].user)
  <2>1. message'[m] = message[m]  BY <1>3 DEF MarkRead
  <2>. QED  BY <2>1 DEF Exists
<1>. QED  BY <1>2, <1>3

LEMMA AloneMarkRead ==
  ASSUME SendInv, AloneInv, store = "memory", NEW t \in Tasks, MarkRead(t)
  PROVE  AloneInv'
<1>0. TypeOK /\ task[t].pc = "read" /\ store' = store /\ Finish(t)
  BY DEF SendInv, MarkRead
<1>1. \A m \in Messages :
        /\ message'[m].key = message[m].key
        /\ message'[m].hidden = message[m].hidden
        /\ message'[m].reactions = message[m].reactions
        /\ message'[m].unsent = message[m].unsent
        /\ message'[m].hasText = message[m].hasText
        /\ Exists(m)' <=> Exists(m)
  BY <1>0, MarkReadFields
<1>2. /\ \A m \in Messages : Blank(m)'
      /\ OneMessagePerSend' /\ UnsentIsEmpty'
  BY <1>0, <1>1 DEF AloneInv, Blank, OneMessagePerSend, UnsentIsEmpty
<1>3. task'[t] = Idle /\ \A u \in Tasks \ {t} : task'[u] = task[u]
  BY <1>0, FinishTyped
<1>4. \A u \in Tasks \ {t} : Free(u)  BY <1>0, OthersFree DEF Free
<1>. QED  BY <1>0, <1>2, <1>3, <1>4, IdleCurrent, AloneStep

LEMMA AloneNext == ASSUME SendInv, AloneInv, [Next]_vars PROVE AloneInv'
<1>1. store' = store
  BY DEF Next, vars, RequestFails, Post, Request, Lose, Create, TaskStep, FindExisting,
         Insert, TouchConversation, FinishCreate, WriteChange, MarkRead, UserStep, Read,
         Change, Block, Crash
<1>2. CASE store # "memory"  BY <1>1, <1>2 DEF AloneInv
<1>3. CASE store = "memory"
  <2>1. ASSUME UNCHANGED << store, message, task >> PROVE AloneInv'
    BY <1>3, <2>1, AloneElse
  <2>2. ASSUME NEW t \in Tasks, TaskStep(t) PROVE AloneInv'
    BY <1>3, <2>2, AloneSend, AloneWrite, AloneMarkRead DEF TaskStep
  <2>3. ASSUME NEW s \in Sends, RequestFails(s) \/ \E u \in Users : Post(s, u)
        PROVE  AloneInv'
    BY <2>1, <2>3 DEF RequestFails, Post, Request
  <2>4. ASSUME NEW r \in requests, Lose(r) \/ \E t \in Tasks : Create(t, r)
        PROVE  AloneInv'
    BY <1>3, <2>1, <2>4, AloneCreate DEF Lose
  <2>5. ASSUME NEW t \in Tasks, NEW u \in Users, UserStep(t, u) PROVE AloneInv'
    BY <1>3, <2>5, AloneStart
  <2>6. CASE Block \/ Crash \/ UNCHANGED vars
    BY <1>3, <2>1, <2>6 DEF Block, Crash, vars
  <2>. QED  BY <2>2, <2>3, <2>4, <2>5, <2>6 DEF Next
<1>. QED  BY <1>2, <1>3

LEMMA AloneInvariant == Spec => []AloneInv
<1>1. Init => AloneInv  BY AloneInit
<1>. QED  BY <1>1, AloneNext, SendInvariant, PTL DEF Spec

\* In every deployment a send makes one message, however often it is repeated:
\* over memory because nothing comes between looking and creating, over
\* MongoDB because of the unique index.
THEOREM RetriesAreIdempotent == Spec => []OneMessagePerSend
<1>1. SendInv /\ AloneInv => OneMessagePerSend  BY DEF SendInv, AloneInv
<1>. QED  BY <1>1, SendInvariant, AloneInvariant, PTL

\* Over memory an unsent message stays without text.
THEOREM UnsentStaysEmpty == Spec => []UnsentIsEmpty
<1>1. AloneInv => UnsentIsEmpty  BY DEF AloneInv, UnsentIsEmpty
<1>. QED  BY <1>1, AloneInvariant, PTL

-----------------------------------------------------------------------------
(* The marks of users *)

\* Over memory a step hides no message from a user less, and changes the
\* reaction of one user at most.
LEMMA MarksStep ==
  ASSUME SendInv, AloneInv, store = "memory", [Next]_vars, NEW m \in Messages
  PROVE  /\ message[m].hidden \subseteq message'[m].hidden
         /\ \A u, v \in Users :
              /\ ReactionsOf(u, message[m].reactions) # ReactionsOf(u, message'[m].reactions)
              /\ ReactionsOf(v, message[m].reactions) # ReactionsOf(v, message'[m].reactions)
              => u = v
<1>. DEFINE Marks == /\ message[m].hidden \subseteq message'[m].hidden
                     /\ message'[m].reactions = message[m].reactions
<1>0. TypeOK  BY DEF SendInv
<1>1. CASE Marks  BY <1>1
<1>2. ASSUME message' = message PROVE Marks  BY <1>2
<1>3. ASSUME NEW t \in Tasks, Insert(t) PROVE Marks
  <2>1. task[t].user \in Users /\ task[t].send \in Sends
    BY <1>3 DEF SendInv, HandlerOK, Sending, Insert
  <2>2. ASSUME NEW n \in Messages, ~Exists(n),
               message' = [message EXCEPT ![n] = NewMessage(task[t].send, task[t].user)]
        PROVE  Marks
    <3>1. message[n].hidden = {} /\ message[n].reactions = {}
      BY <2>2 DEF AloneInv, Blank
    <3>2. /\ NewMessage(task[t].send, task[t].user).hidden = {}
          /\ NewMessage(task[t].send, task[t].user).reactions = {}
      BY <2>1, NewMessageTyped
    <3>. QED  BY <1>0, <2>2, <3>1, <3>2 DEF TypeOK
  <2>. QED  BY <1>2, <1>3, <2>2 DEF Insert
<1>4. ASSUME NEW t \in Tasks, FinishCreate(t) PROVE Marks
  <2>1. task[t].message \in Messages /\ Exists(task[t].message)
    BY <1>4 DEF SendInv, HandlerOK, FinishCreate
  <2>. QED  BY <1>0, <1>4, <2>1, DeliverKeeps DEF FinishCreate
<1>5. ASSUME NEW t \in Tasks, MarkRead(t) PROVE Marks
  BY <1>0, <1>5, MarkReadFields
<1>6. ASSUME NEW t \in Tasks, WriteChange(t)
      PROVE  \/ Marks
             \/ /\ message[m].hidden \subseteq message'[m].hidden
                /\ \A v \in Users \ {task[t].user} :
                     ReactionsOf(v, message'[m].reactions)
                       = ReactionsOf(v, message[m].reactions)
  <2>1. /\ message' = [message EXCEPT ![task[t].message] = Changed(t)]
        /\ task[t].pc = "change" /\ CurrentTask(t)
    BY <1>6 DEF WriteChange, AloneInv
  <2>2. task[t].message \in Messages  BY <2>1, ChangedTyped
  <2>3. CASE m # task[t].message  BY <1>0, <2>1, <2>2, <2>3 DEF TypeOK
  <2>4. CASE m = task[t].message
    <3>1. message'[m] = Changed(t)  BY <1>0, <2>1, <2>4 DEF TypeOK
    <3>2. /\ Changed(t).hidden = IF task[t].change = "hide" THEN task[t].hidden
                                                           ELSE message[m].hidden
          /\ Changed(t).reactions = IF task[t].change = "react" THEN task[t].reactions
                                                               ELSE message[m].reactions
      BY <2>1, <2>4, ChangedFields
    <3>. QED  BY <2>1, <2>4, <3>1, <3>2 DEF CurrentTask
  <2>. QED  BY <2>3, <2>4
<1>7. CASE \E t \in Tasks : WriteChange(t)  BY <1>1, <1>6, <1>7
<1>8. ASSUME NEW s \in Sends, RequestFails(s) \/ \E u \in Users : Post(s, u) PROVE Marks
  BY <1>2, <1>8 DEF RequestFails, Post, Request
<1>9. Marks \/ \E t \in Tasks : WriteChange(t)
  BY <1>2, <1>3, <1>4, <1>5, <1>8
  DEF Next, TaskStep, FindExisting, TouchConversation, UserStep, Change, Read, Lose,
      Create, Block, Crash, vars
<1>. QED  BY <1>1, <1>7, <1>9

\* Over memory no request takes back what another user has deleted or how
\* another user has reacted.
THEOREM MarksAreKept == Spec => MarksStay
<1>1. ASSUME SendInv, AloneInv, [Next]_vars
      PROVE  [store = "memory" =>
                \A m \in Messages :
                  /\ message[m].hidden \subseteq message'[m].hidden
                  /\ \A u, v \in Users :
                       /\ ReactionsOf(u, message[m].reactions)
                            # ReactionsOf(u, message'[m].reactions)
                       /\ ReactionsOf(v, message[m].reactions)
                            # ReactionsOf(v, message'[m].reactions)
                       => u = v]_message
  BY <1>1, MarksStep
<1>. QED  BY <1>1, SendInvariant, AloneInvariant, PTL DEF Spec, MarksStay
=============================================================================
