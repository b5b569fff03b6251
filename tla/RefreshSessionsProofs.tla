------------------------ MODULE RefreshSessionsProofs ------------------------
(***************************************************************************)
(* Machine-checked facts about RefreshSessions, for any number of          *)
(* sessions, processes and handlers and any number of handlers that stop   *)
(* half-way.                                                               *)
(*                                                                         *)
(* Four inductive invariants.  TypedInv gives the types, and WriterInv     *)
(* that revoked sessions stay revoked, in every deployment.  RotationInv   *)
(* is about the primary store on its own and gives the single rotation.    *)
(* SessionInv is about both stores as long as no process has lost Redis,   *)
(* and gives what the index and a revocation promise.                      *)
(***************************************************************************)
EXTENDS RefreshSessions, TLAPS

Storing(t) == task[t].pc \in {"storeDocument", "storeKey"}

Consuming(t) ==
  task[t].pc \in {"consumeFallback", "consumeDocument", "consumeIndex", "rotate"}

\* A session that is being stored is known to nobody else until its tokens go
\* out.
StoreOK(t) ==
  Storing(t) =>
    /\ task[t].sid \in issued \ handed
    /\ task[t].sid \notin cached \cup index
    /\ At(t, "storeDocument") => document[task[t].sid] = "absent"
    /\ At(t, "storeKey") => document[task[t].sid] # "absent"
    /\ At(t, "storeKey") /\ UseRedis => document[task[t].sid] = "live"

\* How far a consumption has got.
ConsumeOK(t) ==
  /\ Consuming(t) => task[t].sid \in handed
  /\ task[t].pc \in {"consumeDocument", "consumeIndex"} => task[t].sid \notin cached
  /\ At(t, "consumeIndex") => document[task[t].sid] = "gone"

\* How far a revocation has got: whatever it owes and is still usable is
\* still on its list.
RevokeOK(t) ==
  /\ task[t].due \subseteq handed \ {task[t].keep}
  /\ UseRedis => task[t].todo \cup task[t].half \subseteq handed
  /\ \A s \in task[t].todo : document[s] # "absent"
  /\ \A s \in task[t].half : document[s] = "gone"
  /\ At(t, "readListed") =>
       UseRedis /\ \A s \in task[t].due : Usable(s) => s \in task[t].todo
  /\ At(t, "remove") =>
       \A s \in task[t].due : Usable(s) => s \in task[t].todo \cup task[t].half

HomeOK(t) == ~Free(t) => task[t].home \in Instances

TaskOK(t) == HomeOK(t) /\ StoreOK(t) /\ ConsumeOK(t) /\ RevokeOK(t)

\* A session is stored by one handler.
OneWriter ==
  \A t, u \in Tasks :
    Storing(t) /\ Storing(u) /\ task[t].sid = task[u].sid => t = u

\* An id that was not drawn yet is nowhere.
FreshOK ==
  \A s \in Sids \ issued :
    document[s] = "absent" /\ s \notin handed \cup cached \cup index

\* What Redis holds was handed out, and what was handed out has a document.
HandedOK ==
  /\ cached \cup index \subseteq handed
  /\ handed \subseteq issued
  /\ ~UseRedis => cached = {}
  /\ \A s \in handed : document[s] # "absent"

Listed == UseRedis => \A s \in handed : Usable(s) => s \in index

SessionInv ==
  /\ TypeOK
  /\ up = Instances
  /\ \A t \in Tasks : TaskOK(t)
  /\ OneWriter
  /\ FreshOK
  /\ HandedOK
  /\ Listed

\* Without Redis: a session somebody is rotating is gone from the store, has
\* no successor yet and is rotated by nobody else.
RotationInv ==
  /\ TypeOK
  /\ \A t \in Tasks :
       /\ task[t].pc \notin {"consumeFallback", "consumeDocument", "consumeIndex"}
       /\ Storing(t) => /\ task[t].sid \in issued
                        /\ At(t, "storeDocument") => document[task[t].sid] = "absent"
                        /\ \A u \in Tasks : Storing(u) /\ task[u].sid = task[t].sid => u = t
       /\ At(t, "rotate") => /\ task[t].sid \in Sids
                             /\ document[task[t].sid] = "gone"
                             /\ \A n \in Sids : parent[n] # task[t].sid
                             /\ \A u \in Tasks : At(u, "rotate") /\ task[u].sid = task[t].sid
                                                   => u = t
  /\ \A s \in Sids \ issued : document[s] = "absent" /\ parent[s] = None
  /\ \A n \in Sids : parent[n] # None => document[parent[n]] = "gone"
  /\ SingleRotation

-----------------------------------------------------------------------------
(* Types *)

LEMMA IdleType == Idle \in TaskState
  BY DEF Idle, TaskState, Pcs

LEMMA BecomeType ==
  ASSUME TypeOK, NEW t \in Tasks, NEW state \in TaskState, Become(t, state)
  PROVE  task' \in [Tasks -> TaskState]
  BY DEF TypeOK, Become

LEMMA GotoType ==
  ASSUME TypeOK, NEW t \in Tasks, NEW pc \in Pcs, Goto(t, pc)
  PROVE  task' \in [Tasks -> TaskState]
  BY DEF TypeOK, Goto, Become, TaskState

LEMMA TaskType ==
  ASSUME TypeOK, NEW t \in Tasks
  PROVE  /\ task[t] \in TaskState
         /\ task[t].sid \in Sids \cup {None}
         /\ task[t].keep \in Sids \cup {None}
         /\ task[t].todo \in SUBSET Sids
         /\ task[t].half \in SUBSET Sids
         /\ task[t].due \in SUBSET Sids
         /\ task[t].home \in Instances \cup {None}
  BY DEF TypeOK, TaskState

LEMMA BeginRevocationType ==
  ASSUME TypeOK, NEW t \in Tasks, NEW i \in Instances, NEW keep \in Sids \cup {None},
         BeginRevocation(t, i, keep)
  PROVE  task' \in [Tasks -> TaskState]
<1>1. [Idle EXCEPT !.pc = "list", !.home = i, !.keep = keep,
                   !.due = {s \in handed : Usable(s)} \ {keep}] \in TaskState
  BY DEF TypeOK, Idle, TaskState, Pcs
<1>. QED  BY <1>1, BecomeType DEF BeginRevocation

LEMMA RequestType ==
  ASSUME TypeOK, NEW t \in Tasks, NEW i \in Instances, Request(t, i)
  PROVE  TypeOK'
<1>. USE SessionAssumption
<1>1. ASSUME NEW n \in Sids, Login(t, i, n) PROVE TypeOK'
  <2>1. [Idle EXCEPT !.pc = "storeDocument", !.home = i, !.sid = n] \in TaskState
    BY DEF Idle, TaskState, Pcs
  <2>2. task' \in [Tasks -> TaskState]  BY <1>1, <2>1, BecomeType DEF Login
  <2>. QED  BY <1>1, <2>2 DEF TypeOK, Login
<1>2. ASSUME NEW s \in Sids, ConsumeStored(t, i, s) PROVE TypeOK'
  <2>1. [Idle EXCEPT !.pc = "rotate", !.home = i, !.sid = s] \in TaskState
    BY DEF Idle, TaskState, Pcs
  <2>2. task' \in [Tasks -> TaskState]  BY <1>2, <2>1, BecomeType DEF ConsumeStored
  <2>. QED  BY <1>2, <2>2 DEF TypeOK, ConsumeStored, Documents
<1>3. ASSUME NEW s \in Sids, ConsumeKey(t, i, s) PROVE TypeOK'
  <2>1. [Idle EXCEPT !.pc = "consumeDocument", !.home = i, !.sid = s] \in TaskState
    BY DEF Idle, TaskState, Pcs
  <2>2. task' \in [Tasks -> TaskState]  BY <1>3, <2>1, BecomeType DEF ConsumeKey
  <2>. QED  BY <1>3, <2>2 DEF TypeOK, ConsumeKey
<1>4. ASSUME NEW s \in Sids, MissKey(t, i, s) PROVE TypeOK'
  <2>1. [Idle EXCEPT !.pc = "consumeFallback", !.home = i, !.sid = s] \in TaskState
    BY DEF Idle, TaskState, Pcs
  <2>2. task' \in [Tasks -> TaskState]  BY <1>4, <2>1, BecomeType DEF MissKey
  <2>. QED  BY <1>4, <2>2 DEF TypeOK, MissKey
<1>5. ASSUME NEW s \in Sids, RevokeOne(t, i, s) PROVE TypeOK'
  <2>1. [Idle EXCEPT !.pc = "remove", !.home = i, !.todo = {s}, !.due = {s}]
          \in TaskState
    BY DEF Idle, TaskState, Pcs
  <2>2. task' \in [Tasks -> TaskState]  BY <1>5, <2>1, BecomeType DEF RevokeOne
  <2>. QED  BY <1>5, <2>2 DEF TypeOK, RevokeOne
<1>6. ASSUME NEW keep \in Sids \cup {None}, RevokeMany(t, i, keep) PROVE TypeOK'
  <2>1. task' \in [Tasks -> TaskState]  BY <1>6, BeginRevocationType DEF RevokeMany
  <2>. QED  BY <1>6, <2>1 DEF TypeOK, RevokeMany
<1>7. ASSUME Disable(t, i) PROVE TypeOK'
  <2>1. task' \in [Tasks -> TaskState]  BY <1>7, BeginRevocationType DEF Disable
  <2>. QED  BY <1>7, <2>1 DEF TypeOK, Disable
<1>. QED  BY <1>1, <1>2, <1>3, <1>4, <1>5, <1>6, <1>7 DEF Request

LEMMA TaskStepType ==
  ASSUME TypeOK, NEW t \in Tasks, TaskStep(t),
         task[t].sid \in Sids \/ ~(Storing(t) \/ Consuming(t))
  PROVE  TypeOK'
<1>. USE SessionAssumption
<1>1. ASSUME StoreDocument(t) PROVE TypeOK'
  <2>1. task' \in [Tasks -> TaskState]  BY <1>1, GotoType DEF StoreDocument, Pcs
  <2>. QED  BY <1>1, <2>1 DEF TypeOK, StoreDocument, Documents, Storing, At
<1>2. ASSUME StoreKey(t) PROVE TypeOK'
  <2>1. task' \in [Tasks -> TaskState]  BY <1>2, IdleType, BecomeType DEF StoreKey
  <2>. QED  BY <1>2, <2>1 DEF TypeOK, StoreKey, Storing, At
<1>3. ASSUME ConsumeFallback(t) PROVE TypeOK'
  <2>1. task' \in [Tasks -> TaskState]
    BY <1>3, IdleType, BecomeType, GotoType DEF ConsumeFallback, Pcs
  <2>. QED  BY <1>3, <2>1 DEF TypeOK, ConsumeFallback, Documents
<1>4. ASSUME RevokeConsumed(t) PROVE TypeOK'
  <2>1. task' \in [Tasks -> TaskState]  BY <1>4, GotoType DEF RevokeConsumed, Pcs
  <2>. QED  BY <1>4, <2>1 DEF TypeOK, RevokeConsumed, Documents
<1>5. ASSUME UnlistConsumed(t) PROVE TypeOK'
  <2>1. task' \in [Tasks -> TaskState]
    BY <1>5, IdleType, BecomeType, GotoType DEF UnlistConsumed, Pcs
  <2>. QED  BY <1>5, <2>1 DEF TypeOK, UnlistConsumed
<1>6. ASSUME NEW n \in Sids, Rotate(t, n) PROVE TypeOK'
  <2>1. [task[t] EXCEPT !.pc = "storeDocument", !.sid = n] \in TaskState
    BY TaskType DEF TaskState, Pcs
  <2>2. task' \in [Tasks -> TaskState]  BY <1>6, <2>1, BecomeType DEF Rotate
  <2>. QED  BY <1>6, <2>2, TaskType DEF TypeOK, Rotate
<1>7. ASSUME RefuseLocked(t) PROVE TypeOK'
  <2>1. task' \in [Tasks -> TaskState]  BY <1>7, IdleType, BecomeType DEF RefuseLocked
  <2>. QED  BY <1>7, <2>1 DEF TypeOK, RefuseLocked
<1>8. ASSUME ListSessions(t) PROVE TypeOK'
  <2>. DEFINE live == {s \in Sids : document[s] = "live"} \ {task[t].keep}
  <2>1. [task[t] EXCEPT !.pc = "readListed", !.todo = index] \in TaskState
    BY TaskType DEF TypeOK, TaskState, Pcs
  <2>2. [task[t] EXCEPT !.pc = "remove", !.todo = live] \in TaskState
    BY TaskType DEF TaskState, Pcs
  <2>3. task' \in [Tasks -> TaskState]
    BY <1>8, <2>1, <2>2, BecomeType DEF ListSessions
  <2>. QED  BY <1>8, <2>3 DEF TypeOK, ListSessions
<1>9. ASSUME ReadListed(t) PROVE TypeOK'
  <2>. DEFINE found == {s \in task[t].todo : Readable(task[t].home, s)}
  <2>1. [task[t] EXCEPT !.pc = "remove", !.todo = found \ {task[t].keep}] \in TaskState
    BY TaskType DEF TaskState, Pcs
  <2>2. task' \in [Tasks -> TaskState]
    BY <1>9, <2>1, IdleType, BecomeType DEF ReadListed
  <2>. QED  BY <1>9, <2>2 DEF TypeOK, ReadListed
<1>10. ASSUME NEW s \in Sids, RevokeDocument(t, s) PROVE TypeOK'
  <2>1. [task[t] EXCEPT !.todo = @ \ {s}, !.half = @ \cup {s}] \in TaskState
    BY TaskType DEF TaskState
  <2>2. task' \in [Tasks -> TaskState]  BY <1>10, <2>1, BecomeType DEF RevokeDocument
  <2>. QED  BY <1>10, <2>2 DEF TypeOK, RevokeDocument, Documents
<1>11. ASSUME NEW s \in Sids, DropKey(t, s) PROVE TypeOK'
  <2>1. [task[t] EXCEPT !.half = @ \ {s}] \in TaskState
    BY TaskType DEF TaskState
  <2>2. task' \in [Tasks -> TaskState]  BY <1>11, <2>1, BecomeType DEF DropKey
  <2>. QED  BY <1>11, <2>2 DEF TypeOK, DropKey
<1>12. ASSUME RevokeDone(t) PROVE TypeOK'
  <2>1. task' \in [Tasks -> TaskState]  BY <1>12, IdleType, BecomeType DEF RevokeDone
  <2>. QED  BY <1>12, <2>1 DEF TypeOK, RevokeDone
<1>13. ASSUME Fail(t) PROVE TypeOK'
  <2>1. task' \in [Tasks -> TaskState]  BY <1>13, IdleType, BecomeType DEF Fail
  <2>2. failures' \in 0 .. MaxFailures  BY <1>13 DEF TypeOK, Fail
  <2>. QED  BY <1>13, <2>1, <2>2 DEF TypeOK, Fail
<1>. QED
  BY <1>1, <1>2, <1>3, <1>4, <1>5, <1>6, <1>7, <1>8, <1>9, <1>10, <1>11, <1>12,
     <1>13 DEF TaskStep

LEMMA EnvironmentType ==
  ASSUME TypeOK, Environment
  PROVE  TypeOK'
<1>. USE SessionAssumption
<1>1. CASE Enable  BY <1>1 DEF TypeOK, Enable
<1>2. ASSUME NEW s \in Sids, ExpireDocument(s) PROVE TypeOK'
  BY <1>2 DEF TypeOK, ExpireDocument, Documents
<1>3. ASSUME NEW s \in Sids, ExpireKey(s) PROVE TypeOK'
  BY <1>3 DEF TypeOK, ExpireKey
<1>4. ASSUME NEW i \in Instances, LoseRedis(i) PROVE TypeOK'
  <2>1. outages' \in 0 .. MaxOutages  BY <1>4 DEF TypeOK, LoseRedis
  <2>. QED  BY <1>4, <2>1 DEF TypeOK, LoseRedis
<1>5. ASSUME NEW i \in Instances, RegainRedis(i) PROVE TypeOK'
  BY <1>5 DEF TypeOK, RegainRedis
<1>. QED  BY <1>1, <1>2, <1>3, <1>4, <1>5 DEF Environment

LEMMA InitType == Init => TypeOK
<1>. SUFFICES ASSUME Init PROVE TypeOK
  OBVIOUS
<1>1. task \in [Tasks -> TaskState]  BY IdleType DEF Init
<1>2. outages \in 0 .. MaxOutages /\ failures \in 0 .. MaxFailures
  BY SessionAssumption DEF Init
<1>. QED  BY <1>1, <1>2 DEF Init, TypeOK, Documents

\* The fields of a task that moves on.
LEMMA GotoFields ==
  ASSUME TypeOK, NEW t \in Tasks, NEW pc, Goto(t, pc)
  PROVE  /\ task'[t].pc = pc
         /\ task'[t].home = task[t].home
         /\ task'[t].sid = task[t].sid
         /\ task'[t].keep = task[t].keep
         /\ task'[t].todo = task[t].todo
         /\ task'[t].half = task[t].half
         /\ task'[t].due = task[t].due
         /\ \A u \in Tasks \ {t} : task'[u] = task[u]
  BY TaskType DEF TypeOK, Goto, Become, TaskState

LEMMA ListFields ==
  ASSUME TypeOK, NEW t \in Tasks, ListSessions(t)
  PROVE  /\ task'[t].pc = IF Redis(task[t].home) THEN "readListed" ELSE "remove"
         /\ task'[t].todo = IF Redis(task[t].home) THEN index
                            ELSE {s \in Sids : document[s] = "live"} \ {task[t].keep}
         /\ task'[t].home = task[t].home
         /\ task'[t].keep = task[t].keep
         /\ task'[t].half = task[t].half
         /\ task'[t].due = task[t].due
         /\ \A u \in Tasks \ {t} : task'[u] = task[u]
<1>1. CASE Redis(task[t].home)
  BY <1>1, TaskType DEF TypeOK, ListSessions, Become, TaskState
<1>2. CASE ~Redis(task[t].home)
  BY <1>2, TaskType DEF TypeOK, ListSessions, Become, TaskState
<1>. QED  BY <1>1, <1>2

LEMMA ReadFields ==
  ASSUME TypeOK, NEW t \in Tasks, ReadListed(t)
  PROVE  /\ \/ task'[t] = Idle /\ index' = index
            \/ /\ task'[t].pc = "remove"
               /\ task'[t].todo = {s \in task[t].todo : Readable(task[t].home, s)}
                                    \ {task[t].keep}
               /\ task'[t].home = task[t].home
               /\ task'[t].keep = task[t].keep
               /\ task'[t].half = task[t].half
               /\ task'[t].due = task[t].due
               /\ index' = index \ {s \in task[t].todo : ~Readable(task[t].home, s)}
         /\ task[t].home \in up => task'[t].pc = "remove"
         /\ task'[t].pc \in {"idle", "remove"}
         /\ \A u \in Tasks \ {t} : task'[u] = task[u]
<1>. DEFINE found == {s \in task[t].todo : Readable(task[t].home, s)}
            stale == task[t].todo \ found
<1>1. CASE stale # {} /\ task[t].home \notin up
  BY <1>1 DEF TypeOK, ReadListed, Become, Idle
<1>2. CASE ~(stale # {} /\ task[t].home \notin up)
  <2>1. /\ index' = index \ stale
        /\ task' = [task EXCEPT ![t] = [task[t] EXCEPT !.pc = "remove",
                                        !.todo = found \ {task[t].keep}]]
    BY <1>2 DEF ReadListed, Become
  <2>. HIDE DEF found
  <2>2. /\ task'[t].pc = "remove"
        /\ task'[t].todo = found \ {task[t].keep}
        /\ task'[t].home = task[t].home
        /\ task'[t].keep = task[t].keep
        /\ task'[t].half = task[t].half
        /\ task'[t].due = task[t].due
        /\ \A u \in Tasks \ {t} : task'[u] = task[u]
    BY <2>1, TaskType DEF TypeOK, TaskState
  <2>. QED  BY <2>1, <2>2 DEF found
<1>. QED  BY <1>1, <1>2

\* A handler that stores or consumes has a session.
TypedInv ==
  /\ TypeOK
  /\ \A t \in Tasks : Storing(t) \/ Consuming(t) => task[t].sid \in Sids

LEMMA TypedNext == ASSUME TypedInv, [Next]_vars PROVE TypedInv'
<1>. USE SessionAssumption DEF TypedInv
<1>1. CASE UNCHANGED vars
  BY <1>1 DEF vars, TypeOK, Storing, Consuming
<1>2. ASSUME NEW t \in Tasks, NEW i \in Instances, Request(t, i) PROVE TypedInv'
  <2>1. TypeOK'  BY <1>2, RequestType
  <2>2. \A u \in Tasks \ {t} : task'[u] = task[u]
    BY <1>2
    DEF TypeOK, Become, Request, Login, ConsumeStored, ConsumeKey, MissKey, RevokeOne,
        RevokeMany, Disable, BeginRevocation
  <2>3. task'[t].sid \in Sids \/ task'[t].pc \in {"list", "remove"}
    <3>1. ASSUME NEW s \in Sids,
                 Login(t, i, s) \/ ConsumeStored(t, i, s) \/ ConsumeKey(t, i, s)
                   \/ MissKey(t, i, s)
          PROVE  task'[t].sid \in Sids
      <4>1. task \in [Tasks -> TaskState]  BY DEF TypeOK
      <4>2. \E pc : task' = [task EXCEPT ![t] =
                             [Idle EXCEPT !.pc = pc, !.home = i, !.sid = s]]
        BY <3>1 DEF Become, Login, ConsumeStored, ConsumeKey, MissKey
      <4>. HIDE DEF TypedInv
      <4>. QED  BY <4>1, <4>2 DEF Idle
    <3>2. ASSUME NEW s \in Sids, RevokeOne(t, i, s) PROVE task'[t].pc = "remove"
      BY <3>2 DEF TypeOK, Become, RevokeOne, Idle
    <3>3. ASSUME NEW keep \in Sids \cup {None}, BeginRevocation(t, i, keep)
          PROVE  task'[t].pc = "list"
      BY <3>3 DEF TypeOK, Become, BeginRevocation, Idle
    <3>. QED  BY <1>2, <3>1, <3>2, <3>3 DEF Request, RevokeMany, Disable
  <2>. QED  BY <2>1, <2>2, <2>3 DEF Storing, Consuming
<1>3. ASSUME NEW t \in Tasks, TaskStep(t) PROVE TypedInv'
  <2>1. TypeOK'  BY <1>3, TaskStepType
  <2>2. \A u \in Tasks \ {t} : task'[u] = task[u]
    BY <1>3
    DEF TypeOK, Goto, Become, TaskStep, StoreDocument, StoreKey, ConsumeFallback,
        RevokeConsumed, UnlistConsumed, Rotate, RefuseLocked, ListSessions, ReadListed,
        RevokeDocument, DropKey, RevokeDone, Fail
  <2>3. Storing(t)' \/ Consuming(t)' => task'[t].sid \in Sids
    <3>. USE TaskType DEF Storing, Consuming
    <3>1. CASE StoreDocument(t) \/ ConsumeFallback(t) \/ RevokeConsumed(t)
                 \/ UnlistConsumed(t)
      <4>1. Storing(t) \/ Consuming(t)
        BY <3>1 DEF StoreDocument, ConsumeFallback, RevokeConsumed, UnlistConsumed, At
      <4>2. task'[t] = Idle \/ task'[t].sid = task[t].sid
        BY <3>1, GotoFields
        DEF TypeOK, Become, StoreDocument, ConsumeFallback, RevokeConsumed, UnlistConsumed
      <4>. QED  BY <4>1, <4>2 DEF Idle
    <3>2. CASE StoreKey(t) \/ RefuseLocked(t) \/ RevokeDone(t) \/ Fail(t)
      BY <3>2 DEF TypeOK, Become, StoreKey, RefuseLocked, RevokeDone, Fail, Idle
    <3>3. ASSUME NEW n \in Sids, Rotate(t, n) PROVE task'[t].sid \in Sids
      <4>1. task' = [task EXCEPT ![t] = [task[t] EXCEPT !.pc = "storeDocument", !.sid = n]]
        BY <3>3 DEF Rotate, Become
      <4>. QED  BY <4>1 DEF TypeOK, TaskState
    <3>4. CASE ListSessions(t) \/ ReadListed(t)
      BY <3>4, ListFields, ReadFields
    <3>5. ASSUME NEW s \in Sids, RevokeDocument(t, s) PROVE task'[t].pc = "remove"
      BY <3>5 DEF TypeOK, Become, RevokeDocument, TaskState, At
    <3>6. ASSUME NEW s \in Sids, DropKey(t, s) PROVE task'[t].pc = "remove"
      BY <3>6 DEF TypeOK, Become, DropKey, TaskState, At
    <3>. QED  BY <1>3, <3>1, <3>2, <3>3, <3>4, <3>5, <3>6 DEF TaskStep
  <2>. QED  BY <2>1, <2>2, <2>3 DEF Storing, Consuming
<1>4. CASE Environment
  <2>1. TypeOK' /\ task' = task
    BY <1>4, EnvironmentType
    DEF Environment, Enable, ExpireDocument, ExpireKey, LoseRedis, RegainRedis
  <2>. QED  BY <2>1 DEF Storing, Consuming
<1>. QED  BY <1>1, <1>2, <1>3, <1>4 DEF Next

\* The variables keep their types, with any number of outages.
THEOREM SessionTypes == Spec => []TypeOK
<1>1. Init => TypedInv
  BY InitType DEF TypedInv, Init, Idle, Storing, Consuming
<1>2. TypedInv /\ [Next]_vars => TypedInv'  BY TypedNext
<1>3. TypedInv => TypeOK  BY DEF TypedInv
<1>. QED  BY <1>1, <1>2, <1>3, PTL DEF Spec

-----------------------------------------------------------------------------
(* One store: a session is rotated at most once. *)

LEMMA RotationInit == ASSUME Init, ~UseRedis PROVE RotationInv
<1>1. TypeOK  BY InitType
<1>2. \A t \in Tasks : task[t].pc = "idle"  BY DEF Init, Idle
<1>. QED
  BY <1>1, <1>2 DEF Init, RotationInv, SingleRotation, Storing, At

\* A handler that is idle, or revokes, or has ended, is no party to rotation.
LEMMA RotationFrame ==
  ASSUME RotationInv, TypeOK', NEW t \in Tasks,
         \A u \in Tasks \ {t} : task'[u] = task[u],
         task'[t].pc \in {"idle", "storeKey", "list", "readListed", "remove"},
         Storing(t)' => Storing(t) /\ task'[t].sid = task[t].sid,
         issued' = issued, parent' = parent,
         \A s \in Sids : \/ document'[s] = document[s]
                         \/ document[s] # "absent" /\ document'[s] = "gone"
                         \/ /\ document[s] = "absent"
                            /\ At(t, "storeDocument") /\ s = task[t].sid
                            /\ task'[t].pc = "storeKey"
  PROVE  RotationInv'
<1>. USE DEF RotationInv
<1>1. \A u \in Tasks : task'[u].pc \notin {"consumeFallback", "consumeDocument", "consumeIndex"}
  OBVIOUS
<1>2. ASSUME NEW u \in Tasks, Storing(u)'
      PROVE  /\ task'[u].sid \in issued'
             /\ At(u, "storeDocument")' => document'[task'[u].sid] = "absent"
             /\ \A v \in Tasks : Storing(v)' /\ task'[v].sid = task'[u].sid => v = u
  BY <1>2 DEF Storing, At, TypeOK
<1>3. ASSUME NEW u \in Tasks, At(u, "rotate")'
      PROVE  /\ task'[u].sid \in Sids
             /\ document'[task'[u].sid] = "gone"
             /\ \A n \in Sids : parent'[n] # task'[u].sid
             /\ \A v \in Tasks : At(v, "rotate")' /\ task'[v].sid = task'[u].sid
                                   => v = u
  BY <1>3 DEF At, TypeOK
<1>4. \A s \in Sids \ issued' : document'[s] = "absent" /\ parent'[s] = None
  BY DEF Storing, At
<1>5. \A n \in Sids : parent'[n] # None => document'[parent'[n]] = "gone"
  BY DEF TypeOK
<1>6. SingleRotation'  BY DEF SingleRotation
<1>. QED  BY <1>1, <1>2, <1>3, <1>4, <1>5, <1>6

LEMMA RotationNext ==
  ASSUME RotationInv, ~UseRedis, [Next]_vars
  PROVE  RotationInv'
<1>. USE DEF RotationInv
<1>0. CASE UNCHANGED vars
  BY <1>0 DEF vars, TypeOK, SingleRotation, Storing, At
<1>1. ASSUME NEW t \in Tasks, NEW i \in Instances, NEW n \in Sids, Login(t, i, n)
      PROVE  RotationInv'
  <2>1. TypeOK'  BY <1>1, RequestType DEF Request
  <2>2. /\ task'[t].pc = "storeDocument" /\ task'[t].sid = n
        /\ \A u \in Tasks \ {t} : task'[u] = task[u]
    BY <1>1 DEF TypeOK, Become, Login, Idle
  <2>3. document' = document /\ parent' = parent /\ issued' = issued \cup {n}
        /\ n \notin issued /\ document[n] = "absent"
    BY <1>1 DEF Login
  <2>4. SingleRotation'  BY <2>3 DEF SingleRotation
  <2>. QED  BY <2>1, <2>2, <2>3, <2>4 DEF Storing, At
<1>2. ASSUME NEW t \in Tasks, NEW i \in Instances, NEW s \in Sids, ConsumeStored(t, i, s)
      PROVE  RotationInv'
  <2>1. TypeOK'  BY <1>2, RequestType DEF Request
  <2>2. /\ task'[t].pc = "rotate" /\ task'[t].sid = s
        /\ \A u \in Tasks \ {t} : task'[u] = task[u]
    BY <1>2 DEF TypeOK, Become, ConsumeStored, Idle
  <2>3. /\ parent' = parent /\ issued' = issued
        /\ document[s] = "live" /\ document'[s] = "gone"
        /\ \A r \in Sids \ {s} : document'[r] = document[r]
    BY <1>2 DEF ConsumeStored, TypeOK
  <2>4. SingleRotation'  BY <2>3 DEF SingleRotation
  <2>5. \A n \in Sids : parent[n] # s  BY <2>3, SessionAssumption
  <2>6. ASSUME NEW u \in Tasks, Storing(u)'
        PROVE  /\ task'[u].sid \in issued'
               /\ At(u, "storeDocument")' => document'[task'[u].sid] = "absent"
               /\ \A v \in Tasks : Storing(v)' /\ task'[v].sid = task'[u].sid => v = u
    BY <2>2, <2>3, <2>6 DEF Storing, At, TypeOK
  <2>7. ASSUME NEW u \in Tasks, At(u, "rotate")'
        PROVE  /\ task'[u].sid \in Sids
               /\ document'[task'[u].sid] = "gone"
               /\ \A n \in Sids : parent'[n] # task'[u].sid
               /\ \A v \in Tasks : At(v, "rotate")' /\ task'[v].sid = task'[u].sid
                                     => v = u
    BY <2>2, <2>3, <2>5, <2>7 DEF At
  <2>8. \A n \in Sids : parent'[n] # None => document'[parent'[n]] = "gone"
    BY <2>3 DEF TypeOK
  <2>9. \A r \in Sids \ issued' : document'[r] = "absent" /\ parent'[r] = None
    BY <2>3
  <2>10. \A u \in Tasks : task'[u].pc \notin
           {"consumeFallback", "consumeDocument", "consumeIndex"}
    BY <2>2
  <2>. QED  BY <2>1, <2>4, <2>6, <2>7, <2>8, <2>9, <2>10
<1>3. ASSUME NEW t \in Tasks, NEW n \in Sids, Rotate(t, n) PROVE RotationInv'
  <2>. DEFINE s == task[t].sid
  <2>1. TypeOK'  BY <1>3, TaskStepType DEF TaskStep, Rotate, At, Storing, Consuming
  <2>2. /\ task'[t].pc = "storeDocument" /\ task'[t].sid = n
        /\ \A u \in Tasks \ {t} : task'[u] = task[u]
    BY <1>3, TaskType DEF TypeOK, Become, Rotate, TaskState
  <2>3. /\ s \in Sids /\ document[s] = "gone" /\ \A m \in Sids : parent[m] # s
        /\ \A u \in Tasks : At(u, "rotate") /\ task[u].sid = s => u = t
    BY <1>3 DEF Rotate
  <2>4. /\ document' = document /\ issued' = issued \cup {n}
        /\ n \notin issued /\ document[n] = "absent"
        /\ parent'[n] = s /\ \A m \in Sids \ {n} : parent'[m] = parent[m]
    BY <1>3 DEF Rotate, TypeOK
  <2>5. SingleRotation'  BY <2>3, <2>4 DEF SingleRotation
  <2>6. ASSUME NEW u \in Tasks, Storing(u)'
        PROVE  /\ task'[u].sid \in issued'
               /\ At(u, "storeDocument")' => document'[task'[u].sid] = "absent"
               /\ \A v \in Tasks : Storing(v)' /\ task'[v].sid = task'[u].sid => v = u
    BY <2>2, <2>4, <2>6 DEF Storing, At
  <2>7. ASSUME NEW u \in Tasks, At(u, "rotate")'
        PROVE  /\ task'[u].sid \in Sids
               /\ document'[task'[u].sid] = "gone"
               /\ \A m \in Sids : parent'[m] # task'[u].sid
               /\ \A v \in Tasks : At(v, "rotate")' /\ task'[v].sid = task'[u].sid
                                     => v = u
    BY <2>2, <2>3, <2>4, <2>7 DEF At
  <2>8. \A m \in Sids : parent'[m] # None => document'[parent'[m]] = "gone"
    BY <2>3, <2>4
  <2>9. \A r \in Sids \ issued' : document'[r] = "absent" /\ parent'[r] = None
    BY <2>4
  <2>10. \A u \in Tasks : task'[u].pc \notin
           {"consumeFallback", "consumeDocument", "consumeIndex"}
    BY <2>2
  <2>. QED  BY <2>1, <2>5, <2>6, <2>7, <2>8, <2>9, <2>10
<1>4. ASSUME NEW t \in Tasks, NEW i \in Instances, Request(t, i),
             ~ \E n \in Sids : Login(t, i, n) \/ ConsumeStored(t, i, n)
      PROVE  RotationInv'
  <2>1. TypeOK'  BY <1>4, RequestType
  <2>2. /\ task'[t].pc \in {"list", "remove"}
        /\ \A u \in Tasks \ {t} : task'[u] = task[u]
        /\ UNCHANGED << document, issued, parent >>
    BY <1>4
    DEF TypeOK, Become, Request, ConsumeKey, MissKey, RevokeOne, RevokeMany, Disable,
        BeginRevocation, Redis, Idle
  <2>. QED  BY <2>1, <2>2, RotationFrame DEF Storing
<1>5. ASSUME NEW t \in Tasks, TaskStep(t), ~ \E n \in Sids : Rotate(t, n)
      PROVE  RotationInv'
  <2>1. TypeOK'
    BY <1>5, TaskStepType DEF Storing, Consuming, At, TypeOK
  <2>2. CASE StoreDocument(t)
    <3>1. /\ task'[t].pc = "storeKey" /\ task'[t].sid = task[t].sid
          /\ \A u \in Tasks \ {t} : task'[u] = task[u]
      BY <2>2, GotoFields DEF StoreDocument
    <3>2. \A r \in Sids : r # task[t].sid => document'[r] = document[r]
      BY <2>2 DEF StoreDocument, TypeOK
    <3>3. At(t, "storeDocument") /\ document[task[t].sid] = "absent"
          /\ issued' = issued /\ parent' = parent /\ Storing(t)
      BY <2>2 DEF StoreDocument, Storing, At
    <3>. QED  BY <2>1, <3>1, <3>2, <3>3, RotationFrame
  <2>3. CASE StoreKey(t) \/ RefuseLocked(t) \/ RevokeDone(t) \/ Fail(t)
    <3>1. /\ task'[t].pc = "idle" /\ \A u \in Tasks \ {t} : task'[u] = task[u]
          /\ UNCHANGED << document, issued, parent >>
      BY <2>3 DEF TypeOK, Become, StoreKey, RefuseLocked, RevokeDone, Fail, Idle
    <3>. QED  BY <2>1, <3>1, RotationFrame DEF Storing
  <2>4. ConsumeFallback(t) \/ RevokeConsumed(t) \/ UnlistConsumed(t) => FALSE
    BY DEF ConsumeFallback, RevokeConsumed, UnlistConsumed, At
  <2>5. CASE ListSessions(t) \/ ReadListed(t)
    <3>1. task'[t].pc \in {"idle", "readListed", "remove"}
          /\ \A u \in Tasks \ {t} : task'[u] = task[u]
      BY <2>5, ListFields, ReadFields
    <3>2. UNCHANGED << document, issued, parent >>
      BY <2>5 DEF ListSessions, ReadListed
    <3>. QED  BY <2>1, <3>1, <3>2, RotationFrame DEF Storing
  <2>6. ASSUME NEW s \in Sids, RevokeDocument(t, s) PROVE RotationInv'
    <3>1. /\ task'[t].pc = "remove" /\ \A u \in Tasks \ {t} : task'[u] = task[u]
      BY <2>6, TaskType DEF TypeOK, Become, RevokeDocument, TaskState, At
    <3>2. /\ \A r \in Sids : \/ document'[r] = document[r]
                             \/ document[r] # "absent" /\ document'[r] = "gone"
          /\ UNCHANGED << issued, parent >>
      BY <2>6 DEF RevokeDocument, TypeOK
    <3>. QED  BY <2>1, <3>1, <3>2, RotationFrame DEF Storing
  <2>7. ASSUME NEW s \in Sids, DropKey(t, s) PROVE RotationInv'
    <3>1. /\ task'[t].pc = "remove" /\ \A u \in Tasks \ {t} : task'[u] = task[u]
          /\ UNCHANGED << document, issued, parent >>
      BY <2>7, TaskType DEF TypeOK, Become, DropKey, TaskState, At
    <3>. QED  BY <2>1, <3>1, RotationFrame DEF Storing
  <2>. QED  BY <1>5, <2>2, <2>3, <2>4, <2>5, <2>6, <2>7 DEF TaskStep
<1>6. ASSUME Environment PROVE RotationInv'
  <2>1. TypeOK'  BY <1>6, EnvironmentType
  <2>2. UNCHANGED << task, issued, parent >>
    BY <1>6 DEF Environment, Enable, ExpireDocument, ExpireKey, LoseRedis, RegainRedis
  <2>3. \A s \in Sids : \/ document'[s] = document[s]
                        \/ document[s] # "absent" /\ document'[s] = "gone"
    BY <1>6
    DEF Environment, Enable, ExpireDocument, ExpireKey, LoseRedis, RegainRedis, TypeOK
  <2>4. SingleRotation'  BY <2>2 DEF SingleRotation
  <2>5. \A n \in Sids : parent'[n] # None => document'[parent'[n]] = "gone"
    BY <2>2, <2>3 DEF TypeOK
  <2>6. ASSUME NEW u \in Tasks, Storing(u)'
        PROVE  /\ task'[u].sid \in issued'
               /\ At(u, "storeDocument")' => document'[task'[u].sid] = "absent"
               /\ \A v \in Tasks : Storing(v)' /\ task'[v].sid = task'[u].sid => v = u
    BY <2>2, <2>3, <2>6 DEF Storing, At, TypeOK
  <2>7. ASSUME NEW u \in Tasks, At(u, "rotate")'
        PROVE  /\ task'[u].sid \in Sids
               /\ document'[task'[u].sid] = "gone"
               /\ \A m \in Sids : parent'[m] # task'[u].sid
               /\ \A v \in Tasks : At(v, "rotate")' /\ task'[v].sid = task'[u].sid
                                     => v = u
    BY <2>2, <2>3, <2>7 DEF At
  <2>. QED  BY <2>1, <2>2, <2>3, <2>4, <2>5, <2>6, <2>7
<1>. QED  BY <1>0, <1>1, <1>2, <1>3, <1>4, <1>5, <1>6 DEF Next

\* With one store (memory, or MongoDB without Redis) a session is rotated at
\* most once, whatever logins, refreshes and revocations do at the same time
\* and wherever one of them stops.
THEOREM OneRotationPerSession == ~UseRedis => (Spec => []SingleRotation)
<1>. SUFFICES ASSUME ~UseRedis PROVE Spec => []SingleRotation
  OBVIOUS
<1>1. Init => RotationInv  BY RotationInit
<1>2. RotationInv /\ [Next]_vars => RotationInv'  BY RotationNext
<1>3. RotationInv => SingleRotation  BY DEF RotationInv
<1>. QED  BY <1>1, <1>2, <1>3, PTL DEF Spec

-----------------------------------------------------------------------------
(* Both stores, and no process loses Redis: what revocation promises. *)

LEMMA SessionInit == Init => SessionInv
<1>. SUFFICES ASSUME Init PROVE SessionInv
  OBVIOUS
<1>1. TypeOK  BY InitType
<1>2. \A t \in Tasks : task[t] = Idle  BY DEF Init
<1>3. \A t \in Tasks : TaskOK(t)
  BY <1>2 DEF TaskOK, HomeOK, StoreOK, ConsumeOK, RevokeOK, Free, At, Storing,
              Consuming, Idle
<1>4. OneWriter  BY <1>2 DEF OneWriter, Storing, Idle
<1>. QED
  BY <1>1, <1>3, <1>4 DEF Init, SessionInv, FreshOK, HandedOK, Listed

\* What a step of handler t may do to the stores.
\* A document only changes by being created by its writer or by being revoked.
DocumentsMove(t) ==
  \A s \in Sids :
    \/ document'[s] = document[s]
    \/ document[s] # "absent" /\ document'[s] = "gone" /\ (UseRedis => s \in handed)
    \/ /\ At(t, "storeDocument") /\ s = task[t].sid
       /\ document[s] = "absent" /\ document'[s] = "live"

\* Redis and the clients learn of a session from its writer, when it is done.
KeysMove(t) ==
  /\ \A s \in (cached' \ cached) \cup (index' \ index) \cup (handed' \ handed) :
       At(t, "storeKey") /\ s = task[t].sid
  /\ cached' \cup index' \subseteq handed'
  /\ handed \subseteq handed' /\ issued \subseteq issued'
  /\ ~UseRedis => cached' \subseteq cached

\* The index keeps every session that can be used.
ListingMoves ==
  UseRedis => /\ handed' \ handed \subseteq index'
              /\ \A s \in index \ index' : ~Usable(s)'

Moves(t) ==
  /\ DocumentsMove(t) /\ KeysMove(t) /\ ListingMoves
  /\ \A u \in Tasks \ {t} : task'[u] = task[u]
  /\ up' = Instances
  /\ TypeOK'
  /\ Storing(t)' => \/ Storing(t) /\ task'[t].sid = task[t].sid
                    \/ task'[t].sid \notin issued

\* The sessions of the other handlers are not touched.
LEMMA OthersOK ==
  ASSUME SessionInv, NEW t \in Tasks, Moves(t), NEW u \in Tasks, u # t
  PROVE  TaskOK(u)'
<1>. USE DEF SessionInv, Moves
<1>1. task'[u] = task[u] /\ TaskOK(u)  OBVIOUS
<1>2. HomeOK(u)'  BY <1>1 DEF TaskOK, HomeOK, Free
<1>3. StoreOK(u)'
  <2>1. SUFFICES ASSUME Storing(u) PROVE StoreOK(u)'
    BY <1>1 DEF StoreOK, Storing
  <2>2. task[u].sid \in Sids /\ (Storing(t) => task[u].sid # task[t].sid)
    BY <1>1, <2>1 DEF OneWriter, TaskOK, StoreOK, TypeOK
  <2>3. task[u].sid \in issued' \ handed' /\ task[u].sid \notin cached' \cup index'
    BY <1>1, <2>1, <2>2 DEF TaskOK, StoreOK, KeysMove, Storing, At
  <2>4. At(u, "storeDocument") => document'[task[u].sid] = "absent"
    BY <1>1, <2>1, <2>2 DEF TaskOK, StoreOK, DocumentsMove, Storing, At
  <2>5. At(u, "storeKey") => document'[task[u].sid] # "absent"
    BY <1>1, <2>1, <2>2 DEF TaskOK, StoreOK, DocumentsMove, Storing, At
  <2>6. At(u, "storeKey") /\ UseRedis => document'[task[u].sid] = "live"
    BY <1>1, <2>1, <2>2 DEF TaskOK, StoreOK, DocumentsMove, Storing, At
  <2>. QED  BY <1>1, <2>3, <2>4, <2>5, <2>6 DEF StoreOK, At
<1>4. \A s \in handed :
        /\ s \notin cached => s \notin cached'
        /\ document[s] = "gone" => document'[s] = "gone"
        /\ Usable(s)' => Usable(s)
        /\ document'[s] # "absent"
  BY DEF HandedOK, DocumentsMove, KeysMove, Usable, TypeOK, TaskOK, StoreOK, Storing, At
<1>5. ConsumeOK(u)'
  BY <1>1, <1>4 DEF TaskOK, ConsumeOK, Consuming, At, KeysMove
<1>6. \A s \in Sids :
        /\ document[s] # "absent" => document'[s] # "absent"
        /\ document[s] = "gone" => document'[s] = "gone"
  BY DEF DocumentsMove
<1>7. RevokeOK(u)'
  <2>1. task[u].todo \subseteq Sids /\ task[u].half \subseteq Sids
    BY TaskType
  <2>2. RevokeOK(u) /\ handed \subseteq handed'  BY <1>1 DEF TaskOK, KeysMove
  <2>. HIDE DEF SessionInv, Moves
  <2>3. /\ task'[u].due \subseteq handed' \ {task'[u].keep}
        /\ UseRedis => task'[u].todo \cup task'[u].half \subseteq handed'
    BY <1>1, <2>2 DEF RevokeOK
  <2>4. /\ \A s \in task'[u].todo : document'[s] # "absent"
        /\ \A s \in task'[u].half : document'[s] = "gone"
    BY <1>1, <1>6, <2>1, <2>2 DEF RevokeOK
  <2>5. \A s \in task[u].due : s \in handed /\ (Usable(s)' => Usable(s))
    BY <1>4, <2>2 DEF RevokeOK
  <2>6. At(u, "readListed")' =>
           UseRedis /\ \A s \in task'[u].due : Usable(s)' => s \in task'[u].todo
    BY <1>1, <2>2, <2>5 DEF RevokeOK, At, Usable
  <2>7. At(u, "remove")' =>
           \A s \in task'[u].due : Usable(s)' => s \in task'[u].todo \cup task'[u].half
    BY <1>1, <2>2, <2>5 DEF RevokeOK, At, Usable
  <2>. QED  BY <2>3, <2>4, <2>6, <2>7 DEF RevokeOK
<1>. QED  BY <1>2, <1>3, <1>5, <1>7 DEF TaskOK

\* A step that moves the stores as it may keeps the invariant, if its own
\* handler is right afterwards.
LEMMA MovesKeep ==
  ASSUME SessionInv, NEW t \in Tasks, Moves(t), TaskOK(t)'
  PROVE  SessionInv'
<1>. USE DEF SessionInv, Moves
<1>1. \A u \in Tasks : TaskOK(u)'  BY OthersOK
<1>2. OneWriter'
  <2>1. SUFFICES ASSUME NEW v \in Tasks, NEW u \in Tasks, Storing(v)', Storing(u)',
                        task'[v].sid = task'[u].sid
                 PROVE  v = u
    BY DEF OneWriter
  <2>2. CASE v # t /\ u # t  BY <2>1, <2>2 DEF OneWriter, Storing
  <2>3. CASE v = t /\ u # t
    BY <2>1, <2>3 DEF OneWriter, Storing, TaskOK, StoreOK
  <2>4. CASE v # t /\ u = t
    BY <2>1, <2>4 DEF OneWriter, Storing, TaskOK, StoreOK
  <2>. QED  BY <2>2, <2>3, <2>4
<1>3. FreshOK'
  BY DEF FreshOK, DocumentsMove, KeysMove, TaskOK, StoreOK, Storing, At
<1>4. HandedOK'
  <2>1. handed' \subseteq issued'
    BY DEF HandedOK, KeysMove, TaskOK, StoreOK, Storing, At
  <2>2. \A s \in handed' : document'[s] # "absent"
    BY DEF HandedOK, DocumentsMove, KeysMove, TaskOK, StoreOK, Storing, At, TypeOK
  <2>. QED  BY <2>1, <2>2 DEF HandedOK, KeysMove
<1>5. Listed'
  <2>1. SUFFICES ASSUME UseRedis, NEW s \in handed', Usable(s)' PROVE s \in index'
    BY DEF Listed
  <2>2. CASE s \notin handed  BY <2>1, <2>2 DEF ListingMoves
  <2>3. CASE s \in handed
    <3>1. Usable(s)
      BY <2>1, <2>3
      DEF Usable, HandedOK, DocumentsMove, KeysMove, TaskOK, StoreOK, Storing, At, TypeOK
    <3>. QED  BY <2>1, <2>3, <3>1 DEF Listed, ListingMoves
  <2>. QED  BY <2>2, <2>3
<1>. QED  BY <1>1, <1>2, <1>3, <1>4, <1>5

\* A handler that ends owes nothing.
LEMMA IdleOK ==
  ASSUME NEW t \in Tasks, task'[t] = Idle
  PROVE  TaskOK(t)'
BY DEF TaskOK, HomeOK, StoreOK, ConsumeOK, RevokeOK, Free, At, Storing, Consuming, Idle

\* A step that leaves the stores alone moves as it may.
LEMMA QuietMoves ==
  ASSUME SessionInv, NEW t \in Tasks, TypeOK',
         \A u \in Tasks \ {t} : task'[u] = task[u],
         UNCHANGED << document, cached, index, handed, up >>,
         issued \subseteq issued',
         Storing(t)' => \/ Storing(t) /\ task'[t].sid = task[t].sid
                        \/ task'[t].sid \notin issued
  PROVE  Moves(t)
<1>1. DocumentsMove(t)  BY DEF DocumentsMove
<1>2. KeysMove(t)  BY DEF KeysMove, SessionInv, HandedOK
<1>3. ListingMoves  BY DEF ListingMoves
<1>. QED  BY <1>1, <1>2, <1>3 DEF Moves, SessionInv

\* A step that creates nothing and hands out nothing moves as it may when
\* what it revokes was handed out and what it unlists is unusable.
LEMMA RevokingMoves ==
  ASSUME SessionInv, NEW t \in Tasks, TypeOK',
         \A u \in Tasks \ {t} : task'[u] = task[u],
         UNCHANGED << handed, up, issued >>,
         ~Storing(t)',
         cached' \subseteq cached,
         index' \subseteq index,
         \A s \in Sids : \/ document'[s] = document[s]
                         \/ /\ document[s] # "absent"
                            /\ document'[s] = "gone"
                            /\ UseRedis => s \in handed,
         \A s \in index \ index' : s \notin cached' /\ document'[s] # "live"
  PROVE  Moves(t)
<1>1. DocumentsMove(t)  BY DEF DocumentsMove
<1>2. KeysMove(t)  BY DEF KeysMove, SessionInv, HandedOK
<1>3. ListingMoves  BY DEF ListingMoves, Usable
<1>. QED  BY <1>1, <1>2, <1>3 DEF Moves, SessionInv

LEMMA RequestMoves ==
  ASSUME SessionInv, NEW t \in Tasks, NEW i \in Instances, Request(t, i)
  PROVE  Moves(t) /\ TaskOK(t)'
<1>. USE SessionAssumption
<1>0. TypeOK /\ TypeOK' /\ HandedOK /\ up = Instances
  BY RequestType DEF SessionInv
<1>1. ASSUME NEW n \in Sids, Login(t, i, n) PROVE Moves(t) /\ TaskOK(t)'
  <2>1. /\ task'[t] = [Idle EXCEPT !.pc = "storeDocument", !.home = i, !.sid = n]
        /\ \A u \in Tasks \ {t} : task'[u] = task[u]
        /\ n \notin issued /\ issued' = issued \cup {n}
        /\ UNCHANGED << document, cached, index, handed, up >>
    BY <1>0, <1>1 DEF Login, Become, TypeOK
  <2>2. /\ task'[t].pc = "storeDocument" /\ task'[t].sid = n /\ task'[t].home = i
        /\ task'[t].todo = {} /\ task'[t].half = {} /\ task'[t].due = {}
    BY <2>1 DEF Idle
  <2>3. document[n] = "absent" /\ n \notin handed \cup cached \cup index
    BY <2>1 DEF SessionInv, FreshOK
  <2>4. Moves(t)  BY <1>0, <2>1, <2>2, QuietMoves
  <2>. QED
    BY <2>1, <2>2, <2>3, <2>4
    DEF TaskOK, HomeOK, StoreOK, ConsumeOK, RevokeOK, At, Storing, Consuming
<1>2. ASSUME NEW s \in Sids, ConsumeStored(t, i, s) PROVE Moves(t) /\ TaskOK(t)'
  <2>1. /\ task'[t] = [Idle EXCEPT !.pc = "rotate", !.home = i, !.sid = s]
        /\ \A u \in Tasks \ {t} : task'[u] = task[u]
        /\ s \in handed /\ document' = [document EXCEPT ![s] = "gone"]
        /\ UNCHANGED << issued, cached, index, handed, up >>
        /\ document[s] = "live"
    BY <1>0, <1>2 DEF ConsumeStored, Become, TypeOK
  <2>2. /\ task'[t].pc = "rotate" /\ task'[t].sid = s /\ task'[t].home = i
        /\ task'[t].todo = {} /\ task'[t].half = {} /\ task'[t].due = {}
    BY <2>1 DEF Idle
  <2>3. \A r \in Sids : \/ document'[r] = document[r]
                        \/ /\ document[r] # "absent"
                           /\ document'[r] = "gone"
                           /\ UseRedis => r \in handed
    BY <1>0, <2>1 DEF TypeOK
  <2>4. Moves(t)  BY <1>0, <2>1, <2>2, <2>3, RevokingMoves DEF Storing
  <2>. QED
    BY <2>1, <2>2, <2>4
    DEF TaskOK, HomeOK, StoreOK, ConsumeOK, RevokeOK, At, Storing, Consuming
<1>3. ASSUME NEW s \in Sids, ConsumeKey(t, i, s) PROVE Moves(t) /\ TaskOK(t)'
  <2>1. /\ task'[t] = [Idle EXCEPT !.pc = "consumeDocument", !.home = i, !.sid = s]
        /\ \A u \in Tasks \ {t} : task'[u] = task[u]
        /\ s \in handed /\ cached' = cached \ {s}
        /\ UNCHANGED << document, issued, index, handed, up >>
    BY <1>0, <1>3 DEF ConsumeKey, Become, TypeOK
  <2>2. /\ task'[t].pc = "consumeDocument" /\ task'[t].sid = s /\ task'[t].home = i
        /\ task'[t].todo = {} /\ task'[t].half = {} /\ task'[t].due = {}
    BY <2>1 DEF Idle
  <2>3. Moves(t)  BY <1>0, <2>1, <2>2, RevokingMoves DEF Storing
  <2>. QED
    BY <2>1, <2>2, <2>3
    DEF TaskOK, HomeOK, StoreOK, ConsumeOK, RevokeOK, At, Storing, Consuming
<1>4. ASSUME NEW s \in Sids, MissKey(t, i, s) PROVE Moves(t) /\ TaskOK(t)'
  <2>1. /\ task'[t] = [Idle EXCEPT !.pc = "consumeFallback", !.home = i, !.sid = s]
        /\ \A u \in Tasks \ {t} : task'[u] = task[u]
        /\ s \in handed
        /\ UNCHANGED << document, cached, issued, index, handed, up >>
    BY <1>0, <1>4 DEF MissKey, Become, TypeOK
  <2>2. /\ task'[t].pc = "consumeFallback" /\ task'[t].sid = s /\ task'[t].home = i
        /\ task'[t].todo = {} /\ task'[t].half = {} /\ task'[t].due = {}
    BY <2>1 DEF Idle
  <2>3. Moves(t)  BY <1>0, <2>1, <2>2, QuietMoves DEF Storing
  <2>. QED
    BY <2>1, <2>2, <2>3
    DEF TaskOK, HomeOK, StoreOK, ConsumeOK, RevokeOK, At, Storing, Consuming
<1>5. ASSUME NEW s \in Sids, RevokeOne(t, i, s) PROVE Moves(t) /\ TaskOK(t)'
  <2>1. /\ task'[t] = [Idle EXCEPT !.pc = "remove", !.home = i, !.todo = {s},
                                   !.due = {s}]
        /\ \A u \in Tasks \ {t} : task'[u] = task[u]
        /\ s \in handed
        /\ UNCHANGED << document, cached, issued, index, handed, up >>
    BY <1>0, <1>5 DEF RevokeOne, Become, TypeOK
  <2>2. /\ task'[t].pc = "remove" /\ task'[t].home = i /\ task'[t].keep = None
        /\ task'[t].todo = {s} /\ task'[t].half = {} /\ task'[t].due = {s}
    BY <2>1 DEF Idle
  <2>3. document[s] # "absent" /\ s # None  BY <1>0, <2>1 DEF HandedOK
  <2>4. Moves(t)  BY <1>0, <2>1, <2>2, QuietMoves DEF Storing
  <2>. QED
    BY <2>1, <2>2, <2>3, <2>4
    DEF TaskOK, HomeOK, StoreOK, ConsumeOK, RevokeOK, At, Storing, Consuming
<1>6. ASSUME NEW keep \in Sids \cup {None}, BeginRevocation(t, i, keep),
             UNCHANGED << document, cached, issued, index, handed, up >>
      PROVE  Moves(t) /\ TaskOK(t)'
  <2>1. /\ task'[t] = [Idle EXCEPT !.pc = "list", !.home = i, !.keep = keep,
                                   !.due = {s \in handed : Usable(s)} \ {keep}]
        /\ \A u \in Tasks \ {t} : task'[u] = task[u]
    BY <1>0, <1>6 DEF BeginRevocation, Become, TypeOK
  <2>2. /\ task'[t].pc = "list" /\ task'[t].home = i /\ task'[t].keep = keep
        /\ task'[t].todo = {} /\ task'[t].half = {}
        /\ task'[t].due \subseteq handed \ {keep}
    BY <2>1 DEF Idle
  <2>3. Moves(t)  BY <1>0, <1>6, <2>1, <2>2, QuietMoves DEF Storing
  <2>. QED
    BY <1>6, <2>2, <2>3
    DEF TaskOK, HomeOK, StoreOK, ConsumeOK, RevokeOK, At, Storing, Consuming
<1>7. CASE \E keep \in Sids \cup {None} : RevokeMany(t, i, keep)
  BY <1>6, <1>7 DEF RevokeMany
<1>8. CASE Disable(t, i)  BY <1>6, <1>8 DEF Disable
<1>. QED  BY <1>1, <1>2, <1>3, <1>4, <1>5, <1>7, <1>8 DEF Request

LEMMA StoringMoves ==
  ASSUME SessionInv, NEW t \in Tasks, TypeOK',
         \/ StoreDocument(t)
         \/ StoreKey(t)
         \/ \E n \in Sids : Rotate(t, n)
  PROVE  Moves(t) /\ TaskOK(t)'
<1>. USE SessionAssumption
<1>0. TypeOK /\ TypeOK' /\ HandedOK /\ FreshOK /\ up = Instances /\ TaskOK(t)
  BY DEF SessionInv
<1>1. CASE StoreDocument(t)
  <2>1. At(t, "storeDocument") /\ Storing(t) /\ ~Free(t)
    BY <1>1 DEF StoreDocument, Storing, At, Free
  <2>2. /\ task'[t].pc = "storeKey" /\ task'[t].home = task[t].home
        /\ task'[t].sid = task[t].sid /\ task'[t].keep = task[t].keep
        /\ task'[t].todo = task[t].todo /\ task'[t].half = task[t].half
        /\ task'[t].due = task[t].due
        /\ \A u \in Tasks \ {t} : task'[u] = task[u]
    BY <1>0, <1>1, GotoFields DEF StoreDocument
  <2>3. /\ task[t].sid \in issued \ handed /\ task[t].sid \notin cached \cup index
        /\ document[task[t].sid] = "absent" /\ task[t].sid \in Sids
    BY <1>0, <2>1 DEF TaskOK, StoreOK, TypeOK
  <2>4. /\ document' = [document EXCEPT ![task[t].sid] = "live"]
        /\ UNCHANGED << cached, index, issued, handed, up >>
    BY <1>1 DEF StoreDocument
  <2>5. /\ document'[task[t].sid] = "live"
        /\ \A s \in Sids \ {task[t].sid} : document'[s] = document[s]
    BY <1>0, <2>3, <2>4 DEF TypeOK
  <2>6. DocumentsMove(t)  BY <2>1, <2>3, <2>5 DEF DocumentsMove
  <2>7. KeysMove(t)  BY <1>0, <2>4 DEF KeysMove, HandedOK
  <2>8. ListingMoves  BY <2>4 DEF ListingMoves
  <2>9. Moves(t)  BY <1>0, <2>1, <2>2, <2>4, <2>6, <2>7, <2>8 DEF Moves
  <2>10. HomeOK(t)'  BY <1>0, <2>1, <2>2 DEF HomeOK, TaskOK
  <2>11. StoreOK(t)'  BY <2>2, <2>3, <2>4, <2>5 DEF StoreOK, At
  <2>12. ConsumeOK(t)'  BY <2>2 DEF ConsumeOK, Consuming, At
  <2>13. RevokeOK(t)'
    <3>1. task[t].todo \subseteq Sids /\ task[t].half \subseteq Sids
      BY <1>0, TaskType
    <3>2. /\ \A s \in task[t].todo : document'[s] # "absent"
          /\ \A s \in task[t].half : document'[s] = "gone"
      BY <1>0, <2>3, <2>5, <3>1 DEF TaskOK, RevokeOK
    <3>. QED  BY <1>0, <2>2, <2>4, <3>2 DEF TaskOK, RevokeOK, At
  <2>. QED  BY <2>9, <2>10, <2>11, <2>12, <2>13 DEF TaskOK
<1>2. CASE StoreKey(t)
  <2>1. At(t, "storeKey") /\ Storing(t) /\ ~Free(t)
    BY <1>2 DEF StoreKey, Storing, At, Free
  <2>2. task'[t] = Idle /\ \A u \in Tasks \ {t} : task'[u] = task[u]
    BY <1>0, <1>2 DEF StoreKey, Become, TypeOK
  <2>3. task[t].home \in up /\ task[t].sid \in issued \ handed
    BY <1>0, <2>1 DEF TaskOK, HomeOK, StoreOK
  <2>4. /\ handed' = handed \cup {task[t].sid}
        /\ UNCHANGED << document, issued, up >>
        /\ UseRedis => /\ cached' = cached \cup {task[t].sid}
                       /\ index' = index \cup {task[t].sid}
        /\ ~UseRedis => UNCHANGED << cached, index >>
    BY <1>2, <2>3 DEF StoreKey, Redis
  <2>5. DocumentsMove(t)  BY <2>4 DEF DocumentsMove
  <2>6. KeysMove(t)  BY <1>0, <2>1, <2>4 DEF KeysMove, HandedOK
  <2>7. ListingMoves  BY <2>4 DEF ListingMoves
  <2>8. ~Storing(t)'  BY <2>2 DEF Storing, Idle
  <2>9. Moves(t)  BY <1>0, <2>2, <2>4, <2>5, <2>6, <2>7, <2>8 DEF Moves
  <2>. QED  BY <2>2, <2>9, IdleOK
<1>3. ASSUME NEW n \in Sids, Rotate(t, n) PROVE Moves(t) /\ TaskOK(t)'
  <2>1. /\ task'[t].pc = "storeDocument" /\ task'[t].sid = n
        /\ task'[t].home = task[t].home /\ task'[t].keep = task[t].keep
        /\ task'[t].todo = task[t].todo /\ task'[t].half = task[t].half
        /\ task'[t].due = task[t].due
        /\ \A u \in Tasks \ {t} : task'[u] = task[u]
    <3>1. /\ task' = [task EXCEPT ![t] = [task[t] EXCEPT !.pc = "storeDocument", !.sid = n]]
          /\ task \in [Tasks -> TaskState]
      BY <1>0, <1>3 DEF Rotate, Become, TypeOK
    <3>. HIDE DEF SessionInv
    <3>. QED  BY <3>1, TaskType DEF TaskState
  <2>2. /\ n \notin issued /\ issued' = issued \cup {n} /\ ~Free(t)
        /\ UNCHANGED << document, cached, index, handed, up >>
    BY <1>3 DEF Rotate, At, Free
  <2>3. document[n] = "absent" /\ n \notin handed \cup cached \cup index
    BY <1>0, <2>2 DEF FreshOK
  <2>4. Moves(t)  BY <1>0, <2>1, <2>2, QuietMoves
  <2>5. HomeOK(t)'  BY <1>0, <2>1, <2>2 DEF TaskOK, HomeOK
  <2>6. StoreOK(t)'  BY <2>1, <2>2, <2>3 DEF StoreOK, At
  <2>7. ConsumeOK(t)'  BY <2>1 DEF ConsumeOK, Consuming, At
  <2>8. RevokeOK(t)'  BY <1>0, <2>1, <2>2 DEF TaskOK, RevokeOK, At
  <2>. QED  BY <2>4, <2>5, <2>6, <2>7, <2>8 DEF TaskOK
<1>. QED  BY <1>1, <1>2, <1>3

LEMMA ConsumingMoves ==
  ASSUME SessionInv, NEW t \in Tasks, TypeOK',
         ConsumeFallback(t) \/ RevokeConsumed(t) \/ UnlistConsumed(t)
  PROVE  Moves(t) /\ TaskOK(t)'
<1>. USE SessionAssumption
<1>. DEFINE s == task[t].sid
<1>0. TypeOK /\ TypeOK' /\ HandedOK /\ up = Instances /\ TaskOK(t)
  BY DEF SessionInv
<1>1. Consuming(t) /\ ~Free(t)
  BY DEF ConsumeFallback, RevokeConsumed, UnlistConsumed, At, Consuming, Free
<1>2. /\ s \in handed /\ s \in Sids /\ document[s] # "absent"
      /\ task[t].home \in Instances
  BY <1>0, <1>1 DEF TaskOK, ConsumeOK, HomeOK, HandedOK, TypeOK
<1>3. ASSUME document' = [document EXCEPT ![s] = "gone"]
      PROVE  \A r \in Sids : \/ document'[r] = document[r]
                             \/ /\ document[r] # "absent"
                                /\ document'[r] = "gone"
                                /\ UseRedis => r \in handed
  BY <1>0, <1>2, <1>3 DEF TypeOK
<1>4. ASSUME NEW pc, Goto(t, pc), UNCHANGED << handed, up, issued >>,
             pc \in {"rotate", "consumeIndex"},
             document' = [document EXCEPT ![s] = "gone"] \/ document' = document,
             cached' = cached,
             pc = "consumeIndex" => s \notin cached /\ document'[s] = "gone"
      PROVE  TaskOK(t)'
  <2>1. /\ task'[t].pc = pc /\ task'[t].home = task[t].home
        /\ task'[t].sid = s /\ task'[t].keep = task[t].keep
        /\ task'[t].todo = task[t].todo /\ task'[t].half = task[t].half
        /\ task'[t].due = task[t].due
    BY <1>0, <1>4, GotoFields
  <2>2. task[t].todo \subseteq Sids /\ task[t].half \subseteq Sids
    BY <1>0, TaskType
  <2>3. /\ \A r \in task[t].todo : document'[r] # "absent"
        /\ \A r \in task[t].half : document'[r] = "gone"
    BY <1>0, <1>2, <1>4, <2>2 DEF TaskOK, RevokeOK, TypeOK
  <2>4. HomeOK(t)'  BY <1>2, <2>1 DEF HomeOK
  <2>5. StoreOK(t)'  BY <1>4, <2>1 DEF StoreOK, Storing
  <2>6. ConsumeOK(t)'  BY <1>2, <1>4, <2>1 DEF ConsumeOK, Consuming, At
  <2>7. RevokeOK(t)'  BY <1>0, <1>4, <2>1, <2>3 DEF TaskOK, RevokeOK, At
  <2>. QED  BY <2>4, <2>5, <2>6, <2>7 DEF TaskOK
<1>5. CASE ConsumeFallback(t)
  <2>1. CASE document[s] = "live"
    <3>1. /\ document' = [document EXCEPT ![s] = "gone"] /\ Goto(t, "rotate")
          /\ UNCHANGED << cached, index, issued, handed, up >>
      BY <1>5, <2>1 DEF ConsumeFallback
    <3>2. task'[t].pc = "rotate" /\ \A u \in Tasks \ {t} : task'[u] = task[u]
      BY <1>0, <3>1, GotoFields
    <3>3. Moves(t)  BY <1>0, <1>3, <3>1, <3>2, RevokingMoves DEF Storing
    <3>. QED  BY <1>4, <3>1, <3>3
  <2>2. CASE document[s] # "live"
    <3>1. /\ task'[t] = Idle /\ \A u \in Tasks \ {t} : task'[u] = task[u]
          /\ UNCHANGED << document, cached, index, issued, handed, up >>
      BY <1>0, <1>5, <2>2 DEF ConsumeFallback, Become, TypeOK
    <3>. QED  BY <1>0, <3>1, IdleOK, QuietMoves DEF Storing, Idle
  <2>. QED  BY <2>1, <2>2
<1>6. CASE RevokeConsumed(t)
  <2>1. /\ document' = [document EXCEPT ![s] = "gone"] /\ Goto(t, "consumeIndex")
        /\ UNCHANGED << cached, index, issued, handed, up >>
        /\ At(t, "consumeDocument")
    BY <1>6 DEF RevokeConsumed
  <2>2. task'[t].pc = "consumeIndex" /\ \A u \in Tasks \ {t} : task'[u] = task[u]
    BY <1>0, <2>1, GotoFields
  <2>3. Moves(t)  BY <1>0, <1>3, <2>1, <2>2, RevokingMoves DEF Storing
  <2>4. s \notin cached /\ document'[s] = "gone"
    BY <1>0, <1>2, <2>1 DEF TaskOK, ConsumeOK, At, TypeOK
  <2>. QED  BY <1>4, <2>1, <2>3, <2>4
<1>7. CASE UnlistConsumed(t)
  <2>1. /\ index' = index \ {s} /\ Goto(t, "rotate")
        /\ UNCHANGED << document, cached, issued, handed, up >>
        /\ At(t, "consumeIndex")
    BY <1>0, <1>2, <1>7 DEF UnlistConsumed
  <2>2. task'[t].pc = "rotate" /\ \A u \in Tasks \ {t} : task'[u] = task[u]
    BY <1>0, <2>1, GotoFields
  <2>3. s \notin cached /\ document[s] = "gone"
    BY <1>0, <2>1 DEF TaskOK, ConsumeOK, At
  <2>4. Moves(t)  BY <1>0, <2>1, <2>2, <2>3, RevokingMoves DEF Storing
  <2>. QED  BY <1>4, <2>1, <2>4
<1>. QED  BY <1>5, <1>6, <1>7

LEMMA ListingStepMoves ==
  ASSUME SessionInv, NEW t \in Tasks, TypeOK', ListSessions(t) \/ ReadListed(t)
  PROVE  Moves(t) /\ TaskOK(t)'
<1>. USE SessionAssumption
<1>0. TypeOK /\ TypeOK' /\ HandedOK /\ up = Instances /\ TaskOK(t) /\ Listed
  BY DEF SessionInv
<1>1. ~Free(t) /\ task[t].home \in Instances
  BY <1>0 DEF TaskOK, HomeOK, ListSessions, ReadListed, At, Free
<1>2. RevokeOK(t)  BY <1>0 DEF TaskOK
<1>3. CASE ListSessions(t)
  <2>1. UNCHANGED << document, cached, index, issued, handed, up >>
    BY <1>3 DEF ListSessions
  <2>2. /\ task'[t].home = task[t].home /\ task'[t].keep = task[t].keep
        /\ task'[t].half = task[t].half /\ task'[t].due = task[t].due
        /\ task'[t].pc \in {"readListed", "remove"}
        /\ \A u \in Tasks \ {t} : task'[u] = task[u]
    BY <1>0, <1>3, ListFields
  <2>3. Moves(t)  BY <1>0, <2>1, <2>2, QuietMoves DEF Storing
  <2>4. HomeOK(t)' /\ StoreOK(t)' /\ ConsumeOK(t)'
    BY <1>1, <2>2 DEF HomeOK, StoreOK, ConsumeOK, Storing, Consuming, At
  <2>5. CASE UseRedis
    <3>1. task'[t].pc = "readListed" /\ task'[t].todo = index
      BY <1>0, <1>1, <1>3, <2>5, ListFields DEF Redis
    <3>2. \A s \in task[t].due : Usable(s) => s \in index
      BY <1>0, <1>2, <2>5 DEF Listed, RevokeOK
    <3>3. index \subseteq handed /\ \A s \in index : document[s] # "absent"
      BY <1>0 DEF HandedOK
    <3>4. RevokeOK(t)'
      BY <1>2, <2>1, <2>2, <2>5, <3>1, <3>2, <3>3 DEF RevokeOK, At, Usable
    <3>. QED  BY <2>3, <2>4, <3>4 DEF TaskOK
  <2>6. CASE ~UseRedis
    <3>1. /\ task'[t].pc = "remove"
          /\ task'[t].todo = {s \in Sids : document[s] = "live"} \ {task[t].keep}
      BY <1>0, <1>3, <2>6, ListFields DEF Redis
    <3>2. \A s \in task[t].due : Usable(s) => s \in task'[t].todo
      BY <1>0, <1>2, <2>6, <3>1 DEF RevokeOK, Usable, HandedOK, TypeOK
    <3>3. \A s \in task'[t].todo : document[s] # "absent"
      BY <3>1
    <3>4. RevokeOK(t)'
      BY <1>2, <2>1, <2>2, <2>6, <3>1, <3>2, <3>3 DEF RevokeOK, At, Usable
    <3>. QED  BY <2>3, <2>4, <3>4 DEF TaskOK
  <2>. QED  BY <2>5, <2>6
<1>4. CASE ReadListed(t)
  <2>1. UNCHANGED << document, cached, issued, handed, up >> /\ At(t, "readListed")
    BY <1>4 DEF ReadListed
  <2>2. /\ task'[t].pc = "remove"
        /\ task'[t].todo = {s \in task[t].todo : Readable(task[t].home, s)}
                             \ {task[t].keep}
        /\ task'[t].home = task[t].home /\ task'[t].keep = task[t].keep
        /\ task'[t].half = task[t].half /\ task'[t].due = task[t].due
        /\ index' = index \ {s \in task[t].todo : ~Readable(task[t].home, s)}
        /\ \A u \in Tasks \ {t} : task'[u] = task[u]
    BY <1>0, <1>1, <1>4, ReadFields DEF Idle
  <2>3. UseRedis /\ \A s \in task[t].due : Usable(s) => s \in task[t].todo
    BY <1>2, <2>1 DEF RevokeOK
  <2>4. \A s : Readable(task[t].home, s) <=> Usable(s)
    BY <1>0, <1>1, <2>3 DEF Readable, Usable, Redis
  <2>5. \A s \in index \ index' : s \notin cached' /\ document'[s] # "live"
    BY <2>1, <2>2, <2>4 DEF Usable
  <2>6. Moves(t)  BY <1>0, <2>1, <2>2, <2>5, RevokingMoves DEF Storing
  <2>7. HomeOK(t)' /\ StoreOK(t)' /\ ConsumeOK(t)'
    BY <1>1, <2>2 DEF HomeOK, StoreOK, ConsumeOK, Storing, Consuming, At
  <2>8. \A s \in task[t].due : Usable(s) => s \in task'[t].todo
    BY <1>2, <2>2, <2>3, <2>4 DEF RevokeOK
  <2>9. RevokeOK(t)'
    BY <1>2, <2>1, <2>2, <2>8 DEF RevokeOK, At, Usable
  <2>. QED  BY <2>6, <2>7, <2>9 DEF TaskOK
<1>. QED  BY <1>3, <1>4

LEMMA RemovingMoves ==
  ASSUME SessionInv, NEW t \in Tasks, TypeOK', NEW s \in Sids,
         RevokeDocument(t, s) \/ DropKey(t, s)
  PROVE  Moves(t) /\ TaskOK(t)'
<1>. USE SessionAssumption
<1>0. TypeOK /\ TypeOK' /\ HandedOK /\ up = Instances /\ TaskOK(t)
  BY DEF SessionInv
<1>1. ~Free(t) /\ At(t, "remove") /\ task[t].home \in Instances
  BY <1>0 DEF TaskOK, HomeOK, RevokeDocument, DropKey, At, Free
<1>2. /\ RevokeOK(t)
      /\ task[t].todo \subseteq Sids /\ task[t].half \subseteq Sids
  BY <1>0, TaskType DEF TaskOK
<1>3. CASE RevokeDocument(t, s)
  <2>1. /\ document' = [document EXCEPT ![s] = IF @ = "absent" THEN @ ELSE "gone"]
        /\ UNCHANGED << cached, index, issued, handed, up >>
        /\ s \in task[t].todo
    BY <1>3 DEF RevokeDocument
  <2>2. task' = [task EXCEPT ![t] = [task[t] EXCEPT !.todo = @ \ {s}, !.half = @ \cup {s}]]
    BY <1>3 DEF RevokeDocument, Become
  <2>3. task \in [Tasks -> TaskState]  BY <1>0 DEF TypeOK
  <2>4. /\ task'[t].pc = "remove" /\ task'[t].home = task[t].home
        /\ task'[t].keep = task[t].keep /\ task'[t].due = task[t].due
        /\ task'[t].todo = task[t].todo \ {s} /\ task'[t].half = task[t].half \cup {s}
        /\ \A u \in Tasks \ {t} : task'[u] = task[u]
    <3>. HIDE DEF SessionInv
    <3>. QED  BY <1>1, <2>2, <2>3, TaskType, <1>0 DEF TaskState, At
  <2>5. document[s] # "absent" /\ (UseRedis => s \in handed)
    BY <1>2, <2>1 DEF RevokeOK
  <2>6. document'[s] = "gone" /\ \A r \in Sids \ {s} : document'[r] = document[r]
    BY <1>0, <2>1, <2>5 DEF TypeOK
  <2>7. Moves(t)
    <3>1. \A r \in Sids : \/ document'[r] = document[r]
                          \/ /\ document[r] # "absent"
                             /\ document'[r] = "gone"
                             /\ UseRedis => r \in handed
      BY <2>5, <2>6
    <3>. QED  BY <1>0, <2>1, <2>4, <3>1, RevokingMoves DEF Storing
  <2>8. HomeOK(t)' /\ StoreOK(t)' /\ ConsumeOK(t)'
    BY <1>1, <2>4 DEF HomeOK, StoreOK, ConsumeOK, Storing, Consuming, At
  <2>9. /\ \A r \in task'[t].todo : document'[r] # "absent"
        /\ \A r \in task'[t].half : document'[r] = "gone"
    BY <1>2, <2>4, <2>6 DEF RevokeOK
  <2>10. \A r \in task[t].due : Usable(r)' => r \in task'[t].todo \cup task'[t].half
    BY <1>0, <1>1, <1>2, <2>1, <2>4, <2>6 DEF RevokeOK, Usable, At, TypeOK
  <2>11. RevokeOK(t)'
    BY <1>2, <2>1, <2>4, <2>5, <2>9, <2>10 DEF RevokeOK, At, Usable
  <2>. QED  BY <2>7, <2>8, <2>11 DEF TaskOK
<1>4. CASE DropKey(t, s)
  <2>1. /\ UNCHANGED << document, issued, handed, up >>
        /\ s \in task[t].half
        /\ UseRedis => cached' = cached \ {s} /\ index' = index \ {s}
        /\ ~UseRedis => UNCHANGED << cached, index >>
    BY <1>0, <1>1, <1>4 DEF DropKey, Redis
  <2>2. task' = [task EXCEPT ![t] = [task[t] EXCEPT !.half = @ \ {s}]]
    BY <1>4 DEF DropKey, Become
  <2>3. task \in [Tasks -> TaskState]  BY <1>0 DEF TypeOK
  <2>4. /\ task'[t].pc = "remove" /\ task'[t].home = task[t].home
        /\ task'[t].keep = task[t].keep /\ task'[t].due = task[t].due
        /\ task'[t].todo = task[t].todo /\ task'[t].half = task[t].half \ {s}
        /\ \A u \in Tasks \ {t} : task'[u] = task[u]
    <3>. HIDE DEF SessionInv
    <3>. QED  BY <1>1, <2>2, <2>3, TaskType, <1>0 DEF TaskState, At
  <2>5. document[s] = "gone" /\ s \notin cached'
    BY <1>0, <1>2, <2>1 DEF RevokeOK, HandedOK
  <2>6. Moves(t)  BY <1>0, <2>1, <2>4, <2>5, RevokingMoves DEF Storing
  <2>7. HomeOK(t)' /\ StoreOK(t)' /\ ConsumeOK(t)'
    BY <1>1, <2>4 DEF HomeOK, StoreOK, ConsumeOK, Storing, Consuming, At
  <2>8. \A r \in task[t].due : Usable(r)' => r \in task'[t].todo \cup task'[t].half
    BY <1>1, <1>2, <2>1, <2>4, <2>5 DEF RevokeOK, Usable, At
  <2>9. RevokeOK(t)'
    BY <1>2, <2>1, <2>4, <2>8 DEF RevokeOK, At, Usable
  <2>. QED  BY <2>6, <2>7, <2>9 DEF TaskOK
<1>. QED  BY <1>3, <1>4

LEMMA StepMoves ==
  ASSUME SessionInv, NEW t \in Tasks, TaskStep(t)
  PROVE  Moves(t) /\ TaskOK(t)'
<1>1. TypeOK'
  <2>1. task[t].sid \in Sids \/ ~(Storing(t) \/ Consuming(t))
    BY DEF SessionInv, TaskOK, StoreOK, ConsumeOK, TypeOK
  <2>. QED  BY <2>1, TaskStepType DEF SessionInv
<1>2. ASSUME RefuseLocked(t) \/ RevokeDone(t) \/ Fail(t)
      PROVE  Moves(t) /\ TaskOK(t)'
  <2>1. /\ task'[t] = Idle /\ \A u \in Tasks \ {t} : task'[u] = task[u]
        /\ UNCHANGED << document, cached, index, issued, handed, up >>
    BY <1>2 DEF SessionInv, TypeOK, Become, RefuseLocked, RevokeDone, Fail
  <2>. QED  BY <1>1, <2>1, IdleOK, QuietMoves DEF Storing, Idle
<1>. QED
  BY <1>1, <1>2, StoringMoves, ConsumingMoves, ListingStepMoves, RemovingMoves
  DEF TaskStep

\* Expiry and the administrator; no process loses Redis.
LEMMA EnvironmentKeeps ==
  ASSUME SessionInv, outages' = 0, Environment
  PROVE  SessionInv'
<1>. USE SessionAssumption DEF SessionInv
<1>1. TypeOK' /\ TypeOK  BY EnvironmentType
<1>2. ~ \E i \in Instances : LoseRedis(i) \/ RegainRedis(i)
  BY <1>1 DEF LoseRedis, RegainRedis, TypeOK
<1>3. /\ UNCHANGED << index, issued, handed, up, task >>
      /\ cached' \subseteq cached
      /\ \A s \in Sids : \/ document'[s] = document[s]
                         \/ s \in handed /\ document[s] # "absent" /\ document'[s] = "gone"
  BY <1>1, <1>2 DEF Environment, Enable, ExpireDocument, ExpireKey, TypeOK
<1>4. \A s \in handed : Usable(s)' => Usable(s)
  BY <1>1, <1>3 DEF Usable, TypeOK
<1>5. ASSUME NEW u \in Tasks PROVE TaskOK(u)'
  <2>1. TaskOK(u) /\ task'[u] = task[u]  BY <1>3
  <2>2. HomeOK(u)'  BY <2>1 DEF TaskOK, HomeOK, Free
  <2>3. StoreOK(u)'  BY <1>1, <1>3, <2>1 DEF TaskOK, StoreOK, Storing, At, TypeOK
  <2>4. ConsumeOK(u)'
    BY <1>1, <1>3, <2>1 DEF TaskOK, ConsumeOK, Consuming, At, TypeOK
  <2>5. RevokeOK(u)'
    <3>1. RevokeOK(u) /\ task[u].todo \subseteq Sids /\ task[u].half \subseteq Sids
      BY <1>1, <2>1, TaskType DEF TaskOK
    <3>2. /\ \A s \in task[u].todo : document'[s] # "absent"
          /\ \A s \in task[u].half : document'[s] = "gone"
      BY <1>3, <3>1 DEF RevokeOK
    <3>3. \A s \in task[u].due : Usable(s)' => Usable(s)
      BY <1>4, <3>1 DEF RevokeOK
    <3>. HIDE DEF SessionInv
    <3>. QED  BY <1>3, <2>1, <3>1, <3>2, <3>3 DEF RevokeOK, At, Usable
  <2>. QED  BY <2>2, <2>3, <2>4, <2>5 DEF TaskOK
<1>6. OneWriter'  BY <1>3 DEF OneWriter, Storing
<1>7. FreshOK'  BY <1>3 DEF FreshOK
<1>8. HandedOK'  BY <1>1, <1>3 DEF HandedOK, TypeOK
<1>9. Listed'  BY <1>3, <1>4 DEF Listed, Usable
<1>. QED  BY <1>1, <1>3, <1>5, <1>6, <1>7, <1>8, <1>9

LEMMA SessionNext ==
  ASSUME SessionInv, outages' = 0, [Next]_vars
  PROVE  SessionInv'
<1>1. CASE UNCHANGED vars
  <2>. USE <1>1 DEF vars
  <2>1. TypeOK' /\ up' = Instances  BY DEF SessionInv, TypeOK
  <2>2. \A t \in Tasks : TaskOK(t)'
    BY DEF SessionInv, TaskOK, HomeOK, StoreOK, ConsumeOK, RevokeOK, Free, At,
           Storing, Consuming, Usable
  <2>3. OneWriter' /\ FreshOK' /\ HandedOK' /\ Listed'
    BY DEF SessionInv, OneWriter, FreshOK, HandedOK, Listed, Storing, Usable
  <2>. QED  BY <2>1, <2>2, <2>3 DEF SessionInv
<1>2. ASSUME NEW t \in Tasks, NEW i \in Instances, Request(t, i) PROVE SessionInv'
  BY <1>2, RequestMoves, MovesKeep
<1>3. ASSUME NEW t \in Tasks, TaskStep(t) PROVE SessionInv'
  BY <1>3, StepMoves, MovesKeep
<1>4. CASE Environment  BY <1>4, EnvironmentKeeps
<1>. QED  BY <1>1, <1>2, <1>3, <1>4 DEF Next

LEMMA OutagesGrow ==
  ASSUME TypeOK, [Next]_vars, outages' = 0
  PROVE  outages = 0
<1>1. outages' = outages \/ outages' = outages + 1
  BY DEF Next, vars, Request, Login, ConsumeStored, ConsumeKey, MissKey, RevokeOne,
         RevokeMany, Disable, TaskStep, StoreDocument, StoreKey, ConsumeFallback,
         RevokeConsumed, UnlistConsumed, Rotate, RefuseLocked, ListSessions, ReadListed,
         RevokeDocument, DropKey, RevokeDone, Fail, Environment, Enable, ExpireDocument,
         ExpireKey, LoseRedis, RegainRedis
<1>. QED  BY <1>1 DEF TypeOK

LEMMA SessionInvariant == Spec => [](outages = 0 => SessionInv)
<1>1. Init => TypedInv /\ SessionInv
  BY SessionInit, InitType DEF TypedInv, Init, Idle, Storing, Consuming
<1>2. TypedInv /\ (outages = 0 => SessionInv) /\ [Next]_vars
        => (TypedInv /\ (outages = 0 => SessionInv))'
  BY TypedNext, OutagesGrow, SessionNext DEF TypedInv
<1>. QED  BY <1>1, <1>2, PTL DEF Spec

\* As long as no process has lost Redis, every session a client can still
\* refresh is in the index that revocations read.
THEOREM SessionsStayListed == Spec => []UsableIsListed
<1>1. (outages = 0 => SessionInv) => UsableIsListed
  BY DEF SessionInv, Listed, UsableIsListed
<1>. QED  BY <1>1, SessionInvariant, PTL

\* As long as no process has lost Redis, a logout on all devices, a password
\* change or a lock that answers has reached every session that was usable
\* when it began.
THEOREM RevocationIsComplete == Spec => []RevocationReachesBoth
<1>1. (outages = 0 => SessionInv) => RevocationReachesBoth
  BY DEF SessionInv, RevocationReachesBoth, RevocationReaches, RevocationOver, TaskOK,
         RevokeOK, At
<1>. QED  BY <1>1, SessionInvariant, PTL

\* Without Redis there is no connection to lose.
LEMMA NoOutage == ASSUME ~UseRedis PROVE Spec => [](outages = 0)
<1>1. Init => outages = 0  BY DEF Init
<1>2. outages = 0 /\ [Next]_vars => (outages = 0)'
  BY DEF Next, vars, Request, Login, ConsumeStored, ConsumeKey, MissKey, RevokeOne,
         RevokeMany, Disable, TaskStep, StoreDocument, StoreKey, ConsumeFallback,
         RevokeConsumed, UnlistConsumed, Rotate, RefuseLocked, ListSessions, ReadListed,
         RevokeDocument, DropKey, RevokeDone, Fail, Environment, Enable, ExpireDocument,
         ExpireKey, LoseRedis, RegainRedis
<1>. QED  BY <1>1, <1>2, PTL DEF Spec

\* Where the primary store alone keeps sessions, a revocation that answers has
\* reached every session that was usable when it began
\* (authService.js:148-177, 241-278).
THEOREM RevocationReachesAll == ASSUME ~UseRedis PROVE Spec => []RevocationReaches
<1>1. outages = 0 /\ RevocationReachesBoth => RevocationReaches
  BY DEF RevocationReachesBoth
<1>. QED  BY <1>1, NoOutage, RevocationIsComplete, PTL

-----------------------------------------------------------------------------
(* With any number of outages: nobody brings a revoked session back. *)

\* A session that is being stored is its writer's alone.
WriterInv ==
  /\ TypedInv
  /\ handed \subseteq issued
  /\ \A t \in Tasks : Storing(t) => task[t].sid \in issued \ handed
  /\ OneWriter

\* What a step leaves of the sessions that clients know.
StaysRevoked ==
  \A s \in handed : document[s] = "gone" /\ s \notin cached =>
                      document'[s] = "gone" /\ s \notin cached'

\* A handler that neither begins to store an old session nor hands one out.
LEMMA WriterFrame ==
  ASSUME WriterInv, TypedInv', NEW t \in Tasks,
         \A u \in Tasks \ {t} : task'[u] = task[u],
         handed' = handed, issued \subseteq issued',
         Storing(t)' => \/ Storing(t) /\ task'[t].sid = task[t].sid
                        \/ task'[t].sid \in issued' \ issued
  PROVE  WriterInv'
<1>. USE DEF WriterInv
<1>1. \A u \in Tasks : Storing(u)' => task'[u].sid \in issued' \ handed'
  BY DEF Storing
<1>2. OneWriter'  BY DEF OneWriter, Storing
<1>. QED  BY <1>1, <1>2

LEMMA WriterRequest ==
  ASSUME WriterInv, NEW t \in Tasks, NEW i \in Instances, Request(t, i)
  PROVE  WriterInv' /\ StaysRevoked
<1>. USE SessionAssumption
<1>0. TypeOK /\ TypeOK' /\ TypedInv'  BY TypedNext DEF Next, WriterInv, TypedInv
<1>1. ASSUME NEW n \in Sids, Login(t, i, n) PROVE WriterInv' /\ StaysRevoked
  <2>1. /\ task'[t] = [Idle EXCEPT !.pc = "storeDocument", !.home = i, !.sid = n]
        /\ \A u \in Tasks \ {t} : task'[u] = task[u]
        /\ n \notin issued /\ issued' = issued \cup {n}
        /\ UNCHANGED << document, cached, handed >>
    BY <1>0, <1>1 DEF Login, Become, TypeOK
  <2>2. task'[t].sid \in issued' \ issued  BY <2>1 DEF Idle
  <2>. QED  BY <1>0, <2>1, <2>2, WriterFrame DEF StaysRevoked
<1>2. ASSUME NEW s \in Sids,
             ConsumeStored(t, i, s) \/ ConsumeKey(t, i, s) \/ MissKey(t, i, s)
      PROVE  WriterInv' /\ StaysRevoked
  <2>1. WriterInv'
    <3>1. /\ task'[t].pc \in {"rotate", "consumeDocument", "consumeFallback"}
          /\ \A u \in Tasks \ {t} : task'[u] = task[u]
      <4>1. \E pc \in {"rotate", "consumeDocument", "consumeFallback"} :
              task' = [task EXCEPT ![t] = [Idle EXCEPT !.pc = pc, !.home = i, !.sid = s]]
        BY <1>2 DEF ConsumeStored, ConsumeKey, MissKey, Become
      <4>2. task \in [Tasks -> TaskState]  BY <1>0 DEF TypeOK
      <4>. QED  BY <4>1, <4>2 DEF Idle
    <3>2. UNCHANGED << handed, issued >>
      BY <1>2 DEF ConsumeStored, ConsumeKey, MissKey
    <3>. QED  BY <1>0, <3>1, <3>2, WriterFrame DEF Storing
  <2>2. StaysRevoked
    BY <1>0, <1>2 DEF ConsumeStored, ConsumeKey, MissKey, StaysRevoked, TypeOK
  <2>. QED  BY <2>1, <2>2
<1>3. ASSUME NEW s \in Sids, RevokeOne(t, i, s) PROVE WriterInv' /\ StaysRevoked
  <2>1. task'[t].pc = "remove" /\ \A u \in Tasks \ {t} : task'[u] = task[u]
    BY <1>0, <1>3 DEF RevokeOne, Become, TypeOK, Idle
  <2>. QED  BY <1>0, <1>3, <2>1, WriterFrame DEF RevokeOne, Storing, StaysRevoked
<1>4. ASSUME NEW keep \in Sids \cup {None}, BeginRevocation(t, i, keep),
             UNCHANGED << document, cached, issued, handed >>
      PROVE  WriterInv' /\ StaysRevoked
  <2>1. task'[t].pc = "list" /\ \A u \in Tasks \ {t} : task'[u] = task[u]
    BY <1>0, <1>4 DEF BeginRevocation, Become, TypeOK, Idle
  <2>. QED  BY <1>0, <1>4, <2>1, WriterFrame DEF Storing, StaysRevoked
<1>5. CASE \E keep \in Sids \cup {None} : RevokeMany(t, i, keep)
  BY <1>4, <1>5 DEF RevokeMany
<1>6. CASE Disable(t, i)  BY <1>4, <1>6 DEF Disable
<1>. QED  BY <1>1, <1>2, <1>3, <1>5, <1>6 DEF Request

LEMMA WriterStep ==
  ASSUME WriterInv, NEW t \in Tasks, TaskStep(t)
  PROVE  WriterInv' /\ StaysRevoked
<1>. USE SessionAssumption
<1>0. TypeOK /\ TypeOK' /\ TypedInv'  BY TypedNext DEF Next, WriterInv, TypedInv
<1>1. CASE StoreDocument(t)
  <2>1. Storing(t)  BY <1>1 DEF StoreDocument, At, Storing
  <2>2. task'[t].sid = task[t].sid /\ \A u \in Tasks \ {t} : task'[u] = task[u]
    BY <1>0, <1>1, GotoFields DEF StoreDocument
  <2>3. WriterInv'  BY <1>0, <1>1, <2>1, <2>2, WriterFrame DEF StoreDocument
  <2>4. StaysRevoked
    BY <1>0, <1>1, <2>1 DEF StoreDocument, StaysRevoked, WriterInv, TypeOK
  <2>. QED  BY <2>3, <2>4
<1>2. CASE StoreKey(t)
  <2>1. Storing(t) /\ task[t].sid \in issued \ handed
    BY <1>2 DEF StoreKey, At, Storing, WriterInv
  <2>2. task'[t] = Idle /\ \A u \in Tasks \ {t} : task'[u] = task[u]
    BY <1>0, <1>2 DEF StoreKey, Become, TypeOK
  <2>3. /\ handed' = handed \cup {task[t].sid}
        /\ issued' = issued /\ document' = document
        /\ cached' \subseteq cached \cup {task[t].sid}
    BY <1>2 DEF StoreKey
  <2>4. ~Storing(t)'  BY <2>2 DEF Storing, Idle
  <2>5. \A u \in Tasks : Storing(u)' => task'[u].sid \in issued' \ handed'
    BY <2>1, <2>2, <2>3, <2>4 DEF WriterInv, OneWriter, Storing
  <2>6. OneWriter'  BY <2>2, <2>4 DEF WriterInv, OneWriter, Storing
  <2>7. StaysRevoked  BY <2>1, <2>3 DEF StaysRevoked
  <2>. QED  BY <1>0, <2>1, <2>3, <2>5, <2>6, <2>7 DEF WriterInv
<1>3. CASE ConsumeFallback(t) \/ RevokeConsumed(t) \/ UnlistConsumed(t)
  <2>1. ~Storing(t)' /\ \A u \in Tasks \ {t} : task'[u] = task[u]
    <3>1. \/ Goto(t, "rotate")
          \/ Goto(t, "consumeIndex")
          \/ Become(t, Idle)
      BY <1>3 DEF ConsumeFallback, RevokeConsumed, UnlistConsumed
    <3>2. CASE Become(t, Idle)  BY <1>0, <3>2 DEF Become, TypeOK, Idle, Storing
    <3>. QED  BY <1>0, <3>1, <3>2, GotoFields DEF Storing
  <2>2. UNCHANGED << handed, issued, cached >>
    BY <1>3 DEF ConsumeFallback, RevokeConsumed, UnlistConsumed
  <2>3. StaysRevoked
    BY <1>0, <1>3
    DEF ConsumeFallback, RevokeConsumed, UnlistConsumed, StaysRevoked, TypeOK
  <2>. QED  BY <1>0, <2>1, <2>2, <2>3, WriterFrame
<1>4. ASSUME NEW n \in Sids, Rotate(t, n) PROVE WriterInv' /\ StaysRevoked
  <2>1. task' = [task EXCEPT ![t] = [task[t] EXCEPT !.pc = "storeDocument", !.sid = n]]
    BY <1>4 DEF Rotate, Become
  <2>2. task'[t].sid = n /\ \A u \in Tasks \ {t} : task'[u] = task[u]
    BY <1>0, <2>1, TaskType DEF TypeOK, TaskState
  <2>3. /\ n \notin issued /\ issued' = issued \cup {n}
        /\ UNCHANGED << document, cached, handed >>
    BY <1>4 DEF Rotate
  <2>. QED  BY <1>0, <2>2, <2>3, WriterFrame DEF StaysRevoked
<1>5. CASE RefuseLocked(t) \/ RevokeDone(t) \/ Fail(t)
  <2>1. task'[t] = Idle /\ \A u \in Tasks \ {t} : task'[u] = task[u]
    BY <1>0, <1>5 DEF RefuseLocked, RevokeDone, Fail, Become, TypeOK
  <2>2. UNCHANGED << document, cached, handed, issued >>
    BY <1>5 DEF RefuseLocked, RevokeDone, Fail
  <2>3. ~Storing(t)'  BY <2>1 DEF Storing, Idle
  <2>. QED  BY <1>0, <2>1, <2>2, <2>3, WriterFrame DEF StaysRevoked
<1>6. CASE ListSessions(t) \/ ReadListed(t)
  <2>1. ~Storing(t)' /\ \A u \in Tasks \ {t} : task'[u] = task[u]
    BY <1>0, <1>6, ListFields, ReadFields DEF Storing
  <2>2. UNCHANGED << document, cached, handed, issued >>
    BY <1>6 DEF ListSessions, ReadListed
  <2>. QED  BY <1>0, <2>1, <2>2, WriterFrame DEF StaysRevoked
<1>7. ASSUME NEW s \in Sids, RevokeDocument(t, s) \/ DropKey(t, s)
      PROVE  WriterInv' /\ StaysRevoked
  <2>1. task'[t].pc = "remove" /\ \A u \in Tasks \ {t} : task'[u] = task[u]
    <3>1. \E todo, half : task' = [task EXCEPT ![t] =
                                     [task[t] EXCEPT !.todo = todo, !.half = half]]
      <4>1. CASE RevokeDocument(t, s)  BY <4>1 DEF RevokeDocument, Become
      <4>2. CASE DropKey(t, s)
        <5>1. task' = [task EXCEPT ![t] = [task[t] EXCEPT !.half = @ \ {s}]]
          BY <4>2 DEF DropKey, Become
        <5>2. [task[t] EXCEPT !.half = @ \ {s}]
                = [task[t] EXCEPT !.todo = task[t].todo, !.half = task[t].half \ {s}]
          BY <1>0, TaskType DEF TaskState
        <5>. QED  BY <5>1, <5>2
      <4>. QED  BY <1>7, <4>1, <4>2
    <3>2. task[t].pc = "remove"  BY <1>7 DEF RevokeDocument, DropKey, At
    <3>3. task \in [Tasks -> TaskState]  BY <1>0 DEF TypeOK
    <3>. QED  BY <3>1, <3>2, <3>3 DEF TaskState
  <2>2. UNCHANGED << handed, issued >> /\ cached' \subseteq cached
    BY <1>7 DEF RevokeDocument, DropKey
  <2>3. StaysRevoked
    BY <1>0, <1>7 DEF RevokeDocument, DropKey, StaysRevoked, TypeOK
  <2>. QED  BY <1>0, <2>1, <2>2, <2>3, WriterFrame DEF Storing
<1>. QED  BY <1>1, <1>2, <1>3, <1>4, <1>5, <1>6, <1>7 DEF TaskStep

LEMMA WriterNext ==
  ASSUME WriterInv, [Next]_vars
  PROVE  WriterInv' /\ (StaysRevoked \/ UNCHANGED vars)
<1>1. CASE Environment
  <2>1. TypeOK /\ TypeOK' /\ TypedInv'
    BY <1>1, TypedNext DEF Next, WriterInv, TypedInv
  <2>2. UNCHANGED << handed, issued, task >> /\ cached' \subseteq cached
    BY <1>1 DEF Environment, Enable, ExpireDocument, ExpireKey, LoseRedis, RegainRedis
  <2>3. WriterInv'  BY <2>1, <2>2 DEF WriterInv, OneWriter, Storing
  <2>4. StaysRevoked
    BY <1>1, <2>1
    DEF Environment, Enable, ExpireDocument, ExpireKey, LoseRedis, RegainRedis,
        StaysRevoked, TypeOK
  <2>. QED  BY <2>3, <2>4
<1>2. CASE UNCHANGED vars
  BY <1>2, TypedNext DEF vars, WriterInv, OneWriter, Storing
<1>. QED  BY <1>1, <1>2, WriterRequest, WriterStep DEF Next

\* With any number of outages and of handlers that stop half-way, no handler
\* that is still running brings back a session that was revoked.
THEOREM RevocationIsFinal == Spec => RevokedIsFinal
<1>1. Init => WriterInv
  BY InitType DEF WriterInv, TypedInv, OneWriter, Init, Idle, Storing, Consuming
<1>2. WriterInv /\ [Next]_vars => WriterInv'  BY WriterNext
<1>3. WriterInv /\ [Next]_vars =>
        [\A s \in handed : document[s] = "gone" /\ s \notin cached =>
                             document'[s] = "gone" /\ s \notin cached']_<< document, cached >>
  BY WriterNext DEF StaysRevoked, vars
<1>. QED  BY <1>1, <1>2, <1>3, PTL DEF Spec, RevokedIsFinal
=============================================================================
