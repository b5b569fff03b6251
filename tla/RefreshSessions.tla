--------------------------- MODULE RefreshSessions ---------------------------
(***************************************************************************)
(* The device sessions of one account (server/services/authService.js):    *)
(* login, rotation of the refresh token, and revocation of one session, of *)
(* the others or of all.                                                   *)
(*                                                                         *)
(* A session has a document in the primary store.  That store is MongoDB,  *)
(* or the process's sessions map when there is no MongoDB; both offer the  *)
(* same atomic operations, and beside MongoDB the map is written and never *)
(* read.  With Redis a session also has a key, and its id is in the        *)
(* account's index.  Every await is a point where other handlers run.      *)
(***************************************************************************)
EXTENDS Naturals, FiniteSets

CONSTANTS
  Sids,         \* session ids
  Instances,    \* server processes
  Tasks,        \* slots for handlers in progress (bounds concurrency)
  UseRedis,     \* sessions are mirrored in Redis
  MaxOutages,   \* bound on the losses of a process's Redis connection
  MaxFailures,  \* bound on the handlers that stop half-way
  None          \* no session, no process

ASSUME SessionAssumption ==
  /\ UseRedis \in BOOLEAN
  /\ MaxOutages \in Nat
  /\ MaxFailures \in Nat
  /\ None \notin Sids
  /\ None \notin Instances

VARIABLES
  document,   \* [Sids -> "absent", "live" or "gone" (revoked or expired)]
  cached,     \* the session keys in Redis
  index,      \* the account's set of session ids in Redis
  issued,     \* ids drawn so far
  handed,     \* sessions whose token a client has received
  parent,     \* the session a session was rotated from
  disabled,   \* an administrator has locked the account
  up,         \* processes whose Redis connection is ready
  task,       \* the handlers in progress
  outages,    \* number of connection losses so far
  failures    \* number of handlers that stopped half-way so far

vars == << document, cached, index, issued, handed, parent, disabled, up, task,
           outages, failures >>

-----------------------------------------------------------------------------
Documents == {"absent", "live", "gone"}

Pcs == {"idle", "storeDocument", "storeKey", "consumeFallback",
        "consumeDocument", "consumeIndex", "rotate", "list", "readListed",
        "remove"}

TaskState ==
  [pc   : Pcs,
   home : Instances \cup {None},  \* the process that runs it
   sid  : Sids \cup {None},       \* the session it stores or consumes
   keep : Sids \cup {None},       \* the session a revocation spares
   todo : SUBSET Sids,            \* sessions still to be revoked
   half : SUBSET Sids,            \* revoked in the primary store only
   due  : SUBSET Sids]            \* what a revocation owes when it is done

Idle == [pc |-> "idle", home |-> None, sid |-> None, keep |-> None,
         todo |-> {}, half |-> {}, due |-> {}]

Free(t)          == task[t].pc = "idle"
At(t, pc)        == task[t].pc = pc
Become(t, state) == task' = [task EXCEPT ![t] = state]
Goto(t, pc)      == Become(t, [task[t] EXCEPT !.pc = pc])

\* redisClient(): Redis is configured and this process is connected to it.
Redis(i) == UseRedis /\ i \in up

\* readSession finds session s from process i.
Readable(i, s) == (Redis(i) /\ s \in cached) \/ document[s] = "live"

\* Some process would still rotate session s.
Usable(s) == s \in cached \/ document[s] = "live"

Init ==
  /\ document = [s \in Sids |-> "absent"]
  /\ cached = {}
  /\ index = {}
  /\ issued = {}
  /\ handed = {}
  /\ parent = [s \in Sids |-> None]
  /\ disabled = FALSE
  /\ up = Instances
  /\ task = [t \in Tasks |-> Idle]
  /\ outages = 0
  /\ failures = 0

-----------------------------------------------------------------------------
(* login, register, and the store of a new session *)

LoginSwapped(t, i, n) ==                                            \* mutant
  /\ Free(t)
  /\ ~disabled
  /\ n \notin issued
  /\ issued' = issued \cup {n}
  /\ Become(t, [Idle EXCEPT !.pc = "storeDocument", !.home = n, !.sid = i])
  /\ UNCHANGED << document, cached, index, handed, parent, disabled, up,
                  outages, failures >>

\* The password is right and the account is not locked: a session is drawn.
Login(t, i, n) ==
  /\ Free(t)
  /\ ~disabled
  /\ n \notin issued
  /\ issued' = issued \cup {n}
  /\ Become(t, [Idle EXCEPT !.pc = "storeDocument", !.home = i, !.sid = n])
  /\ UNCHANGED << document, cached, index, handed, parent, disabled, up,
                  outages, failures >>

AnswerEarly(t) ==                                                   \* mutant
  /\ At(t, "storeDocument")
  /\ document' = [document EXCEPT ![task[t].sid] = "live"]
  /\ handed' = handed \cup {task[t].sid}
  /\ Goto(t, "storeKey")
  /\ UNCHANGED << cached, index, issued, parent, disabled, up, outages,
                  failures >>

\* storeSession upserts the document as not revoked ...
StoreDocument(t) ==
  /\ At(t, "storeDocument")
  /\ document' = [document EXCEPT ![task[t].sid] = "live"]
  /\ Goto(t, "storeKey")
  /\ UNCHANGED << cached, index, issued, handed, parent, disabled, up, outages,
                  failures >>

StoreUnlisted(t) ==                                                 \* mutant
  /\ At(t, "storeKey")
  /\ cached' = IF Redis(task[t].home) THEN cached \cup {task[t].sid} ELSE cached
  /\ handed' = handed \cup {task[t].sid}
  /\ Become(t, Idle)
  /\ UNCHANGED << document, index, issued, parent, disabled, up, outages,
                  failures >>

\* ... and then, in one transaction, the key and its index entry.  The tokens
\* go out with the answer.
StoreKey(t) ==
  /\ At(t, "storeKey")
  /\ IF Redis(task[t].home)
       THEN cached' = cached \cup {task[t].sid} /\ index' = index \cup {task[t].sid}
       ELSE UNCHANGED << cached, index >>
  /\ handed' = handed \cup {task[t].sid}
  /\ Become(t, Idle)
  /\ UNCHANGED << document, issued, parent, disabled, up, outages, failures >>

-----------------------------------------------------------------------------
(* refresh: consumeSession, then a successor *)

ReadThenRevoke(t, i, s) ==                                          \* mutant
  /\ Free(t)
  /\ ~Redis(i)
  /\ s \in handed
  /\ document[s] = "live"
  /\ Become(t, [Idle EXCEPT !.pc = "consumeDocument", !.home = i, !.sid = s])
  /\ UNCHANGED << document, cached, index, issued, handed, parent, disabled, up,
                  outages, failures >>

\* Without Redis the document is revoked and returned atomically.
ConsumeStored(t, i, s) ==
  /\ Free(t)
  /\ ~Redis(i)
  /\ s \in handed
  /\ document[s] = "live"
  /\ document' = [document EXCEPT ![s] = "gone"]
  /\ Become(t, [Idle EXCEPT !.pc = "rotate", !.home = i, !.sid = s])
  /\ UNCHANGED << cached, index, issued, handed, parent, disabled, up, outages,
                  failures >>

\* With Redis the key is taken and deleted atomically ...
ConsumeKey(t, i, s) ==
  /\ Free(t)
  /\ Redis(i)
  /\ s \in handed \cap cached
  /\ cached' = cached \ {s}
  /\ Become(t, [Idle EXCEPT !.pc = "consumeDocument", !.home = i, !.sid = s])
  /\ UNCHANGED << document, index, issued, handed, parent, disabled, up,
                  outages, failures >>

\* ... or, when there is none, the document is tried.
MissKey(t, i, s) ==
  /\ Free(t)
  /\ Redis(i)
  /\ s \in handed \ cached
  /\ Become(t, [Idle EXCEPT !.pc = "consumeFallback", !.home = i, !.sid = s])
  /\ UNCHANGED << document, cached, index, issued, handed, parent, disabled, up,
                  outages, failures >>

ConsumeFallback(t) ==
  /\ At(t, "consumeFallback")
  /\ IF document[task[t].sid] = "live"
       THEN /\ document' = [document EXCEPT ![task[t].sid] = "gone"]
            /\ Goto(t, "rotate")
       ELSE UNCHANGED document /\ Become(t, Idle)
  /\ UNCHANGED << cached, index, issued, handed, parent, disabled, up, outages,
                  failures >>

\* The document of a key that was taken is revoked, whatever it says ...
RevokeConsumed(t) ==
  /\ At(t, "consumeDocument")
  /\ document' = [document EXCEPT ![task[t].sid] = "gone"]
  /\ Goto(t, "consumeIndex")
  /\ UNCHANGED << cached, index, issued, handed, parent, disabled, up, outages,
                  failures >>

\* ... and its index entry removed; an error here refuses the refresh.
UnlistConsumed(t) ==
  /\ At(t, "consumeIndex")
  /\ IF task[t].home \in up
       THEN index' = index \ {task[t].sid} /\ Goto(t, "rotate")
       ELSE UNCHANGED index /\ Become(t, Idle)
  /\ UNCHANGED << document, cached, issued, handed, parent, disabled, up,
                  outages, failures >>

\* The account is read and a successor is drawn ...
Rotate(t, n) ==
  /\ At(t, "rotate")
  /\ ~disabled
  /\ n \notin issued
  /\ issued' = issued \cup {n}
  /\ parent' = [parent EXCEPT ![n] = task[t].sid]
  /\ Become(t, [task[t] EXCEPT !.pc = "storeDocument", !.sid = n])
  /\ UNCHANGED << document, cached, index, handed, disabled, up, outages,
                  failures >>

\* ... unless it is locked.
RefuseLocked(t) ==
  /\ At(t, "rotate")
  /\ disabled
  /\ Become(t, Idle)
  /\ UNCHANGED << document, cached, index, issued, handed, parent, disabled, up,
                  outages, failures >>

-----------------------------------------------------------------------------
(* Revocation *)

\* logout and revokeSession: one session that is still there.
RevokeOne(t, i, s) ==
  /\ Free(t)
  /\ s \in handed
  /\ Readable(i, s)
  /\ Become(t, [Idle EXCEPT !.pc = "remove", !.home = i, !.todo = {s},
                            !.due = {s}])
  /\ UNCHANGED << document, cached, index, issued, handed, parent, disabled, up,
                  outages, failures >>

\* revokeUserSessions, sparing a session or none.
BeginRevocation(t, i, keep) ==
  Become(t, [Idle EXCEPT !.pc = "list", !.home = i, !.keep = keep,
                         !.due = {s \in handed : Usable(s)} \ {keep}])

\* logout on all devices, password reset (nothing spared); logoutOthers and a
\* password change, which spare the session of the request.
RevokeMany(t, i, keep) ==
  /\ Free(t)
  /\ keep # None => keep \in handed /\ Readable(i, keep)
  /\ BeginRevocation(t, i, keep)
  /\ UNCHANGED << document, cached, index, issued, handed, parent, disabled, up,
                  outages, failures >>

\* An administrator locks the account, which revokes all its sessions ...
Disable(t, i) ==
  /\ Free(t)
  /\ ~disabled
  /\ disabled' = TRUE
  /\ BeginRevocation(t, i, None)
  /\ UNCHANGED << document, cached, index, issued, handed, parent, up, outages,
                  failures >>

\* ... or unlocks it.
Enable ==
  /\ disabled
  /\ disabled' = FALSE
  /\ UNCHANGED << document, cached, index, issued, handed, parent, up, task,
                  outages, failures >>

\* sessionsForUser: the live documents or, with Redis, the index ...
ListSessions(t) ==
  /\ At(t, "list")
  /\ Become(t, IF Redis(task[t].home)
       THEN [task[t] EXCEPT !.pc = "readListed", !.todo = index]
       ELSE [task[t] EXCEPT !.pc = "remove",
               !.todo = {s \in Sids : document[s] = "live"} \ {task[t].keep}])
  /\ UNCHANGED << document, cached, index, issued, handed, parent, disabled, up,
                  outages, failures >>

ListCachedOnly(t) ==                                                \* mutant
  /\ At(t, "readListed")
  /\ Become(t, [task[t] EXCEPT !.pc = "remove",
                               !.todo = (@ \cap cached) \ {task[t].keep}])
  /\ UNCHANGED << document, cached, index, issued, handed, parent, disabled, up,
                  outages, failures >>

\* ... whose entries are read one by one; unreadable ones leave the index.
ReadListed(t) ==
  /\ At(t, "readListed")
  /\ LET i     == task[t].home
         found == {s \in task[t].todo : Readable(i, s)}
         stale == task[t].todo \ found
     IN  IF stale # {} /\ i \notin up
           THEN UNCHANGED index /\ Become(t, Idle)
           ELSE /\ index' = index \ stale
                /\ Become(t, [task[t] EXCEPT !.pc = "remove",
                                             !.todo = found \ {task[t].keep}])
  /\ UNCHANGED << document, cached, issued, handed, parent, disabled, up,
                  outages, failures >>

KeyIsEnough(t, s) ==                                                \* mutant
  /\ At(t, "remove")
  /\ s \in task[t].todo
  /\ Become(t, [task[t] EXCEPT !.todo = @ \ {s}, !.half = @ \cup {s}])
  /\ UNCHANGED << document, cached, index, issued, handed, parent, disabled, up,
                  outages, failures >>

\* removeSession, for every listed session at once: the document ...
RevokeDocument(t, s) ==
  /\ At(t, "remove")
  /\ s \in task[t].todo
  /\ document' = [document EXCEPT ![s] = IF @ = "absent" THEN @ ELSE "gone"]
  /\ Become(t, [task[t] EXCEPT !.todo = @ \ {s}, !.half = @ \cup {s}])
  /\ UNCHANGED << cached, index, issued, handed, parent, disabled, up, outages,
                  failures >>

\* ... and then its key and index entry in one transaction.
DropKey(t, s) ==
  /\ At(t, "remove")
  /\ s \in task[t].half
  /\ IF Redis(task[t].home)
       THEN cached' = cached \ {s} /\ index' = index \ {s}
       ELSE UNCHANGED << cached, index >>
  /\ Become(t, [task[t] EXCEPT !.half = @ \ {s}])
  /\ UNCHANGED << document, issued, handed, parent, disabled, up, outages,
                  failures >>

RevocationOver(t) == At(t, "remove") /\ task[t].todo = {} /\ task[t].half = {}

RevokeDone(t) ==
  /\ RevocationOver(t)
  /\ Become(t, Idle)
  /\ UNCHANGED << document, cached, index, issued, handed, parent, disabled, up,
                  outages, failures >>

-----------------------------------------------------------------------------
(* Expiry, failures, outages *)

\* expiresAt passes: the queries no longer match the document.
ExpireDocument(s) ==
  /\ s \in handed
  /\ document[s] = "live"
  /\ document' = [document EXCEPT ![s] = "gone"]
  /\ UNCHANGED << cached, index, issued, handed, parent, disabled, up, task,
                  outages, failures >>

\* The lifetime of the key starts later, so it ends later.
ExpireKey(s) ==
  /\ s \in cached
  /\ document[s] = "gone"
  /\ cached' = cached \ {s}
  /\ UNCHANGED << document, index, issued, handed, parent, disabled, up, task,
                  outages, failures >>

\* A store rejects a command or the process dies: a handler stops half-way.
Fail(t) ==
  /\ ~Free(t)
  /\ failures < MaxFailures
  /\ failures' = failures + 1
  /\ Become(t, Idle)
  /\ UNCHANGED << document, cached, index, issued, handed, parent, disabled, up,
                  outages >>

\* Process i loses its Redis connection, and goes on without ...
LoseRedis(i) ==
  /\ UseRedis
  /\ i \in up
  /\ outages < MaxOutages
  /\ outages' = outages + 1
  /\ up' = up \ {i}
  /\ UNCHANGED << document, cached, index, issued, handed, parent, disabled,
                  task, failures >>

\* ... until a retry succeeds.
RegainRedis(i) ==
  /\ i \in Instances \ up
  /\ up' = up \cup {i}
  /\ UNCHANGED << document, cached, index, issued, handed, parent, disabled,
                  task, outages, failures >>

-----------------------------------------------------------------------------
\* Requests of the account's owner and of an administrator.
Request(t, i) ==
  \/ \E n \in Sids : Login(t, i, n)
  \/ \E s \in Sids : \/ ConsumeStored(t, i, s)
                     \/ ConsumeKey(t, i, s)
                     \/ MissKey(t, i, s)
                     \/ RevokeOne(t, i, s)
  \/ \E keep \in Sids \cup {None} : RevokeMany(t, i, keep)
  \/ Disable(t, i)

\* The segments of a handler that is already running.
TaskStep(t) ==
  \/ StoreDocument(t)
  \/ StoreKey(t)
  \/ ConsumeFallback(t)
  \/ RevokeConsumed(t)
  \/ UnlistConsumed(t)
  \/ \E n \in Sids : Rotate(t, n)
  \/ RefuseLocked(t)
  \/ ListSessions(t)
  \/ ReadListed(t)
  \/ \E s \in Sids : RevokeDocument(t, s) \/ DropKey(t, s)
  \/ RevokeDone(t)
  \/ Fail(t)

Environment ==
  \/ Enable
  \/ \E s \in Sids : ExpireDocument(s) \/ ExpireKey(s)
  \/ \E i \in Instances : LoseRedis(i) \/ RegainRedis(i)

Next ==
  \/ \E t \in Tasks, i \in Instances : Request(t, i)
  \/ \E t \in Tasks : TaskStep(t)
  \/ Environment

Spec == Init /\ [][Next]_vars

-----------------------------------------------------------------------------
(* Properties *)

\* Every variable keeps the shape the code gives it.
TypeOK ==
  /\ document \in [Sids -> Documents]
  /\ cached \subseteq Sids
  /\ index \subseteq Sids
  /\ issued \subseteq Sids
  /\ handed \subseteq Sids
  /\ parent \in [Sids -> Sids \cup {None}]
  /\ disabled \in BOOLEAN
  /\ up \subseteq Instances
  /\ task \in [Tasks -> TaskState]
  /\ outages \in 0 .. MaxOutages
  /\ failures \in 0 .. MaxFailures

\* A session is rotated at most once, however often and from wherever its
\* token is presented: one login stays one entry in the list of devices.
SingleRotation ==
  \A m, n \in Sids : parent[m] = parent[n] /\ parent[m] # None => m = n

\* Every session a client can still refresh is in the account's index, where
\* logout on all devices, a password change and a lock look for sessions, as
\* long as no process has lost Redis.
UsableIsListed ==
  UseRedis /\ outages = 0 => \A s \in handed : Usable(s) => s \in index

\* A session a client knows that is gone from both stores never comes back,
\* whatever connections are lost.
RevokedIsFinal ==
  [][\A s \in handed : document[s] = "gone" /\ s \notin cached =>
                         document'[s] = "gone" /\ s \notin cached']_<< document, cached >>

\* When a revocation answers, every session that was usable when it began,
\* the spared one excepted, is unusable.
RevocationReaches ==
  \A t \in Tasks : RevocationOver(t) => \A s \in task[t].due : ~Usable(s)

\* ... in both stores, as long as no process has lost Redis.
RevocationReachesBoth == outages = 0 => RevocationReaches
=============================================================================
