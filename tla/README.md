# Verification of doan-chat (Lumina Chat)

TLA+ modules, TLC runs and TLAPS proofs about the server and the client of the
chat application in this repository. Paths below are relative to the repository.

## 1. The system

Lumina Chat is an Express and Socket.IO server with a React client. The server
keeps its data in memory (demo), or in MongoDB when it is connected; Redis, when
configured, shares sessions and socket rooms between several server processes.
The data service (`server/services/dataService.js`) is a facade: every operation
either works on arrays in memory or calls `mongoDataService.js`.

What makes the system hard is the same everywhere. A handler is an async
function: between two awaits nothing else runs in its process, and at an await
anything may. Over memory every await settles in the microtask queue, so a
handler runs to completion and the code is sequential. Over MongoDB each await is
a real suspension, and code that reads, decides and writes is exposed. With Redis
there are several processes on top of that, each with its own maps and timers.

### Inventory

| Component | State | Operations | Hard part |
|---|---|---|---|
| Call signalling (`server/sockets/index.js`) | `activeCalls`, `callTimers`, session keys in Redis, two history records per call | call:start, accept, reject, end, ring timer, disconnect sweep | handlers that finish the same call; timers; two processes; crashes |
| Presence (`server/sockets/index.js`, `moderationController.js`) | rooms, `pendingOffline`, stored `isOnline`, `disabled` | connect, disconnect, grace timer, login, logout, lock | the grace timer racing a reconnection; a lock racing a handshake |
| Refresh sessions (`authService.js`) | `sessions` map, `RefreshSession` documents, Redis keys and index | login, refresh (rotation), logout, revoke one / others / all | one token used twice; a refresh in flight during a revocation; two stores |
| One-time codes (`authService.js`) | `otpStore`, Redis keys | register, issue, verify | read-modify-write of the attempt counter; deletions of an entry that is not one's own |
| Relationships (`dataService.js`, `mongoDataService.js`) | friendships, blocks | request, accept, decline, cancel, remove, block, unblock | accept racing block or cancel |
| Messages | messages, their delivery state, reactions, pins | send, deliver, read, edit, delete, react, pin | retried sends; delivered after read; lost updates |
| Conversations and groups | participants, admins, direct key, socket rooms | create, add, remove, promote, leave, join | concurrent membership changes; who still listens |
| Uploads | upload records, files, links | upload, use, release, clean up | quota and clean-up check, then act; failures after the file is written |
| Stories, reports | their records | create, view, file, review | checks read one after the other; an open report per item |
| Visibility | settings, claims of uploads | answers, downloads, receipts | two rules for one file in two places |
| Notifications, settings, profiles | their records | mark read, merge | lost updates |
| Legacy migration (`legacyMigrationService.js`, `migrateLegacyMongo.js`) | documents still to be written | build plan, write, stop | duplicates, newer record wins, references; a stop half-way |
| Server process (`server.js`, `config/`, `healthService.js`) | store mode, connections, demo data | start, outage, readiness, shutdown | what is served while MongoDB is away; the order of closing |
| Client timeline (`useRealtime.js`, `ChatPanel.jsx`) | query cache | optimistic send, socket events, refetch | late answers after newer events |
| Composer (`Composer.jsx`, `ChatPanel.jsx`) | draft, uploads, recorder, send under way | type, attach, record, send, switch | the user moves on while a send, an upload or a recording waits |
| Client session (`api.js`, `authStore.js`) | user, access token, cookie | sign in, single-flight refresh | refusals that arrive after a renewal; two tabs |
| Call window (`CallOverlay.jsx`) | streams, peer connection, listeners | show, prepare media, switch device, end | the device answers after the call is over |
| Pages, HTTP surface, scripts | none that handlers share | rendering, routing, seeding | |

### What makes each component correct

* Call signalling: the two histories of a call agree and follow one life cycle;
  an unanswered call stops ringing; an answered call ends when a participant is
  gone; a finished call is not rewritten.
* Presence: a user with a socket is stored online; a user gone for longer than
  the grace period is stored offline; a locked user has no socket.
* Refresh sessions: a session is rotated at most once; a revoked session never
  comes back; every usable session is listed, so it can be revoked.
* Relationships: at most one active friendship per pair; none under a block.
* Messages: a retried send makes one message; delivery state only advances.
* One-time codes: a used or replaced code stays dead, guesses are limited.
* Groups: administrators are participants, every non-empty group has one; a
  member who left stays out.
* Uploads: a record has its file, a link its record, the quota holds.
* Stories, visibility: who views had access; what is named can be opened; a receipt
  that is withheld is not given away.
* Migration: pairs stay single, and the users and conversations a written document
  refers to are written, wherever the script stops.
* Server process: what it answers is what it is set up to serve.
* Client: a message goes where it was sent, is shown once and as sent only when it was stored; a tab is signed out for a cause;
  a microphone runs only for the call that is shown.

## 2. Modules

| Module | Models | Composed with |
|---|---|---|
| `CallSignalling` | call sessions, timers, handlers, history records, disconnects, blocks, crashes, processes that lose Redis | refines `CallHistory` |
| `CallHistory` | what two users may see of a call (abstract) | |
| `CallSignallingProofs` | theorems about `CallSignalling` in every deployment | |
| `CallMemoryProofs` | theorems about `CallSignalling` without MongoDB and Redis, the refinement among them | |
| `RefreshSessions` | the device sessions of one account in one or two stores | |
| `RefreshSessionsProofs` | theorems about `RefreshSessions` | |
| `Relationships` | friend requests, friendships, blocks over both stores | |
| `RelationshipsProofs` | theorems about `Relationships` | |
| `Messages` | sends with the client's retries, delivery, reading and changes of messages | |
| `MessagesProofs` | theorems about `Messages` | |
| `Presence` | the stored online flag of a user, grace timers, an administrator's lock | `MCParts` |
| `OneTimeCodes` | the codes of one address in the process or in Redis | `MCParts` |
| `Groups` | membership and administration of a group, its room, direct conversations | `MCParts` |
| `Uploads` | files, records, links and quota of one owner, the clean-up | `MCParts` |
| `Reports` | the reports of one user about one item | `MCParts` |
| `Stories` | one owner's stories and one viewer | `MCParts` |
| `Visibility` | what one user is shown of another, files and receipts | `MCParts` |
| `LegacyMigration` | the migration plan and the script that writes it | `MCParts` |
| `Lifecycle` | a server process from start to exit, outages, readiness | `MCParts` |
| `CallOverlay` | the client's call window | `MCParts` |
| `ClientTimeline` | the messages a tab shows | `MCParts` |
| `Composer` | what a user writes, attaches, records and sends, from one conversation to another | `MCParts` |
| `ClientSession` | the tabs of a browser and their refresh cookie | `MCParts` |
| `MCParts` | the components above and `Relationships` in one run | |
| `ServerPartsProofs` | theorems about `Groups`, `Reports`, `Stories`, `Visibility`, `OneTimeCodes`, `Presence`, `Uploads`, `LegacyMigration` | |
| `ClientPartsProofs` | theorems about `CallOverlay`, `ClientTimeline`, `Composer`, `ClientSession`, and `Lifecycle` | |
| `PartsProofs` | the promises that `MCParts` names, as theorems of its specification | `MCParts`, `RelationshipsProofs`, the two above |
| `MCCallMemory`, `MCCallMongo`, `MCRefreshSessions`, `MCRelationships`, `MCMessages` | constants and symmetry for TLC | |

The modules of the server describe a handler in the same way. `task` (`request`,
`job`, `check`, `look` in the smaller ones) has one slot per handler
in progress; a handler's `pc` names the await it is suspended at, and one action
is what the handler runs between two awaits. Two parallel requests
(`Promise.all`) are two actions in either order. The number of slots bounds the
concurrency that TLC explores; the theorems do not depend on it.

`store` says in most modules whether the data is in memory, where a handler runs to
completion, or in MongoDB, where it stops at every await. It is chosen in the
initial state, so that one run and one proof cover both, and a property that the
code keeps over memory only says so.

Definitions whose line ends in `\* mutant` are faulty variants of the definition
next to them (a dropped guard, a swapped order). They are part of no specification
and serve to show that a property notices the fault.

### Call signalling

* `local`, `timer`, `offlineDue` are `activeCalls`, `callTimers` and
  `pendingOffline` of `server/sockets/index.js`, `shared` the session keys in
  Redis, `record` the two documents that `createCall` and `updateCall` keep.
* `CallStart` to `ArmCallTimeout` are `call:start`; `AcceptRequest`,
  `AcceptAnswer`, `UpdateRecord`, `AcceptStore` are `call:accept`; reject, end, the
  timer callback and the disconnect sweep meet in `BeginFinish`, `UpdateRecord`,
  `FinishDone` (`finishCall`).
* `Suspended` says at which `pc` a handler gives up the event loop: nowhere over
  memory, at accesses to the history, a conversation or a block with MongoDB, and
  at every access to a session too with Redis.
* Without Redis a session is one JavaScript object. `AcceptAnswer` therefore
  changes `accepted` in the map and in every handler that has read it; with Redis
  each read parses a copy.
* `linked` are the processes whose `redisClient()` is not null: it may be lost and come
  back at any time (`LoseRedis`, `RegainRedis`). Without it a process reads, stores,
  removes and lists in its own map alone, so that a call ended meanwhile leaves its key.
  `orphaned` is history: the keys whose holder crashed or removed its session without
  Redis. They are the exception of `SharedHasOwner`, and stay until they expire or a
  process that sees them ends the call.
* Blocks only matter as a guard here; they are added and removed at any time.
* Two abstractions make the model smaller. Without Redis the sub-awaits of
  `readActiveCall` and `storeActiveCall` settle at once and are one step with the
  segment that follows; with Redis a read takes effect in one step with the start
  of its handler, and a store in one step with the segment before it.
  The conversation and the block of an accept or a
  reject are read in one step with what follows. WebRTC offers, answers
  and candidates are relayed and change nothing.
* `CallHistory` promises that the two records of a call move together:
  unplaced, ringing, answered, then one of the three endings. It includes
  "answered to missed", which is what the code does when the ring timer
  fires after an answer. `HistoryOf` shows a handler's two writes as one, at the
  second.

### Refresh sessions

* `document` is a session in the primary store (the `RefreshSession` documents, or
  the `sessions` map without MongoDB: both find and revoke in one atomic step),
  `cached` and `index` are the Redis keys and the account's set of ids.
* `ConsumeStored`, or `ConsumeKey`/`RevokeConsumed`/`UnlistConsumed`, or
  `MissKey`/`ConsumeFallback` are the three ways through `consumeSession`;
  `Rotate`, `StoreDocument`, `StoreKey` give the successor. `ListSessions`,
  `ReadListed`, `RevokeDocument`, `DropKey` are `revokeUserSessions`.
* Only tokens that were handed out are presented (`handed`), and a token that
  leads to nothing changes nothing, so it is no action.
* Redis is modelled beside MongoDB; with Redis and no MongoDB the map plays the
  part of the documents only within its process, which is not a deployment the
  documentation names.

### Relationships

* `friendship`, `blocks` are the two collections; `latest` stands for the order of
  `updatedAt` as far as the code asks for it: the record of each pair that sorts
  first. Two updates of one pair are taken to have different times.
* Every action is `friendAction` (the block check), then a read, then a write,
  for both stores; `CanStart` makes handlers follow each other over memory.
  Over MongoDB `CreateRequest` and `Answer` are subject to the partial unique
  index of `models/Friendship.js`, and a refused write answers with an error.
* `Block` is one step inside a transaction, two without.

### Messages

* `outbox` is what `ChatPanel.jsx` shows of a send, `requests` the HTTP requests on
  their way. `Post` is `queueMessage` and the "Retry" button, `RequestFails` the
  automatic retries of the mutation. A request may be lost or arrive late (the
  client gives up after its timeout), and so may its answer (`Respond`).
* `Create`, `FindExisting`, `Insert`, `TouchConversation`, `FinishCreate` are the
  controller's `create` with `createMessage` and `markMessageDelivered`. The
  message and the conversation it belongs to are written together in memory and in
  a transaction (`store` is "memory", "replica"), one after the other on a MongoDB
  without transactions ("mongo"). `store` is chosen once, so that one run and one
  proof cover the three.
* `Change` and `WriteChange` are `updateMessage`, `deleteMessage` for everyone
  ("unsend") and for oneself ("hide"), `reactToMessage` and `togglePinnedMessage`:
  read and decision, then the write, which over MongoDB sets whole fields. `Read`
  and `MarkRead` are `markConversationRead`.
* Access to the conversation is taken for granted (the participants are fixed). The
  block is read in one step with what the handler reads of the message, and whether
  a recipient is online at delivery is left open. Notifications, socket events,
  attachment claims and the form of an answer are left out.
* The invariants about sending and delivery are stated for every store;
  `UnsentIsEmpty` and `MarksStay` only over memory. Over MongoDB an edit that was
  decided before an unsend restores the text, and of two reactions written at once
  one is lost: the document is read, changed and saved.

### Presence

* `flag` is the stored `isOnline`, with the reason it was last written; `phase` is the
  progress of each connection's handler, `room` the sockets that `fetchSockets`
  finds, `grace` and `pending` the 750 ms timers and `pendingOffline`.
* `Lock` is `updateUserStatus` with `disconnectUserSockets`; sockets whose
  handshake found the user enabled and that join later are `crossing`.
* `FlagFollowsSockets` names what the code leaves open: over MongoDB the flag may be
  wrong while a handler or timer is under way, and a socket that closed before
  its disconnect handler was installed (`missed`) leaves no timer behind.

### One-time codes

* `entry` is the entry of `otpStore` or the Redis key. In the process it is one object,
  so reading, counting and storing are one step; with Redis `PutBack` writes the
  entry that was read.
* `guesses`, `dead` and `sent` are history. Over Redis neither promise holds: guesses at
  once share one increment, and a wrong guess may put back an entry that was used up.

### Groups

* Over MongoDB `AskUpdate` is the controller's reading and `validateGroupMembers`,
  `Recheck` the second reading in `updateConversation`, `Write` the replacement of
  both lists and the removal of sockets. Leaving decides in `AskLeave`.
* Over MongoDB a member who is removed may come back by a stale list and a socket may
  join the room after its user left: `GroupIsGoverned` promises participants and
  listeners over memory only, administrators everywhere.

### Uploads

* Multer has written the file when `uploadFiles` starts; `WithinQuota`, `Register`,
  `Audited` and their failures follow. `Use` is the look at the record,
  `StoreUse` the link.
* The clean-up reads its candidates once and then takes one after another; `late` are
  files that were taken into use when it had decided on them, `unaudited` files
  that went although their records were stored. Both are excused by name in
  `FilesMatchRecords`, as is a quota exceeded by uploads that ran at once.

### Reports, stories, visibility

* `Reports`: over MongoDB the check and the insertion are two steps, and the partial
  unique index decides; over memory an administrator may open an old report again.
* `Stories`: over MongoDB `viewStory` reads the story, the block, the friendship, and
  then updates. `access` remembers who might have seen what, computed apart from
  `canAccessStory`. There an accept is a look and a later write by id alone, and a block
  is written before it closes the friendships (`due`), so that the two may be friends
  under a block, as in `relationships_block_race`. `crossed` are the stories a view was
  at the friendship of when an accept was written under a block: their viewers may
  never have had access, which `ViewersHadAccess` excuses for stories shown to friends.
* `Visibility`: `Named` are the files that answers mention, `adminAnswers` those of the
  administrators' lists, `canUserReadUpload` is the rule of the download. `stories` is a
  sequence: one medium may be posted in several stories with different audiences, and
  the download asks only the first one found (`FoundStory`; over MongoDB any of them). A
  medium that another story keeps from the viewer may so be named and refused.
  `open` remembers that a receipt was to be seen.

### Legacy migration

* A document is its references. `buildLegacyMigrationPlan` is a set of operators;
  `Apply` plans, `Write` writes any document of the collection whose turn it is,
  `Stop` ends the script at any point. It runs again only if nothing was written.
* References to users and conversations (`refs`) are resolved by the plan and written
  earlier. What a document says of messages and items (`cites`: `lastMessage`, `replyTo`,
  `forwardedFrom`, a notification's `entityId`) is copied without a look: it may name
  a message that is written later, or that the plan leaves out for ever. `MigrationIsSound`
  promises of it only that what the plan has is there once the script is done.
* The unique index of e-mail addresses is not among the promises: nothing compares two
  legacy addresses, and `Stop` stands for the script failing on it.

### Server process

* `link` and `up` separate a service that answers from one the process is connected to.
  `databaseReady` turns false when the connection is lost, and a request
  then works on the memory store; `data` says what it finds there.
* `Begin`, `Operate` and `Respond` are a handler of several operations, `Ask` and
  `Ping` the readiness check, `Signal` to `Force` the shutdown.
* `server.close` waits for connections and for nothing else. A handler says whether a client
  `waiting` on a connection belongs to it; the handlers of socket events and timers have
  none, and a client may go (`Abandon`). `Drained` asks for the former only, so that the
  others go on while Redis and MongoDB are closed and then work on the memory store.
  `ServesAsSetUp` names them.

### The client

* `ClientTimeline`: `cache` is the cached timeline; the optimistic item, the answer, the
  socket event, a receipt and a refetch write it in any order; every
  event may be lost. `late` are sends that were given up and may still be stored.
  `misread` are the items that a receipt turned into read ones although their send had
  failed: `seenTimeline` does not ask for the status. `SendIsShown` names them.
* `Composer`: `piece` says what became of a text or a file, `here` which of them belong to the
  composer there is now, so that what its handlers return to can be told from a later
  one. `send` keeps the conversation it is for, the one it posts to and the one a retry
  would post to: `useMutation` gives a send under way the functions of the latest
  rendering (`Rebind`), until the panel itself goes (`Leave`). `again` says that a send was
  tried again and `opened` which conversations the user opened under it: only a retry, and
  only into one of those, may be stored elsewhere. What `SentAsMeant` leaves open beside it
  is what is added during a send (`beside`), what a GIF or a closing composer discards in any
  case, and recordings begun twice (`twice`) or left.
* `ClientSession`: `refreshing` is the promise that requests of one tab share,
  `refresh` the requests for renewal, `cookie` what all tabs share. A sign-out (`quit`) is a
  request as well: `SignOut` posts it, `logout` is the server's part, `SignedOut` the answer.
  `LogoutFails` is its failure, for want of a connection, by an error, or by a 401 for an
  expired token: the tab signs out all the same, the session and the cookie stay.
  `SessionsEndForCause` speaks of the sign-outs that were answered while no refresh was
  under way beside them (`alone`).
* `CallOverlay`: `prep` is how far `prepareMedia` is for a stream, `heard` the
  socket on which the window listens: it is not moved when the token is renewed. A video
  call has its microphone running while the browser asks for the camera
  (`Granted`, `CameraAnswered`), and looks at `disposed` only after (`Prepared`); `end`
  does not reach the stream before it is placed. With a peer connection the tracks are
  replaced first (`PutInPlace`, `Replaced`), and what was shown is not looked at again: a
  stream whose call went in that time is `late`.

## 3. Runs

| Run | Configuration | Shows |
|---|---|---|
| `call_memory` | one process, memory, calls in both directions, one id used twice | safety of the life of a call, the refinement of `CallHistory`, and that ringing ends |
| `call_mongo` | one process, MongoDB, one call, two handlers at once | ringing ends under every interleaving |
| `call_redis` | two processes, Redis, a crash or an outage for one of them, key expiry | a shared unanswered session has a process that guards it, unless its holder crashed or ended the call without Redis |
| `sessions_primary` | no Redis, three sessions, two handlers, one of which may stop | a session rotates once; a revocation reaches what it owes |
| `sessions_redis` | Redis, three sessions, two handlers, one outage or one handler that stops | until the outage usable sessions stay listed and revocations are complete; what was revoked stays so throughout |
| `parts` | relationships over memory and the thirteen components of `MCParts` | one open record per pair, none under a block, profiles agree, closed records stay closed; and one deep promise per further component |
| `messages` | each of the three stores, one send, two handlers, crashes at any time | a repeated send makes one message, what is shown as sent is stored, delivery only advances; over memory changes keep each other |

A behaviour of `parts` is a behaviour of one component, which the initial state
chooses: they share no state, so exploring them beside each other shows the same as
fourteen runs, without their product. `Relationships` keeps its own variables; the
others have theirs in slots (`v1` to `v11`). Each promise is defined in the component's
module and named again in `MCParts` for its part.

Seven passing runs, and five runs that end in a counterexample, each for a promise
that the code breaks:

| Run | Broken promise | What happens |
|---|---|---|
| `call_timer_after_answer` | an answered call is not missed | the ring timer is not cleared by an answer |
| `call_reject_race` | a rejection reaches both histories | an accept and a reject from two devices interleave their writes: the caller's record says accepted, the callee's rejected |
| `sessions_rotated_twice` | a session rotates once | key and document are taken in two steps |
| `sessions_outage` | a revocation reaches what it owes | a key survives the outage during which its session was revoked |
| `relationships_block_race` | friends are not blocked | an accept writes over the record a block has closed |

### Bounds

* Two handlers at once (`Tasks`) are enough for every race the hazards name: each is
  between two handlers, and a third only repeats one of them. Timer callbacks and
  disconnect sweeps take a slot as well.
* `call_memory` needs calls in both directions (`a1`, `a2`) and a repeated
  id (`a3` reuses the id of `a1`), for the timer and session of an old call to
  meet a new one. Under MongoDB one attempt is kept: the interleavings are about
  the handlers of one call. `MaxCrashes` is 1 in `call_redis`, and `OneFault` allows one
  fault at a time, a crash or an outage of one process, and leaves blocks and the callee's
  leaving to the other runs; `NoHistory` is a view without the history records, which no
  guard reads. `NoBlock` keeps blocks out of `call_reject_race`, so that its trace is of the
  handlers alone.
* Three sessions are a session, its successor and another device, or two
  successors of one session. One handler stops half-way (`MaxFailures`);
  `MaxOutages` is 0 or 1,
  and `OneFault` keeps the two kinds of fault apart.
* `messages` has one send with two requests (`MaxPosts`) and two message ids, so that
  a duplicate could exist; two handlers and two users let every change race a
  delivery, a reading or another change. `MaxPosts` is below the limit of
  automatic retries, so there the bound ends them; the proofs hold for any.
* Three friendship records let a pair meet again after an ending, twice. Every operation is
  about one pair, and its records and blocks are read for that pair only: two users
  are enough, and the proof holds for any number. A run stops when its
  records are used up: deadlock is checked for calls only, since
  sessions, records and messages are finite stocks here.
* `parts` gives every component two handlers (`Tasks`) and up to three entities
  (`Records`): three sockets and two timers, so that a socket may close, leave a
  timer and find another connection; two codes with two attempts, so that a code
  may be replaced; two users in a group, so that both leave at once or one removes the
  other (the proof holds for any number); three files with a quota of two and a clean-up of one at a time; two
  legacy users with two documents beside them, which makes duplicates and
  dangling references; two sends with one retry; two tabs with two requests each
  and three sessions; two stories with one medium; two calls and two sockets; for the composer two conversations, one
  send, a text and two files, so that one may be added during a send of another or
  recorded beside it. Two sends at once need a send left behind by `Leave`, which
  posts where it did before: a second slot adds states and no case. `Tasks` are
  symmetric; exchanging more costs more than it saves. `parts` has about 4.2 million
  distinct states.

### Fairness

`FairSpec` of `CallSignalling` assumes that a suspended handler is resumed once
its await settles (weak fairness of `TaskStep`), and that a due timer is run by the
event loop however many requests keep arriving (strong fairness of `TimerStep` and
`GraceStep`, since a handler holding the loop disables them again and again).
Node.js serves its timer phase in every turn of the loop. Nothing is assumed of
clients: they may stop at any moment.

## 4. Proofs

The proofs hold for any number of users, calls, sessions, processes and handlers.

* `CallSignallingProofs`: `GuardInv` is inductive in every deployment. "An
  unanswered session is guarded" is not inductive alone: one needs to know what
  a running handler holds (`TasksOK`: the removal at the end of `finishCall`
  is about the session it cleared the timer of, and what an accept stores is
  answered) and that sessions are filed under their own id (`KeysOK`).
  `TypeCorrect` and `NoEndlessRinging` follow. `OwnerInv` adds that a shared
  session nobody answered is held by a process, whichever crash or are without Redis,
  unless its key is `orphaned` (`SharedSessionHasOwner`).
* `CallMemoryProofs` is about one process without MongoDB and Redis (`InMemory`; a
  crash takes the history with it and begins a new behaviour), where the run
  `call_memory` checks the same on a small instance. `MemoryInv` says that
  one handler is under way at a time; that what it holds is the session the
  process has, and the records are those of that session as far as it has not
  written them; that the records of any other attempt are those of its session, or
  closed when there is none; that a timer has its session; and that a session
  whose participant has no socket left has a grace period running or a sweep that
  has still to reach it. From it follow `MemoryHistoriesAgree`,
  `MemoryOpenRecords` and `MemoryNoAbandonedCall`. `MemoryImplementsHistory` is the
  refinement: under `HistoryOf` each action is one step of `CallHistory` or
  none, because a handler's first write is hidden until its second and nothing
  else writes these records in between. With MongoDB that is false
  (`call_reject_race`).
* `RefreshSessionsProofs`: `TypedInv` (types and what each kind of handler holds)
  gives `SessionTypes`. Without Redis, `RotationInv` adds that a consumed session
  stays consumed and that one handler at most is about to rotate it;
  `OneRotationPerSession` follows. With Redis and as long as no process has lost it
  (`outages = 0`) `SessionInv` says for every kind of handler what it still owes
  the two stores; `SessionsStayListed` and `RevocationIsComplete` follow.
  `WriterInv`, that a session being stored is its writer's alone, holds in every
  deployment and gives `RevocationIsFinal`. The runs `sessions_rotated_twice` and
  `sessions_outage` show why the assumptions are needed. Without Redis there is nothing to
  lose, so that `RevocationReachesAll` holds without the condition on outages.
* `RelationshipsProofs`: `PairInv` gives `OneFriendshipPerPair` for both
  stores; over MongoDB it rests on the unique index alone. Over memory
  `AloneInv` adds that one handler at most is under way and what it has read still
  holds, which gives `BlockEndsFriendship`, `ProfilesAgree` and
  `ClosedStaysClosed`. None of the last three is true over MongoDB
  (`relationships_block_race`).
* `MessagesProofs`: `SendInv` holds in every deployment. It says what a handler
  holds at each await (a creation past its insert has a stored message of its
  send), that a stored message has the sender of its send, and that in a database
  a send has one message, by the unique index. `SentMeansStored`, `ReadMeansReader`
  and `DeliveryOnlyAdvances` follow. Over memory, where no index helps, `AloneInv`
  adds that one handler at most is under way and that what it has read is
  still so (a creation at its insert still finds no message), which completes
  `RetriesAreIdempotent` and gives `UnsentStaysEmpty` and `MarksAreKept`.
* `ServerPartsProofs` has a section for each component, all in the same form: the invariant,
  that it holds initially (`...Init`), that every step keeps it (`...Step`), that it implies the
  component's types and promise (`...Safe`), and the theorems.
  * Groups (`GroupInv`): what a request decided on may be out of date over MongoDB, but its
    two lists fit each other (`ListsOK`), and it writes both; that is why a group keeps an
    administrator in every interleaving. Over memory one request is under way and
    what it read still holds (`AloneOK`).
  * Reports (`FilingInv`): one open report, over MongoDB from the index alone.
  * Stories (`AccessInv`): a view that has found no block, of a story that names the other
    user or is for everyone, has met a moment of access; of a story for friends it meets one when
    it finds them friends, unless the friendship was written under a block in between
    (`crossed`) (`LookOK`).
  * Visibility (`SightInv`): what is shown is claimed for the conversation that shows it, and
    what may be told is open before it is.
  * One-time codes (`CodesInv`): over memory no handler puts an entry back, so every
    comparison is counted in the entry; with Redis the entry that is put back was drawn once.
  * Presence (`PresenceInv`): a connection that is writing is in the room or has closed
    unnoticed; a flag without a socket has a timer that will clear it; a lock that is
    done leaves only sockets that crossed it. Over memory one handler is under way, so
    that a timer which found no socket acts before anyone connects.
  * Uploads (`UploadInv`): which files each request and the clean-up have in hand; the records
    and the requests that will store one stay below the quota and the number of requests
    together (`QuotaOK`), by counting.
  * Migration (`MigrationInv`): what is written and what is still to be written is of the
    plan of the legacy data, nothing of the plan is passed over unless the script stops, and
    every resolved reference of a written document is to a written one. `PlanRefers` (a planned document refers to planned documents of earlier
    collections) and `PlanChats`, `PlanTies` (pairs are single in the plan) are facts about the
    operators of `buildLegacyMigrationPlan`.
* `ClientPartsProofs`, in the same form:
  * Call window (`OverlayInv`): a stream that runs is the one that is held, or waits for the
    camera or for the connection's tracks; with no call shown it waits so, is late, or is of a
    call that came over an earlier socket; otherwise its call came no later than the call
    shown, unless it waits so or is late.
  * Timeline (`TimelineInv`): a key has one item at most, and a missing item means
    that its mutation is one of the `hidden` ones; an item that says sent or read has been
    stored or was misread (`ShownOK`).
  * Composer (`ComposerInv`): a send posts where it is for, or, if it is tried again, where it
    is for or in a conversation opened under it (`Meant`), and what
    it sends has left the draft; a running recording is the one the stop button is
    for unless it waited together with another.
  * Client session (`SessionInv`): a tab has one refresh at most, what it presents is not a
    session the tab has renewed, a session that was granted and has not arrived is
    known to nobody else; no refresh is under way beside a sign-out that is `alone`, and once it is
    answered the cookie is gone and whatever is refreshed presents none.
  * Process (`LifecycleInv`): a readiness check has seen every service it no longer waits
    for, in production the start passes only with MongoDB, and a handler under which there
    is no connection to MongoDB has lost it or outlives the shutdown.
* `PartsProofs`: the components above are proved about with constants and variables of their own.
  `MCParts` puts them in its slots, with sets of its own; the `Same...` lemmas say that the
  definitions it instantiates are those the theorems are about, and `PartsInv` that the
  component that runs keeps its invariant while `Relationships` keeps `PairInv`. Each
  promise of the run `parts` is then a theorem of `PartsSpec`, for any `Records`, `Tasks` and
  `Users`; what `MCParts` fixes (two codes, a quota of two) is fixed there only.

The assumptions are those stated with the constants: `CallAssumption`,
`DeploymentAssumption`, `SessionAssumption`, `RelationshipAssumption`, `MessageAssumption`
of the modules checked directly, and as hypotheses of the theorems about the parts (and
`PartsAssumption` of `MCParts`, which TLC evaluates) `FounderAssumption`,
`AttemptsAssumption`, `StoryAssumption`, `UploadAssumption`, `LegacyAssumption`,
`OverlayAssumption`, `TimelineAssumption`, `SessionAssumption`, `ComposerAssumption`. They say that
bounds are natural numbers, that `None` is no member of a set it may stand beside,
and that an upload has finitely many requests beside it.

Every invariant and every action property of a passing run is thereby also proved, those
about call records for the deployment whose run checks them (`InMemory`). Only model-checked are
the liveness properties `RingingEnds` and `GoneUserHasNoCall`: they need fairness, and fairness
needs ENABLED.

## 5. Noticed while modelling

Where no document, comment or test promises otherwise, the models follow the code and
the properties name the exception. A reader of the code may want to know of:

* `SettingsPage.jsx:74`: the handler of a successful save uses `queryClient`, which only the
  page's other component defines; the save is reported as failed and the cache is
  not updated.
* `dataService.js`, `searchEverything`: over memory a search presents messages with
  `map(presentMessage)`, so that the viewer is the index, and users without their
  privacy settings.
* A user who hides read receipts is given away by reacting to, pinning or hiding a
  message: the event carries the message as presented to that user
  (`messageController.js:102-130`).
* The picture of a group is subject to the photo setting of whoever uploaded it.
* A send that is retried after the user has opened another conversation is posted to that one
  (`ChatPanel.jsx:51`), and a send that was stored already is stored there again;
  its answer is cached there too.
* What is typed or attached while a send is under way is erased when it ends
  (`Composer.jsx:92-93`).
* Pressing the record button again before the microphone is granted, or leaving the chats
  while recording, leaves the microphone on (`Composer.jsx:99-116`).
* `ChatPanel.jsx:209` reads `conversation.type` also while the conversation is loading; the
  header above it asks first. `Composer` starts from conversations that are loaded.
* A legacy group call yields records for several callees that share one `_id` for
  the caller's side; the later one replaces the earlier.
* A receipt for earlier messages turns every own item before it into a read one, also one
  whose send has failed (`useRealtime.js:42-45`): it looks delivered, was never stored, and
  has no retry any more, although `ChatPanel.jsx:215` says that failed messages can be retried.
* A sign-out that fails, or whose access token has expired, leaves the session
  and its cookie valid; the tab does not say so (`ProfileModal.jsx:54`).
* A call ended while its process is without Redis leaves its key to the other processes
  (`sockets/index.js:291`); a crashed process leaves the calls it held.
* A video call that is ended at the camera's prompt keeps the microphone running until the
  prompt is answered (`CallOverlay.jsx:116-132`).
* One medium in two stories is opened to the audience of one of them
  (`dataService.js:279`, `mongoDataService.js:351`).
* Readiness does not ask for the socket adapter, and a shutdown leaves `isOnline` true
  and calls open.
* While MongoDB reconnects, operations are acknowledged that were made on the memory store.
* After a socket has reconnected the open conversation is not joined again
  (`ChatPanel.jsx:102`).

## 6. Not modelled

* Typing indicators: the code promises nothing of them that
  outlasts a lost event.
* Settings, profiles and notifications beyond `Visibility`: each belongs to one user and
  the later write wins.
* Redis without MongoDB, storage back ends other than the local directory, mail, WebRTC
  negotiation, screen sharing, the audit log.
* Rendering, routing, validation, seeding and index creation: they keep no state that
  handlers share.

## 7. What the plan has left

1. What of `MemoryInv` also holds with MongoDB: which pairs of records are reachable there
   beside those that agree.
2. `Presence` composed with the disconnect sweep of `CallSignalling`, and `Uploads` with
   `Messages`: each is modelled with the other's effect left open.
3. Answers put together over several reads of MongoDB (`Visibility` reads at once).
