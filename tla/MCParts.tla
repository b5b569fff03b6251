------------------------------- MODULE MCParts -------------------------------
(***************************************************************************)
(* The components that share no state with each other, checked in one run: *)
(* a behaviour is a behaviour of one of them, which the initial state      *)
(* chooses.  Relationships keeps its own variables; every other component  *)
(* has its variables in slots, in the order in which it declares them      *)
(* (store first, where it has one), and leaves the slots it does not need  *)
(* at None.  Records and Tasks serve as sets of three and of two values.   *)
(***************************************************************************)
EXTENDS Relationships, TLC

CONSTANTS ana, bob, k1, k2

VARIABLES part, store, v1, v2, v3, v4, v5, v6, v7, v8, v9, v10, v11

From11 == v11 = None
From10 == v10 = None /\ From11
From9  == v9 = None /\ From10
From7  == v7 = None /\ v8 = None /\ From9
From5  == v5 = None /\ v6 = None /\ From7

After11 == UNCHANGED << part, vars >>
After10 == UNCHANGED v11 /\ After11
After9  == UNCHANGED v10 /\ After10
After8  == UNCHANGED v9 /\ After9
After6  == UNCHANGED << v7, v8 >> /\ After8
After4  == UNCHANGED << v5, v6 >> /\ After6
NoStore == store = None

Presences == INSTANCE Presence WITH
  Sockets <- Records, Timers <- Tasks,
  flag <- v1, phase <- v2, room <- v3, missed <- v4, grace <- v5,
  pending <- v6, locked <- v7, locking <- v8, crossing <- v9

Codes == INSTANCE OneTimeCodes WITH
  Codes <- {k1, k2}, Checks <- Tasks, MaxAttempts <- 2,
  accounts <- v1, entry <- v2, drawn <- v3, sent <- v4, expired <- v5,
  dead <- v6, guesses <- v7, check <- v8

Group == INSTANCE Groups WITH
  Users <- {ana, bob}, Founder <- ana, Requests <- Tasks,
  members <- v1, admins <- v2, texts <- v3, listening <- v4, directs <- v5,
  request <- v6

Shelf == INSTANCE Uploads WITH
  Files <- Records, Jobs <- Tasks, Quota <- 2, Limit <- 1,
  disk <- v1, shelf <- v2, old <- v3, used <- v4, job <- v5, sweep <- v6,
  late <- v7, unaudited <- v8

Report == INSTANCE Reports WITH
  Reports <- Records, Filings <- Tasks,
  status <- v1, resolved <- v2, reopened <- v3, filing <- v4

Story == INSTANCE Stories WITH
  Stories <- {k1, k2}, Views <- Tasks,
  audience <- v1, viewed <- v2, friends <- v3, blocked <- v4, look <- v5,
  access <- v6, due <- v7, crossed <- v8

Legacy == INSTANCE LegacyMigration WITH
  People <- Tasks, MaxDocs <- 2,
  users <- v1, chats <- v2, notes <- v3, ties <- v4, blocks <- v5,
  owners <- v6, calls <- v7, phase <- v8, todo <- v9, target <- v10

Overlay == INSTANCE CallOverlay WITH
  Calls <- Tasks, MaxSockets <- 2,
  shown <- v1, incoming <- v2, video <- v3, connected <- v4, ready <- v5,
  socket <- v6, heard <- v7, prep <- v8, live <- v9, held <- v10, peer <- v11

Timeline == INSTANCE ClientTimeline WITH
  Keys <- Tasks, Retries <- 1,
  cache <- v1, send <- v2, failures <- v3, late <- v4, stored <- v5,
  events <- v6, fetch <- v7, hidden <- v8, misread <- v9

Browser == INSTANCE ClientSession WITH
  Tabs <- Tasks, Slots <- {k1, k2}, MaxSessions <- 3,
  user <- v1, stale <- v2, request <- v3, refreshing <- v4, refresh <- v5,
  cookie <- v6, sessions <- v7, issued <- v8, taker <- v9, dropped <- v10,
  quit <- v11

Sight == INSTANCE Visibility WITH
  Chats <- Tasks, MaxStories <- 2,
  photo <- v1, receipts <- v2, tie <- v3, stories <- v4, inside <- v5,
  claims <- v6, posts <- v7, read <- v8, told <- v9, open <- v10, admin <- v11

Process == INSTANCE Lifecycle WITH
  wanted <- v1, prod <- v2, up <- v3, phase <- v4, link <- v5, mode <- v6,
  cache <- v7, data <- v8, request <- v9, probe <- v10, answer <- v11

Writing == INSTANCE Composer WITH
  Chats <- {ana, bob}, Texts <- {k1}, Files <- Tasks, Sends <- {k1},
  shown <- v1, piece <- v2, here <- v3, recorder <- v4, live <- v5,
  send <- v6, beside <- v7, twice <- v8

ASSUME PartsAssumption ==
  /\ Codes!AttemptsAssumption /\ Group!FounderAssumption
  /\ Shelf!UploadAssumption /\ Story!StoryAssumption
  /\ Legacy!LegacyAssumption /\ Overlay!OverlayAssumption
  /\ Timeline!TimelineAssumption /\ Browser!SessionAssumption
  /\ Writing!ComposerAssumption

PartsInit ==
  /\ Init
  /\ \/ /\ part = "relationships" /\ NoStore
        /\ v1 = None /\ v2 = None /\ v3 = None /\ v4 = None /\ From5
     \/ part = "presence" /\ Presences!Init /\ From10
     \/ part = "codes" /\ Codes!Init /\ From9
     \/ part = "group" /\ Group!Init /\ From7
     \/ part = "uploads" /\ Shelf!Init /\ From9
     \/ part = "reports" /\ Report!Init /\ From5
     \/ part = "stories" /\ Story!Init /\ From9
     \/ part = "migration" /\ Legacy!Init /\ From11 /\ NoStore
     \/ part = "overlay" /\ Overlay!Init /\ NoStore
     \/ part = "timeline" /\ Timeline!Init /\ From10 /\ NoStore
     \/ part = "browser" /\ Browser!Init /\ NoStore
     \/ part = "sight" /\ Sight!Init
     \/ part = "process" /\ Process!Init /\ NoStore
     \/ part = "composer" /\ Writing!Init /\ From9 /\ NoStore

Slots == << part, store, v1, v2, v3, v4, v5, v6, v7, v8, v9, v10, v11 >>

PartsNext ==
  \/ part = "relationships" /\ Next /\ UNCHANGED Slots
  \/ part = "presence" /\ Presences!Next /\ After9
  \/ part = "codes" /\ Codes!Next /\ After8
  \/ part = "group" /\ Group!Next /\ After6
  \/ part = "uploads" /\ Shelf!Next /\ After8
  \/ part = "reports" /\ Report!Next /\ After4
  \/ part = "stories" /\ Story!Next /\ After8
  \/ part = "migration" /\ Legacy!Next /\ UNCHANGED store /\ After10
  \/ part = "overlay" /\ Overlay!Next /\ UNCHANGED store /\ After11
  \/ part = "timeline" /\ Timeline!Next /\ UNCHANGED store /\ After9
  \/ part = "browser" /\ Browser!Next /\ UNCHANGED store /\ After11
  \/ part = "sight" /\ Sight!Next /\ After11
  \/ part = "process" /\ Process!Next /\ UNCHANGED store /\ After11
  \/ part = "composer" /\ Writing!Next /\ UNCHANGED store /\ After8

PartsSpec == PartsInit /\ [][PartsNext]_<< vars, Slots >>

\* Only the tasks are exchanged: more permutations cost more than they save.
Alike == Permutations(Tasks)

-----------------------------------------------------------------------------
\* Every component keeps its variables in the shape the code gives them.
PartsTypeOK ==
  /\ TypeOK
  /\ CASE part = "relationships" -> TRUE
       [] part = "presence"  -> Presences!TypeOK
       [] part = "codes"     -> Codes!TypeOK
       [] part = "group"     -> Group!TypeOK
       [] part = "uploads"   -> Shelf!TypeOK
       [] part = "reports"   -> Report!TypeOK
       [] part = "stories"   -> Story!TypeOK
       [] part = "migration" -> Legacy!TypeOK
       [] part = "overlay"   -> Overlay!TypeOK
       [] part = "timeline"  -> Timeline!TypeOK
       [] part = "browser"   -> Browser!TypeOK
       [] part = "sight"     -> Sight!TypeOK
       [] part = "process"   -> Process!TypeOK
       [] part = "composer"  -> Writing!TypeOK

\* Presence.tla: the stored flag follows the sockets, and a lock leaves the user
\* none (sockets/index.js:36-45, 235-246, moderationController.js:35-52).
FlagFollowsSockets == part = "presence" => Presences!FlagFollowsSockets

\* OneTimeCodes.tla: used codes stay dead and guesses are limited
\* (authService.js:317-351).
CodesAreSpent == part = "codes" => Codes!CodesAreSpent

\* Groups.tla: a group has an administrator among its members and a pair one
\* direct conversation, and over memory who has left does not listen
\* (conversationController.js:68-117, mongoDataService.js:418-480).
GroupIsGoverned == part = "group" => Group!GroupIsGoverned

\* Uploads.tla: files, records, links and quota agree (miscController.js:22-71,
\* mongoDataService.js:315-320, 386-401).
FilesMatchRecords == part = "uploads" => Shelf!FilesMatchRecords

\* Reports.tla: one open report of an item (mongoDataService.js:866-879).
OneOpenReport == part = "reports" => Report!OneOpenReport

\* Stories.tla: a viewer had access, unless an accept crossed a block
\* (mongoDataService.js:596-603, 645-651, 767-770).
ViewersHadAccess == part = "stories" => Story!ViewersHadAccess

\* LegacyMigration.tla: references hold and pairs are single wherever the
\* script stops (legacyMigrationService.js:133-333).
MigrationIsSound == part = "migration" => Legacy!MigrationIsSound

\* CallOverlay.tla: streams run for the call that is shown
\* (CallOverlay.jsx:101-147, 216-225).
MediaFollowsCall == part = "overlay" => Overlay!MediaFollowsCall

\* Composer.tla and ClientTimeline.tla: what is written goes to the conversation it
\* was sent in, or one opened during a retry; it is shown once, and as sent when it
\* was stored, unless a receipt has misread it (Composer.jsx:77-127,
\* ChatPanel.jsx:50-92, useRealtime.js:25-46).
SendIsShown ==
  /\ part = "timeline" => Timeline!SendIsShown
  /\ part = "composer" => Writing!SentAsMeant

\* ClientSession.tla: sessions end for a cause (api.js:20-41).
SessionsEndForCause == part = "browser" => Browser!SessionsEndForCause

\* Visibility.tla: a file that is named can be opened, and no receipt is shown
\* that the viewer keeps, but for the named cases (dataService.js:153-174,
\* 272-287, 384-433).
ShownIsOpen == part = "sight" => Sight!ShownIsOpen

\* Lifecycle.tla: the process serves what it is set up to serve (server.js:21-40,
\* config/database.js:47-83, services/healthService.js:8-45).
ServesAsSetUp == part = "process" => Process!ServesAsSetUp
=============================================================================
