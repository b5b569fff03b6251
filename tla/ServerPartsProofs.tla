-------------------------- MODULE ServerPartsProofs --------------------------
(***************************************************************************)
(* Theorems about the components of the server that share no state with    *)
(* the others, for every value of their constants.  Each component has its *)
(* own section.                                                            *)
(***************************************************************************)
EXTENDS Naturals, FiniteSetTheorems, SequenceTheorems, TLAPS

CONSTANTS
  Users, Founder, Requests,       \* Groups.tla
  Reports, Filings,               \* Reports.tla
  Stories, Views,                 \* Stories.tla
  Chats, MaxStories,              \* Visibility.tla
  Numbers, Checks, MaxAttempts,   \* OneTimeCodes.tla
  Sockets, Timers,                \* Presence.tla
  Files, Jobs, Quota, Limit,      \* Uploads.tla
  People, MaxDocs,                \* LegacyMigration.tla
  None

VARIABLES
  store,
  members, admins, texts, listening, directs, request,        \* Groups.tla
  status, resolved, reopened, filing,                         \* Reports.tla
  audience, viewed, friends, blocked, look, access, due, crossed, \* Stories.tla
  photo, receipts, tie, stories, inside, claims, posts, read,
  told, open, admin,                                          \* Visibility.tla
  accounts, entry, drawn, sent, expired, dead, guesses, check, \* OneTimeCodes.tla
  flag, phase, room, missed, grace, pending, locked, locking,
  crossing,                                                   \* Presence.tla
  disk, shelf, old, used, job, sweep, late, unaudited,        \* Uploads.tla
  users, chats, notes, ties, blocks, owners, calls, stage,
  todo, target                                                \* LegacyMigration.tla

Group  == INSTANCE Groups
Report == INSTANCE Reports
Story  == INSTANCE Stories
Sight  == INSTANCE Visibility
Code   == INSTANCE OneTimeCodes WITH Codes <- Numbers
Online == INSTANCE Presence
Shelf  == INSTANCE Uploads
Legacy == INSTANCE LegacyMigration WITH phase <- stage

-----------------------------------------------------------------------------
\* A request is some user's, and the lists it has decided on fit each other,
\* whatever it read them from.
ListsOK(r) ==
  /\ ~Group!At(r, "idle") => request[r].by \in Users
  /\ Group!At(r, "update") \/ Group!At(r, "write") \/ Group!At(r, "leave") =>
       /\ request[r].newAdmins \subseteq request[r].newMembers
       /\ request[r].newMembers # {} => request[r].newAdmins # {}
       /\ Group!At(r, "leave") \/ request[r].newMembers # {}

\* Over memory one request at most is in progress, and what it has read of the
\* group is still so.
AloneOK(r) ==
  /\ \A q \in Requests : q # r /\ ~Group!At(r, "idle") => Group!At(q, "idle")
  /\ Group!At(r, "update") \/ Group!At(r, "write") =>
       request[r].out = members \ request[r].newMembers
  /\ Group!At(r, "leave") =>
       /\ request[r].by \in members
       /\ request[r].newMembers = members \ {request[r].by}
       /\ request[r].out = {request[r].by}
  /\ Group!At(r, "join") \/ Group!At(r, "send") => request[r].by \in members
  /\ Group!At(r, "direct") => directs = 0

GroupInv ==
  /\ Group!TypeOK
  /\ Group!GroupIsGoverned
  /\ \A r \in Requests : ListsOK(r)
  /\ store = "memory" => \A r \in Requests : AloneOK(r)

LEMMA GroupInit == Group!Init => GroupInv
<1> SUFFICES ASSUME Group!Init
             PROVE  GroupInv
  OBVIOUS
<1> USE DEF Group!Init, Group!NoRequest, Group!At
<1>1. Group!TypeOK
  BY DEF Group!TypeOK, Group!Pcs
<1>2. Group!GroupIsGoverned
  BY DEF Group!GroupIsGoverned
<1>3. \A r \in Requests : ListsOK(r) /\ AloneOK(r)
  BY DEF ListsOK, AloneOK
<1> QED
  BY <1>1, <1>2, <1>3 DEF GroupInv

-----------------------------------------------------------------------------
\* A request begins: its slot was idle, over memory all were, and the lists it
\* has decided on are right at this moment.
LEMMA BeginStep ==
  ASSUME GroupInv, NEW r \in Requests, NEW u \in Users,
         NEW pc \in {"update", "leave", "join", "send", "direct"},
         NEW m \in SUBSET Users, NEW a \in SUBSET Users, NEW out \in SUBSET Users,
         Group!Begin(r, u, pc, m, a, out),
         UNCHANGED << store, members, admins, texts, listening, directs >>,
         pc \in {"update", "leave"} => a \subseteq m /\ (m # {} => a # {}),
         pc = "update" => m # {} /\ out = members \ m,
         pc = "leave" => m = members \ {u} /\ out = {u},
         IF pc = "direct" THEN directs = 0 ELSE u \in members
  PROVE  GroupInv'
<1> DEFINE new == [pc |-> pc, by |-> u, out |-> out,
                   newMembers |-> m, newAdmins |-> a]
<1>1. /\ request' = [request EXCEPT ![r] = new]
      /\ Group!At(r, "idle")
      /\ store = "mongo" \/ \A q \in Requests : Group!At(q, "idle")
  BY DEF Group!Begin
<1>2. Group!TypeOK'
  <2>1. new \in [pc : Group!Pcs, by : Users \cup {None}, out : SUBSET Users,
                 newMembers : SUBSET Users, newAdmins : SUBSET Users]
    BY DEF Group!Pcs
  <2> QED
    BY <1>1, <2>1 DEF GroupInv, Group!TypeOK
<1>3. Group!GroupIsGoverned'
  BY DEF GroupInv, Group!GroupIsGoverned
<1>4. request \in [Requests -> [pc : Group!Pcs, by : Users \cup {None}, out : SUBSET Users,
                                newMembers : SUBSET Users, newAdmins : SUBSET Users]]
  BY DEF GroupInv, Group!TypeOK
<1>5. \A q \in Requests : request'[q] = IF q = r THEN new ELSE request[q]
  BY <1>1, <1>4
<1>6. ASSUME NEW q \in Requests
      PROVE  ListsOK(q)'
  BY <1>5 DEF GroupInv, ListsOK, Group!At
<1>7. ASSUME NEW q \in Requests, store = "memory"
      PROVE  AloneOK(q)'
  <2>1. \A p \in Requests : Group!At(p, "idle")
    BY <1>1, <1>7
  <2> QED
    BY <1>5, <2>1 DEF AloneOK, Group!At
<1> QED
  BY <1>2, <1>3, <1>6, <1>7 DEF GroupInv

\* A request ends; over memory no other is in progress.
LEMMA DoneStep ==
  ASSUME GroupInv, NEW r \in Requests, ~Group!At(r, "idle"), Group!Done(r),
         UNCHANGED store, Group!GroupIsGoverned',
         members' \subseteq Users /\ admins' \subseteq Users,
         listening' \subseteq Users, texts' \in BOOLEAN, directs' \in Nat
  PROVE  GroupInv'
<1>1. request \in [Requests -> [pc : Group!Pcs, by : Users \cup {None}, out : SUBSET Users,
                                newMembers : SUBSET Users, newAdmins : SUBSET Users]]
  BY DEF GroupInv, Group!TypeOK
<1>2. \A q \in Requests : request'[q] = IF q = r THEN Group!NoRequest ELSE request[q]
  BY <1>1 DEF Group!Done
<1>3. Group!TypeOK'
  <2>1. Group!NoRequest \in [pc : Group!Pcs, by : Users \cup {None}, out : SUBSET Users,
                       newMembers : SUBSET Users, newAdmins : SUBSET Users]
    BY DEF Group!NoRequest, Group!Pcs
  <2>2. request' = [request EXCEPT ![r] = Group!NoRequest]
    BY DEF Group!Done
  <2> QED
    BY <1>1, <2>1, <2>2 DEF GroupInv, Group!TypeOK
<1>4. ASSUME NEW q \in Requests
      PROVE  ListsOK(q)'
  BY <1>2 DEF GroupInv, ListsOK, Group!At, Group!NoRequest
<1>5. ASSUME NEW q \in Requests, store = "memory"
      PROVE  AloneOK(q)'
  <2>1. \A p \in Requests : p # r => Group!At(p, "idle")
    BY <1>5 DEF GroupInv, AloneOK
  <2> QED
    BY <1>2, <2>1 DEF AloneOK, Group!At, Group!NoRequest
<1> QED
  BY <1>3, <1>4, <1>5 DEF GroupInv

-----------------------------------------------------------------------------
LEMMA GroupStep ==
  ASSUME Group!FounderAssumption, GroupInv, [Group!Next]_Group!groupVars
  PROVE  GroupInv'
<1>0. /\ request \in [Requests -> [pc : Group!Pcs, by : Users \cup {None}, out : SUBSET Users,
                                   newMembers : SUBSET Users, newAdmins : SUBSET Users]]
      /\ members \subseteq Users /\ admins \subseteq Users /\ listening \subseteq Users
      /\ texts \in BOOLEAN /\ directs \in Nat /\ store \in {"memory", "mongo"}
  BY DEF GroupInv, Group!TypeOK
<1>1. ASSUME NEW m \in SUBSET Users, Group!Create(m)
      PROVE  GroupInv'
  <2>1. Group!TypeOK' /\ Group!GroupIsGoverned'
    BY <1>0, <1>1 DEF Group!Create, GroupInv, Group!TypeOK, Group!GroupIsGoverned,
       Group!FounderAssumption
  <2>2. ASSUME NEW r \in Requests
        PROVE  ListsOK(r)' /\ AloneOK(r)'
    BY <1>1 DEF Group!Create, ListsOK, AloneOK, Group!At
  <2> QED
    BY <2>1, <2>2 DEF GroupInv
<1>2. ASSUME NEW r \in Requests, NEW u \in Users,
             NEW m \in SUBSET Users, NEW a \in SUBSET Users, Group!AskUpdate(r, u, m, a)
      PROVE  GroupInv'
  <2>1. members \ m \in SUBSET Users
    BY <1>0
  <2> QED
    BY <1>2, <2>1, BeginStep DEF Group!AskUpdate
<1>3. ASSUME NEW r \in Requests, Group!Recheck(r)
      PROVE  GroupInv'
  <2>1. /\ Group!At(r, "update")
        /\ \/ request' = [request EXCEPT ![r].pc = "write"]
           \/ Group!Done(r)
        /\ UNCHANGED << store, members, admins, texts, listening, directs >>
    BY <1>0, <1>3 DEF Group!Recheck, Group!Done
  <2>2. CASE Group!Done(r)
    BY <1>0, <2>1, <2>2, DoneStep DEF GroupInv, Group!GroupIsGoverned, Group!At
  <2>3. CASE request' = [request EXCEPT ![r].pc = "write"]
    <3>1. \A q \in Requests : request'[q] = IF q = r THEN [request[r] EXCEPT !.pc = "write"]
                                                     ELSE request[q]
      BY <1>0, <2>3
    <3>2. Group!TypeOK'
      BY <1>0, <2>1, <2>3 DEF Group!TypeOK, Group!Pcs
    <3>3. Group!GroupIsGoverned'
      BY <2>1 DEF GroupInv, Group!GroupIsGoverned
    <3>4. ASSUME NEW q \in Requests
          PROVE  ListsOK(q)'
      BY <1>0, <2>1, <3>1 DEF GroupInv, ListsOK, Group!At
    <3>5. ASSUME NEW q \in Requests, store = "memory"
          PROVE  AloneOK(q)'
      BY <1>0, <2>1, <3>1, <3>5 DEF GroupInv, AloneOK, Group!At
    <3> QED
      BY <2>1, <3>2, <3>3, <3>4, <3>5 DEF GroupInv
  <2> QED
    BY <2>1, <2>2, <2>3
\* Both lists are replaced by lists that fit; over memory those left out are
\* those whose sockets leave.
<1>4. ASSUME NEW r \in Requests, Group!Write(r)
      PROVE  GroupInv'
  <2>1. ListsOK(r) /\ (store = "memory" => AloneOK(r)) /\ Group!GroupIsGoverned
    BY DEF GroupInv
  <2>2. Group!GroupIsGoverned'
    BY <1>0, <1>4, <2>1 DEF Group!Write, ListsOK, AloneOK, Group!At,
       Group!GroupIsGoverned
  <2> QED
    BY <1>0, <1>4, <2>2, DoneStep DEF Group!Write, Group!At
<1>5. ASSUME NEW r \in Requests, NEW u \in Users, Group!AskLeave(r, u)
      PROVE  GroupInv'
  <2>1. PICK a \in IF admins \ {u} # {} THEN {admins \ {u}}
                   ELSE Group!Successors(members \ {u}) \cup
                        (IF members = {u} THEN {{}} ELSE {}) :
          Group!Begin(r, u, "leave", members \ {u}, a, {u})
    BY <1>5 DEF Group!AskLeave
  <2>2. /\ a \subseteq members \ {u}
        /\ members \ {u} # {} => a # {}
    BY <2>1 DEF Group!Successors, GroupInv, Group!GroupIsGoverned
  <2>3. a \in SUBSET Users /\ members \ {u} \in SUBSET Users /\ {u} \in SUBSET Users
    BY <1>0, <2>2
  <2> QED
    BY <1>5, <2>1, <2>2, <2>3, BeginStep DEF Group!AskLeave
<1>6. ASSUME NEW r \in Requests, Group!Leave(r)
      PROVE  GroupInv'
  <2>1. ListsOK(r) /\ (store = "memory" => AloneOK(r)) /\ Group!GroupIsGoverned
    BY DEF GroupInv
  <2>2. Group!GroupIsGoverned'
    BY <1>0, <1>6, <2>1 DEF Group!Leave, ListsOK, AloneOK, Group!At,
       Group!GroupIsGoverned
  <2>3. members' \subseteq Users /\ admins' \subseteq Users
        /\ listening' \subseteq Users /\ texts' \in BOOLEAN
    BY <1>0, <1>6 DEF Group!Leave
  <2> QED
    BY <1>0, <1>6, <2>2, <2>3, DoneStep DEF Group!Leave, Group!At
<1>7. ASSUME NEW r \in Requests, NEW u \in Users,
             Group!AskJoin(r, u) \/ Group!AskSend(r, u)
      PROVE  GroupInv'
  BY <1>7, BeginStep DEF Group!AskJoin, Group!AskSend
<1>8. ASSUME NEW r \in Requests, Group!Join(r) \/ Group!Send(r)
      PROVE  GroupInv'
  <2>1. (store = "memory" => AloneOK(r)) /\ Group!GroupIsGoverned
    BY DEF GroupInv
  <2>2. Group!GroupIsGoverned'
    BY <1>0, <1>8, <2>1 DEF Group!Join, Group!Send, AloneOK, Group!At,
       Group!GroupIsGoverned
  <2>3. listening' \subseteq Users
    BY <1>0, <1>8 DEF Group!Join, Group!Send, GroupInv, ListsOK, Group!At
  <2> QED
    BY <1>0, <1>8, <2>2, <2>3, DoneStep DEF Group!Join, Group!Send, Group!At
<1>9. ASSUME NEW u \in Users, Group!Hide(u)
      PROVE  GroupInv'
  BY <1>0, <1>9 DEF Group!Hide, GroupInv, Group!TypeOK, Group!GroupIsGoverned, ListsOK,
     AloneOK, Group!At
<1>10. ASSUME NEW r \in Requests, NEW u \in Users, Group!AskDirect(r, u)
       PROVE  GroupInv'
  BY <1>10, BeginStep DEF Group!AskDirect
<1>11. ASSUME NEW r \in Requests, Group!CreateDirect(r)
       PROVE  GroupInv'
  <2>1. (store = "memory" => AloneOK(r)) /\ Group!GroupIsGoverned
    BY DEF GroupInv
  <2>2. Group!GroupIsGoverned'
    BY <1>0, <1>11, <2>1 DEF Group!CreateDirect, AloneOK, Group!At,
       Group!GroupIsGoverned
  <2> QED
    BY <1>0, <1>11, <2>2, DoneStep DEF Group!CreateDirect, Group!At
<1>12. CASE UNCHANGED Group!groupVars
  BY <1>12 DEF Group!groupVars, GroupInv, Group!TypeOK, Group!GroupIsGoverned, ListsOK,
     AloneOK, Group!At
<1> QED
  BY <1>1, <1>2, <1>3, <1>4, <1>5, <1>6, <1>7, <1>8, <1>9, <1>10, <1>11, <1>12
     DEF Group!Next

LEMMA GroupSafe == GroupInv => Group!TypeOK /\ Group!GroupIsGoverned
BY DEF GroupInv

\* A group and the requests about it keep the form the code gives them.
THEOREM GroupTypes ==
  ASSUME Group!FounderAssumption
  PROVE  Group!Spec => []Group!TypeOK
BY GroupInit, GroupStep, GroupSafe, PTL DEF Group!Spec

\* A group is never without an administrator, whoever leaves or is removed, and
\* over the memory store nobody listens who does not belong to it
\* (conversationController.js:68-117, dataService.js:505-528,
\* mongoDataService.js:418-480).
THEOREM GroupsAreGoverned ==
  ASSUME Group!FounderAssumption
  PROVE  Group!Spec => []Group!GroupIsGoverned
BY GroupInit, GroupStep, GroupSafe, PTL DEF Group!Spec

-----------------------------------------------------------------------------
\* The reports OneOpenReport counts.
Counted == IF store = "memory" THEN Report!Open \ reopened ELSE Report!Open

AtMostOne(S) == \A r, s \in S : r = s

\* Over memory no filing is ever between its check and its insertion.
FilingInv ==
  /\ Report!TypeOK
  /\ store = "memory" => filing = {}
  /\ AtMostOne(Counted)

\* Reports counts with an instance of its own.
LEMMA ReportCardinality == \A S : Report!Cardinality(S) = Cardinality(S)
BY Zenon DEF Report!Cardinality, Cardinality

LEMMA SingleIsCounted ==
  ASSUME NEW S, AtMostOne(S)
  PROVE  Report!Cardinality(S) <= 1
<1>1. CASE S = {}
  BY <1>1, FS_EmptySet, ReportCardinality
<1>2. CASE S # {}
  <2>1. PICK x \in S : TRUE
    BY <1>2
  <2>2. S = {x}
    BY <2>1 DEF AtMostOne
  <2>3. Cardinality(S) = 1
    BY <2>2, FS_Singleton, Zenon
  <2> QED
    BY <2>3, ReportCardinality
<1> QED
  BY <1>1, <1>2

LEMMA FilingInit == Report!Init => FilingInv
BY DEF Report!Init, FilingInv, Report!TypeOK, AtMostOne, Counted, Report!Open,
   Report!OpenStatuses

LEMMA FilingStep == FilingInv /\ [Report!Next]_Report!reportVars => FilingInv'
<1> SUFFICES ASSUME FilingInv, [Report!Next]_Report!reportVars
             PROVE  FilingInv'
  OBVIOUS
<1> USE DEF FilingInv, Report!TypeOK, AtMostOne, Counted, Report!Open, Report!OpenStatuses
\* A new report follows a check that found none, or the index admits it.
<1>1. ASSUME NEW f \in Filings, NEW r \in Reports, Report!File(f, r)
      PROVE  FilingInv'
  <2>1. CASE store = "memory"
    BY <1>1, <2>1 DEF Report!File, Report!Store
  <2>2. CASE store # "memory"
    BY <1>1, <2>2 DEF Report!File
  <2> QED
    BY <2>1, <2>2
<1>2. ASSUME NEW f \in Filings, NEW r \in Reports, Report!Insert(f, r)
      PROVE  FilingInv'
  BY <1>2 DEF Report!Insert, Report!Store, Report!Admits
<1>3. ASSUME NEW f \in Filings, Report!RefuseInsert(f)
      PROVE  FilingInv'
  BY <1>3 DEF Report!RefuseInsert
\* An administrator may open an earlier report again, over MongoDB if the index
\* admits it.
<1>4. ASSUME NEW r \in Reports,
             NEW to \in Report!OpenStatuses \cup {"resolved", "dismissed"},
             Report!Update(r, to)
      PROVE  FilingInv'
  <2>1. CASE to \in Report!OpenStatuses
    BY <1>4, <2>1 DEF Report!Update, Report!Admits
  <2>2. CASE to \notin Report!OpenStatuses
    BY <1>4, <2>2 DEF Report!Update
  <2> QED
    BY <2>1, <2>2
<1>5. CASE UNCHANGED Report!reportVars
  BY <1>5 DEF Report!reportVars
<1> QED
  BY <1>1, <1>2, <1>3, <1>4, <1>5 DEF Report!Next

LEMMA FilingSafe == FilingInv => Report!TypeOK /\ Report!OneOpenReport
BY SingleIsCounted DEF FilingInv, Report!OneOpenReport, Counted

\* A report keeps one of the statuses the code knows (models/Report.js:10).
THEOREM ReportTypes == Report!Spec => []Report!TypeOK
BY FilingInit, FilingStep, FilingSafe, PTL DEF Report!Spec

\* One report of an item is open at a time, whoever files how often
\* (dataService.js:1084-1087, mongoDataService.js:866-879, models/Report.js:21-24).
THEOREM OneReportIsOpen == Report!Spec => []Report!OneOpenReport
BY FilingInit, FilingStep, FilingSafe, PTL DEF Report!Spec

-----------------------------------------------------------------------------
\* A request past the look for a block has seen a moment without one; past the
\* look at the audience, a moment at which the user belonged to it: who becomes a
\* friend after the first look has access, or an accept has crossed a block.
LookOK(v) ==
  /\ look[v].pc # "idle" =>
       look[v].story \in Stories /\ audience[look[v].story] # "new"
  /\ look[v].pc = "audience" /\ audience[look[v].story] \in {"everyone", "named"}
       => look[v].story \in access
  /\ look[v].pc = "audience" /\ audience[look[v].story] = "friends" /\ friends
       => look[v].story \in access \cup crossed
  /\ look[v].pc = "update" /\ look[v].story \in Story!Stored =>
       \/ look[v].story \in access
       \/ audience[look[v].story] = "friends" /\ look[v].story \in crossed
  /\ look[v].pc # "idle" => store = "mongo"

AccessInv ==
  /\ Story!TypeOK
  /\ \A s \in Stories : Story!HasAccess(s) => s \in access
  /\ \A v \in Views : LookOK(v)
  /\ Story!ViewersHadAccess

LEMMA AccessInit == Story!Init => AccessInv
<1> SUFFICES ASSUME Story!Init
             PROVE  AccessInv
  OBVIOUS
<1> USE DEF Story!Init, Story!Stored, Story!Audiences, Story!Idle
<1>1. Story!TypeOK /\ Story!ViewersHadAccess
  BY DEF Story!TypeOK, Story!ViewersHadAccess
<1>2. \A s \in Stories : ~Story!HasAccess(s)
  BY DEF Story!HasAccess
<1>3. \A v \in Views : LookOK(v)
  BY DEF LookOK
<1> QED
  BY <1>1, <1>2, <1>3 DEF AccessInv

LEMMA AccessStep == AccessInv /\ [Story!Next]_Story!storyVars => AccessInv'
<1> SUFFICES ASSUME AccessInv, [Story!Next]_Story!storyVars
             PROVE  AccessInv'
  OBVIOUS
<1> USE DEF AccessInv, Story!TypeOK, Story!Stored, Story!Audiences, Story!HasAccess, LookOK,
        Story!Idle, Story!ViewersHadAccess, Story!tieVars
<1>1. ASSUME NEW s \in Stories, NEW a \in Story!Audiences, Story!createStory(s, a)
      PROVE  AccessInv'
  BY <1>1 DEF Story!createStory, Story!Remember
<1>2. ASSUME NEW s \in Stories, Story!deleteStory(s)
      PROVE  AccessInv'
  BY <1>2 DEF Story!deleteStory
<1>3. ASSUME NEW v \in Views, NEW s \in Stories, Story!viewStory(v, s)
      PROVE  AccessInv'
  <2>1. CASE store = "memory"
    BY <1>3, <2>1 DEF Story!viewStory, Story!canAccessStory, Story!InAudience
  <2>2. CASE store # "memory"
    BY <1>3, <2>2 DEF Story!viewStory
  <2> QED
    BY <2>1, <2>2
<1>4. ASSUME NEW v \in Views, Story!NotBlocked(v)
      PROVE  AccessInv'
  BY <1>4 DEF Story!NotBlocked
<1>5. ASSUME NEW v \in Views, Story!InTheAudience(v)
      PROVE  AccessInv'
  BY <1>5 DEF Story!InTheAudience, Story!InAudience
<1>6. ASSUME NEW v \in Views, Story!AddViewer(v)
      PROVE  AccessInv'
  BY <1>6 DEF Story!AddViewer
<1>7. CASE Story!Relate
  <2>1. /\ UNCHANGED << store, audience, viewed, look >>
        /\ access' = access \cup {s \in Stories : Story!HasAccess(s)'}
    BY <1>7 DEF Story!Relate, Story!Remember
  <2>2. CASE Story!Accept
    BY <2>1, <2>2 DEF Story!Accept
  <2>3. CASE Story!WriteAccept
    <3>1. CASE blocked
      BY <2>1, <2>3, <3>1 DEF Story!WriteAccept
    <3>2. CASE ~blocked
      BY <2>1, <2>3, <3>2 DEF Story!WriteAccept
    <3> QED
      BY <3>1, <3>2
  <2>4. CASE Story!Remove
    BY <2>1, <2>4 DEF Story!Remove
  <2>5. CASE Story!Block
    BY <2>1, <2>5 DEF Story!Block
  <2>6. CASE Story!CloseFriendships
    BY <2>1, <2>6 DEF Story!CloseFriendships
  <2>7. CASE Story!Unblock
    BY <2>1, <2>7 DEF Story!Unblock
  <2> QED
    BY <1>7, <2>2, <2>3, <2>4, <2>5, <2>6, <2>7 DEF Story!Relate
<1>8. CASE UNCHANGED Story!storyVars
  BY <1>8 DEF Story!storyVars
<1> QED
  BY <1>1, <1>2, <1>3, <1>4, <1>5, <1>6, <1>7, <1>8 DEF Story!Next

LEMMA AccessSafe == AccessInv => Story!TypeOK /\ Story!ViewersHadAccess
BY DEF AccessInv

\* Viewers are listed at stories that are stored, and a request looks at a story.
THEOREM StoryTypes == Story!Spec => []Story!TypeOK
BY AccessInit, AccessStep, AccessSafe, PTL DEF Story!Spec

\* The block and the friendship a request reads one after the other never add up
\* to a view nobody allowed, unless an accept is written under a block between the
\* two (mongoDataService.js:596-603, 645-651, 767-770).
THEOREM ViewersAreAllowed == Story!Spec => []Story!ViewersHadAccess
BY AccessInit, AccessStep, AccessSafe, PTL DEF Story!Spec

-----------------------------------------------------------------------------
\* An attachment that is shown is claimed for the conversation that shows it, and
\* what the owner may be told is open before it is.
SightInv ==
  /\ Sight!TypeOK
  /\ \A c \in Chats : posts[c] \in Sight!Shown => c \in claims
  /\ read /\ receipts => open
  /\ told => open

LEMMA SightInit == Sight!Init => SightInv
<1> SUFFICES ASSUME Sight!Init
             PROVE  SightInv
  OBVIOUS
<1>1. stories \in Seq(Sight!Story)
  BY DEF Sight!Init
<1> QED
  BY <1>1 DEF Sight!Init, SightInv, Sight!TypeOK, Sight!Choices, Sight!Shown, Sight!Posts

\* Stories are posted, expire and are deleted; the rest stays.
LEMMA StoriesChange ==
  ASSUME SightInv, NEW list \in Seq(Sight!Story), Sight!ChangeStories(list)
  PROVE  SightInv'
BY DEF SightInv, Sight!TypeOK, Sight!ChangeStories, Sight!otherVars

LEMMA SightStep == SightInv /\ [Sight!Next]_Sight!visibilityVars => SightInv'
<1> SUFFICES ASSUME SightInv, [Sight!Next]_Sight!visibilityVars
             PROVE  SightInv'
  OBVIOUS
<1> USE DEF SightInv, Sight!TypeOK, Sight!Choices, Sight!Shown, Sight!Posts,
        Sight!fileVars, Sight!otherVars
<1>1. CASE Sight!updateSettings
  BY <1>1 DEF Sight!updateSettings, Sight!Remember
<1>2. CASE Sight!Relate
  <2>1. tie' \subseteq {"friends", "blocked"}
    BY <1>2 DEF Sight!Relate
  <2>2. store = "memory" => tie' # {"friends", "blocked"}
    BY <1>2 DEF Sight!Relate
  <2> QED
    BY <1>2, <2>1, <2>2 DEF Sight!Relate
<1>3. ASSUME NEW a \in Sight!Audiences, Sight!createStory(a)
      PROVE  SightInv'
  <2>1. [audience |-> a, live |-> TRUE] \in Sight!Story
    BY DEF Sight!Story
  <2>2. Append(stories, [audience |-> a, live |-> TRUE]) \in Seq(Sight!Story)
    BY <2>1
  <2> QED
    BY <1>3, <2>2, StoriesChange DEF Sight!createStory
<1>4. ASSUME NEW i \in DOMAIN stories, Sight!Expire(i)
      PROVE  SightInv'
  <2>1. stories[i] \in Sight!Story
    BY <1>4
  <2>2. [stories[i] EXCEPT !.live = FALSE] \in Sight!Story
    BY <2>1 DEF Sight!Story
  <2>3. [stories EXCEPT ![i].live = FALSE] \in Seq(Sight!Story)
    BY <2>2, ExceptSeq
  <2> QED
    BY <1>4, <2>3, StoriesChange DEF Sight!Expire
<1>5. ASSUME NEW i \in DOMAIN stories, Sight!deleteStory(i)
      PROVE  SightInv'
  <2>1. /\ SubSeq(stories, 1, i - 1) \in Seq(Sight!Story)
        /\ SubSeq(stories, i + 1, Len(stories)) \in Seq(Sight!Story)
    BY SubSeqProperties
  <2>2. SubSeq(stories, 1, i - 1) \o SubSeq(stories, i + 1, Len(stories))
          \in Seq(Sight!Story)
    BY <2>1, ConcatProperties
  <2> QED
    BY <1>5, <2>2, StoriesChange DEF Sight!deleteStory
<1>6. ASSUME NEW c \in Chats, Sight!Join(c)
      PROVE  SightInv'
  BY <1>6 DEF Sight!Join
<1>7. ASSUME NEW c \in Chats, Sight!Attach(c)
      PROVE  SightInv'
  BY <1>7 DEF Sight!Attach
<1>8. ASSUME NEW c \in Chats, Sight!Unsend(c)
      PROVE  SightInv'
  BY <1>8 DEF Sight!Unsend
<1>9. CASE Sight!markConversationRead
  BY <1>9 DEF Sight!markConversationRead, Sight!Remember
<1>10. CASE Sight!OwnerLooks
  BY <1>10 DEF Sight!OwnerLooks, Sight!presentMessage, Sight!readReceiptVisibleTo
<1>11. CASE Sight!OwnerSearches
  BY <1>11 DEF Sight!OwnerSearches
<1>12. CASE Sight!ViewerActs
  BY <1>12 DEF Sight!ViewerActs
<1>13. CASE UNCHANGED Sight!visibilityVars
  BY <1>13 DEF Sight!visibilityVars
<1> QED
  BY <1>1, <1>2, <1>3, <1>4, <1>5, <1>6, <1>7, <1>8, <1>9, <1>10, <1>11, <1>12, <1>13
  DEF Sight!Next

\* A story that is shown has its medium opened, unless another story keeps it.
LEMMA StoryOpens ==
  ASSUME SightInv, "story" \in Sight!getStories, ~Sight!AlsoHidden
  PROVE  Sight!canUserReadUpload("story")
<1>1. PICK i \in DOMAIN stories : Sight!canAccessStory(stories[i])
  BY DEF Sight!getStories, Sight!Posted
<1>2. 1 \in DOMAIN stories
  BY <1>1 DEF SightInv, Sight!TypeOK
<1>3. Sight!FoundStory # {} /\ Sight!FoundStory \subseteq Sight!Posted
  BY <1>1, <1>2 DEF Sight!FoundStory, Sight!Posted
<1>4. \A s \in Sight!FoundStory : Sight!canAccessStory(s)
  BY <1>3 DEF Sight!AlsoHidden
<1> QED
  BY <1>3, <1>4 DEF Sight!canUserReadUpload

LEMMA NamedIsOpen == SightInv => Sight!ShownIsOpen
<1> SUFFICES ASSUME SightInv
             PROVE  Sight!ShownIsOpen
  OBVIOUS
<1> USE DEF SightInv
<1>1. Sight!canUserReadUpload("face") <=> Sight!canViewPrivacySetting(photo)
  BY DEF Sight!canUserReadUpload
<1>2. Sight!canUserReadUpload("attachment") <=> claims \cap inside # {}
  BY DEF Sight!canUserReadUpload
<1>3. ASSUME NEW file \in Sight!presentUserForViewer
      PROVE  Sight!canUserReadUpload(file)
  BY <1>1, <1>3 DEF Sight!presentUserForViewer
\* An attachment is named of conversations the viewer is in.
<1>4. ASSUME NEW c \in inside, posts[c] \in Sight!Shown
      PROVE  Sight!canUserReadUpload("attachment")
  BY <1>2, <1>4 DEF Sight!TypeOK
<1>5. ASSUME NEW file \in Sight!Named, file # "group",
             ~(file = "story" /\ Sight!AlsoHidden)
      PROVE  Sight!canUserReadUpload(file)
  <2>1. CASE file \in Sight!getConversations
    BY <1>3, <1>5, <2>1 DEF Sight!getConversations, Sight!presentConversation
  <2>2. CASE file \in Sight!getStories
    BY <1>3, <1>5, <2>2, StoryOpens DEF Sight!getStories, Sight!presentStory
  <2>3. CASE file \in Sight!listFriends
    BY <1>3, <2>3 DEF Sight!listFriends
  <2>4. ASSUME NEW c \in inside, file \in Sight!getMessages(c)
        PROVE  Sight!canUserReadUpload(file)
    BY <1>3, <1>4, <2>4 DEF Sight!getMessages
  <2> QED
    BY <1>5, <2>1, <2>2, <2>3, <2>4 DEF Sight!Named
\* Only an administrator's answer, or a search over the memory store, shows a
\* picture unasked.
<1>6. ASSUME NEW file \in (Sight!searchEverything \cup Sight!adminAnswers) \ Sight!Named
      PROVE  \/ file = "face" /\ (store = "memory" \/ admin)
             \/ Sight!canUserReadUpload(file)
  <2>1. CASE file \in Sight!FoundUser
    BY <1>3, <2>1 DEF Sight!FoundUser
  <2>2. CASE file \in Sight!getConversations
    BY <1>6, <2>2 DEF Sight!Named
  <2>3. CASE file = "attachment" /\ \E c \in inside : posts[c] \in Sight!Shown
    BY <1>4, <2>3
  <2>4. CASE file \in Sight!adminAnswers
    BY <2>4 DEF Sight!adminAnswers
  <2> QED
    BY <1>6, <2>1, <2>2, <2>3, <2>4 DEF Sight!searchEverything
<1> QED
  BY <1>5, <1>6 DEF Sight!ShownIsOpen

LEMMA SightSafe == SightInv => Sight!TypeOK /\ Sight!ShownIsOpen
BY NamedIsOpen DEF SightInv

\* What a user is shown of another has one of the forms the code gives it.
THEOREM VisibilityTypes == Sight!Spec => []Sight!TypeOK
BY SightInit, SightStep, SightSafe, PTL DEF Sight!Spec

\* A file that is named can be downloaded, and who keeps its receipts is not
\* given away, but for a group's picture, a medium that another story hides, and
\* what a search over the memory store or an administrator's answer names
\* (dataService.js:172-174, 272-287, 384-433).
THEOREM WhatIsShownIsOpen == Sight!Spec => []Sight!ShownIsOpen
BY SightInit, SightStep, SightSafe, PTL DEF Sight!Spec

-----------------------------------------------------------------------------
\* The entry's code was drawn and is not dead, and every dead code was drawn;
\* over memory no handler puts an entry back, so that what was compared with the
\* entry's code is counted in the entry.
CodesInv ==
  /\ Code!TypeOK
  /\ dead \subseteq drawn
  /\ entry # None => entry.code \in drawn
  /\ \A c \in Checks : check[c].pc \in {"mailing", "registering", "applying"} =>
       check[c].code \in drawn
  /\ \A c \in Checks : Code!At(c, "puttingBack") =>
       /\ store = "mongo"
       /\ check[c].seen \in Code!Entries /\ check[c].seen.code \in drawn
  /\ store = "memory" =>
       /\ entry # None => /\ entry.code \notin dead
                          /\ guesses[entry.code] <= entry.attempts
       /\ \A k \in Numbers : /\ guesses[k] <= MaxAttempts
                             /\ k \notin drawn => guesses[k] = 0

LEMMA CodesInit == ASSUME Code!AttemptsAssumption, Code!Init PROVE CodesInv
BY DEF Code!AttemptsAssumption, Code!Init, CodesInv, Code!TypeOK, Code!Waiting, Code!At

LEMMA TriedEntry ==
  ASSUME Code!AttemptsAssumption, NEW e \in Code!Entries
  PROVE  /\ Code!Tried(e) \in Code!Entries
         /\ Code!Tried(e).code = e.code
         /\ Code!Tried(e).attempts <= MaxAttempts => Code!Tried(e).attempts = e.attempts + 1
         /\ e.attempts <= Code!Tried(e).attempts
BY DEF Code!AttemptsAssumption, Code!Tried, Code!Entries

\* A guess that is compared is counted, up to the limit.
LEMMA GuessCounted ==
  ASSUME Code!AttemptsAssumption, CodesInv, entry # None,
         guesses' = Code!Compared(Code!Tried(entry))
  PROVE  /\ guesses' \in [Numbers -> 0..(MaxAttempts + 1)]
         /\ \A k \in Numbers : k # entry.code => guesses'[k] = guesses[k]
         /\ store = "memory" =>
              /\ guesses'[entry.code] <= Code!Tried(entry).attempts
              /\ guesses'[entry.code] <= MaxAttempts
<1> DEFINE e == Code!Tried(entry)
<1>1. /\ entry \in Code!Entries /\ entry.code \in Numbers
      /\ guesses \in [Numbers -> 0..(MaxAttempts + 1)]
  BY DEF CodesInv, Code!TypeOK, Code!Entries
<1>2. /\ e \in Code!Entries /\ e.code = entry.code
      /\ e.attempts <= MaxAttempts => e.attempts = entry.attempts + 1
      /\ entry.attempts <= e.attempts
      /\ e.attempts \in Nat /\ entry.attempts \in Nat
  BY <1>1, TriedEntry DEF Code!Entries
<1> HIDE DEF e
<1>3. guesses' = IF e.attempts <= MaxAttempts /\ guesses[entry.code] <= MaxAttempts
                   THEN [guesses EXCEPT ![entry.code] = @ + 1] ELSE guesses
  BY <1>2 DEF Code!Compared, e
<1>4. store = "memory" => guesses[entry.code] <= entry.attempts
                          /\ guesses[entry.code] <= MaxAttempts
  BY <1>1 DEF CodesInv
<1> QED
  BY <1>1, <1>2, <1>3, <1>4 DEF Code!AttemptsAssumption, e

LEMMA CodesStep ==
  ASSUME Code!AttemptsAssumption, CodesInv, [Code!Next]_Code!codeVars
  PROVE  CodesInv'
<1> USE DEF CodesInv, Code!TypeOK, Code!At
<1>t. check \in [Checks ->
       [pc : {"idle", "mailing", "registering", "creating", "puttingBack",
              "applying"},
        code : Numbers \cup {None}, seen : Code!Entries \cup {None}]]
  OBVIOUS
<1>e. ASSUME entry # None  PROVE  entry \in Code!Entries /\ entry.code \in Numbers
  BY <1>e DEF Code!Entries
<1>1. ASSUME NEW c \in Checks, NEW k \in Numbers, NEW pc \in {"registering", "mailing"},
             Code!Draw(c, k, pc)
      PROVE  CodesInv'
  <2>1. entry' \in Code!Entries /\ entry'.code = k /\ entry'.attempts = 0
    BY <1>1 DEF Code!Draw, Code!Entries, Code!AttemptsAssumption
  <2>2. dead' \subseteq drawn /\ k \notin dead'
    BY <1>1, <1>e DEF Code!Draw
  <2>3. check' = [check EXCEPT ![c] = [pc |-> pc, code |-> k, seen |-> None]]
    BY <1>1 DEF Code!Draw, Code!Become
  <2> QED
    BY <1>1, <2>1, <2>2, <2>3, <1>t DEF Code!Draw, Code!AttemptsAssumption
<1>2. ASSUME NEW c \in Checks, Code!Mailed(c)
      PROVE  CodesInv'
  <2>1. check[c].code \in drawn
    BY <1>2 DEF Code!Mailed
  <2>2. \E r : /\ check' = [check EXCEPT ![c] = r]
               /\ r = Code!Waiting \/ r = [pc |-> "creating", code |-> None, seen |-> None]
    BY <1>2 DEF Code!Mailed, Code!Become
  <2> QED
    BY <1>2, <2>1, <2>2, <1>t DEF Code!Mailed, Code!Waiting
<1>3. ASSUME NEW c \in Checks, Code!MailFails(c)
      PROVE  CodesInv'
  <2>1. entry' = None /\ dead' \subseteq drawn
    BY <1>3, <1>e DEF Code!MailFails
  <2> QED
    BY <1>3, <2>1 DEF Code!MailFails, Code!Waiting
<1>4. ASSUME NEW c \in Checks, Code!CreateUser(c)
      PROVE  CodesInv'
  <2>1. accounts' \in Nat
    BY <1>4 DEF Code!CreateUser
  <2> QED
    BY <1>4, <2>1 DEF Code!CreateUser, Code!Waiting
<1>5. ASSUME NEW c \in Checks, Code!Wrong(c)
      PROVE  CodesInv'
  <2>1. /\ entry # None /\ entry \in Code!Entries /\ Code!Tried(entry) \in Code!Entries
        /\ Code!Tried(entry).code = entry.code /\ entry.code \in drawn
    BY <1>5, <1>e, TriedEntry DEF Code!Wrong, Code!Guess
  <2>2. CASE store = "memory"
    BY <1>5, <2>1, <2>2, GuessCounted DEF Code!Wrong
  <2>3. CASE store # "memory"
    <3>1. check' = [check EXCEPT ![c] = [pc |-> "puttingBack", code |-> None,
                                         seen |-> Code!Tried(entry)]]
      BY <1>5, <2>3 DEF Code!Wrong, Code!Become
    <3> QED
      BY <1>5, <2>1, <2>3, <3>1, <1>t, GuessCounted DEF Code!Wrong
  <2> QED
    BY <2>2, <2>3
<1>6. ASSUME NEW c \in Checks, Code!PutBack(c)
      PROVE  CodesInv'
  BY <1>6 DEF Code!PutBack, Code!Waiting, Code!Entries
<1>7. ASSUME NEW c \in Checks, Code!Right(c)
      PROVE  CodesInv'
  <2>1. /\ entry # None /\ entry \in Code!Entries /\ Code!Tried(entry) \in Code!Entries
        /\ Code!Tried(entry).code = entry.code /\ entry.code \in drawn
    BY <1>7, <1>e, TriedEntry DEF Code!Right, Code!Guess
  <2>2. check' = [check EXCEPT ![c] = [pc |-> "applying", code |-> entry.code,
                                       seen |-> None]]
    BY <1>7 DEF Code!Right, Code!Become
  <2> QED
    BY <1>7, <1>e, <2>1, <2>2, <1>t, GuessCounted DEF Code!Right
<1>8. ASSUME NEW c \in Checks, Code!BadPassword(c)
      PROVE  CodesInv'
  BY <1>8 DEF Code!BadPassword, Code!Waiting
<1>9. ASSUME NEW c \in Checks, Code!UseUp(c)
      PROVE  CodesInv'
  <2>1. entry' = None /\ dead' \subseteq drawn
    BY <1>9, <1>e DEF Code!UseUp
  <2> QED
    BY <1>9, <2>1 DEF Code!UseUp, Code!Waiting
<1>10. ASSUME NEW k \in Numbers, Code!Expire(k)
       PROVE  CodesInv'
  BY <1>10 DEF Code!Expire
<1>11. CASE UNCHANGED Code!codeVars
  BY <1>11 DEF Code!codeVars
<1> QED
  BY <1>1, <1>2, <1>3, <1>4, <1>5, <1>6, <1>7, <1>8, <1>9, <1>10, <1>11
  DEF Code!Next, Code!Register, Code!Issue

LEMMA CodesSafe == CodesInv => Code!TypeOK /\ Code!CodesAreSpent
BY DEF CodesInv, Code!CodesAreSpent

\* The attempts of an entry and the guesses at a code stay within their bounds.
THEOREM CodeTypes ==
  ASSUME Code!AttemptsAssumption
  PROVE  Code!Spec => []Code!TypeOK
BY CodesInit, CodesStep, CodesSafe, PTL DEF Code!Spec

\* Without Redis a code that was used or replaced is never valid again, and no
\* code is compared with more guesses than the limit, whatever handlers cross
\* (authService.js:280-351).
THEOREM CodesStaySpent ==
  ASSUME Code!AttemptsAssumption
  PROVE  Code!Spec => []Code!CodesAreSpent
BY CodesInit, CodesStep, CodesSafe, PTL DEF Code!Spec

-----------------------------------------------------------------------------
\* A connection, a timer, and the lock under way.
Busy(s)  == phase[s] \in {"asking", "writing"}
Fired(t) == grace[t] \in {"empty", "written"}

\* Over the memory store one handler is under way at a time.
Alone ==
  /\ \A s, r \in Sockets : Busy(s) /\ Busy(r) => s = r
  /\ \A t, u \in Timers : Fired(t) /\ Fired(u) => t = u
  /\ \A s \in Sockets, t \in Timers : ~(Busy(s) /\ Fired(t))
  /\ locking => \A s \in Sockets, t \in Timers : ~Busy(s) /\ ~Fired(t)

\* A connection that is writing has joined or has closed; when no socket is left
\* a timer will clear the flag a connection has set; who is connected over
\* memory was never called gone; and what is open to a locked user was on its
\* way when the lock closed the rest.
PresenceInv ==
  /\ Online!TypeOK
  /\ \A s \in Sockets : phase[s] = "writing" => s \in room \cup missed
  /\ flag = "socket" /\ room = {} /\ missed = {} =>
       \E t \in Timers : grace[t] \in {"armed", "empty"}
  /\ locked /\ ~locking =>
       /\ room \subseteq crossing
       /\ \A s \in Sockets : phase[s] = "asking" => s \in crossing
  /\ store = "memory" =>
       /\ Alone
       /\ crossing = {}
       /\ \A t \in Timers : Fired(t) => room = {}
       /\ flag = "left" /\ room # {} => \E s \in Sockets : phase[s] = "writing"

LEMMA PresenceInit == Online!Init => PresenceInv
BY DEF Online!Init, PresenceInv, Online!TypeOK, Online!Flags, Alone, Busy, Fired

\* clearPendingOffline leaves every timer that has fired as it is.
LEMMA ClearedTimers ==
  ASSUME Online!TypeOK
  PROVE  /\ Online!Cleared \in [Timers -> {"free", "armed", "empty", "written"}]
         /\ \A t \in Timers : \/ Online!Cleared[t] = grace[t]
                              \/ grace[t] = "armed" /\ Online!Cleared[t] = "free"
BY DEF Online!TypeOK, Online!Cleared

LEMMA PresenceStep ==
  ASSUME PresenceInv, [Online!Next]_Online!presenceVars
  PROVE  PresenceInv'
<1> USE DEF PresenceInv, Online!TypeOK, Online!Flags, Alone, Busy, Fired, Online!Working,
        Online!CanStart, Online!lockVars
<1>1. CASE Online!SignIn \/ Online!SignOut
  BY <1>1 DEF Online!SignIn, Online!SignOut
<1>2. ASSUME NEW s \in Sockets, Online!Connect(s)
      PROVE  PresenceInv'
  BY <1>2 DEF Online!Connect
<1>3. ASSUME NEW s \in Sockets, Online!Join(s)
      PROVE  PresenceInv'
  BY <1>3, ClearedTimers DEF Online!Join
<1>4. ASSUME NEW s \in Sockets, Online!WriteOnline(s)
      PROVE  PresenceInv'
  BY <1>4 DEF Online!WriteOnline
<1>5. ASSUME NEW s \in Sockets, Online!CloseEarly(s)
      PROVE  PresenceInv'
  BY <1>5 DEF Online!CloseEarly
<1>6. ASSUME NEW s \in Sockets, NEW t \in Timers, Online!Disconnect(s, t)
      PROVE  PresenceInv'
  BY <1>6, ClearedTimers DEF Online!Disconnect
<1>7. ASSUME NEW t \in Timers, Online!Fire(t)
      PROVE  PresenceInv'
  BY <1>7 DEF Online!Fire
<1>8. ASSUME NEW t \in Timers, Online!WriteOffline(t)
      PROVE  PresenceInv'
  BY <1>8 DEF Online!WriteOffline
<1>9. ASSUME NEW t \in Timers, Online!Finish(t)
      PROVE  PresenceInv'
  BY <1>9 DEF Online!Finish
<1>10. CASE Online!Lock
  BY <1>10 DEF Online!Lock
<1>11. ASSUME NEW t \in Timers, Online!DropSockets(t)
       PROVE  PresenceInv'
  BY <1>11, ClearedTimers DEF Online!DropSockets
<1>12. CASE Online!Unlock
  BY <1>12 DEF Online!Unlock
<1>13. CASE UNCHANGED Online!presenceVars
  BY <1>13 DEF Online!presenceVars
<1> QED
  BY <1>1, <1>2, <1>3, <1>4, <1>5, <1>6, <1>7, <1>8, <1>9, <1>10, <1>11, <1>12,
     <1>13 DEF Online!Next

LEMMA PresenceSafe == PresenceInv => Online!TypeOK /\ Online!FlagFollowsSockets
BY DEF PresenceInv, Online!FlagFollowsSockets, Online!Quiet, Online!LockedIsOut,
       Online!Working, Fired, Busy

\* A connection, a timer and the flag keep one of the states the code gives them.
THEOREM PresenceTypes == Online!Spec => []Online!TypeOK
BY PresenceInit, PresenceStep, PresenceSafe, PTL DEF Online!Spec

\* A socket whose disconnect handler ran leaves nobody online; over the memory
\* store no timer turns a connected user offline; and a lock leaves the user no
\* socket but those that crossed it (sockets/index.js:36-45, 235-246,
\* moderationController.js:35-52).
THEOREM FlagIsRight == Online!Spec => []Online!FlagFollowsSockets
BY PresenceInit, PresenceStep, PresenceSafe, PTL DEF Online!Spec

-----------------------------------------------------------------------------
\* What Uploads.tla counts with is what the facts about finite sets are about.
LEMMA ShelfCounts ==
  /\ \A s : Shelf!IsFiniteSet(s) <=> IsFiniteSet(s)
  /\ \A s : Shelf!Cardinality(s) = Cardinality(s)
BY Zenon DEF Shelf!IsFiniteSet, IsFiniteSet, Shelf!Cardinality, Cardinality

\* The upload has a file on disk and no record of it yet.
Coming(j) == job[j].pc \in {"quota", "storing"}
Storing   == {j \in Jobs : Shelf!At(j, "storing")}

\* Every upload has a file of its own, which nothing knows yet; a request beyond
\* that has one that is, or was, recorded.
JobsOK ==
  /\ \A j \in Jobs : Coming(j) =>
       job[j].file \in disk /\ job[j].file \notin Shelf!Active \cup old \cup used
  /\ \A j, k \in Jobs : Coming(j) /\ Coming(k) /\ job[j].file = job[k].file => j = k
  /\ \A j \in Jobs : job[j].pc \in {"auditing", "using"} =>
       job[j].file \in Shelf!Active \cup old

\* A file is recorded once, and until the clean-up is about to mark the record it
\* is on disk, or its audit entry failed.
FilesOK ==
  /\ \A i, k \in DOMAIN shelf : shelf[i] = shelf[k] => i = k
  /\ \A f \in disk : f \in Shelf!Active \/ \E j \in Jobs : Coming(j) /\ job[j].file = f
  /\ \A f \in Shelf!Active : f \in disk \cup unaudited \/ (sweep.pc = "mark" /\ sweep.at = f)
  /\ used \subseteq Shelf!Active \cup old
  /\ used \subseteq disk \cup late \cup unaudited

\* The clean-up works on old records, and knows of the claims it is too late for.
SweepOK ==
  /\ sweep.todo \subseteq old
  /\ store = "memory" => sweep.todo \cap used \subseteq late
  /\ sweep.pc \in {"remove", "mark"} =>
       sweep.at \in old /\ (sweep.at \in used => sweep.at \in late)
  /\ sweep.pc = "mark" => sweep.at \notin disk

\* Uploads that have passed the quota have reserved their place.
QuotaOK == Len(shelf) + Cardinality(Storing) < Quota + Cardinality(Jobs)

UploadInv == Shelf!TypeOK /\ JobsOK /\ FilesOK /\ SweepOK /\ QuotaOK

LEMMA UploadInit == ASSUME Shelf!UploadAssumption, Shelf!Init PROVE UploadInv
<1> USE DEF Shelf!UploadAssumption, Shelf!Init, Shelf!NoJob, Shelf!NoSweep
<1>1. Shelf!TypeOK
  BY ShelfCounts DEF Shelf!TypeOK
<1>2. JobsOK /\ FilesOK /\ SweepOK
  BY DEF JobsOK, FilesOK, SweepOK, Shelf!Active, Shelf!Range, Coming
<1>3. Storing = {}
  BY DEF Storing, Shelf!At
<1>4. Cardinality(Jobs) \in Nat /\ Cardinality(Jobs) # 0
  BY ShelfCounts, FS_CardinalityType, FS_EmptySet
<1>5. QuotaOK
  BY <1>3, <1>4, FS_EmptySet DEF QuotaOK
<1> QED
  BY <1>1, <1>2, <1>5 DEF UploadInv

\* What the shelf holds after a record is added or one is marked deleted.
LEMMA ShelfAppend ==
  ASSUME shelf \in Seq(Files), NEW f \in Files, shelf' = Append(shelf, f)
  PROVE  /\ shelf' \in Seq(Files)
         /\ Len(shelf') = Len(shelf) + 1
         /\ Shelf!Active' = Shelf!Active \cup {f}
         /\ f \notin Shelf!Active /\ (\A i, k \in DOMAIN shelf : shelf[i] = shelf[k] => i = k) =>
              \A i, k \in DOMAIN shelf' : shelf'[i] = shelf'[k] => i = k
BY DEF Shelf!Active, Shelf!Range

LEMMA ShelfRemove ==
  ASSUME shelf \in Seq(Files), NEW n \in DOMAIN shelf,
         shelf' = Shelf!RemoveAt(shelf, n),
         \A i, k \in DOMAIN shelf : shelf[i] = shelf[k] => i = k
  PROVE  /\ shelf' \in Seq(Files)
         /\ Len(shelf') = Len(shelf) - 1
         /\ Shelf!Active' = Shelf!Active \ {shelf[n]}
         /\ \A i, k \in DOMAIN shelf' : shelf'[i] = shelf'[k] => i = k
<1>1. n \in 1..Len(shelf)
  OBVIOUS
<1>2. /\ shelf' \in Seq(Files)
      /\ Len(shelf') = Len(shelf) - 1
      /\ \A i \in 1..(Len(shelf) - 1) :
           shelf'[i] = IF i < n THEN shelf[i] ELSE shelf[i + 1]
  <2> DEFINE front == SubSeq(shelf, 1, n - 1)
             back  == SubSeq(shelf, n + 1, Len(shelf))
  <2>1. /\ front \in Seq(Files) /\ Len(front) = n - 1
        /\ \A i \in 1..(n - 1) : front[i] = shelf[i]
    BY <1>1, SubSeqProperties
  <2>2. /\ back \in Seq(Files) /\ Len(back) = Len(shelf) - n
        /\ \A i \in 1..(Len(shelf) - n) : back[i] = shelf[n + i]
    BY <1>1, SubSeqProperties
  <2>3. shelf' = front \o back
    BY DEF Shelf!RemoveAt
  <2> HIDE DEF front, back
  <2>4. /\ shelf' \in Seq(Files) /\ Len(shelf') = Len(front) + Len(back)
        /\ \A i \in 1..(Len(front) + Len(back)) :
             shelf'[i] = IF i <= Len(front) THEN front[i] ELSE back[i - Len(front)]
    <3>1. front \in Seq(Files) /\ back \in Seq(Files)
      BY <2>1, <2>2
    <3>2. /\ front \o back \in Seq(Files)
          /\ Len(front \o back) = Len(front) + Len(back)
          /\ \A i \in 1 .. Len(front) + Len(back) : (front \o back)[i] =
                IF i <= Len(front) THEN front[i] ELSE back[i - Len(front)]
      BY <3>1, ConcatProperties
    <3> QED
      BY <2>3, <3>2
  <2>5. ASSUME NEW i \in 1..(Len(shelf) - 1)
        PROVE  shelf'[i] = IF i < n THEN shelf[i] ELSE shelf[i + 1]
    <3>1. CASE i < n
      BY <1>1, <2>1, <2>4, <3>1
    <3>2. CASE ~(i < n)
      <4>1. i - (n - 1) \in 1..(Len(shelf) - n) /\ n + (i - (n - 1)) = i + 1
        BY <1>1, <3>2
      <4>2. back[i - (n - 1)] = shelf[i + 1]
        BY <2>2, <4>1
      <4> QED
        BY <1>1, <2>1, <2>2, <2>4, <3>2, <4>2
    <3> QED
      BY <3>1, <3>2
  <2> QED
    BY <1>1, <2>1, <2>2, <2>4, <2>5
<1>3. \A i \in 1..Len(shelf) : i # n =>
        \E k \in 1..(Len(shelf) - 1) : shelf'[k] = shelf[i]
  <2> TAKE i \in 1..Len(shelf)
  <2>1. CASE i < n
    BY <2>1, <1>1, <1>2
  <2>2. CASE i > n
    <3>1. i - 1 \in 1..(Len(shelf) - 1) /\ ~(i - 1 < n)
      BY <2>2, <1>1
    <3> QED
      BY <3>1, <1>2
  <2> QED
    BY <2>1, <2>2, <1>1
<1>4. ASSUME NEW k \in 1..(Len(shelf) - 1)
      PROVE  \E i \in 1..Len(shelf) : i # n /\ shelf'[k] = shelf[i]
  <2>1. k \in 1..Len(shelf) /\ k + 1 \in 1..Len(shelf)
    BY <1>1
  <2> QED
    BY <1>1, <1>2, <2>1
<1>5. DOMAIN shelf' = 1..(Len(shelf) - 1) /\ DOMAIN shelf = 1..Len(shelf)
  BY <1>2
<1>6. Shelf!Active' = Shelf!Active \ {shelf[n]}
  <2>1. Shelf!Active' = {shelf'[k] : k \in 1..(Len(shelf) - 1)}
    BY <1>5 DEF Shelf!Active, Shelf!Range
  <2>2. Shelf!Active = {shelf[i] : i \in 1..Len(shelf)}
    BY <1>5 DEF Shelf!Active, Shelf!Range
  <2>3. \A i \in 1..Len(shelf) : shelf[i] = shelf[n] => i = n
    BY <1>1, <1>5
  <2>4. ASSUME NEW f \in Shelf!Active'
        PROVE  f \in Shelf!Active \ {shelf[n]}
    BY <1>1, <1>4, <2>1, <2>2, <2>3
  <2>5. ASSUME NEW f \in Shelf!Active \ {shelf[n]}
        PROVE  f \in Shelf!Active'
    BY <1>3, <2>1, <2>2, <2>5
  <2> QED
    BY <2>4, <2>5
<1>7. ASSUME NEW i \in DOMAIN shelf', NEW k \in DOMAIN shelf', shelf'[i] = shelf'[k]
      PROVE  i = k
  <2>1. /\ i \in 1..Len(shelf) /\ i + 1 \in 1..Len(shelf)
        /\ k \in 1..Len(shelf) /\ k + 1 \in 1..Len(shelf)
    BY <1>1, <1>5
  <2> QED
    BY <1>1, <1>2, <1>5, <1>7, <2>1
<1> QED
  BY <1>2, <1>6, <1>7

\* Places that are not taken, or are given up, leave the quota as it is.
LEMMA QuotaKept ==
  ASSUME Shelf!UploadAssumption, QuotaOK, shelf \in Seq(Files), shelf' \in Seq(Files),
         Len(shelf') <= Len(shelf), Storing' \subseteq Storing
  PROVE  QuotaOK'
<1>1. IsFiniteSet(Storing)
  BY ShelfCounts, FS_Subset DEF Storing, Shelf!UploadAssumption
<1>2. /\ Cardinality(Storing') <= Cardinality(Storing)
      /\ Cardinality(Storing') \in Nat /\ Cardinality(Storing) \in Nat
  BY <1>1, FS_Subset, FS_CardinalityType
<1>3. Cardinality(Jobs) \in Nat
  BY ShelfCounts, FS_CardinalityType DEF Shelf!UploadAssumption
<1> QED
  BY ShelfCounts, <1>2, <1>3 DEF QuotaOK, Shelf!UploadAssumption

\* The job a request goes on to.
LEMMA JobMoves ==
  ASSUME Shelf!TypeOK, NEW j \in Jobs,
         NEW pc \in {"idle", "quota", "storing", "auditing", "using"},
         NEW f \in Files \cup {None},
         job' = [job EXCEPT ![j] = [pc |-> pc, file |-> f]]
  PROVE  /\ job' \in [Jobs -> [pc : {"idle", "quota", "storing", "auditing", "using"},
                               file : Files \cup {None}]]
         /\ job'[j].pc = pc /\ job'[j].file = f
         /\ \A k \in Jobs : k # j => job'[k] = job[k]
         /\ pc # "storing" => Storing' \subseteq Storing
BY ShelfCounts DEF Shelf!TypeOK, Storing, Shelf!At

\* A file is claimed: it is recorded, or too late.
LEMMA ClaimKeeps ==
  ASSUME Shelf!TypeOK, FilesOK, SweepOK, NEW f \in Shelf!Active \cup old, f \in Files,
         Shelf!Claim(f),
         UNCHANGED << store, disk, shelf, old, sweep, unaudited >>
  PROVE  /\ used' \subseteq Shelf!Active' \cup old'
         /\ used' \subseteq disk' \cup late' \cup unaudited'
         /\ used' \subseteq Files /\ late' \subseteq Files
         /\ SweepOK'
<1>1. /\ used' = used \cup {f}
      /\ late \subseteq late' /\ late' \subseteq late \cup {f}
      /\ Shelf!Doomed(f) => f \in late'
      /\ Shelf!Active' = Shelf!Active
  BY DEF Shelf!Claim, Shelf!Active
<1>2. f \in disk \cup unaudited \/ Shelf!Doomed(f)
  BY DEF FilesOK, Shelf!Doomed
<1>3. SweepOK'
  BY <1>1 DEF SweepOK, Shelf!Doomed
<1> QED
  BY ShelfCounts, <1>1, <1>2, <1>3 DEF FilesOK, Shelf!TypeOK

LEMMA UploadStep ==
  ASSUME Shelf!UploadAssumption, UploadInv, [Shelf!Next]_Shelf!uploadVars
  PROVE  UploadInv'
<1> USE DEF UploadInv
<1>0. /\ Shelf!TypeOK /\ JobsOK /\ FilesOK /\ SweepOK /\ QuotaOK
      /\ shelf \in Seq(Files) /\ None \notin Files
      /\ Shelf!Active \subseteq Files
      /\ \A j \in Jobs : Coming(j) => job[j].file \in Files
  BY ShelfCounts DEF Shelf!TypeOK, Shelf!UploadAssumption, Shelf!Active, Shelf!Range,
     JobsOK
<1>1. ASSUME NEW j \in Jobs, NEW f \in Files, Shelf!Receive(j, f)
      PROVE  UploadInv'
  <2>1. /\ Shelf!At(j, "idle") /\ f \notin disk \cup Shelf!Active \cup old /\ disk' = disk \cup {f}
        /\ job' = [job EXCEPT ![j] = [pc |-> "quota", file |-> f]]
        /\ UNCHANGED << store, shelf, old, used, sweep, late, unaudited >>
        /\ Shelf!Active' = Shelf!Active
    BY <1>1 DEF Shelf!Receive, Shelf!Goto, Shelf!Active
  <2>2. /\ job'[j].pc = "quota" /\ job'[j].file = f
        /\ \A k \in Jobs : k # j => job'[k] = job[k]
        /\ Storing' \subseteq Storing
    BY <1>0, <2>1, JobMoves
  <2>3. Shelf!TypeOK'
    BY ShelfCounts, <1>0, <2>1, JobMoves DEF Shelf!TypeOK
  <2>4. JobsOK'
    BY <1>0, <2>1, <2>2 DEF JobsOK, FilesOK, Coming, Shelf!At
  <2>5. FilesOK'
    BY <1>0, <2>1, <2>2 DEF FilesOK, Coming, Shelf!At
  <2>6. SweepOK'
    BY <1>0, <2>1 DEF SweepOK
  <2>7. QuotaOK'
    BY <1>0, <2>1, <2>2, QuotaKept
  <2> QED
    BY <2>3, <2>4, <2>5, <2>6, <2>7
<1>2. ASSUME NEW j \in Jobs, Shelf!Refuse(j)
      PROVE  UploadInv'
  <2>1. /\ Coming(j) /\ disk' = disk \ {job[j].file}
        /\ job' = [job EXCEPT ![j] = [pc |-> "idle", file |-> None]]
        /\ UNCHANGED << store, shelf, old, used, sweep, late, unaudited >>
        /\ Shelf!Active' = Shelf!Active
    BY <1>2 DEF Shelf!Refuse, Shelf!Done, Shelf!NoJob, Shelf!Active, Coming, Shelf!At
  <2>2. /\ job'[j].pc = "idle"
        /\ \A k \in Jobs : k # j => job'[k] = job[k]
        /\ Storing' \subseteq Storing
    BY <1>0, <2>1, JobMoves
  <2>3. Shelf!TypeOK'
    BY ShelfCounts, <1>0, <2>1, JobMoves DEF Shelf!TypeOK
  <2>4. JobsOK'
    BY <1>0, <2>1, <2>2 DEF JobsOK, Coming
  <2>5. FilesOK'
    BY <1>0, <2>1, <2>2 DEF FilesOK, JobsOK, Coming
  <2>6. SweepOK'
    BY <1>0, <2>1 DEF SweepOK
  <2>7. QuotaOK'
    BY <1>0, <2>1, <2>2, QuotaKept
  <2> QED
    BY <2>3, <2>4, <2>5, <2>6, <2>7
<1>3. ASSUME NEW j \in Jobs, Shelf!WithinQuota(j)
      PROVE  UploadInv'
  <2>1. /\ Shelf!At(j, "quota") /\ Len(shelf) + 1 <= Quota
        /\ job' = [job EXCEPT ![j] = [pc |-> "storing", file |-> job[j].file]]
        /\ UNCHANGED << store, disk, shelf, old, used, sweep, late, unaudited >>
        /\ Shelf!Active' = Shelf!Active /\ job[j].file \in Files
    BY <1>0, <1>3 DEF Shelf!WithinQuota, Shelf!Goto, Shelf!Active, Shelf!At, Coming
  <2>2. /\ job'[j].pc = "storing" /\ job'[j].file = job[j].file
        /\ \A k \in Jobs : k # j => job'[k] = job[k]
    BY <1>0, <2>1, JobMoves
  <2>3. Shelf!TypeOK'
    BY ShelfCounts, <1>0, <2>1, JobMoves DEF Shelf!TypeOK
  <2>4. JobsOK'
    BY <1>0, <2>1, <2>2 DEF JobsOK, Coming, Shelf!At
  <2>5. FilesOK'
    BY <1>0, <2>1, <2>2 DEF FilesOK, Coming, Shelf!At
  <2>6. SweepOK'
    BY <1>0, <2>1 DEF SweepOK
  \* There are no more places to reserve than requests.
  <2>7. QuotaOK'
    <3>1. Storing' \subseteq Jobs
      BY DEF Storing
    <3>2. /\ Cardinality(Storing') <= Cardinality(Jobs)
          /\ Cardinality(Storing') \in Nat /\ Cardinality(Jobs) \in Nat
      BY ShelfCounts, <3>1, FS_Subset, FS_CardinalityType DEF Shelf!UploadAssumption
    <3> QED
      BY ShelfCounts, <1>0, <2>1, <3>2 DEF QuotaOK, Shelf!UploadAssumption
  <2> QED
    BY <2>3, <2>4, <2>5, <2>6, <2>7
<1>4. ASSUME NEW j \in Jobs, Shelf!Register(j)
      PROVE  UploadInv'
  <2> DEFINE f == job[j].file
  <2>1. PICK to \in {"idle", "auditing"}, left \in {f, None} :
          /\ to = "auditing" => left = f
          /\ job' = [job EXCEPT ![j] = [pc |-> to, file |-> left]]
    BY <1>4 DEF Shelf!Register, Shelf!Goto, Shelf!Done, Shelf!NoJob
  <2>2. /\ Shelf!At(j, "storing") /\ shelf' = Append(shelf, f) /\ f \in Files
        /\ UNCHANGED << store, disk, old, used, sweep, late, unaudited >>
        /\ f \in disk /\ f \notin Shelf!Active \cup old \cup used
    BY <1>0, <1>4 DEF Shelf!Register, Shelf!At, Coming, JobsOK
  <2> HIDE DEF f
  <2>3. /\ shelf' \in Seq(Files) /\ Len(shelf') = Len(shelf) + 1
        /\ Shelf!Active' = Shelf!Active \cup {f}
        /\ \A i, k \in DOMAIN shelf' : shelf'[i] = shelf'[k] => i = k
    BY <1>0, <2>2, ShelfAppend DEF FilesOK
  <2>4. /\ job'[j].pc = to /\ job'[j].file = left
        /\ \A k \in Jobs : k # j => job'[k] = job[k]
        /\ \A k \in Jobs : Coming(k) /\ job[k].file = f => k = j
    BY <1>0, <2>1, <2>2, JobMoves DEF JobsOK, Coming, Shelf!At, f
  <2>5. Shelf!TypeOK'
    BY ShelfCounts, <1>0, <2>1, <2>2, <2>3, JobMoves DEF Shelf!TypeOK
  <2>6. JobsOK'
    BY <1>0, <2>1, <2>2, <2>3, <2>4 DEF JobsOK, Coming
  <2>7. FilesOK'
    BY <1>0, <2>1, <2>2, <2>3, <2>4 DEF FilesOK, Coming
  <2>8. SweepOK'
    BY <1>0, <2>2 DEF SweepOK
  <2>9. QuotaOK'
    <3>1. Storing' = Storing \ {j} /\ j \in Storing
      BY <2>1, <2>2, <2>4 DEF Storing, Shelf!At
    <3>2. IsFiniteSet(Storing)
      BY ShelfCounts, FS_Subset DEF Storing, Shelf!UploadAssumption
    <3>3. /\ Cardinality(Storing') = Cardinality(Storing) - 1
          /\ Cardinality(Storing) \in Nat
      BY <3>1, <3>2, FS_RemoveElement, FS_CardinalityType
    <3>4. Cardinality(Jobs) \in Nat
      BY ShelfCounts, FS_CardinalityType DEF Shelf!UploadAssumption
    <3> QED
      BY ShelfCounts, <1>0, <2>3, <3>3, <3>4 DEF QuotaOK, Shelf!UploadAssumption
  <2> QED
    BY <2>5, <2>6, <2>7, <2>8, <2>9
<1>5. ASSUME NEW j \in Jobs, Shelf!Audited(j) \/ Shelf!AuditFails(j)
      PROVE  UploadInv'
  <2>1. /\ Shelf!At(j, "auditing")
        /\ job' = [job EXCEPT ![j] = [pc |-> "idle", file |-> None]]
        /\ UNCHANGED << store, shelf, old, used, sweep, late >>
        /\ \/ UNCHANGED << disk, unaudited >>
           \/ /\ disk' = disk \ {job[j].file}
              /\ unaudited' = unaudited \cup {job[j].file}
        /\ Shelf!Active' = Shelf!Active
    BY <1>5 DEF Shelf!Audited, Shelf!AuditFails, Shelf!Done, Shelf!NoJob, Shelf!Active
  <2>2. /\ job'[j].pc = "idle"
        /\ \A k \in Jobs : k # j => job'[k] = job[k]
        /\ Storing' \subseteq Storing
        /\ job[j].file \in Shelf!Active \cup old
    BY <1>0, <2>1, JobMoves DEF JobsOK, Shelf!At
  <2>3. Shelf!TypeOK'
    <3>1. job[j].file \in Files
      BY ShelfCounts, <1>0, <2>2 DEF Shelf!TypeOK
    <3> QED
      BY ShelfCounts, <1>0, <2>1, <3>1, JobMoves DEF Shelf!TypeOK
  <2>4. JobsOK'
    BY <1>0, <2>1, <2>2 DEF JobsOK, Coming
  <2>5. FilesOK'
    BY <1>0, <2>1, <2>2 DEF FilesOK, JobsOK, Coming, Shelf!At
  <2>6. SweepOK'
    BY <1>0, <2>1 DEF SweepOK
  <2>7. QuotaOK'
    BY <1>0, <2>1, <2>2, QuotaKept
  <2> QED
    BY <2>3, <2>4, <2>5, <2>6, <2>7
<1>6. ASSUME NEW j \in Jobs, NEW f \in Files, Shelf!Use(j, f)
      PROVE  UploadInv'
  <2>1. /\ Shelf!At(j, "idle") /\ f \in Shelf!Active /\ Shelf!Active' = Shelf!Active
        /\ UNCHANGED << store, disk, shelf, old, sweep, unaudited >>
    BY <1>6 DEF Shelf!Use, Shelf!Active
  <2>2. CASE store = "memory"
    <3>1. Shelf!Claim(f) /\ job' = job
      BY <1>6, <2>2 DEF Shelf!Use
    <3>2. /\ used' = used \cup {f} /\ used' \subseteq Shelf!Active' \cup old' /\ SweepOK'
          /\ used' \subseteq disk' \cup late' \cup unaudited'
          /\ used' \subseteq Files /\ late' \subseteq Files
      BY <1>0, <2>1, <3>1, ClaimKeeps DEF Shelf!Claim
    <3>3. Shelf!TypeOK' /\ Storing' = Storing
      BY ShelfCounts, <1>0, <2>1, <3>1, <3>2 DEF Shelf!TypeOK, Storing, Shelf!At
    <3>4. JobsOK' /\ FilesOK'
      BY <1>0, <2>1, <3>1, <3>2 DEF JobsOK, FilesOK, Coming
    <3> QED
      BY <1>0, <2>1, <3>2, <3>3, <3>4, QuotaKept
  <2>3. CASE store # "memory"
    <3>1. /\ job' = [job EXCEPT ![j] = [pc |-> "using", file |-> f]]
          /\ UNCHANGED << used, late >>
      BY <1>6, <2>3 DEF Shelf!Use, Shelf!Goto
    <3>2. /\ job'[j].pc = "using" /\ job'[j].file = f
          /\ \A k \in Jobs : k # j => job'[k] = job[k]
          /\ Storing' \subseteq Storing
      BY <1>0, <3>1, JobMoves
    <3>3. Shelf!TypeOK' /\ SweepOK'
      BY ShelfCounts, <1>0, <2>1, <3>1, JobMoves DEF Shelf!TypeOK, SweepOK
    <3>4. JobsOK' /\ FilesOK'
      BY <1>0, <2>1, <3>1, <3>2 DEF JobsOK, FilesOK, Coming, Shelf!At
    <3> QED
      BY <1>0, <2>1, <3>2, <3>3, <3>4, QuotaKept
  <2> QED
    BY <2>2, <2>3
<1>7. ASSUME NEW j \in Jobs, Shelf!StoreUse(j)
      PROVE  UploadInv'
  <2> DEFINE f == job[j].file
  <2>1. /\ Shelf!At(j, "using") /\ Shelf!Active' = Shelf!Active /\ Shelf!Claim(f)
        /\ job' = [job EXCEPT ![j] = [pc |-> "idle", file |-> None]]
        /\ UNCHANGED << store, disk, shelf, old, sweep, unaudited >>
    BY <1>7 DEF Shelf!StoreUse, Shelf!Active, Shelf!Done, Shelf!NoJob
  <2>2. f \in Shelf!Active \cup old /\ f \in Files
    BY ShelfCounts, <1>0, <2>1 DEF JobsOK, Shelf!At, Shelf!TypeOK
  <2> HIDE DEF f
  <2>3. /\ job'[j].pc = "idle"
        /\ \A k \in Jobs : k # j => job'[k] = job[k]
        /\ Storing' \subseteq Storing
    BY <1>0, <2>1, JobMoves
  <2>4. /\ used' = used \cup {f} /\ used' \subseteq Shelf!Active' \cup old' /\ SweepOK'
        /\ used' \subseteq disk' \cup late' \cup unaudited'
        /\ used' \subseteq Files /\ late' \subseteq Files
    BY <1>0, <2>1, <2>2, ClaimKeeps DEF Shelf!Claim
  <2>5. Shelf!TypeOK'
    BY ShelfCounts, <1>0, <2>1, <2>4, JobMoves DEF Shelf!TypeOK
  <2>6. JobsOK' /\ FilesOK'
    BY <1>0, <2>1, <2>2, <2>3, <2>4 DEF JobsOK, FilesOK, Coming, Shelf!At
  <2> QED
    BY <1>0, <2>1, <2>3, <2>4, <2>5, <2>6, QuotaKept
<1>8. ASSUME NEW f \in Files, Shelf!Release(f) \/ Shelf!Age(f)
      PROVE  UploadInv'
  <2>1. /\ UNCHANGED << store, disk, shelf, job, sweep, late, unaudited >>
        /\ Shelf!Active' = Shelf!Active /\ Storing' = Storing
        /\ used' \subseteq used /\ old \subseteq old' /\ old' \subseteq old \cup Shelf!Active
    BY <1>8 DEF Shelf!Release, Shelf!Age, Shelf!Active, Storing, Shelf!At
  <2>2. Shelf!TypeOK'
    BY ShelfCounts, <1>0, <2>1 DEF Shelf!TypeOK
  <2>3. JobsOK' /\ FilesOK' /\ SweepOK'
    BY <1>0, <2>1 DEF JobsOK, FilesOK, SweepOK, Coming
  <2> QED
    BY <1>0, <2>1, <2>2, <2>3, QuotaKept
<1>9. ASSUME /\ UNCHANGED << store, disk, shelf, old, used, job, late, unaudited >>
             /\ sweep' \in [todo : SUBSET Files, at : Files \cup {None},
                            pc : {"idle", "next", "remove", "mark"}]
             /\ sweep.pc # "mark" /\ sweep'.pc # "mark"
             /\ SweepOK'
      PROVE  UploadInv'
  <2>1. Shelf!Active' = Shelf!Active /\ Storing' = Storing
    BY <1>9 DEF Shelf!Active, Storing, Shelf!At
  <2>2. Shelf!TypeOK' /\ JobsOK' /\ FilesOK'
    BY ShelfCounts, <1>0, <1>9, <2>1 DEF Shelf!TypeOK, JobsOK, FilesOK, Coming
  <2> QED
    BY <1>0, <1>9, <2>1, <2>2, QuotaKept
<1>10. ASSUME Shelf!StartSweep
       PROVE  UploadInv'
  <2>1. PICK s \in SUBSET (IF store = "memory" THEN Shelf!Orphans ELSE Shelf!Active \cap old) :
          sweep' = [todo |-> s, at |-> None, pc |-> "next"]
    BY <1>10 DEF Shelf!StartSweep, Shelf!FirstOf
  <2>2. s \subseteq Shelf!Active \cap old /\ (store = "memory" => s \cap used = {})
    BY <2>1 DEF Shelf!Orphans
  <2>3. UNCHANGED << store, disk, shelf, old, used, job, late, unaudited >>
        /\ sweep.pc = "idle"
    BY <1>10 DEF Shelf!StartSweep
  <2>4. SweepOK'
    BY <2>1, <2>2, <2>3 DEF SweepOK
  <2> QED
    BY <1>0, <1>9, <2>1, <2>2, <2>3, <2>4
<1>11. ASSUME NEW f \in Files, Shelf!Look(f)
       PROVE  UploadInv'
  <2>1. PICK pc \in {"next", "remove"} :
          /\ pc = "remove" => store = "memory" \/ f \notin used
          /\ sweep' = [todo |-> sweep.todo \ {f}, at |-> f, pc |-> pc]
    BY ShelfCounts, <1>0, <1>11 DEF Shelf!Look, Shelf!Take, Shelf!TypeOK
  <2>2. /\ UNCHANGED << store, disk, shelf, old, used, job, late, unaudited >>
        /\ sweep.pc = "next" /\ f \in sweep.todo
    BY <1>11 DEF Shelf!Look, Shelf!Take
  <2>3. SweepOK'
    BY <1>0, <2>1, <2>2 DEF SweepOK
  <2>4. sweep.todo \ {f} \subseteq Files
    BY ShelfCounts, <1>0 DEF Shelf!TypeOK
  <2> QED
    BY <1>9, <2>1, <2>2, <2>3, <2>4
\* The file goes; its record, if it was used, was claimed too late.
<1>12. ASSUME Shelf!Unlink
       PROVE  UploadInv'
  <2>1. /\ sweep.pc = "remove" /\ disk' = disk \ {sweep.at}
        /\ sweep' = [sweep EXCEPT !.pc = "mark"]
        /\ UNCHANGED << store, shelf, old, used, job, late, unaudited >>
        /\ Shelf!Active' = Shelf!Active /\ Storing' = Storing
    BY <1>12 DEF Shelf!Unlink, Shelf!Active, Storing, Shelf!At
  <2>2. /\ sweep' \in [todo : SUBSET Files, at : Files \cup {None},
                       pc : {"idle", "next", "remove", "mark"}]
        /\ sweep'.pc = "mark" /\ sweep'.at = sweep.at /\ sweep'.todo = sweep.todo
    BY ShelfCounts, <1>0, <2>1 DEF Shelf!TypeOK
  <2>3. sweep.at \in old /\ (sweep.at \in used => sweep.at \in late)
    BY <1>0, <2>1 DEF SweepOK
  <2>4. Shelf!TypeOK' /\ SweepOK'
    BY ShelfCounts, <1>0, <2>1, <2>2, <2>3 DEF Shelf!TypeOK, SweepOK
  <2>5. JobsOK' /\ FilesOK'
    BY <1>0, <2>1, <2>2, <2>3 DEF JobsOK, FilesOK, Coming
  <2> QED
    BY <1>0, <2>1, <2>4, <2>5, QuotaKept
<1>13. ASSUME Shelf!Mark
       PROVE  UploadInv'
  <2>1. PICK n \in DOMAIN shelf : shelf[n] = sweep.at /\ shelf' = Shelf!RemoveAt(shelf, n)
    BY <1>13 DEF Shelf!Mark
  <2>2. /\ sweep.pc = "mark" /\ sweep' = [sweep EXCEPT !.pc = "next"]
        /\ UNCHANGED << store, disk, old, used, job, late, unaudited >>
        /\ Storing' = Storing
    BY <1>13 DEF Shelf!Mark, Storing, Shelf!At
  <2>3. /\ sweep' \in [todo : SUBSET Files, at : Files \cup {None},
                       pc : {"idle", "next", "remove", "mark"}]
        /\ sweep'.pc = "next" /\ sweep'.todo = sweep.todo
    BY ShelfCounts, <1>0, <2>2 DEF Shelf!TypeOK
  <2>4. /\ shelf' \in Seq(Files) /\ Len(shelf') = Len(shelf) - 1 /\ Len(shelf) \in Nat
        /\ Shelf!Active' = Shelf!Active \ {sweep.at}
        /\ \A i, k \in DOMAIN shelf' : shelf'[i] = shelf'[k] => i = k
    BY <1>0, <2>1, ShelfRemove DEF FilesOK
  <2>5. Shelf!TypeOK' /\ SweepOK'
    BY ShelfCounts, <1>0, <2>2, <2>3, <2>4 DEF Shelf!TypeOK, SweepOK
  <2>6. JobsOK' /\ FilesOK'
    BY <1>0, <2>2, <2>3, <2>4 DEF JobsOK, FilesOK, SweepOK, Coming
  <2>7. QuotaOK'
    BY <1>0, <2>2, <2>4, QuotaKept
  <2> QED
    BY <2>5, <2>6, <2>7
<1>14. ASSUME Shelf!EndSweep
       PROVE  UploadInv'
  <2>1. /\ UNCHANGED << store, disk, shelf, old, used, job, late, unaudited >>
        /\ sweep.pc = "next" /\ sweep' = [todo |-> {}, at |-> None, pc |-> "idle"]
    BY <1>14 DEF Shelf!EndSweep, Shelf!NoSweep
  <2> QED
    BY <1>9, <2>1 DEF SweepOK
<1>15. CASE UNCHANGED Shelf!uploadVars
  <2>1. UNCHANGED << store, disk, shelf, old, used, job, sweep, late, unaudited >>
        /\ Shelf!Active' = Shelf!Active /\ Storing' = Storing
    BY <1>15 DEF Shelf!uploadVars, Shelf!Active, Storing, Shelf!At
  <2> QED
    BY ShelfCounts, <1>0, <2>1 DEF Shelf!TypeOK, JobsOK, FilesOK, SweepOK, QuotaOK,
       Coming
<1> QED
  BY <1>1, <1>2, <1>3, <1>4, <1>5, <1>6, <1>7, <1>8, <1>10, <1>11, <1>12, <1>13,
     <1>14, <1>15 DEF Shelf!Next

LEMMA UploadSafe ==
  ASSUME Shelf!UploadAssumption, UploadInv
  PROVE  Shelf!TypeOK /\ Shelf!FilesMatchRecords
<1>1. Len(shelf) < Quota + Cardinality(Jobs)
  <2>1. IsFiniteSet(Storing)
    BY ShelfCounts, FS_Subset DEF Storing, Shelf!UploadAssumption
  <2>2. Cardinality(Storing) \in Nat /\ Cardinality(Jobs) \in Nat
    BY ShelfCounts, <2>1, FS_CardinalityType DEF Shelf!UploadAssumption
  <2> QED
    BY ShelfCounts, <2>2 DEF UploadInv, QuotaOK, Shelf!UploadAssumption, Shelf!TypeOK
<1> QED
  BY ShelfCounts, <1>1 DEF UploadInv, FilesOK, Shelf!FilesMatchRecords

\* The records on the shelf are of files, and so are the links and the requests.
THEOREM UploadTypes ==
  ASSUME Shelf!UploadAssumption
  PROVE  Shelf!Spec => []Shelf!TypeOK
BY UploadInit, UploadStep, UploadSafe, PTL DEF Shelf!Spec

\* Whatever requests and the clean-up cross, no file is left on disk without a
\* record, no link is dead but for the two known reasons, and uploads in parallel
\* exceed the quota by less than their number (miscController.js:22-71,
\* dataService.js:232-270, 351-369, mongoDataService.js:315-320, 386-401).
THEOREM FilesHaveRecords ==
  ASSUME Shelf!UploadAssumption
  PROVE  Shelf!Spec => []Shelf!FilesMatchRecords
BY UploadInit, UploadStep, UploadSafe, PTL DEF Shelf!Spec

-----------------------------------------------------------------------------
Plan == Legacy!buildLegacyMigrationPlan

\* Every reference of a document of s is to a document of s.
Refers(d, s) == \A r \in d.refs : \E e \in s : << e.kind, e.id >> = r

\* Two ties of a pair differ in their time.
SourcesOK ==
  /\ users \subseteq People /\ owners \subseteq Legacy!Owners /\ notes \subseteq Legacy!Notes
  /\ chats \in Seq(Legacy!Chats) /\ ties \subseteq Legacy!Ties /\ calls \subseteq Legacy!Calls
  /\ \A t, u \in ties : Legacy!Pair(t) = Legacy!Pair(u) /\ t.at = u.at => t = u

\* What is written and what is still to be written is of the plan, in the order
\* of the collections; nothing of the plan is passed over unless the script stops.
WritingOK ==
  /\ stage \in {"legacy", "writing", "stopped", "done"}
  /\ stage = "legacy" => target = {}
  /\ stage # "writing" => todo = {}
  /\ todo \cup target \subseteq Plan
  /\ stage \in {"writing", "done"} => \A d \in Plan \ todo :
       \E e \in target : << e.kind, e.id >> = << d.kind, d.id >>
  /\ \A d \in target : Refers(d, target)

MigrationInv == SourcesOK /\ WritingOK

-----------------------------------------------------------------------------
\* The forms the documents of the plan have.
PlannedChat(d) == \E i \in DOMAIN chats : Legacy!KeptChat(i) /\ d = Legacy!ChatDoc(i)
PlannedNote(d) == \E n \in notes :
  /\ Legacy!KeptChat(n.chat) /\ n.sender \in users
  /\ d = Legacy!Doc("note", n.id, Legacy!UserRefs({n.sender}) \cup {<< "chat", n.chat >>},
                    n.cites, << >>)
PlannedOwned(d) == \E o \in owners :
  /\ o.by \in users
  /\ d = Legacy!Doc("owned", o, Legacy!UserRefs({o.by}), o.about, << >>)
PlannedTie(d)  == \E t \in ties :
  /\ Legacy!KeptTie(t)
  /\ d = Legacy!Doc("tie", t, Legacy!UserRefs(Legacy!Pair(t)), {},
                    [pair |-> Legacy!Pair(t), status |-> t.status])
PlannedCall(d) == \E c \in calls : d \in Legacy!CallDocs(c)

LEMMA PlanForms ==
  /\ \A p \in users : Legacy!Doc("user", p, {}, {}, << >>) \in Plan
  /\ \A i \in DOMAIN chats : Legacy!KeptChat(i) => Legacy!ChatDoc(i) \in Plan
  /\ \A d \in Plan :
       \/ \E p \in users : d = Legacy!Doc("user", p, {}, {}, << >>)
       \/ PlannedChat(d)
       \/ PlannedNote(d)
       \/ PlannedOwned(d)
       \/ PlannedTie(d)
       \/ \E b \in blocks : /\ {b[1], b[2]} \subseteq users
                            /\ d = Legacy!Doc("block", b, Legacy!UserRefs({b[1], b[2]}), {}, << >>)
       \/ PlannedCall(d)
BY Zenon DEF Plan, Legacy!buildLegacyMigrationPlan, PlannedChat, PlannedNote,
   PlannedOwned, PlannedTie, PlannedCall

LEMMA ChatDocFields ==
  ASSUME NEW i
  PROVE  Legacy!ChatDoc(i).kind = "chat" /\ Legacy!ChatDoc(i).id = i
BY DEF Legacy!ChatDoc, Legacy!Doc

LEMMA CallDocFields ==
  ASSUME NEW c, NEW d \in Legacy!CallDocs(c)
  PROVE  /\ d.kind = "call"
         /\ \A r \in d.refs : (\E p \in users : r = << "user", p >>)
                              \/ (Legacy!KeptChat(c.chat) /\ r = << "chat", c.chat >>)
<1> DEFINE chat == IF Legacy!KeptChat(c.chat) THEN {<< "chat", c.chat >>} ELSE {}
           Side(id, owner, peer) ==
             Legacy!Doc("call", << c, id, owner >>, Legacy!UserRefs({owner, peer}) \cup chat,
                         {}, [peer |-> peer])
<1>1. c.from \in users /\ \E p \in Legacy!Peers(c) :
        d \in {Side("out", c.from, p), Side("in", p, c.from)}
  BY Zenon DEF Legacy!CallDocs
<1>2. PICK p \in Legacy!Peers(c) : d \in {Side("out", c.from, p), Side("in", p, c.from)}
  BY <1>1
<1>3. p \in users
  BY DEF Legacy!Peers
<1>4. d.kind = "call" /\ d.refs = Legacy!UserRefs({c.from, p}) \cup chat
  BY <1>2 DEF Legacy!Doc, Legacy!UserRefs
<1> QED
  BY <1>1, <1>3, <1>4 DEF Legacy!UserRefs

LEMMA KindRanks ==
  ASSUME NEW d, NEW k \in 1..7, d.kind = Legacy!Kinds[k]
  PROVE  Legacy!Rank(d) = k
<1>1. DOMAIN Legacy!Kinds = 1..7 /\ \A i, j \in 1..7 : Legacy!Kinds[i] = Legacy!Kinds[j] => i = j
  BY DEF Legacy!Kinds
<1> QED
  BY <1>1 DEF Legacy!Rank

\* What a document of the plan refers to is of the plan and is written before it.
LEMMA PlanRefers ==
  ASSUME SourcesOK, NEW d \in Plan
  PROVE  /\ \E k \in 1..7 : d.kind = Legacy!Kinds[k]
         /\ Legacy!Rank(d) \in 1..7
         /\ \A r \in d.refs : \E e \in Plan :
              << e.kind, e.id >> = r /\ Legacy!Rank(e) \in 1..7 /\ Legacy!Rank(e) < Legacy!Rank(d)
<1> DEFINE Known(r) == \/ \E p \in users : r = << "user", p >>
                       \/ \E i \in DOMAIN chats : Legacy!KeptChat(i) /\ r = << "chat", i >>
<1>1. /\ Legacy!Kinds[1] = "user" /\ Legacy!Kinds[2] = "chat" /\ Legacy!Kinds[3] = "note"
      /\ Legacy!Kinds[4] = "owned"
      /\ Legacy!Kinds[5] = "tie" /\ Legacy!Kinds[6] = "block" /\ Legacy!Kinds[7] = "call"
  BY DEF Legacy!Kinds
<1>2. ASSUME NEW p \in users
      PROVE  \E e \in Plan : << e.kind, e.id >> = << "user", p >> /\ Legacy!Rank(e) = 1
  <2> DEFINE e == Legacy!Doc("user", p, {}, {}, << >>)
  <2>1. e \in Plan /\ e.kind = "user" /\ e.id = p
    BY PlanForms DEF Legacy!Doc
  <2> HIDE DEF e
  <2> QED
    BY <1>1, <2>1, KindRanks
<1>3. ASSUME NEW i \in DOMAIN chats, Legacy!KeptChat(i)
      PROVE  \E e \in Plan : << e.kind, e.id >> = << "chat", i >> /\ Legacy!Rank(e) = 2
  BY <1>1, <1>3, PlanForms, ChatDocFields, KindRanks
<1>4. CASE \E p \in users : d = Legacy!Doc("user", p, {}, {}, << >>)
  <2>1. d.kind = "user" /\ d.refs = {}
    BY <1>4 DEF Legacy!Doc
  <2> QED
    BY <1>1, <2>1, KindRanks
<1>5. CASE PlannedChat(d)
  <2>1. d.kind = "chat" /\ \A r \in d.refs : \E p \in users : r = << "user", p >>
    <3>1. PICK i \in DOMAIN chats : Legacy!KeptChat(i) /\ d = Legacy!ChatDoc(i)
      BY <1>5 DEF PlannedChat
    <3>2. chats[i] \in Legacy!Chats /\ chats[i].people \subseteq users
      BY <3>1 DEF Legacy!KeptChat, Legacy!ValidChat, SourcesOK
    <3>3. chats[i].first \in chats[i].people
      BY <3>2 DEF Legacy!Chats
    <3> DEFINE creator == IF chats[i].by \in users THEN chats[i].by ELSE chats[i].first
    <3>4. creator \in users /\ d.kind = "chat"
          /\ d.refs = Legacy!UserRefs(chats[i].people \cup {creator})
      BY <3>1, <3>2, <3>3 DEF Legacy!ChatDoc, Legacy!Doc
    <3> QED
      BY <3>2, <3>4 DEF Legacy!UserRefs
  <2> QED
    BY <1>1, <1>2, <2>1, KindRanks
\* Every other document refers to users and to conversations that are kept.
<1>6. ASSUME NEW k \in 3..7, d.kind = Legacy!Kinds[k], \A r \in d.refs : Known(r)
      PROVE  /\ \E n \in 1..7 : d.kind = Legacy!Kinds[n]
             /\ Legacy!Rank(d) \in 1..7
             /\ \A r \in d.refs : \E e \in Plan :
                  << e.kind, e.id >> = r /\ Legacy!Rank(e) \in 1..7 /\ Legacy!Rank(e) < Legacy!Rank(d)
  <2>1. Legacy!Rank(d) = k
    BY <1>6, KindRanks
  <2>2. ASSUME NEW r \in d.refs
        PROVE  \E e \in Plan : << e.kind, e.id >> = r /\ Legacy!Rank(e) \in {1, 2}
    BY <1>2, <1>3, <1>6, <2>2
  <2> QED
    BY <1>6, <2>1, <2>2
<1>7. CASE PlannedNote(d)
  <2>1. d.kind = "note" /\ \A r \in d.refs : Known(r)
    BY <1>7 DEF PlannedNote, Legacy!Doc, Legacy!UserRefs, Legacy!KeptChat
  <2> QED
    BY <1>1, <1>6, <2>1
<1>8. CASE PlannedOwned(d)
  <2>1. d.kind = "owned" /\ \A r \in d.refs : Known(r)
    BY <1>8 DEF PlannedOwned, Legacy!Doc, Legacy!UserRefs
  <2> QED
    BY <1>1, <1>6, <2>1
<1>9. CASE PlannedTie(d)
  <2>1. d.kind = "tie" /\ \A r \in d.refs : Known(r)
    BY <1>9 DEF PlannedTie, Legacy!KeptTie, Legacy!ValidTie, Legacy!Pair, Legacy!Doc,
       Legacy!UserRefs
  <2> QED
    BY <1>1, <1>6, <2>1
<1>10. CASE \E b \in blocks : /\ {b[1], b[2]} \subseteq users
                              /\ d = Legacy!Doc("block", b, Legacy!UserRefs({b[1], b[2]}), {}, << >>)
  <2>1. d.kind = "block" /\ \A r \in d.refs : Known(r)
    BY <1>10 DEF Legacy!Doc, Legacy!UserRefs
  <2> QED
    BY <1>1, <1>6, <2>1
<1>11. CASE PlannedCall(d)
  <2>1. d.kind = "call" /\ \A r \in d.refs : Known(r)
    BY <1>11, CallDocFields DEF PlannedCall, Legacy!KeptChat
  <2> QED
    BY <1>1, <1>6, <2>1
<1> QED
  BY <1>4, <1>5, <1>7, <1>8, <1>9, <1>10, <1>11, PlanForms

-----------------------------------------------------------------------------
LEMMA MigrationInit == Legacy!Init => MigrationInv
BY DEF Legacy!Init, MigrationInv, SourcesOK, WritingOK, Refers

\* The earlier data grows before the script runs.
LEMMA LegacyStep ==
  ASSUME MigrationInv, Legacy!LegacyData
  PROVE  MigrationInv'
<1>1. stage = "legacy" /\ UNCHANGED << stage, todo, target >>
  BY DEF Legacy!LegacyData
<1>2. todo = {} /\ target = {}
  BY <1>1 DEF MigrationInv, WritingOK
<1>3. WritingOK'
  BY <1>1, <1>2 DEF WritingOK, Refers
<1>4. SourcesOK'
  <2> USE DEF MigrationInv, SourcesOK
  <2>1. CASE UNCHANGED << users, chats, notes, ties, owners, calls >>
    BY <2>1 DEF Legacy!Pair
  <2>2. ASSUME NEW p \in People \ users, users' = users \cup {p},
               UNCHANGED << chats, notes, ties, owners, calls >>
        PROVE  SourcesOK'
    BY <2>2 DEF Legacy!Pair
  <2>3. ASSUME NEW c \in Legacy!Chats, chats' = Append(chats, c),
               UNCHANGED << users, notes, ties, owners, calls >>
        PROVE  SourcesOK'
    <3>1. chats' \in Seq(Legacy!Chats)
      BY <2>3
    <3> QED
      BY <2>3, <3>1 DEF Legacy!Pair
  <2>4. ASSUME NEW t \in Legacy!Ties, ties' = ties \cup {t},
               \A u \in ties : Legacy!Pair(u) = Legacy!Pair(t) => u.at # t.at,
               UNCHANGED << users, chats, notes, owners, calls >>
        PROVE  SourcesOK'
    BY <2>4 DEF Legacy!Pair
  <2>5. ASSUME NEW o \in Legacy!Owners, owners' = owners \cup {o},
               UNCHANGED << users, chats, notes, ties, calls >>
        PROVE  SourcesOK'
    BY <2>5 DEF Legacy!Pair
  <2>6. ASSUME NEW c \in Legacy!Calls, calls' = calls \cup {c},
               UNCHANGED << users, chats, notes, ties, owners >>
        PROVE  SourcesOK'
    BY <2>6 DEF Legacy!Pair
  <2>7. ASSUME NEW n \in Legacy!Notes, notes' = {n},
               UNCHANGED << users, chats, ties, owners, calls >>
        PROVE  SourcesOK'
    BY <2>7 DEF Legacy!Pair
  <2> QED
    BY <2>1, <2>2, <2>3, <2>4, <2>5, <2>6, <2>7, Zenon DEF Legacy!LegacyData
<1> QED
  BY <1>3, <1>4 DEF MigrationInv

LEMMA PlanFrame ==
  ASSUME UNCHANGED Legacy!sourceVars
  PROVE  Plan' = Plan /\ (SourcesOK => SourcesOK')
<1>1. UNCHANGED << users, chats, notes, ties, blocks, owners, calls >>
  BY DEF Legacy!sourceVars
<1>2. Plan' = Plan
  BY <1>1 DEF Plan, Legacy!buildLegacyMigrationPlan, Legacy!KeptChat, Legacy!ValidChat,
     Legacy!ChatDoc, Legacy!KeptTie,
              Legacy!ValidTie, Legacy!Beats, Legacy!Priority, Legacy!Pair,
              Legacy!CallDocs, Legacy!Peers, Legacy!Doc, Legacy!UserRefs
<1> QED
  BY <1>1, <1>2 DEF SourcesOK, Legacy!Pair

\* A document is written when everything it refers to has been.
LEMMA WriteStep ==
  ASSUME MigrationInv, NEW d \in todo, Legacy!Write(d)
  PROVE  MigrationInv'
<1>1. /\ UNCHANGED Legacy!sourceVars /\ stage' = stage /\ todo' = todo \ {d}
      /\ \A e \in todo : Legacy!Rank(d) <= Legacy!Rank(e)
      /\ \/ target' = target /\ \E e \in target : e.kind = d.kind /\ e.id = d.id
         \/ target' = target \cup {d}
  BY DEF Legacy!Write
<1>2. SourcesOK /\ SourcesOK' /\ Plan' = Plan
  BY <1>1, PlanFrame DEF MigrationInv
<1>3. stage = "writing" /\ d \in Plan
  BY DEF MigrationInv, WritingOK
\* What it refers to comes in an earlier collection, of which nothing is left.
<1>4. Refers(d, target)
  <2> SUFFICES ASSUME NEW r \in d.refs
               PROVE  \E e \in target : << e.kind, e.id >> = r
    BY DEF Refers
  <2>1. PICK e \in Plan : /\ << e.kind, e.id >> = r
                          /\ Legacy!Rank(e) \in 1..7 /\ Legacy!Rank(e) < Legacy!Rank(d)
                          /\ Legacy!Rank(d) \in 1..7
    BY <1>2, <1>3, PlanRefers
  <2>2. e \notin todo
    BY <1>1, <2>1
  <2> QED
    BY <1>3, <2>1, <2>2 DEF MigrationInv, WritingOK
<1>5. \A e \in target' : Refers(e, target')
  BY <1>1, <1>4 DEF MigrationInv, WritingOK, Refers
<1>6. \A e \in Plan \ todo' : \E f \in target' : << f.kind, f.id >> = << e.kind, e.id >>
  BY <1>1, <1>3 DEF MigrationInv, WritingOK
<1> QED
  BY <1>1, <1>2, <1>3, <1>5, <1>6 DEF MigrationInv, WritingOK

LEMMA MigrationStep ==
  ASSUME MigrationInv, [Legacy!Next]_Legacy!legacyVars
  PROVE  MigrationInv'
<1>1. CASE Legacy!LegacyData
  BY <1>1, LegacyStep
<1>2. CASE Legacy!Apply
  BY <1>2, PlanFrame DEF Legacy!Apply, MigrationInv, WritingOK, Plan, Refers
<1>3. ASSUME NEW d \in todo, Legacy!Write(d)
      PROVE  MigrationInv'
  BY <1>3, WriteStep
<1>4. CASE Legacy!Stop
  BY <1>4, PlanFrame DEF Legacy!Stop, MigrationInv, WritingOK, Refers
<1>5. CASE Legacy!Finish
  BY <1>5, PlanFrame DEF Legacy!Finish, MigrationInv, WritingOK, Refers
<1>6. CASE UNCHANGED Legacy!legacyVars
  <2>1. UNCHANGED Legacy!sourceVars /\ UNCHANGED << stage, todo, target >>
    BY <1>6 DEF Legacy!legacyVars, Legacy!sourceVars
  <2> QED
    BY <2>1, PlanFrame DEF MigrationInv, WritingOK, Refers
<1> QED
  BY <1>1, <1>2, <1>3, <1>4, <1>5, <1>6 DEF Legacy!Next

-----------------------------------------------------------------------------
\* The documents of one kind have the form the plan gives that kind.
LEMMA PlanByKind ==
  ASSUME NEW d \in Plan
  PROVE  /\ d.kind = "chat" => PlannedChat(d)
         /\ d.kind = "tie" => PlannedTie(d)
<1>1. PlannedNote(d) => d.kind = "note"
  BY DEF PlannedNote, Legacy!Doc
<1>2. PlannedCall(d) => d.kind = "call"
  BY CallDocFields DEF PlannedCall
<1>3. PlannedChat(d) => d.kind = "chat"
  BY ChatDocFields DEF PlannedChat
<1>4. PlannedTie(d) => d.kind = "tie"
  BY DEF PlannedTie, Legacy!Doc
<1>5. (\E p \in users : d = Legacy!Doc("user", p, {}, {}, << >>)) => d.kind = "user"
  BY DEF Legacy!Doc
<1>6. PlannedOwned(d) => d.kind = "owned"
  BY DEF PlannedOwned, Legacy!Doc
<1>7. (\E b \in blocks : /\ {b[1], b[2]} \subseteq users
                         /\ d = Legacy!Doc("block", b, Legacy!UserRefs({b[1], b[2]}), {}, << >>))
        => d.kind = "block"
  BY DEF Legacy!Doc
<1>8. /\ (\E p \in users : d = Legacy!Doc("user", p, {}, {}, << >>))
        \/ PlannedChat(d) \/ PlannedNote(d) \/ PlannedOwned(d) \/ PlannedTie(d)
        \/ (\E b \in blocks : /\ {b[1], b[2]} \subseteq users
                              /\ d = Legacy!Doc("block", b, Legacy!UserRefs({b[1], b[2]}), {}, << >>))
        \/ PlannedCall(d)
  BY PlanForms, Zenon
<1> QED
  BY <1>1, <1>2, <1>3, <1>4, <1>5, <1>6, <1>7, <1>8

\* A pair has one direct conversation, and a group an administrator.
LEMMA PlanChats ==
  ASSUME SourcesOK
  PROVE  /\ \A d, e \in {f \in Plan : f.kind = "chat"} :
              d.facts.type = "direct" /\ e.facts.type = "direct"
                /\ d.facts.people = e.facts.people => d = e
         /\ \A d \in {f \in Plan : f.kind = "chat" /\ f.facts.type = "group"} :
              d.facts.admins # {} /\ d.facts.admins \subseteq d.facts.people
<1>1. ASSUME NEW i \in DOMAIN chats
      PROVE  /\ chats[i] \in Legacy!Chats /\ chats[i].first \in chats[i].people
             /\ chats[i].type \in {"direct", "group"}
             /\ Legacy!ChatDoc(i).facts.type = chats[i].type
             /\ Legacy!ChatDoc(i).facts.people = chats[i].people
  <2>1. chats[i] \in Legacy!Chats
    BY DEF SourcesOK
  <2>2. chats[i].first \in chats[i].people /\ chats[i].type \in {"direct", "group"}
    BY <2>1 DEF Legacy!Chats
  <2> QED
    BY <2>1, <2>2 DEF Legacy!ChatDoc, Legacy!Doc
<1>2. ASSUME NEW i \in DOMAIN chats, NEW j \in DOMAIN chats, Legacy!KeptChat(i),
             Legacy!KeptChat(j),
             chats[i].type = "direct", chats[j].type = "direct",
             chats[i].people = chats[j].people
      PROVE  i = j
  <2>1. i \in Nat /\ j \in Nat /\ i >= 1 /\ j >= 1
    BY DEF SourcesOK
  <2> QED
    BY <1>2, <2>1 DEF Legacy!KeptChat
<1>3. ASSUME NEW i \in DOMAIN chats, chats[i].type = "group"
      PROVE  /\ Legacy!ChatDoc(i).facts.admins # {}
             /\ Legacy!ChatDoc(i).facts.admins \subseteq Legacy!ChatDoc(i).facts.people
  BY <1>1, <1>3 DEF Legacy!ChatDoc, Legacy!Doc
<1> QED
  BY <1>1, <1>2, <1>3, PlanByKind DEF PlannedChat

\* A pair has one friendship, the accepted one if there is one.
LEMMA PlanTies ==
  ASSUME SourcesOK
  PROVE  /\ \A d, e \in {f \in Plan : f.kind = "tie"} : d.facts.pair = e.facts.pair => d = e
         /\ \A d \in {f \in Plan : f.kind = "tie"}, t \in ties :
              Legacy!ValidTie(t) /\ Legacy!Pair(t) = d.facts.pair /\ t.status = "accepted"
                => d.facts.status = "accepted"
<1>1. ASSUME NEW d \in Plan, d.kind = "tie"
      PROVE  \E t \in ties : /\ Legacy!KeptTie(t) /\ d.facts.pair = Legacy!Pair(t)
                             /\ d.facts.status = t.status
                             /\ d = Legacy!Doc("tie", t, Legacy!UserRefs(Legacy!Pair(t)), {},
                                        [pair |-> Legacy!Pair(t), status |-> t.status])
  BY <1>1, PlanByKind DEF PlannedTie, Legacy!Doc
<1>2. \A t \in ties : Legacy!Priority(t) \in 1..3 /\ t.at \in Nat
                      /\ (Legacy!Priority(t) = 3 <=> t.status = "accepted")
  BY DEF SourcesOK, Legacy!Ties, Legacy!Priority
<1>3. ASSUME NEW t \in ties, NEW u \in ties, Legacy!KeptTie(t), Legacy!KeptTie(u),
             Legacy!Pair(t) = Legacy!Pair(u)
      PROVE  t = u
  <2>1. ~Legacy!Beats(t, u) /\ ~Legacy!Beats(u, t)
    BY <1>3 DEF Legacy!KeptTie
  <2>2. t.at = u.at
    BY <1>2, <2>1 DEF Legacy!Beats
  <2> QED
    BY <1>3, <2>2 DEF SourcesOK
<1>4. ASSUME NEW t \in ties, NEW u \in ties, Legacy!KeptTie(u), Legacy!ValidTie(t),
             Legacy!Pair(t) = Legacy!Pair(u),
             t.status = "accepted"
      PROVE  u.status = "accepted"
  <2>1. ~Legacy!Beats(t, u)
    BY <1>4 DEF Legacy!KeptTie
  <2> QED
    BY <1>2, <1>4, <2>1 DEF Legacy!Beats
<1> QED
  BY <1>1, <1>3, <1>4

LEMMA SoundWhenPlanned == MigrationInv => Legacy!MigrationIsSound
<1> SUFFICES ASSUME MigrationInv
             PROVE  Legacy!MigrationIsSound
  OBVIOUS
<1>1. target \subseteq Plan /\ SourcesOK /\ \A d \in target : Refers(d, target)
  BY DEF MigrationInv, WritingOK
<1>2. \A d \in target : \A r \in d.refs : \E e \in target : << e.kind, e.id >> = r
  BY <1>1 DEF Refers
<1>3. \A d, e \in {f \in target : f.kind = "chat"} :
        d.facts.type = "direct" /\ e.facts.type = "direct"
          /\ d.facts.people = e.facts.people => d = e
  BY <1>1, PlanChats
<1>4. \A d \in {f \in target : f.kind = "chat" /\ f.facts.type = "group"} :
        d.facts.admins # {} /\ d.facts.admins \subseteq d.facts.people
  BY <1>1, PlanChats
<1>5. \A d, e \in {f \in target : f.kind = "tie"} : d.facts.pair = e.facts.pair => d = e
  BY <1>1, PlanTies
<1>6. \A d \in {f \in target : f.kind = "tie"}, t \in ties :
        Legacy!ValidTie(t) /\ Legacy!Pair(t) = d.facts.pair /\ t.status = "accepted"
          => d.facts.status = "accepted"
  BY <1>1, PlanTies
\* A script that is done has written the whole plan.
<1>7. ASSUME stage = "done", NEW e \in Plan
      PROVE  \E f \in target : << f.kind, f.id >> = << e.kind, e.id >>
  BY <1>7 DEF MigrationInv, WritingOK
<1>8. \A d \in target : \A m \in d.cites :
        (stage = "done"
           /\ \E e \in Legacy!buildLegacyMigrationPlan : e.kind = "note" /\ e.id = m)
          => \E e \in target : e.kind = "note" /\ e.id = m
  BY <1>7 DEF Plan
<1> QED
  BY <1>2, <1>3, <1>4, <1>5, <1>6, <1>8 DEF Legacy!MigrationIsSound

LEMMA MigrationSafe == MigrationInv => Legacy!TypeOK /\ Legacy!MigrationIsSound
<1> SUFFICES ASSUME MigrationInv
             PROVE  Legacy!TypeOK
  BY SoundWhenPlanned
<1>1. \A d \in todo \cup target : \E k \in DOMAIN Legacy!Kinds : Legacy!Kinds[k] = d.kind
  <2>1. DOMAIN Legacy!Kinds = 1..7
    BY DEF Legacy!Kinds
  <2> QED
    BY <2>1, PlanRefers DEF MigrationInv, WritingOK
<1> QED
  BY <1>1 DEF MigrationInv, SourcesOK, WritingOK, Legacy!TypeOK

\* The sources and the documents keep their forms.
THEOREM MigrationTypes == Legacy!Spec => []Legacy!TypeOK
BY MigrationInit, MigrationStep, MigrationSafe, PTL DEF Legacy!Spec

\* Wherever the script stops, the users and conversations that its documents refer
\* to have been written, and the unique indexes of conversations and friendships
\* can be built; once it is done the messages they cite are there, but for those
\* the plan leaves out (legacyMigrationService.js:133-333,
\* scripts/migrateLegacyMongo.js).
THEOREM MigrationStaysSound == Legacy!Spec => []Legacy!MigrationIsSound
BY MigrationInit, MigrationStep, MigrationSafe, PTL DEF Legacy!Spec
=============================================================================
