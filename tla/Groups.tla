------------------------------- MODULE Groups -------------------------------
(***************************************************************************)
(* A group conversation: its members and administrators, the sockets that  *)
(* listen to its room, and what is left when the last member leaves        *)
(* (createConversation, updateConversation, leaveConversation; server/     *)
(* controllers/conversationController.js).  Beside it, the one direct      *)
(* conversation of a pair of users.                                        *)
(*                                                                         *)
(* Over the memory store a request runs in one piece.  Over MongoDB it     *)
(* stops at every await, and decides on what it read before.               *)
(***************************************************************************)
EXTENDS FiniteSets, Naturals

CONSTANTS
  Users,     \* people with an account
  Founder,   \* the group's createdBy
  Requests,  \* slots for requests in progress (bounds concurrency)
  None       \* nobody

FounderAssumption == Founder \in Users /\ None \notin Users

VARIABLES
  store,     \* "memory" or "mongo"
  members,   \* the stored participants; {} when there is no group
  admins,    \* the stored administrators
  texts,     \* messages and upload links of the group are stored
  listening, \* users with a socket in the room conversation:<id>
  directs,   \* stored direct conversations of the pair
  request    \* the requests in progress

groupVars == << store, members, admins, texts, listening, directs, request >>

NoRequest == [pc |-> "idle", by |-> None, out |-> {}, newMembers |-> {},
              newAdmins |-> {}]
Pcs == {"idle", "update", "write", "leave", "join", "send", "direct"}

At(r, pc) == request[r].pc = pc
Done(r)   == request' = [request EXCEPT ![r] = NoRequest]

\* A request of user u that has read the group and decided on new lists; the
\* sockets of the participants it removes will leave the room.
Begin(r, u, pc, m, a, out) ==
  /\ At(r, "idle")
  /\ store = "mongo" \/ \A q \in Requests : At(q, "idle")
  /\ request' = [request EXCEPT ![r] = [pc |-> pc, by |-> u, out |-> out,
                                        newMembers |-> m, newAdmins |-> a]]

Init ==
  /\ store \in {"memory", "mongo"}
  /\ members = {}
  /\ admins = {}
  /\ texts = FALSE
  /\ listening = {}
  /\ directs = 0
  /\ request = [r \in Requests |-> NoRequest]

-----------------------------------------------------------------------------
\* createConversation: the founder is the first member and administrator.  (A
\* later group takes the place of one that left nothing.)
Create(m) ==
  /\ members = {} /\ ~texts /\ listening = {}
  /\ \A r \in Requests : At(r, "idle")
  /\ members' = m \cup {Founder}
  /\ admins' = {Founder}
  /\ UNCHANGED << store, texts, listening, directs, request >>

AdminsUnchecked(r, u, m, a) ==                                      \* mutant
  /\ u \in members /\ u \in admins
  /\ m # {} /\ a # {}
  /\ Begin(r, u, "update", m, a, members \ m)
  /\ UNCHANGED << store, members, admins, texts, listening, directs >>

\* update: an administrator names participants and administrators (or leaves
\* out either); validateGroupMembers decides on the lists it read.
AskUpdate(r, u, m, a) ==
  /\ u \in members /\ u \in admins
  /\ m # {} /\ a # {} /\ a \subseteq m
  /\ Begin(r, u, "update", m, a, members \ m)
  /\ UNCHANGED << store, members, admins, texts, listening, directs >>

\* updateConversation reads the conversation again ...
Recheck(r) ==
  /\ At(r, "update")
  /\ request' = [request EXCEPT ![r] =
       IF @.by \in members /\ @.by \in admins THEN [@ EXCEPT !.pc = "write"]
                                              ELSE NoRequest]
  /\ UNCHANGED << store, members, admins, texts, listening, directs >>

WriteKeepingSockets(r) ==                                           \* mutant
  /\ At(r, "write")
  /\ IF members # {}
       THEN members' = request[r].newMembers /\ admins' = request[r].newAdmins
       ELSE UNCHANGED << members, admins >>
  /\ Done(r)
  /\ UNCHANGED << store, texts, listening, directs >>

\* ... and replaces both lists, if the group still exists; the sockets of those
\* it removed leave the room.
Write(r) ==
  /\ At(r, "write")
  /\ IF members # {}
       THEN /\ members' = request[r].newMembers
            /\ admins' = request[r].newAdmins
            /\ listening' = listening \ request[r].out
       ELSE UNCHANGED << members, admins, listening >>
  /\ Done(r)
  /\ UNCHANGED << store, texts, directs >>

-----------------------------------------------------------------------------
\* leaveConversation works out the lists from those it read: without another
\* administrator the founder takes over, or else the first participant.
Successors(m) == IF Founder \in m THEN {{Founder}} ELSE {{s} : s \in m}

NoSuccessor(r, u) ==                                                \* mutant
  /\ u \in members
  /\ Begin(r, u, "leave", members \ {u}, admins \ {u}, {u})
  /\ UNCHANGED << store, members, admins, texts, listening, directs >>

AskLeave(r, u) ==
  /\ u \in members
  /\ \E a \in IF admins \ {u} # {} THEN {admins \ {u}}
              ELSE Successors(members \ {u}) \cup
                   (IF members = {u} THEN {{}} ELSE {}) :
       Begin(r, u, "leave", members \ {u}, a, {u})
  /\ UNCHANGED << store, members, admins, texts, listening, directs >>

\* The lists are stored, or the last member takes the group, its messages and
\* its upload links along in one transaction; the leaver's sockets leave.
Leave(r) ==
  /\ At(r, "leave")
  /\ LET q == request[r] IN
     \/ /\ q.newMembers # {} /\ members # {}
        /\ members' = q.newMembers /\ admins' = q.newAdmins
        /\ listening' = listening \ q.out
        /\ UNCHANGED texts
     \/ /\ q.newMembers = {} /\ q.by \in members
        /\ members' = {} /\ admins' = {} /\ texts' = FALSE
        /\ listening' = listening \ q.out
     \/ /\ members = {} \/ (q.newMembers = {} /\ q.by \notin members)
        /\ UNCHANGED << members, admins, texts, listening >>
  /\ Done(r)
  /\ UNCHANGED << store, directs >>

\* conversation:join lets a participant's socket into the room.
AskJoin(r, u) ==
  /\ u \in members
  /\ Begin(r, u, "join", {}, {}, {})
  /\ UNCHANGED << store, members, admins, texts, listening, directs >>

Join(r) ==
  /\ At(r, "join")
  /\ listening' = listening \cup {request[r].by}
  /\ Done(r)
  /\ UNCHANGED << store, members, admins, texts, directs >>

\* A message is stored after its sender was found among the participants.
AskSend(r, u) ==
  /\ u \in members
  /\ Begin(r, u, "send", {}, {}, {})
  /\ UNCHANGED << store, members, admins, texts, listening, directs >>

Send(r) ==
  /\ At(r, "send")
  /\ texts' = TRUE
  /\ Done(r)
  /\ UNCHANGED << store, members, admins, listening, directs >>

\* deleteConversationForUser hides the group from one member, whose sockets
\* leave the room.
Hide(u) ==
  /\ u \in members
  /\ listening' = listening \ {u}
  /\ UNCHANGED << store, members, admins, texts, directs, request >>

-----------------------------------------------------------------------------
\* A direct conversation is created when none is found; over MongoDB the
\* unique key of the pair makes the later creator return the earlier one's.
AskDirect(r, u) ==
  /\ directs = 0
  /\ Begin(r, u, "direct", {}, {}, {})
  /\ UNCHANGED << store, members, admins, texts, listening, directs >>

DirectUnchecked(r) ==                                               \* mutant
  /\ At(r, "direct")
  /\ directs' = directs + 1
  /\ Done(r)
  /\ UNCHANGED << store, members, admins, texts, listening >>

CreateDirect(r) ==
  /\ At(r, "direct")
  /\ directs' = IF store = "mongo" /\ directs > 0 THEN directs ELSE directs + 1
  /\ Done(r)
  /\ UNCHANGED << store, members, admins, texts, listening >>

Next ==
  \/ \E m \in SUBSET Users : Create(m)
  \/ \E r \in Requests, u \in Users :
       \/ \E m, a \in SUBSET Users : AskUpdate(r, u, m, a)
       \/ AskLeave(r, u) \/ AskJoin(r, u) \/ AskSend(r, u) \/ AskDirect(r, u)
  \/ \E r \in Requests :
       Recheck(r) \/ Write(r) \/ Leave(r) \/ Join(r) \/ Send(r) \/ CreateDirect(r)
  \/ \E u \in Users : Hide(u)

Spec == Init /\ [][Next]_groupVars

-----------------------------------------------------------------------------
TypeOK ==
  /\ store \in {"memory", "mongo"}
  /\ members \subseteq Users /\ admins \subseteq Users
  /\ listening \subseteq Users
  /\ texts \in BOOLEAN /\ directs \in Nat
  /\ request \in [Requests ->
       [pc : Pcs, by : Users \cup {None}, out : SUBSET Users,
        newMembers : SUBSET Users, newAdmins : SUBSET Users]]

\* Whoever leaves, is removed or is named by stale requests meanwhile, a stored
\* group has an administrator, its administrators are participants, and a pair
\* has one direct conversation (conversationController.js:101-117,
\* mongoDataService.js:418-480).  Over the memory store, moreover, only
\* participants listen to a group, and one that its last member left has left no
\* messages (conversationController.js:68-93, dataService.js:505-528).
GroupIsGoverned ==
  /\ admins \subseteq members
  /\ members # {} => admins # {}
  /\ directs <= 1
  /\ store = "memory" => /\ listening \subseteq members
                         /\ members = {} => ~texts
=============================================================================
