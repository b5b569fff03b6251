--------------------------- MODULE LegacyMigration ---------------------------
(***************************************************************************)
(* The migration of the earlier ObjectId collections: the plan that        *)
(* buildLegacyMigrationPlan makes of them (server/services/                *)
(* legacyMigrationService.js) and the script that writes it, collection    *)
(* after collection, and may stop half-way (server/scripts/                *)
(* migrateLegacyMongo.js).                                                 *)
(*                                                                         *)
(* A document is its references.  Those to users and conversations are     *)
(* looked up; what a document says of messages and other items             *)
(* (lastMessage, replyTo, forwardedFrom, entityId) is copied.  Fields that *)
(* refer to nothing, and lists of users that are filtered as admins are    *)
(* (archivedBy, readBy, viewers), are left out.  Stories, notifications    *)
(* and settings are one kind, "owned": each belongs to one user.           *)
(***************************************************************************)
EXTENDS Naturals, FiniteSets, Sequences

CONSTANTS
  People,   \* ids of legacy users
  MaxDocs   \* bounds the legacy documents beside the users and one message

LegacyAssumption == MaxDocs \in Nat

VARIABLES
  users,    \* legacy users with an id, an address, a password and a name
  chats,    \* legacy conversations, in the order they are read
  notes,    \* legacy messages
  ties,     \* legacy friends and friend requests
  blocks,   \* legacy blocks
  owners,   \* legacy stories, notifications and settings, by owner
  calls,    \* legacy calls
  phase,    \* "legacy" before, "writing" while the script writes, "stopped", "done"
  todo,     \* documents of the plan still to be written
  target    \* documents in the lumina_* collections

sourceVars == << users, chats, notes, ties, blocks, owners, calls >>
legacyVars == << users, chats, notes, ties, blocks, owners, calls, phase, todo, target >>

Kinds == << "user", "chat", "note", "owned", "tie", "block", "call" >>

\* cites are the messages it refers to without a look.
Doc(kind, id, refs, cites, facts) ==
  [kind |-> kind, id |-> id, refs |-> refs, cites |-> cites, facts |-> facts]
UserRefs(s) == {<< "user", p >> : p \in s}

-----------------------------------------------------------------------------
\* The plan.  A conversation with a participant who is not migrated is dropped,
\* and so is a second direct conversation of a pair.
ValidChat(i) ==
  /\ chats[i].people # {} /\ chats[i].people \subseteq users
  /\ chats[i].type = "direct" => Cardinality(chats[i].people) = 2
KeptTwice(i) == i \in DOMAIN chats /\ ValidChat(i)                  \* mutant

KeptChat(i) ==
  /\ i \in DOMAIN chats /\ ValidChat(i)
  /\ chats[i].type = "direct" =>
       ~\E j \in 1..(i - 1) : /\ chats[j].type = "direct" /\ ValidChat(j)
                              /\ chats[j].people = chats[i].people

ChatDoc(i) ==
  LET c       == chats[i]
      creator == IF c.by \in users THEN c.by ELSE c.first
      listed  == c.admins \cap c.people
      admins  == IF c.type = "direct" \/ listed # {} THEN listed
                 ELSE {IF creator \in c.people THEN creator ELSE c.first}
  IN  Doc("chat", i, UserRefs(c.people \cup {creator}), c.last,
          [type |-> c.type, people |-> c.people, admins |-> admins])

\* A pair keeps one friendship: an accepted one before a pending one before a
\* closed one, then the newest; friends come before requests.
Priority(t) == CASE t.status = "accepted" -> 3 [] t.status = "pending" -> 2 [] OTHER -> 1
ValidTie(t) == t.from # t.to /\ {t.from, t.to} \subseteq users
Pair(t)     == {t.from, t.to}
Beats(t, u) == \/ Priority(t) > Priority(u)
               \/ Priority(t) = Priority(u) /\ t.at > u.at
NewestTie(t) ==                                                     \* mutant
  /\ ValidTie(t)
  /\ \A u \in ties : ValidTie(u) /\ Pair(u) = Pair(t) => u.at <= t.at

KeptTie(t)  == /\ ValidTie(t)
               /\ \A u \in ties : ValidTie(u) /\ Pair(u) = Pair(t) => ~Beats(u, t)

\* Everyone else in the call or in its conversation: a record for each side.
Peers(c) == (c.peers \cup IF KeptChat(c.chat) THEN chats[c.chat].people ELSE {})
              \cap (users \ {c.from})
CallDocs(c) ==
  LET chat == IF KeptChat(c.chat) THEN {<< "chat", c.chat >>} ELSE {}
      Side(id, owner, peer) ==
        Doc("call", << c, id, owner >>, UserRefs({owner, peer}) \cup chat, {},
            [peer |-> peer])
  IN  IF c.from \notin users THEN {}
      ELSE UNION {{Side("out", c.from, p), Side("in", p, c.from)} : p \in Peers(c)}

buildLegacyMigrationPlan ==
  {Doc("user", p, {}, {}, << >>) : p \in users}
  \cup {ChatDoc(i) : i \in {j \in DOMAIN chats : KeptChat(j)}}
  \cup {Doc("note", n.id, UserRefs({n.sender}) \cup {<< "chat", n.chat >>}, n.cites, << >>) :
          n \in {m \in notes : KeptChat(m.chat) /\ m.sender \in users}}
  \cup {Doc("owned", o, UserRefs({o.by}), o.about, << >>) :
          o \in {q \in owners : q.by \in users}}
  \cup {Doc("tie", t, UserRefs(Pair(t)), {}, [pair |-> Pair(t), status |-> t.status]) :
          t \in {u \in ties : KeptTie(u)}}
  \cup {Doc("block", b, UserRefs({b[1], b[2]}), {}, << >>) :
          b \in {c \in blocks : c[1] # c[2] /\ {c[1], c[2]} \subseteq users}}
  \cup UNION {CallDocs(c) : c \in calls}

-----------------------------------------------------------------------------
Init ==
  /\ users = {} /\ chats = << >> /\ notes = {} /\ ties = {}
  /\ blocks = {} /\ owners = {} /\ calls = {}
  /\ phase = "legacy"
  /\ todo = {}
  /\ target = {}

\* What the earlier version of the program has left behind; two ties of one pair
\* were not updated at the same moment.  There is one message at most, 1:
\* every conversation and item cites it, whether it is there or not, and it cites
\* one that is gone.
Chats == UNION {[type : {"direct", "group"}, people : {s}, first : s, by : People,
                 admins : {{}, People}, last : {{1}}] : s \in SUBSET People \ {{}}}
Notes  == [id : {1}, chat : 1..MaxDocs, sender : People, cites : {{2}}]
Owners == [by : People, about : {{1}}]
Ties  == [from : People, to : People, status : {"accepted", "pending", "declined"}, at : 1..2]
Calls == [from : People, peers : SUBSET People, chat : 0..1]
LegacyData ==
  /\ phase = "legacy"
  /\ \/ /\ \E p \in People \ users : users' = users \cup {p}
        /\ UNCHANGED << chats, notes, ties, blocks, owners, calls >>
     \/ /\ notes = {}
        /\ \E n \in Notes : notes' = {n}
        /\ UNCHANGED << users, chats, ties, blocks, owners, calls >>
     \/ /\ Len(chats) + Cardinality(ties) + Cardinality(blocks) + Cardinality(owners)
             + Cardinality(calls) < MaxDocs
        /\ UNCHANGED users
        /\ \/ /\ \E c \in Chats : chats' = Append(chats, c)
              /\ UNCHANGED << notes, ties, blocks, owners, calls >>
           \/ /\ \E t \in Ties :
                   /\ \A u \in ties : Pair(u) = Pair(t) => u.at # t.at
                   /\ ties' = ties \cup {t}
              /\ UNCHANGED << chats, notes, blocks, owners, calls >>
           \/ /\ \E b \in People \X People : blocks' = blocks \cup {b}
              /\ UNCHANGED << chats, notes, ties, owners, calls >>
           \/ /\ \E o \in Owners : owners' = owners \cup {o}
              /\ UNCHANGED << chats, notes, ties, blocks, calls >>
           \/ /\ \E c \in Calls : calls' = calls \cup {c}
              /\ UNCHANGED << chats, notes, ties, blocks, owners >>
  /\ UNCHANGED << phase, todo, target >>

\* The script refuses a target that holds anything: after a stop half-way it
\* does not run again.
Apply ==
  /\ phase \in {"legacy", "stopped"}
  /\ target = {}
  /\ phase' = "writing"
  /\ todo' = buildLegacyMigrationPlan
  /\ UNCHANGED << sourceVars, target >>

Rank(d) == CHOOSE k \in DOMAIN Kinds : Kinds[k] = d.kind

WriteAnyOrder(d) ==                                                 \* mutant
  /\ d \in todo
  /\ target' = target \cup {d}
  /\ todo' = todo \ {d}
  /\ UNCHANGED << sourceVars, phase >>

\* The collections in their order; a document whose id is there is left alone.
Write(d) ==
  /\ d \in todo
  /\ \A e \in todo : Rank(d) <= Rank(e)
  /\ target' = IF \E e \in target : e.kind = d.kind /\ e.id = d.id THEN target
                                                                ELSE target \cup {d}
  /\ todo' = todo \ {d}
  /\ UNCHANGED << sourceVars, phase >>

\* The script is stopped, or an index cannot be built: nothing compares the
\* addresses of two users.
Stop ==
  /\ phase = "writing"
  /\ phase' = "stopped"
  /\ todo' = {}
  /\ UNCHANGED << sourceVars, target >>

\* ensureMongoIndexes, then the entry in lumina_migrations.
Finish ==
  /\ phase = "writing" /\ todo = {}
  /\ phase' = "done"
  /\ UNCHANGED << sourceVars, todo, target >>

Next == LegacyData \/ Apply \/ (\E d \in todo : Write(d)) \/ Stop \/ Finish

Spec == Init /\ [][Next]_legacyVars

-----------------------------------------------------------------------------
TypeOK ==
  /\ users \subseteq People /\ owners \subseteq Owners /\ notes \subseteq Notes
  /\ chats \in Seq(Chats) /\ ties \subseteq Ties /\ calls \subseteq Calls
  /\ phase \in {"legacy", "writing", "stopped", "done"}
  /\ \A d \in todo \cup target : \E k \in DOMAIN Kinds : Kinds[k] = d.kind

\* Wherever the script stops, the users and the conversation that a document
\* written refers to have been written; once it is done, a message that a document
\* cites is there unless the plan leaves it out.  The indexes of conversations and
\* of friendships can be built: one direct conversation and one friendship of a
\* pair, the accepted one if there is one.  Every group has an administrator among
\* its members (legacyMigrationService.js:133-333, models/Conversation.js:26,
\* models/Friendship.js:20; legacyMigration.test.js "preserves IDs and relations
\* while dropping invalid references", "prefers accepted friendships").
MigrationIsSound ==
  /\ \A d \in target : \A r \in d.refs : \E e \in target : << e.kind, e.id >> = r
  /\ \A d \in target : \A m \in d.cites :
       (phase = "done" /\ \E e \in buildLegacyMigrationPlan : e.kind = "note" /\ e.id = m)
         => \E e \in target : e.kind = "note" /\ e.id = m
  /\ \A d, e \in {f \in target : f.kind = "chat"} :
       d.facts.type = "direct" /\ e.facts.type = "direct"
         /\ d.facts.people = e.facts.people => d = e
  /\ \A d, e \in {f \in target : f.kind = "tie"} : d.facts.pair = e.facts.pair => d = e
  /\ \A d \in {f \in target : f.kind = "chat" /\ f.facts.type = "group"} :
       d.facts.admins # {} /\ d.facts.admins \subseteq d.facts.people
  /\ \A d \in {f \in target : f.kind = "tie"}, t \in ties :
       ValidTie(t) /\ Pair(t) = d.facts.pair /\ t.status = "accepted"
         => d.facts.status = "accepted"
=============================================================================
