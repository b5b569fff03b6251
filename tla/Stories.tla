------------------------------- MODULE Stories -------------------------------
(***************************************************************************)
(* One owner's stories and one other user who looks at them, while the two *)
(* become friends, part and block each other (server/services/             *)
(* dataService.js, mongoDataService.js, controllers/socialController.js).  *)
(* Reactions are left out: they are stored with the view.                  *)
(*                                                                         *)
(* Over MongoDB an accept checks the block, reads the request and then     *)
(* writes the friendship by its id alone, and a block writes itself before *)
(* it closes the friendships: an accept under way makes friends of two who *)
(* have blocked each other (Relationships.tla).                            *)
(***************************************************************************)
CONSTANTS
  Stories,  \* ids of stories (bounds how many are posted)
  Views,    \* slots for requests in progress (bounds concurrency)
  None      \* no story

StoryAssumption == None \notin Stories

VARIABLES
  store,     \* "memory" or "mongo"
  audience,  \* [Stories -> the stored audience; "new", "gone"]
  viewed,    \* stories that have the other user among their viewers
  friends,   \* the two are friends
  blocked,   \* one of them has blocked the other
  look,      \* the viewStory requests in progress
  access,    \* stories the other user has had access to at some moment
  due,       \* writes under way: "accept", "close"
  crossed    \* stories whose viewStory was at the friendship when an accept
             \* was written under a block

storyVars == << store, audience, viewed, friends, blocked, look, access, due, crossed >>
tieVars   == << friends, blocked, due, crossed >>

\* A custom audience either names the other user or does not.
Audiences == {"everyone", "friends", "named", "others"}
Stored    == {s \in Stories : audience[s] \in Audiences}
Idle      == [pc |-> "idle", story |-> None]

Init ==
  /\ store \in {"memory", "mongo"}
  /\ audience = [s \in Stories |-> "new"]
  /\ viewed = {}
  /\ friends = FALSE
  /\ blocked = FALSE
  /\ look = [v \in Views |-> Idle]
  /\ access = {}
  /\ due = {}
  /\ crossed = {}

InAnyAudience(s)  == TRUE                                           \* mutant
InAudience(s)     == \/ audience[s] \in {"everyone", "named"}
                     \/ audience[s] = "friends" /\ friends
canAccessStory(s) == ~blocked /\ s \in Stored /\ InAudience(s)

\* The history of who had access, in words of its own: a member of the
\* audience, or a friend, and no block.
HasAccess(s) == /\ ~blocked
                /\ audience[s] \in {"everyone", "named"} \cup (IF friends THEN {"friends"} ELSE {})
Remember     == access' = access \cup {s \in Stories : HasAccess(s)'}

-----------------------------------------------------------------------------
createStory(s, a) ==
  /\ audience[s] = "new"
  /\ audience' = [audience EXCEPT ![s] = a]
  /\ UNCHANGED << store, viewed, look, tieVars >>
  /\ Remember

\* deleteStory; over MongoDB the TTL index removes it a day later as well.
deleteStory(s) ==
  /\ s \in Stored
  /\ audience' = [audience EXCEPT ![s] = "gone"]
  /\ viewed' = viewed \ {s}
  /\ UNCHANGED << store, look, access, tieVars >>

\* viewStory: over MongoDB the story, the block, the friendship and the update
\* are four calls.  Over the memory store expiresAt is not looked at.
viewStory(v, s) ==
  /\ look[v].pc = "idle"
  /\ s \in Stored
  /\ IF store = "memory"
       THEN canAccessStory(s) /\ viewed' = viewed \cup {s} /\ UNCHANGED look
       ELSE look' = [look EXCEPT ![v] = [pc |-> "block", story |-> s]] /\ UNCHANGED viewed
  /\ UNCHANGED << store, audience, access, tieVars >>

NotBlocked(v) ==
  /\ look[v].pc = "block"
  /\ look' = [look EXCEPT ![v] = IF blocked THEN Idle ELSE [@ EXCEPT !.pc = "audience"]]
  /\ UNCHANGED << store, audience, viewed, access, tieVars >>

\* The audience of a story never changes: that of a story removed meanwhile was
\* read with it, which lets the request go on to an update that finds nothing.
InTheAudience(v) ==
  /\ look[v].pc = "audience"
  /\ look' = [look EXCEPT ![v] =
       IF look[v].story \in Stored => InAudience(look[v].story)
         THEN [@ EXCEPT !.pc = "update"] ELSE Idle]
  /\ UNCHANGED << store, audience, viewed, access, tieVars >>

AddViewer(v) ==
  /\ look[v].pc = "update"
  /\ viewed' = viewed \cup ({look[v].story} \cap Stored)
  /\ look' = [look EXCEPT ![v] = Idle]
  /\ UNCHANGED << store, audience, access, tieVars >>

\* Any number of accepts may be under way.
Accept ==
  /\ ~blocked
  /\ IF store = "memory"
       THEN friends' = TRUE /\ UNCHANGED due
       ELSE due' = due \cup {"accept"} /\ UNCHANGED friends
  /\ UNCHANGED << blocked, crossed >>

WriteAccept ==
  /\ "accept" \in due
  /\ friends' = TRUE
  /\ due' \in {due, due \ {"accept"}}
  /\ crossed' = crossed \cup
       (IF blocked THEN {look[v].story : v \in {w \in Views : look[w].pc = "audience"}}
        ELSE {})
  /\ UNCHANGED blocked

Remove == friends' = FALSE /\ UNCHANGED << blocked, due, crossed >>

Block ==
  /\ blocked' = TRUE
  /\ IF store = "memory"
       THEN friends' = FALSE /\ UNCHANGED due
       ELSE due' = due \cup {"close"} /\ UNCHANGED friends
  /\ UNCHANGED crossed

CloseFriendships ==
  /\ "close" \in due
  /\ friends' = FALSE
  /\ due' \in {due, due \ {"close"}}
  /\ UNCHANGED << blocked, crossed >>

\* The last block between the two is lifted.
Unblock == blocked' = FALSE /\ UNCHANGED << friends, due, crossed >>

Relate ==
  /\ Accept \/ WriteAccept \/ Remove \/ Block \/ CloseFriendships \/ Unblock
  /\ UNCHANGED << store, audience, viewed, look >>
  /\ Remember

Next ==
  \/ \E s \in Stories : deleteStory(s) \/ \E a \in Audiences : createStory(s, a)
  \/ \E v \in Views : \/ NotBlocked(v) \/ InTheAudience(v) \/ AddViewer(v)
                      \/ \E s \in Stories : viewStory(v, s)
  \/ Relate

Spec == Init /\ [][Next]_storyVars

-----------------------------------------------------------------------------
TypeOK ==
  /\ store \in {"memory", "mongo"}
  /\ audience \in [Stories -> Audiences \cup {"new", "gone"}]
  /\ viewed \subseteq Stored /\ access \subseteq Stories /\ crossed \subseteq Stories
  /\ due \subseteq {"accept", "close"} /\ (store = "memory" => due = {})
  /\ friends \in BOOLEAN /\ blocked \in BOOLEAN
  /\ look \in [Views -> [pc : {"idle", "block", "audience", "update"},
                         story : Stories \cup {None}]]

\* Whoever is listed as a viewer had access to the story at one moment at
\* least: the block and the friendship, read one after the other, were not
\* put together from two moments of which neither allowed it.  Over MongoDB there
\* is one way that they are: an accept that is written under a block between the
\* two looks, for a story its owner shows to friends (mongoDataService.js:596-603,
\* 645-651, 767-770).
ViewersHadAccess ==
  \A s \in viewed :
    \/ s \in access
    \/ store = "mongo" /\ audience[s] = "friends" /\ s \in crossed
=============================================================================
