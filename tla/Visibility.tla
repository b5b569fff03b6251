----------------------------- MODULE Visibility -----------------------------
(***************************************************************************)
(* What the server names to one user, the viewer, of another one, the      *)
(* owner, which of the owner's files it then lets the viewer open, and     *)
(* what the owner is told of the viewer's reading (server/services/        *)
(* dataService.js, mongoDataService.js, controllers/messageController.js). *)
(* A file is checked when it is downloaded, in other code than that which  *)
(* puts an answer together.                                                *)
(*                                                                         *)
(* The owner has a profile picture, the picture of a group both use, a     *)
(* medium it may post in several stories, one attachment in any of Chats,  *)
(* and one message to the viewer.  An answer is read in one step.          *)
(***************************************************************************)
EXTENDS Naturals, Sequences

CONSTANTS
  Chats,      \* conversations the owner is in
  MaxStories  \* bound on the stories with the medium

VARIABLES
  store,     \* "memory" or "mongo"
  photo,     \* the owner's profilePhoto setting
  receipts,  \* the viewer's readReceipts setting
  tie,       \* "friends" when a friendship is stored, "blocked" when a block is
  stories,   \* the owner's stories with the medium, the first posted first
  inside,    \* conversations the viewer is in
  claims,    \* conversationIds of the attachment
  posts,     \* [Chats -> what became of a message with the attachment]
  read,      \* the viewer has read the owner's message
  told,      \* the owner has been told so
  open,      \* the viewer has let it be known
  admin      \* the viewer is an administrator

fileVars  == << photo, stories, inside, claims, posts >>
otherVars == << store, admin >>
visibilityVars == << fileVars, otherVars, receipts, tie, read, told, open >>

Choices   == {"everyone", "friends", "nobody"}
\* A custom audience that names the viewer lets it in as everyone does.
Audiences == {"everyone", "friends", "others"}
Story     == [audience : Audiences, live : BOOLEAN]
\* Sent by the owner, or sent on by the viewer, and either perhaps unsent.
Shown     == {"sent", "forwarded"}
Posts     == Shown \cup {"none", "unsent"}

Init ==
  /\ store \in {"memory", "mongo"}
  /\ photo = "everyone" /\ receipts = TRUE
  /\ tie = {}
  /\ stories = << >>
  /\ inside = {} /\ claims = {}
  /\ posts = [c \in Chats |-> "none"]
  /\ read = FALSE /\ told = FALSE /\ open = FALSE
  /\ admin \in BOOLEAN

-----------------------------------------------------------------------------
(* The files an answer names. *)

\* A block comes before a friendship that is still stored.
AreFriends == tie = {"friends"}

canViewPrivacySetting(setting) ==
  setting = "everyone" \/ (setting = "friends" /\ AreFriends)

presentUserForViewer == IF canViewPrivacySetting(photo) THEN {"face"} ELSE {}

canAccessStory(story) ==
  /\ "blocked" \notin tie
  /\ \/ story.audience = "everyone"
     \/ story.audience = "friends" /\ "friends" \in tie

Posted == {stories[i] : i \in DOMAIN stories}

\* A group's picture is named whoever has uploaded it.
presentConversation == presentUserForViewer \cup {"group"}
getConversations    == IF inside = {} THEN {} ELSE presentConversation

getMessages(c) ==
  presentUserForViewer \cup IF posts[c] \in Shown THEN {"attachment"} ELSE {}

presentStory == presentUserForViewer \cup {"story"}
getStories   ==
  IF \E story \in Posted : story.live /\ canAccessStory(story)
  THEN presentStory ELSE {}
listFriends  == IF "friends" \in tie THEN presentUserForViewer ELSE {}

\* Over the memory store a search shows users with all that publicUser leaves.
FoundUser == IF store = "memory" THEN {"face"} ELSE presentUserForViewer
searchEverything ==
  FoundUser \cup getConversations
  \cup IF \E c \in inside : posts[c] \in Shown THEN {"attachment"} ELSE {}

Named == getConversations \cup getStories \cup listFriends
         \cup UNION {getMessages(c) : c \in inside}

\* The lists of users, of the newest ones and of reports that an administrator is
\* shown have all that publicUser leaves.
adminAnswers == IF admin THEN {"face"} ELSE {}

\* The story a file is checked by is the first one with the medium, also when it
\* has expired: the first posted in memory, whichever the database returns.
FoundStory == IF store = "memory" THEN {stories[i] : i \in DOMAIN stories \cap {1}}
              ELSE Posted

canUserReadUpload(file) ==
  CASE file \in {"face", "group"} -> canViewPrivacySetting(photo)
    [] file = "story"             ->
         FoundStory # {} /\ \A story \in FoundStory : canAccessStory(story)
    [] file = "attachment"        -> claims \cap inside # {}

-----------------------------------------------------------------------------
(* The states of files and answers. *)

\* A receipt is open once the message is read and the setting on.
Remember == open' = (open \/ (read' /\ receipts'))

updateSettings ==
  /\ \/ photo' \in Choices /\ UNCHANGED receipts
     \/ receipts' \in BOOLEAN /\ UNCHANGED photo
  /\ UNCHANGED << otherVars, tie, stories, inside, claims, posts, read, told >>
  /\ Remember

\* An accept, a removal, a block, an unblock.  Over MongoDB an accept may be
\* written after a block, and a block closes the friendships in a second write,
\* which is a removal here (Stories.tla and Relationships.tla have the handlers).
Relate ==
  /\ \/ /\ store = "memory" => "blocked" \notin tie
        /\ tie' = tie \cup {"friends"}
     \/ tie' = tie \ {"friends"}
     \/ tie' = IF store = "memory" THEN {"blocked"} ELSE tie \cup {"blocked"}
     \/ tie' = tie \ {"blocked"}
  /\ UNCHANGED << otherVars, fileVars, receipts, read, told, open >>

ChangeStories(list) ==
  /\ stories' = list
  /\ UNCHANGED << otherVars, photo, receipts, tie, inside, claims, posts, read, told,
                  open >>

createStory(audience) ==
  /\ Len(stories) < MaxStories
  /\ ChangeStories(Append(stories, [audience |-> audience, live |-> TRUE]))

\* An expired story is not shown any more.  It stays stored: in memory for good,
\* in the database until the index on expiresAt has it deleted.
Expire(i) == ChangeStories([stories EXCEPT ![i].live = FALSE])

deleteStory(i) ==
  ChangeStories(SubSeq(stories, 1, i - 1) \o SubSeq(stories, i + 1, Len(stories)))

\* A conversation may be left and joined again; its messages stay.
Join(c) ==
  /\ inside' = IF c \in inside THEN inside \ {c} ELSE inside \cup {c}
  /\ UNCHANGED << otherVars, photo, receipts, tie, stories, claims, posts, read, told,
                  open >>

\* The viewer may send on what a conversation it is in has been sent, even when
\* the message there is unsent by now.
canAttachUpload == claims \cap inside # {}

AttachUnclaimed(c) ==                                               \* mutant
  /\ posts[c] = "none"
  /\ \/ posts' = [posts EXCEPT ![c] = "sent"] /\ claims' = claims \cup {c}
     \/ /\ c \in inside /\ canAttachUpload
        /\ posts' = [posts EXCEPT ![c] = "forwarded"] /\ UNCHANGED claims
  /\ UNCHANGED << otherVars, photo, receipts, tie, stories, inside, read, told, open >>

Attach(c) ==
  /\ posts[c] = "none"
  /\ \/ posts' = [posts EXCEPT ![c] = "sent"]
     \/ c \in inside /\ canAttachUpload /\ posts' = [posts EXCEPT ![c] = "forwarded"]
  /\ claims' = claims \cup {c}
  /\ UNCHANGED << otherVars, photo, receipts, tie, stories, inside, read, told, open >>

\* The message loses its attachment, the upload keeps the conversation.
Unsend(c) ==
  /\ posts[c] \in Shown
  /\ posts' = [posts EXCEPT ![c] = "unsent"]
  /\ UNCHANGED << otherVars, photo, receipts, tie, stories, inside, claims, read, told,
                  open >>

-----------------------------------------------------------------------------
(* What the owner is told of the reading of its message. *)

readReceiptVisibleTo == receipts

\* Presented to its sender, a message is "read" if somebody says so.
presentMessage == read /\ readReceiptVisibleTo

\* message:seen is sent when the receipt is shared.
SeenAnyway ==                                                       \* mutant
  /\ "blocked" \notin tie
  /\ read' = TRUE
  /\ told' = TRUE
  /\ UNCHANGED << otherVars, fileVars, receipts, tie >>
  /\ Remember

markConversationRead ==
  /\ "blocked" \notin tie
  /\ read' = TRUE
  /\ told' = (told \/ receipts)
  /\ UNCHANGED << otherVars, fileVars, receipts, tie >>
  /\ Remember

\* The sender opens the conversation, or changes the message.
OwnerLooks ==
  /\ told' = (told \/ presentMessage)
  /\ UNCHANGED << otherVars, fileVars, receipts, tie, read, open >>

\* Over the memory store a search presents a message to its place in the list.
OwnerSearches ==
  /\ store = "memory"
  /\ told' = (told \/ read)
  /\ open' = (open \/ read)
  /\ UNCHANGED << otherVars, fileVars, receipts, tie, read >>

\* The viewer reacts to the message, pins it or deletes it for itself: all in
\* the conversation get it as it is presented to the viewer.
ViewerActs ==
  /\ "blocked" \notin tie
  /\ told' = (told \/ read)
  /\ open' = (open \/ read)
  /\ UNCHANGED << otherVars, fileVars, receipts, tie, read >>

Next ==
  \/ updateSettings \/ Relate
  \/ \E audience \in Audiences : createStory(audience)
  \/ \E i \in DOMAIN stories : Expire(i) \/ deleteStory(i)
  \/ \E c \in Chats : Join(c) \/ Attach(c) \/ Unsend(c)
  \/ markConversationRead \/ OwnerLooks \/ OwnerSearches \/ ViewerActs

Spec == Init /\ [][Next]_visibilityVars

-----------------------------------------------------------------------------
TypeOK ==
  /\ store \in {"memory", "mongo"}
  /\ photo \in Choices /\ receipts \in BOOLEAN
  /\ tie \subseteq {"friends", "blocked"}
  /\ store = "memory" => tie # {"friends", "blocked"}
  /\ stories \in Seq(Story)
  /\ inside \subseteq Chats /\ claims \subseteq Chats
  /\ posts \in [Chats -> Posts]
  /\ read \in BOOLEAN /\ told \in BOOLEAN /\ open \in BOOLEAN
  /\ admin \in BOOLEAN

\* A medium is kept from the viewer in one of the stories it is posted in.
AlsoHidden == \E story \in Posted : ~canAccessStory(story)

\* Whatever file an answer names can be opened by whoever gets the answer, but
\* for the picture of a group whose uploader hides its own, a story's medium that
\* another story with it keeps from the viewer, and a profile picture that only a
\* search over the memory store or an administrator's answer names
\* (dataService.js:272-287, 384-433, 1017-1033, 1064-1072, 1131-1178).  And the
\* owner learns that its message was read only when the receipt was open at some
\* moment, the viewer acted on the message, or the memory store searched
\* (dataService.js:172-174, messageController.js:94-130).
ShownIsOpen ==
  /\ \A file \in Named :
       \/ file = "group"
       \/ file = "story" /\ AlsoHidden
       \/ canUserReadUpload(file)
  /\ \A file \in (searchEverything \cup adminAnswers) \ Named :
       \/ file = "face" /\ (store = "memory" \/ admin)
       \/ canUserReadUpload(file)
  /\ told => open
=============================================================================
