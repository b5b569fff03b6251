------------------------------ MODULE Composer ------------------------------
(***************************************************************************)
(* What a user writes, records and attaches, and the conversation it goes  *)
(* to (client/src/components/chat/Composer.jsx, ChatPanel.jsx).  One       *)
(* composer serves every conversation: it keeps what is in it when the     *)
(* user opens another one, and is gone when the user shows none.  The      *)
(* panel around it, which makes the sends, goes when the user leaves the   *)
(* chats.                                                                  *)
(*                                                                         *)
(* A conversation counts as loaded when it is shown.  Which messages are   *)
(* then shown of it is in ClientTimeline.tla, what the server makes of an  *)
(* upload in Uploads.tla.  The button of a failed message, replies, typing *)
(* indicators and the limit of ten attachments are left out, and `sending` *)
(* is taken to be known before the next key is pressed.                    *)
(***************************************************************************)
CONSTANTS
  Chats,   \* conversations
  Texts,   \* pieces of text
  Files,   \* files, recordings and GIFs
  Sends,   \* slots for sends in progress (bounds concurrency)
  None     \* no conversation, no recording

ComposerAssumption == None \notin Chats \cup Files

VARIABLES
  shown,     \* the conversation that is shown, or None
  piece,     \* [Pieces -> what became of it: see States]
  here,      \* pieces begun in the composer that is there now
  recorder,  \* the recording the stop button is for
  live,      \* recordings whose microphone stream is running
  send,      \* the sends in progress: for the conversation that was shown when
             \* it began, posting at one, retrying to one, stored in some; whether
             \* it has been tried again, and the conversations opened meanwhile
  beside,    \* pieces added while a send was under way
  twice      \* recordings begun while another waited for the microphone

composerVars == << shown, piece, here, recorder, live, send, beside, twice >>

Pieces == Texts \cup Files
States == {"new", "asked", "recording", "stopped", "uploading", "draft", "lost",
           "gone"}

Draft   == {p \in Pieces : piece[p] = "draft"}
NoSend  == [pieces |-> {}, for |-> None, at |-> None, to |-> None, stored |-> {},
            follows |-> FALSE, again |-> FALSE, opened |-> {}]
sending == \E s \in Sends : send[s].follows

Become(p, state) == piece' = [piece EXCEPT ![p] = state]

Init ==
  /\ shown \in Chats
  /\ piece = [p \in Pieces |-> "new"]
  /\ here = {} /\ recorder = None /\ live = {}
  /\ send = [s \in Sends |-> NoSend]
  /\ beside = {} /\ twice = {}

-----------------------------------------------------------------------------
(* Writing and attaching. *)

\* A piece joins the draft, perhaps while a send is under way.
Beside(p) == beside' = IF sending THEN beside \cup {p} ELSE beside

typing(t) ==
  /\ shown # None /\ piece[t] = "new"
  /\ Become(t, "draft") /\ here' = here \cup {t} /\ Beside(t)
  /\ UNCHANGED << shown, recorder, live, send, twice >>

\* A GIF takes the place of all attachments.
sendGif(f) ==
  /\ shown # None /\ piece[f] = "new"
  /\ piece' = [p \in Pieces |-> IF p = f THEN "draft"
                                ELSE IF p \in Draft \cap Files THEN "gone"
                                ELSE piece[p]]
  /\ here' = here \cup {f} /\ Beside(f)
  /\ UNCHANGED << shown, recorder, live, send, twice >>

uploadFiles(f) ==
  /\ shown # None /\ piece[f] = "new"
  /\ Become(f, "uploading") /\ here' = here \cup {f}
  /\ UNCHANGED << shown, recorder, live, send, beside, twice >>

\* An upload whose composer is gone attaches to nothing.
Uploaded(f) ==
  /\ piece[f] = "uploading"
  /\ \/ f \in here /\ Become(f, "draft") /\ Beside(f)
     \/ f \notin here /\ Become(f, "gone") /\ UNCHANGED beside
     \/ Become(f, "gone") /\ UNCHANGED beside
  /\ UNCHANGED << shown, here, recorder, live, send, twice >>

-----------------------------------------------------------------------------
(* Recording: the button is there while the composer is empty, also while an
   earlier press waits for the microphone. *)

startRecording(f) ==
  /\ shown # None /\ recorder = None /\ Draft = {} /\ piece[f] = "new"
  /\ Become(f, "asked") /\ here' = here \cup {f}
  /\ LET waiting == {g \in Files \cap here : piece[g] = "asked"} IN
     twice' = IF waiting = {} THEN twice ELSE twice \cup waiting \cup {f}
  /\ UNCHANGED << shown, recorder, live, send, beside >>

Granted(f) ==
  /\ piece[f] = "asked"
  /\ Become(f, "recording") /\ live' = live \cup {f}
  /\ recorder' = IF f \in here THEN f ELSE recorder
  /\ UNCHANGED << shown, here, send, beside, twice >>

Denied(f) ==
  /\ piece[f] = "asked"
  /\ Become(f, "gone")
  /\ UNCHANGED << shown, here, recorder, live, send, beside, twice >>

stopRecording ==
  /\ recorder # None
  /\ Become(recorder, "stopped") /\ recorder' = None
  /\ UNCHANGED << shown, here, live, send, beside, twice >>

StoppedKeepingTracks(f) ==                                          \* mutant
  /\ piece[f] = "stopped"
  /\ Become(f, "uploading")
  /\ UNCHANGED << shown, here, recorder, live, send, beside, twice >>

\* The recorder's stop event comes later; the composer may be gone by then.
Stopped(f) ==
  /\ piece[f] = "stopped"
  /\ Become(f, "uploading") /\ live' = live \ {f}
  /\ UNCHANGED << shown, here, recorder, send, beside, twice >>

-----------------------------------------------------------------------------
(* Sending: the panel knows of one send under way, the latest. *)

Post(s, pieces) ==
  send' = [send EXCEPT ![s] = [NoSend EXCEPT !.pieces = pieces, !.for = shown,
                               !.at = shown, !.to = shown, !.follows = TRUE]]

SubmitText(s) ==                                                    \* mutant
  /\ send[s] = NoSend /\ shown # None /\ recorder = None
  /\ Draft # {} /\ ~sending
  /\ Post(s, Draft \cap Texts)
  /\ UNCHANGED << shown, piece, here, recorder, live, beside, twice >>

\* All that is in the composer; it stays there until the send has ended.
submit(s) ==
  /\ send[s] = NoSend /\ shown # None /\ recorder = None
  /\ Draft # {} /\ ~sending
  /\ Post(s, Draft)
  /\ UNCHANGED << shown, piece, here, recorder, live, beside, twice >>

\* createMessage looks for an earlier message of the send in the conversation of
\* the request only.
Deliver(s) ==
  /\ send[s] # NoSend /\ send[s].at # None
  /\ send' = [send EXCEPT ![s].stored = @ \cup {send[s].at}]
  /\ UNCHANGED << shown, piece, here, recorder, live, beside, twice >>

RetryToShown(s) ==                                                  \* mutant
  /\ send[s] # NoSend /\ shown # None
  /\ send' = [send EXCEPT ![s].at = shown, ![s].again = TRUE]
  /\ UNCHANGED << shown, piece, here, recorder, live, beside, twice >>

\* Another attempt calls the mutation function the mutation has now.
Retry(s) ==
  /\ send[s] # NoSend
  /\ send' = [send EXCEPT ![s].at = send[s].to, ![s].again = TRUE]
  /\ UNCHANGED << shown, piece, here, recorder, live, beside, twice >>

\* Answered or given up, queueMessage resolves, and the composer is emptied of
\* whatever is in it by now; one that is gone empties nothing.
Finish(s) ==
  /\ send[s] # NoSend
  /\ piece' = [p \in Pieces |->
       IF p \in send[s].pieces THEN "gone"
       ELSE IF send[s].pieces \subseteq here /\ p \in Draft THEN "lost" ELSE piece[p]]
  /\ send' = [send EXCEPT ![s] = NoSend]
  /\ UNCHANGED << shown, here, recorder, live, beside, twice >>

-----------------------------------------------------------------------------
(* Going from one conversation to another. *)

\* useMutation gives the send under way the functions of the latest rendering,
\* and with them its conversation.
Rebind(c) ==
  send' = [s \in Sends |-> IF send[s].follows
                           THEN [send[s] EXCEPT !.to = c, !.opened = @ \cup {c}]
                           ELSE send[s]]

Switch(c) ==
  /\ shown # None /\ c # shown
  /\ shown' = c
  /\ Rebind(c)
  /\ UNCHANGED << piece, here, recorder, live, beside, twice >>

\* The composer goes, with what is in it; a send, an upload and a recording that
\* were begun go on.
Unmount ==
  /\ shown' = None
  /\ piece' = [p \in Pieces |-> IF p \in Draft THEN "gone" ELSE piece[p]]
  /\ here' = {} /\ recorder' = None
  /\ UNCHANGED << live, beside, twice >>

\* Back to the list: the panel stays and has no conversation.
Back == shown # None /\ Unmount /\ Rebind(None)

\* Another page: the panel goes as well and leaves its sends as they are.
Leave ==
  /\ Unmount
  /\ send' = [s \in Sends |-> [send[s] EXCEPT !.follows = FALSE]]

Enter(c) ==
  /\ shown = None
  /\ shown' = c
  /\ Rebind(c)
  /\ UNCHANGED << piece, here, recorder, live, beside, twice >>

Next ==
  \/ \E t \in Texts : typing(t)
  \/ \E f \in Files :
       \/ sendGif(f) \/ uploadFiles(f) \/ Uploaded(f)
       \/ startRecording(f) \/ Granted(f) \/ Denied(f) \/ Stopped(f)
  \/ stopRecording
  \/ \E s \in Sends : submit(s) \/ Deliver(s) \/ Retry(s) \/ Finish(s)
  \/ \E c \in Chats : Switch(c) \/ Enter(c)
  \/ Back \/ Leave

Spec == Init /\ [][Next]_composerVars

-----------------------------------------------------------------------------
TypeOK ==
  /\ shown \in Chats \cup {None}
  /\ piece \in [Pieces -> States] /\ here \subseteq Pieces
  /\ recorder \in Files \cup {None} /\ live \subseteq Files
  /\ send \in [Sends -> [pieces : SUBSET Pieces, for : Chats \cup {None},
                         at : Chats \cup {None}, to : Chats \cup {None},
                         stored : SUBSET Chats, follows : BOOLEAN,
                         again : BOOLEAN, opened : SUBSET (Chats \cup {None})]]
  /\ beside \subseteq Pieces /\ twice \subseteq Files

\* A send is stored in the conversation it was made in.  Only one that is tried
\* again may be stored in another, and only in one that the user opened while it
\* was under way: the retries go along with the user.  What the end of a send
\* empties unsent out of the composer was added while a send was under way; a GIF
\* that takes the place of the attachments, and a composer that goes, discard
\* what they discard in any case.  A microphone runs for a recording that can be
\* stopped or is just stopping, unless the composer went or the button was
\* pressed twice (Composer.jsx:77-127, ChatPanel.jsx:50-54, 143-146).
SentAsMeant ==
  /\ \A s \in Sends : \A c \in send[s].stored :
       c = send[s].for \/ (send[s].again /\ c \in send[s].opened)
  /\ \A p \in Pieces : piece[p] = "lost" => p \in beside
  /\ \A f \in live : \/ f = recorder \/ piece[f] = "stopped"
                     \/ f \notin here \/ f \in twice
=============================================================================
