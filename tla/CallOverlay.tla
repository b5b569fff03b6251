----------------------------- MODULE CallOverlay -----------------------------
(***************************************************************************)
(* The call window of one browser tab: which call it shows, the microphone *)
(* streams that are running, and the peer connection (client/src/          *)
(* components/modals/CallOverlay.jsx), beside the listeners of             *)
(* client/src/hooks/useRealtime.js, which move to a new socket whenever    *)
(* the access token is renewed while those of the window do not.           *)
(*                                                                         *)
(* A call id is shown once.  A video call asks for the microphone and then *)
(* for the camera; what it gets of the two is one stream.  Offers, answers *)
(* and candidates are left out as far as they only pass through the        *)
(* connection; so is screen sharing.                                       *)
(***************************************************************************)
EXTENDS Naturals

CONSTANTS
  Calls,       \* call ids
  MaxSockets,  \* bounds the renewals of the token
  None         \* no call, no stream

VARIABLES
  shown,      \* activeCall
  incoming,   \* calls that came in, as opposed to dialled here
  video,      \* calls with a camera
  connected,  \* the call counts as answered
  ready,      \* mediaReady
  socket,     \* number of the current socket
  heard,      \* [Calls -> the socket the window's listeners of the call are on, or 0]
  prep,       \* [Streams -> how far prepareMedia is]
  live,       \* streams whose tracks are running
  held,       \* localStream
  peer        \* the call peer.current was created for

overlayVars == << shown, incoming, video, connected, ready, socket, heard, prep,
                  live, held, peer >>

\* The stream a call starts with, and the one of a switch of device: one switch
\* per call is a bound.
Streams == Calls \X {"first", "switched"}
OverlayAssumption ==
  MaxSockets \in Nat \ {0} /\ None \notin Calls \cup Streams

First(c) == << c, "first" >>
Switched(c) == << c, "switched" >>

Init ==
  /\ shown = None
  /\ incoming = {} /\ video = {}
  /\ connected = FALSE
  /\ ready = FALSE
  /\ socket = 1
  /\ heard = [c \in Calls |-> 0]
  /\ prep = [x \in Streams |-> "new"]
  /\ live = {}
  /\ held = None
  /\ peer = None

\* The effect of the call id starts: its cleanup has let go of the listeners of
\* the call shown before, and of nothing else.
Show(c) ==
  /\ heard[c] = 0
  /\ shown' = c
  /\ heard' = [heard EXCEPT ![c] = socket]
  /\ prep' = [prep EXCEPT ![First(c)] = "asking"]
  /\ video' \in {video, video \cup {c}}
  /\ ready' = FALSE
  /\ connected' = FALSE
  /\ UNCHANGED << socket, live, held, peer >>

\* The window covers the buttons that dial.
Dial(c) == shown = None /\ Show(c) /\ UNCHANGED incoming
Ring(c) == Show(c) /\ incoming' = incoming \cup {c}

EndKeepingTracks ==                                                 \* mutant
  /\ shown' = None
  /\ live' = live
  /\ held' = None
  /\ peer' = None
  /\ connected' = FALSE

\* end: stops the stream and closes the connection, whichever call they are of.
End ==
  /\ shown' = None
  /\ live' = live \ {held}
  /\ held' = None
  /\ peer' = None
  /\ connected' = FALSE

-----------------------------------------------------------------------------
Keep == UNCHANGED << shown, connected, peer >>
Setting == UNCHANGED << incoming, video, socket, heard >>

\* prepareMedia, after replacePeerTracks.
Place(x, state) ==
  /\ live' = (live \cup {x}) \ {held}
  /\ held' = x
  /\ ready' = TRUE
  /\ prep' = [prep EXCEPT ![x] = state]

\* The devices are there.  With no connection there is no track to replace, which
\* takes no time.
PutInPlace(x) ==
  IF peer = None THEN Place(x, "listing")
  ELSE /\ prep' = [prep EXCEPT ![x] = "replacing"]
       /\ live' = live \cup {x}
       /\ UNCHANGED << held, ready >>

PreparedAnyway(x) == PutInPlace(x)                                  \* mutant

\* "if (disposed)": a stream whose call has gone is stopped.
Prepared(x) ==
  IF shown = x[1] THEN PutInPlace(x)
  ELSE /\ prep' = [prep EXCEPT ![x] = "failed"]
       /\ live' = live \ {x}
       /\ UNCHANGED << held, ready >>

\* The browser hands over the microphone.  A video call goes on to the camera,
\* with the microphone running, and looks at nothing before.
Granted(x) ==
  /\ prep[x] = "asking"
  /\ IF x[1] \in video
       THEN /\ prep' = [prep EXCEPT ![x] = "camera"]
            /\ live' = live \cup {x}
            /\ UNCHANGED << held, ready >>
       ELSE Prepared(x)
  /\ Keep /\ Setting

\* With a camera or, when it is refused, without one.
CameraAnswered(x) ==
  /\ prep[x] = "camera"
  /\ Prepared(x)
  /\ Keep /\ Setting

\* Whether the call is still shown is not looked at again.
Replaced(x) ==
  /\ prep[x] = "replacing"
  /\ Place(x, IF shown = x[1] THEN "listing" ELSE "late")
  /\ Keep /\ Setting

\* The user or the browser refuses the microphone, or the track cannot be replaced: a call
\* that was being dialled ends.
Refused(x) ==
  /\ prep[x] = "asking"
  /\ IF x = First(shown) /\ shown \notin incoming
       THEN End ELSE Keep /\ UNCHANGED << live, held >>
  /\ prep' = [prep EXCEPT ![x] = "failed"]
  /\ Setting /\ UNCHANGED ready

ReplaceFails(x) ==
  /\ prep[x] = "replacing"
  /\ IF x = First(shown) /\ shown \notin incoming
       THEN /\ shown' = None /\ held' = None /\ peer' = None /\ connected' = FALSE
            /\ live' = live \ {held, x}
       ELSE Keep /\ live' = live \ {x} /\ UNCHANGED held
  /\ prep' = [prep EXCEPT ![x] = "failed"]
  /\ Setting /\ UNCHANGED ready

\* The devices are listed; a call being dialled is announced with call:start.
Listed(x) ==
  /\ prep[x] = "listing"
  /\ prep' = [prep EXCEPT ![x] = "done"]
  /\ Keep /\ Setting /\ UNCHANGED << ready, live, held >>

switchInput(c) ==
  /\ shown = c /\ ready /\ prep[Switched(c)] = "new"
  /\ prep' = [prep EXCEPT ![Switched(c)] = "asking"]
  /\ Keep /\ Setting /\ UNCHANGED << ready, live, held >>

-----------------------------------------------------------------------------
Rest == Setting /\ UNCHANGED << ready, prep >>

acceptUnready(c) ==                                                 \* mutant
  /\ shown = c /\ c \in incoming /\ ~connected
  /\ connected' = TRUE
  /\ UNCHANGED << shown, live, held, peer >> /\ Rest

accept(c) ==
  /\ shown = c /\ c \in incoming /\ ~connected /\ ready
  /\ connected' = TRUE
  /\ UNCHANGED << shown, live, held, peer >> /\ Rest

\* call:accepted reaches the caller, or the caller's offer the one called:
\* createPeer keeps a connection that is there.
Negotiate(c) ==
  /\ shown = c /\ heard[c] = socket
  /\ IF c \in incoming THEN connected ELSE prep[First(c)] = "done"
  /\ peer' = IF peer = None THEN c ELSE peer
  /\ connected' = TRUE
  /\ UNCHANGED << shown, live, held >> /\ Rest

\* ontrack: the other side is heard.
Heard ==
  /\ peer # None
  /\ connected' = TRUE
  /\ UNCHANGED << shown, live, held, peer >> /\ Rest

\* Hang up, decline, or call:start refused by the server.
Hangup == shown # None /\ End /\ Rest

\* The connection fails, or stays disconnected for four seconds.
ConnectionFails == peer # None /\ End /\ Rest

\* call:ended, rejected, timeout or unavailable: useRealtime takes the call off
\* the window; the window's own listener, if it is on this socket, ends it.
RemoteEnd(c) ==
  /\ shown = c
  /\ IF heard[c] = socket THEN End
     ELSE shown' = None /\ UNCHANGED << live, held, peer, connected >>
  /\ Rest

\* A renewed token: useRealtime closes its socket and opens another.
NewSocket ==
  /\ socket < MaxSockets
  /\ socket' = socket + 1
  /\ Keep /\ UNCHANGED << incoming, video, ready, heard, prep, live, held >>

Next ==
  \/ \E c \in Calls : \/ Dial(c) \/ Ring(c) \/ switchInput(c) \/ accept(c)
                      \/ Negotiate(c) \/ RemoteEnd(c)
  \/ \E x \in Streams : \/ Granted(x) \/ CameraAnswered(x) \/ Replaced(x)
                        \/ Refused(x) \/ ReplaceFails(x) \/ Listed(x)
  \/ Heard \/ Hangup \/ ConnectionFails \/ NewSocket

Spec == Init /\ [][Next]_overlayVars

-----------------------------------------------------------------------------
States == {"new", "asking", "camera", "replacing", "listing", "late", "done", "failed"}

TypeOK ==
  /\ shown \in Calls \cup {None} /\ peer \in Calls \cup {None}
  /\ incoming \subseteq Calls /\ video \subseteq Calls
  /\ connected \in BOOLEAN /\ ready \in BOOLEAN
  /\ socket \in 1..MaxSockets /\ heard \in [Calls -> 0..MaxSockets]
  /\ prep \in [Streams -> States]
  /\ live \subseteq Streams
  /\ held \in Streams \cup {None}

\* Running, and not held yet: end does not reach it.
Unplaced == {x \in Streams : prep[x] \in {"camera", "replacing"}}

\* A call that counts as answered has a microphone, and besides the stream held
\* none runs but one that waits for the camera's prompt or for the connection's
\* tracks.  When no call is shown no stream runs, whatever ended the call, except
\* one that still waits so (the answer to the prompt stops it), one whose call
\* went while the connection's tracks were replaced, and one of a call whose end
\* came over a newer socket than the window listens on (CallOverlay.jsx:101-147,
\* 200-205, 216-225, useRealtime.js:103-111).
MediaFollowsCall ==
  /\ shown # None /\ connected => held # None
  /\ live \ Unplaced \subseteq {held}
  /\ shown = None => \A x \in live \ Unplaced : prep[x] = "late" \/ heard[x[1]] < socket
=============================================================================
