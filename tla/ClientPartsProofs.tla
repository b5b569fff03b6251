-------------------------- MODULE ClientPartsProofs --------------------------
(***************************************************************************)
(* Theorems about the components of the client, and about the life of the  *)
(* process, for every value of their constants.  Each component has its    *)
(* own section.                                                            *)
(***************************************************************************)
EXTENDS Naturals, FiniteSetTheorems, TLAPS

CONSTANTS
  Calls, MaxSockets,           \* CallOverlay.tla
  Keys, Retries,               \* ClientTimeline.tla
  Chats, Texts, Files, Sends,  \* Composer.tla
  Tabs, Slots, MaxSessions,    \* ClientSession.tla
  None

VARIABLES
  shown, incoming, video, connected, ready, socket, heard, prep,
  live, held, peer,                                           \* CallOverlay.tla
  cache, send, failures, delayed, stored, events, fetch,
  hidden, misread,                                            \* ClientTimeline.tla
  facing, piece, here, recorder, taping, sending, beside,
  twice,                                                      \* Composer.tla
  user, stale, request, refreshing, refresh, cookie, sessions,
  issued, taker, dropped, quit,                               \* ClientSession.tla
  wanted, prod, up, phase, link, mode, redis, data, use,
  probe, answer                                               \* Lifecycle.tla

Overlay  == INSTANCE CallOverlay
Timeline == INSTANCE ClientTimeline WITH late <- delayed
Writing  == INSTANCE Composer WITH
  shown <- facing, live <- taping, send <- sending
Browser  == INSTANCE ClientSession
Process  == INSTANCE Lifecycle WITH cache <- redis, request <- use

-----------------------------------------------------------------------------
\* A stream that runs is the one held or has yet to be put in place.  With no call
\* shown it has yet to be, came late, or is of a call that came over an earlier
\* socket; otherwise, unless it has yet to be put in place or came late, its call
\* came no later than the call shown.
Waiting == {"camera", "replacing"}

OverlayInv ==
  /\ Overlay!TypeOK
  /\ \A x \in live : x = held \/ prep[x] \in Waiting
  /\ shown = None => \A x \in live : \/ prep[x] \in Waiting \cup {"late"}
                                     \/ heard[x[1]] < socket
  /\ shown # None => /\ heard[shown] > 0
                     /\ connected => held # None
                     /\ ready => held # None
                     /\ prep[Overlay!First(shown)] \in {"listing", "done"} => held # None
  /\ \A c \in Calls : heard[c] <= socket
  /\ \A x \in Overlay!Streams : prep[x] # "new" => heard[x[1]] > 0
  /\ \A x \in live : prep[x] \notin Waiting \cup {"late"} /\ shown # None =>
       heard[x[1]] <= heard[shown]
  /\ peer # None => held # None

LEMMA OverlayInit ==
  ASSUME Overlay!OverlayAssumption, Overlay!Init
  PROVE  OverlayInv
<1>1. Overlay!TypeOK
  <2>1. 1 \in 1..MaxSockets /\ 0 \in 0..MaxSockets
    BY DEF Overlay!OverlayAssumption
  <2> QED
    BY <2>1 DEF Overlay!Init, Overlay!TypeOK, Overlay!States
<1>2. \A x \in Overlay!Streams : prep[x] = "new"
  BY DEF Overlay!Init
<1> QED
  BY <1>1, <1>2 DEF Overlay!Init, OverlayInv

LEMMA StreamOf ==
  ASSUME NEW x \in Overlay!Streams
  PROVE  x[1] \in Calls
BY DEF Overlay!Streams

LEMMA CallStreams ==
  ASSUME NEW c \in Calls
  PROVE  /\ Overlay!First(c) \in Overlay!Streams /\ Overlay!First(c)[1] = c
         /\ Overlay!Switched(c) \in Overlay!Streams /\ Overlay!Switched(c)[1] = c
BY DEF Overlay!Streams, Overlay!First, Overlay!Switched

LEMMA ShowStep ==
  ASSUME Overlay!OverlayAssumption, OverlayInv, NEW c \in Calls, Overlay!Show(c),
         incoming' \in {incoming, incoming \cup {c}}
  PROVE  OverlayInv'
<1> USE DEF Overlay!OverlayAssumption
<1>1. /\ Overlay!First(c) \in Overlay!Streams /\ Overlay!First(c)[1] = c
      /\ prep[Overlay!First(c)] = "new"
  BY CallStreams DEF Overlay!Show, OverlayInv, Overlay!TypeOK
<1>2. /\ heard' \in [Calls -> 0..MaxSockets] /\ heard'[c] = socket
      /\ \A d \in Calls \ {c} : heard'[d] = heard[d]
      /\ prep' = [prep EXCEPT ![Overlay!First(c)] = "asking"]
      /\ shown' = c /\ c # None /\ ready' = FALSE /\ connected' = FALSE
      /\ video' \subseteq Calls /\ UNCHANGED << socket, live, held, peer >>
  BY DEF Overlay!Show, OverlayInv, Overlay!TypeOK
<1>3. Overlay!TypeOK'
  BY <1>1, <1>2 DEF OverlayInv, Overlay!TypeOK, Overlay!States
<1>4. \A x \in live' : prep'[x] = prep[x] \/ (x = Overlay!First(c) /\ x \in live /\ prep[x] = "new")
  BY <1>1, <1>2 DEF OverlayInv, Overlay!TypeOK
<1>5. \A x \in Overlay!Streams : prep'[x] # "new" => heard'[x[1]] > 0
  BY <1>1, <1>2, StreamOf DEF OverlayInv, Overlay!TypeOK
<1>6. \A d \in Calls : heard'[d] <= socket'
  BY <1>2 DEF OverlayInv, Overlay!TypeOK
<1>7. \A x \in live' : x[1] \in Calls
  BY <1>2, StreamOf DEF OverlayInv, Overlay!TypeOK
<1>8. \A x \in live' : x = held' \/ prep'[x] \in Waiting
  BY <1>2, <1>4 DEF OverlayInv, Overlay!TypeOK, Waiting
<1>9. \A x \in live' : heard'[x[1]] <= heard'[shown']
  BY <1>2, <1>6, <1>7
<1>10. /\ heard'[shown'] > 0
       /\ prep'[Overlay!First(shown')] \notin {"listing", "done"}
  BY <1>1, <1>2 DEF OverlayInv, Overlay!TypeOK
<1> QED
  BY <1>2, <1>3, <1>5, <1>6, <1>8, <1>9, <1>10 DEF OverlayInv

\* A call ends and the stream that was held is stopped.
LEMMA HungUpStep ==
  ASSUME Overlay!OverlayAssumption, OverlayInv,
         shown' = None, held' = None, peer' = None, ~connected', connected' \in BOOLEAN,
         Overlay!Setting, ready' = ready,
         prep' \in [Overlay!Streams -> Overlay!States],
         live' \subseteq live \ {held},
         \A x \in Overlay!Streams : /\ prep'[x] # "new" => prep[x] # "new"
                                    /\ x \in live' /\ prep[x] \in Waiting => prep'[x] \in Waiting
  PROVE  OverlayInv'
<1>1. Overlay!TypeOK'
  BY DEF OverlayInv, Overlay!TypeOK, Overlay!Setting
<1>2. \A x \in live' : prep'[x] \in Waiting
  BY DEF OverlayInv, Overlay!TypeOK
<1>3. /\ \A c \in Calls : heard'[c] <= socket'
      /\ \A x \in Overlay!Streams : prep'[x] # "new" => heard'[x[1]] > 0
  <2>1. heard' = heard /\ socket' = socket
    BY DEF Overlay!Setting
  <2>2. \A x \in Overlay!Streams : prep'[x] # "new" => prep[x] # "new"
    OBVIOUS
  <2> QED
    BY <2>1, <2>2 DEF OverlayInv
<1> QED
  BY <1>1, <1>2, <1>3 DEF OverlayInv

\* prepareMedia puts a stream in the place of the one held.
LEMMA PlaceStep ==
  ASSUME Overlay!OverlayAssumption, OverlayInv, NEW x \in Overlay!Streams,
         NEW state \in {"listing", "late"}, shown # x[1] => state = "late",
         Overlay!Place(x, state), Overlay!Keep, Overlay!Setting, prep[x] # "new"
  PROVE  OverlayInv'
<1> USE DEF Overlay!OverlayAssumption, Waiting
<1>1. /\ live' = (live \cup {x}) \ {held} /\ held' = x /\ ready' = TRUE /\ x # None
      /\ prep' = [prep EXCEPT ![x] = state]
      /\ UNCHANGED << shown, connected, peer, incoming, video, socket, heard >>
  BY DEF Overlay!Place, Overlay!Keep, Overlay!Setting
<1>2. Overlay!TypeOK'
  BY <1>1 DEF OverlayInv, Overlay!TypeOK, Overlay!States
<1>3. \A y \in live' : y = x \/ (prep'[y] \in Waiting /\ prep[y] \in Waiting)
  BY <1>1 DEF OverlayInv, Overlay!TypeOK
<1>4. prep'[x] = state
  BY <1>1 DEF OverlayInv, Overlay!TypeOK
<1>5. \A y \in live' : prep'[y] \notin Waiting \cup {"late"} /\ shown' # None =>
        heard'[y[1]] <= heard'[shown']
  BY <1>1, <1>3, <1>4, StreamOf DEF OverlayInv, Overlay!TypeOK
<1>6. \A y \in Overlay!Streams : prep'[y] # "new" => prep[y] # "new"
  BY <1>1 DEF OverlayInv, Overlay!TypeOK
<1>7. shown' = None => \A y \in live' : prep'[y] \in Waiting \cup {"late"}
  BY <1>1, <1>3, <1>4, StreamOf DEF OverlayInv, Overlay!TypeOK
<1> QED
  BY <1>1, <1>2, <1>3, <1>4, <1>5, <1>6, <1>7 DEF OverlayInv, Overlay!TypeOK

\* A stream's preparation goes on or fails, and what is held stays held.
LEMMA PrepStep ==
  ASSUME Overlay!OverlayAssumption, OverlayInv, NEW x \in Overlay!Streams,
         NEW state \in {"asking", "camera", "replacing", "done", "failed"},
         prep' = [prep EXCEPT ![x] = state], Overlay!Keep, Overlay!Setting,
         prep[x] \in Waiting /\ state \notin Waiting => x \notin live',
         state \in Waiting => live' = live \cup {x},
         state \notin Waiting => live' \in {live, live \ {x}},
         state = "done" => prep[x] = "listing",
         state = "failed" => prep[x] # "late",
         prep[x] \notin {"late", "done", "failed"},
         prep[x] = "new" => heard[x[1]] > 0,
         UNCHANGED << ready, held >>
  PROVE  OverlayInv'
<1>1. /\ UNCHANGED << shown, connected, peer, incoming, video, ready, socket, heard, held >>
      /\ prep' \in [Overlay!Streams -> Overlay!States]
      /\ prep'[x] = state /\ \A y \in Overlay!Streams \ {x} : prep'[y] = prep[y]
      /\ live' \subseteq Overlay!Streams /\ live' \subseteq live \cup {x}
  BY DEF Overlay!Keep, Overlay!Setting, OverlayInv, Overlay!TypeOK, Overlay!States, Waiting
<1>2. Overlay!TypeOK'
  BY <1>1 DEF OverlayInv, Overlay!TypeOK
<1>3. ASSUME NEW y \in live'
      PROVE  \/ prep'[y] \in Waiting
             \/ y \in live /\ prep[y] \notin Waiting \cup {"late"}
             \/ y \in live /\ prep'[y] = "late"
  BY <1>1, <1>3 DEF OverlayInv, Overlay!TypeOK, Waiting
<1>4. \A y \in Overlay!Streams : prep'[y] # "new" => heard'[y[1]] > 0
  BY <1>1 DEF OverlayInv
<1>5. shown' # None /\ prep'[Overlay!First(shown')] \in {"listing", "done"} => held' # None
  BY <1>1, CallStreams DEF OverlayInv, Overlay!TypeOK, Waiting
<1>6. \A y \in live' : y = held' \/ prep'[y] \in Waiting
  BY <1>1, <1>3 DEF OverlayInv, Waiting
<1> QED
  BY <1>1, <1>2, <1>3, <1>4, <1>5, <1>6 DEF OverlayInv

\* What the browser has handed over is put in place, or waits, or is stopped.
LEMMA PreparedStep ==
  ASSUME Overlay!OverlayAssumption, OverlayInv, NEW x \in Overlay!Streams,
         prep[x] \in {"asking", "camera"},
         Overlay!Prepared(x), Overlay!Keep, Overlay!Setting
  PROVE  OverlayInv'
<1> USE DEF Waiting
<1>1. CASE shown # x[1]
  BY <1>1, PrepStep DEF Overlay!Prepared
<1>2. CASE shown = x[1] /\ peer = None
  BY <1>2, PlaceStep DEF Overlay!Prepared, Overlay!PutInPlace
<1>3. CASE shown = x[1] /\ peer # None
  BY <1>3, PrepStep DEF Overlay!Prepared, Overlay!PutInPlace
<1> QED
  BY <1>1, <1>2, <1>3

LEMMA StreamStep ==
  ASSUME Overlay!OverlayAssumption, OverlayInv, NEW x \in Overlay!Streams,
         \/ Overlay!Granted(x) \/ Overlay!CameraAnswered(x) \/ Overlay!Replaced(x)
         \/ Overlay!Refused(x) \/ Overlay!ReplaceFails(x) \/ Overlay!Listed(x)
  PROVE  OverlayInv'
<1> USE DEF Overlay!OverlayAssumption, Waiting
<1>1. CASE Overlay!CameraAnswered(x)
  BY <1>1, PreparedStep DEF Overlay!CameraAnswered
<1>2. CASE Overlay!Granted(x)
  <2>1. CASE x[1] \in video
    BY <1>2, <2>1, PrepStep DEF Overlay!Granted
  <2>2. CASE x[1] \notin video
    BY <1>2, <2>2, PreparedStep DEF Overlay!Granted
  <2> QED
    BY <2>1, <2>2
<1>3. CASE Overlay!Replaced(x)
  <2>1. CASE shown = x[1]
    BY <1>3, <2>1, PlaceStep DEF Overlay!Replaced
  <2>2. CASE shown # x[1]
    BY <1>3, <2>2, PlaceStep DEF Overlay!Replaced
  <2> QED
    BY <2>1, <2>2
<1>4. CASE Overlay!Refused(x)
  <2>1. CASE x = Overlay!First(shown) /\ shown \notin incoming
    BY <1>4, <2>1, HungUpStep DEF Overlay!Refused, Overlay!End, OverlayInv,
       Overlay!TypeOK, Overlay!States
  <2>2. CASE ~(x = Overlay!First(shown) /\ shown \notin incoming)
    BY <1>4, <2>2, PrepStep DEF Overlay!Refused
  <2> QED
    BY <2>1, <2>2
<1>5. CASE Overlay!ReplaceFails(x)
  <2>1. CASE x = Overlay!First(shown) /\ shown \notin incoming
    BY <1>5, <2>1, HungUpStep DEF Overlay!ReplaceFails, OverlayInv, Overlay!TypeOK,
       Overlay!States
  <2>2. CASE ~(x = Overlay!First(shown) /\ shown \notin incoming)
    BY <1>5, <2>2, PrepStep DEF Overlay!ReplaceFails
  <2> QED
    BY <2>1, <2>2
<1>6. CASE Overlay!Listed(x)
  BY <1>6, PrepStep DEF Overlay!Listed
<1> QED
  BY <1>1, <1>2, <1>3, <1>4, <1>5, <1>6

LEMMA OverlayStep ==
  ASSUME Overlay!OverlayAssumption, OverlayInv, [Overlay!Next]_Overlay!overlayVars
  PROVE  OverlayInv'
<1> USE DEF Overlay!OverlayAssumption, Overlay!Setting, Waiting
<1>1. ASSUME NEW c \in Calls, Overlay!Dial(c) \/ Overlay!Ring(c)
      PROVE  OverlayInv'
  BY <1>1, ShowStep DEF Overlay!Dial, Overlay!Ring
<1>2. ASSUME NEW c \in Calls, Overlay!switchInput(c)
      PROVE  OverlayInv'
  <2>1. Overlay!Switched(c) \in Overlay!Streams /\ Overlay!Switched(c)[1] = c /\ heard[c] > 0
    BY <1>2, CallStreams DEF Overlay!switchInput, OverlayInv, Overlay!TypeOK
  <2> QED
    BY <1>2, <2>1, PrepStep DEF Overlay!switchInput
<1>3. ASSUME NEW c \in Calls, Overlay!accept(c)
      PROVE  OverlayInv'
  BY <1>3 DEF Overlay!accept, Overlay!Rest, OverlayInv, Overlay!TypeOK
<1>4. ASSUME NEW c \in Calls, Overlay!Negotiate(c)
      PROVE  OverlayInv'
  <2>1. /\ shown = c /\ peer' \in Calls \cup {None} /\ connected' = TRUE
        /\ UNCHANGED << shown, live, held, incoming, video, ready, socket, heard, prep >>
        /\ connected \/ prep[Overlay!First(shown)] = "done"
    BY <1>4 DEF Overlay!Negotiate, Overlay!Rest, OverlayInv, Overlay!TypeOK
  <2> QED
    BY <2>1 DEF OverlayInv, Overlay!TypeOK
<1>5. CASE Overlay!Hangup \/ Overlay!ConnectionFails
  BY <1>5, HungUpStep DEF Overlay!Hangup, Overlay!ConnectionFails, Overlay!End,
     Overlay!Rest, OverlayInv, Overlay!TypeOK
<1>6. ASSUME NEW c \in Calls, Overlay!RemoteEnd(c)
      PROVE  OverlayInv'
  <2>1. CASE heard[c] = socket
    BY <1>6, <2>1, HungUpStep DEF Overlay!RemoteEnd, Overlay!End, Overlay!Rest,
       OverlayInv, Overlay!TypeOK
  <2>2. CASE heard[c] # socket
    <3>1. /\ shown = c /\ c # None /\ heard[c] < socket /\ shown' = None
          /\ UNCHANGED << live, held, peer, connected, incoming, video, ready, socket,
                          heard, prep >>
      BY <1>6, <2>2 DEF Overlay!RemoteEnd, Overlay!Rest, OverlayInv, Overlay!TypeOK
    <3>2. \A x \in live : prep[x] \in Waiting \cup {"late"} \/ heard[x[1]] < socket
      BY <3>1, StreamOf DEF OverlayInv, Overlay!TypeOK
    <3> QED
      BY <3>1, <3>2 DEF OverlayInv, Overlay!TypeOK
  <2> QED
    BY <2>1, <2>2
<1>7. CASE Overlay!NewSocket
  <2>1. \A x \in live : x[1] \in Calls
    BY StreamOf DEF OverlayInv, Overlay!TypeOK
  <2> QED
    BY <1>7, <2>1 DEF Overlay!NewSocket, Overlay!Keep, OverlayInv, Overlay!TypeOK
<1>9. CASE Overlay!Heard
  BY <1>9 DEF Overlay!Heard, Overlay!Rest, OverlayInv, Overlay!TypeOK
<1>8. CASE UNCHANGED Overlay!overlayVars
  BY <1>8 DEF Overlay!overlayVars, OverlayInv, Overlay!TypeOK
<1> QED
  BY <1>1, <1>2, <1>3, <1>4, <1>5, <1>6, <1>7, <1>8, <1>9, StreamStep DEF Overlay!Next

LEMMA OverlaySafe == OverlayInv => Overlay!TypeOK /\ Overlay!MediaFollowsCall
BY DEF OverlayInv, Overlay!TypeOK, Overlay!MediaFollowsCall, Overlay!Unplaced, Waiting

\* Whatever ends a call, and however the prompts, its stream, a switch of device and
\* a renewal of the token cross, no microphone goes on for a call that has gone
\* from the window, but while the prompt for the camera or the replacing of the
\* tracks is waited for, and for the two known reasons (CallOverlay.jsx:101-147, 200-205,
\* 216-225, useRealtime.js:103-111).
THEOREM StreamsFollowCall ==
  ASSUME Overlay!OverlayAssumption
  PROVE  Overlay!Spec => [](Overlay!TypeOK /\ Overlay!MediaFollowsCall)
BY OverlayInit, OverlayStep, OverlaySafe, PTL DEF Overlay!Spec

-----------------------------------------------------------------------------
\* One item of a key at most, and what it says of the send fits how far that is.
ShownOK(k) ==
  /\ \A i, j \in Timeline!Of(k) : i = j
  /\ send[k] # "new" /\ k \notin hidden => Timeline!Of(k) # {}
  /\ \A i \in Timeline!Of(k) :
       /\ ~i.retry => k \in stored
       /\ i.id = "server" => k \in stored
       /\ i.status \in {"sent", "read"} => k \in stored \cup misread
       /\ send[k] = "sent" => i.id = "server"
       /\ send[k] \in {"sent", "failed"} => i.status # "sending"

\* What has been answered, announced or fetched is stored.
TimelineInv ==
  /\ Timeline!TypeOK
  /\ \A k \in Keys : send[k] = "answered" => k \in stored
  /\ events \subseteq stored /\ fetch.has \subseteq stored
  /\ cache # None => \A k \in Keys : ShownOK(k)

LEMMA TimelineInit ==
  ASSUME Timeline!TimelineAssumption, Timeline!Init
  PROVE  TimelineInv
<1>1. Timeline!TypeOK
  BY DEF Timeline!TimelineAssumption, Timeline!Init, Timeline!TypeOK
<1> QED
  BY <1>1 DEF Timeline!Init, TimelineInv

LEMMA ItemTypes ==
  ASSUME NEW k \in Keys
  PROVE  /\ Timeline!Optimistic(k) \in Timeline!Items /\ Timeline!Optimistic(k).key = k
         /\ Timeline!Optimistic(k).retry /\ Timeline!Optimistic(k).id = "client"
         /\ Timeline!Optimistic(k).status = "sending"
         /\ Timeline!Message(k) \in Timeline!Items /\ Timeline!Message(k).key = k
         /\ Timeline!Message(k).id = "server"
         /\ Timeline!Message(k).status = "sent"
BY DEF Timeline!Items, Timeline!Optimistic, Timeline!Message

\* One item takes the place of those with its key: the other keys keep theirs.
LEMMA Replaced ==
  ASSUME cache \subseteq Timeline!Items, NEW k \in Keys, NEW i \in Timeline!Items,
         i.key = k,
         cache' = (cache \ Timeline!Of(k)) \cup {i}
  PROVE  /\ cache' \subseteq Timeline!Items /\ Timeline!Of(k)' = {i}
         /\ \A q \in Keys \ {k} : Timeline!Of(q)' = Timeline!Of(q)
BY DEF Timeline!Of

\* Another status leaves the item what it is.
LEMMA Restated ==
  ASSUME NEW i \in Timeline!Items, NEW status \in {"failed", "read"}
  PROVE  /\ [i EXCEPT !.status = status] \in Timeline!Items
         /\ [i EXCEPT !.status = status].key = i.key
         /\ [i EXCEPT !.status = status].status = status
         /\ [i EXCEPT !.status = status].retry = i.retry
         /\ [i EXCEPT !.status = status].id = i.id
BY DEF Timeline!Items

-----------------------------------------------------------------------------
\* The parts of the invariant, for a step that leaves the items of every key but
\* one, and hides no other.
LEMMA OneKeyStep ==
  ASSUME TimelineInv, NEW k \in Keys,
         cache' = None \/ cache' \subseteq Timeline!Items,
         cache' # None => cache # None,
         NEW state \in {"new", "posting", "answered", "sent", "failed"},
         send' = [send EXCEPT ![k] = state], failures' \in [Keys -> 0..Retries],
         delayed' \in SUBSET Keys, stored' \in SUBSET Keys, stored \subseteq stored',
         state = "answered" => k \in stored',
         events' \subseteq stored', UNCHANGED fetch, hidden' \in SUBSET Keys,
         misread' \in SUBSET Keys, misread \subseteq misread' \cup {k},
         cache' # None => /\ hidden \subseteq hidden' \cup {k}
                          /\ \A q \in Keys \ {k} : Timeline!Of(q)' = Timeline!Of(q)
                          /\ ShownOK(k)'
  PROVE  TimelineInv'
<1>1. Timeline!TypeOK'
  BY DEF TimelineInv, Timeline!TypeOK
<1>2. /\ send'[k] = state /\ \A q \in Keys \ {k} : send'[q] = send[q]
      /\ \A q \in Keys : send'[q] = "answered" => q \in stored'
  BY DEF TimelineInv, Timeline!TypeOK
<1>3. ASSUME cache' # None, NEW q \in Keys
      PROVE  ShownOK(q)'
  <2>1. CASE q = k
    BY <1>3, <2>1
  <2>2. CASE q # k
    <3>1. Timeline!Of(q)' = Timeline!Of(q) /\ send'[q] = send[q] /\ ShownOK(q)
          /\ (q \notin hidden' => q \notin hidden) /\ (q \in stored => q \in stored')
          /\ (q \in misread => q \in misread')
      BY <1>2, <1>3, <2>2 DEF TimelineInv
    <3> QED
      BY <3>1 DEF ShownOK
  <2> QED
    BY <2>1, <2>2
<1> QED
  BY <1>1, <1>2, <1>3 DEF TimelineInv

LEMMA MutateStep ==
  ASSUME Timeline!TimelineAssumption, TimelineInv, NEW k \in Keys, Timeline!Mutate(k)
  PROVE  TimelineInv'
<1>1. /\ send' = [send EXCEPT ![k] = "posting"] /\ send'[k] = "posting"
      /\ failures' \in [Keys -> 0..Retries]
      /\ UNCHANGED << delayed, stored, events, fetch >>
      /\ hidden' \in SUBSET Keys /\ stored \subseteq Keys /\ delayed \subseteq Keys
      /\ events \subseteq stored
      /\ misread' \in SUBSET Keys /\ misread \subseteq misread' \cup {k}
  BY DEF Timeline!TimelineAssumption, Timeline!Mutate, TimelineInv, Timeline!TypeOK
<1>2. CASE cache = None
  BY <1>1, <1>2, OneKeyStep DEF Timeline!Mutate
<1>3. CASE cache # None
  <2>1. /\ cache \subseteq Timeline!Items
        /\ cache' = (cache \ Timeline!Of(k)) \cup {Timeline!Optimistic(k)}
        /\ hidden' = hidden \ {k}
    BY <1>3 DEF Timeline!Mutate, TimelineInv, Timeline!TypeOK
  <2>2. /\ cache' \subseteq Timeline!Items /\ Timeline!Of(k)' = {Timeline!Optimistic(k)}
        /\ \A q \in Keys \ {k} : Timeline!Of(q)' = Timeline!Of(q)
    BY <2>1, ItemTypes, Replaced
  <2>3. ShownOK(k)'
    BY <1>1, <2>2, ItemTypes DEF ShownOK
  <2> QED
    BY <1>1, <1>3, <2>1, <2>2, <2>3, OneKeyStep
<1> QED
  BY <1>2, <1>3

\* The server's message, from the answer or the event.
LEMMA MessageStep ==
  ASSUME TimelineInv, NEW k \in stored,
         NEW state \in {"new", "posting", "answered", "sent", "failed"},
         send' = [send EXCEPT ![k] = state], state = "answered" => send[k] = "answered",
         UNCHANGED << failures, delayed, stored, fetch, misread >>, events' \subseteq events,
         IF cache = None
           THEN UNCHANGED << cache, hidden >>
           ELSE cache' = (cache \ Timeline!Of(k)) \cup {Timeline!Message(k)} /\ hidden' = hidden \ {k}
  PROVE  TimelineInv'
<1>1. /\ k \in Keys /\ send'[k] = state /\ failures' \in [Keys -> 0..Retries]
      /\ delayed' \subseteq Keys /\ stored' \subseteq Keys /\ events' \subseteq stored'
      /\ hidden' \subseteq Keys /\ misread' \subseteq Keys /\ k \in stored'
  BY DEF TimelineInv, Timeline!TypeOK
<1>2. CASE cache = None
  BY <1>1, <1>2, OneKeyStep
<1>3. CASE cache # None
  <2>1. /\ cache \subseteq Timeline!Items
        /\ cache' = (cache \ Timeline!Of(k)) \cup {Timeline!Message(k)}
        /\ hidden' = hidden \ {k}
    BY <1>3 DEF TimelineInv, Timeline!TypeOK
  <2>2. /\ cache' \subseteq Timeline!Items /\ Timeline!Of(k)' = {Timeline!Message(k)}
        /\ \A q \in Keys \ {k} : Timeline!Of(q)' = Timeline!Of(q)
    BY <1>1, <2>1, ItemTypes, Replaced
  <2>3. ShownOK(k)'
    BY <1>1, <2>2, ItemTypes DEF ShownOK
  <2> QED
    BY <1>1, <1>3, <2>1, <2>2, <2>3, OneKeyStep
<1> QED
  BY <1>2, <1>3

LEMMA ErrorStep ==
  ASSUME TimelineInv, NEW k \in Keys, send[k] # "new", Timeline!onError(k),
         delayed' \in SUBSET Keys,
         UNCHANGED << failures, stored, events, fetch, hidden >>
  PROVE  TimelineInv'
<1>1. /\ send' = [send EXCEPT ![k] = "failed"] /\ send'[k] = "failed"
      /\ failures' \in [Keys -> 0..Retries] /\ stored' \subseteq Keys
      /\ events' \subseteq stored' /\ hidden' \subseteq Keys /\ stored \subseteq stored'
      /\ misread' \subseteq Keys /\ misread \subseteq misread' \cup {k}
  BY DEF Timeline!onError, TimelineInv, Timeline!TypeOK
<1>2. CASE cache = None
  BY <1>1, <1>2, OneKeyStep DEF Timeline!onError
<1>3. CASE cache # None
  <2> DEFINE c == {[i EXCEPT !.status = "failed"] : i \in Timeline!Of(k)}
  <2>1. cache \subseteq Timeline!Items /\ cache' = (cache \ Timeline!Of(k)) \cup c
    BY <1>3 DEF Timeline!onError, TimelineInv, Timeline!TypeOK
  <2>2. /\ c \subseteq Timeline!Items /\ \A i \in c : i.key = k
        /\ \A i \in c : i.status = "failed"
             /\ \E j \in Timeline!Of(k) : /\ i.retry = j.retry /\ i.id = j.id
                                          /\ i = [j EXCEPT !.status = "failed"]
        /\ Timeline!Of(k) # {} => c # {}
    <3>1. \A j \in Timeline!Of(k) : j \in Timeline!Items /\ j.key = k
      BY <2>1 DEF Timeline!Of
    <3>2. ASSUME NEW j \in Timeline!Of(k)
          PROVE  /\ [j EXCEPT !.status = "failed"] \in Timeline!Items
                 /\ [j EXCEPT !.status = "failed"].key = k
                 /\ [j EXCEPT !.status = "failed"].status = "failed"
                 /\ [j EXCEPT !.status = "failed"].retry = j.retry
                 /\ [j EXCEPT !.status = "failed"].id = j.id
      BY <3>1, Restated
    <3> QED
      BY <3>2
  <2> HIDE DEF c
  <2>3. /\ cache' \subseteq Timeline!Items /\ Timeline!Of(k)' = c
        /\ \A q \in Keys \ {k} : Timeline!Of(q)' = Timeline!Of(q)
    BY <2>1, <2>2 DEF Timeline!Of
  <2>4. ShownOK(k)
    BY <1>3 DEF TimelineInv
  <2>5. ShownOK(k)'
    <3>1. \A i, j \in c : i = j
      BY <2>2, <2>4 DEF ShownOK
    <3> QED
      BY <1>1, <2>2, <2>3, <2>4, <3>1 DEF ShownOK
  <2> QED
    BY <1>1, <1>3, <2>1, <2>3, <2>5, OneKeyStep
<1> QED
  BY <1>2, <1>3

LEMMA KeyStep ==
  ASSUME Timeline!TimelineAssumption, TimelineInv, NEW k \in Keys,
         \/ Timeline!queueMessage(k) \/ Timeline!retryMessage(k) \/ Timeline!Store(k)
         \/ Timeline!StoreLate(k)
         \/ Timeline!onSuccess(k) \/ Timeline!NoAnswer(k) \/ Timeline!Refused(k)
         \/ Timeline!Arrive(k) \/ Timeline!Lose(k)
  PROVE  TimelineInv'
<1> USE DEF Timeline!TimelineAssumption
<1>1. CASE Timeline!queueMessage(k) \/ Timeline!retryMessage(k)
  BY <1>1, MutateStep DEF Timeline!queueMessage, Timeline!retryMessage
<1>2. CASE Timeline!Store(k) \/ Timeline!StoreLate(k)
  <2>1. PICK state \in {"new", "posting", "answered", "sent", "failed"} :
          /\ send' = [send EXCEPT ![k] = state]
          /\ state = send[k] \/ (send[k] = "posting" /\ state = "answered")
    BY <1>2 DEF Timeline!Store, Timeline!StoreLate, TimelineInv, Timeline!TypeOK
  <2>2. /\ stored' = stored \cup {k} /\ events' = events \cup {k}
        /\ UNCHANGED << cache, failures, fetch, hidden, misread >> /\ delayed' \subseteq delayed
    BY <1>2 DEF Timeline!Store, Timeline!StoreLate, Timeline!Stored
  <2>3. send'[k] = state /\ (cache' # None => ShownOK(k)')
    BY <2>1, <2>2 DEF TimelineInv, Timeline!TypeOK, ShownOK, Timeline!Of
  <2> QED
    BY <2>1, <2>2, <2>3, OneKeyStep DEF TimelineInv, Timeline!TypeOK, Timeline!Of
<1>3. CASE Timeline!onSuccess(k)
  BY <1>3, MessageStep DEF Timeline!onSuccess, TimelineInv
<1>4. CASE Timeline!NoAnswer(k)
  <2>1. CASE failures[k] < Retries
    <3>1. /\ send' = [send EXCEPT ![k] = "posting"] /\ failures' = [failures EXCEPT ![k] = @ + 1]
          /\ UNCHANGED << cache, stored, events, fetch, hidden, misread >>
          /\ delayed' \subseteq delayed \cup {k} /\ send[k] \in {"posting", "answered"}
      BY <1>4, <2>1 DEF Timeline!NoAnswer
    <3>2. send'[k] = "posting" /\ failures' \in [Keys -> 0..Retries]
          /\ (cache' # None => ShownOK(k)')
      BY <2>1, <3>1 DEF TimelineInv, Timeline!TypeOK, ShownOK, Timeline!Of
    <3> QED
      BY <3>1, <3>2, OneKeyStep DEF TimelineInv, Timeline!TypeOK, Timeline!Of
  <2>2. CASE ~(failures[k] < Retries)
    BY <1>4, <2>2, ErrorStep DEF Timeline!NoAnswer, TimelineInv, Timeline!TypeOK
  <2> QED
    BY <2>1, <2>2
<1>5. CASE Timeline!Refused(k)
  BY <1>5, ErrorStep DEF Timeline!Refused, TimelineInv, Timeline!TypeOK
<1>6. CASE Timeline!Arrive(k)
  <2>1. k \in stored /\ send[k] \in {"new", "posting", "answered", "sent", "failed"}
        /\ send' = [send EXCEPT ![k] = send[k]]
    BY <1>6 DEF Timeline!Arrive, TimelineInv, Timeline!TypeOK
  <2> QED
    BY <1>6, <2>1, MessageStep DEF Timeline!Arrive, Timeline!updateTimeline
<1>7. CASE Timeline!Lose(k)
  BY <1>7 DEF Timeline!Lose, TimelineInv, Timeline!TypeOK, ShownOK, Timeline!Of
<1> QED
  BY <1>1, <1>2, <1>3, <1>4, <1>5, <1>6, <1>7

LEMMA SeenStep ==
  ASSUME TimelineInv, Timeline!seenTimeline
  PROVE  TimelineInv'
<1>1. /\ cache \subseteq Timeline!Items /\ cache' = {[i EXCEPT !.status = "read"] : i \in cache}
      /\ UNCHANGED << send, failures, delayed, stored, events, fetch, hidden >>
      /\ misread' = misread \cup {i.key : i \in {j \in cache : j.id = "client"}}
      /\ \A k \in Keys : ShownOK(k)
  BY DEF Timeline!seenTimeline, TimelineInv, Timeline!TypeOK
<1>2. ASSUME NEW i \in cache
      PROVE  /\ [i EXCEPT !.status = "read"] \in Timeline!Items
             /\ [i EXCEPT !.status = "read"].key = i.key
             /\ [i EXCEPT !.status = "read"].status = "read"
             /\ [i EXCEPT !.status = "read"].retry = i.retry
             /\ [i EXCEPT !.status = "read"].id = i.id
  BY <1>1, Restated
<1>3. Timeline!TypeOK'
  <2>1. \A i \in cache : i.key \in Keys
    BY <1>1 DEF Timeline!Items
  <2>2. misread' \subseteq Keys
    BY <1>1, <2>1 DEF TimelineInv, Timeline!TypeOK
  <2>3. cache' \subseteq Timeline!Items
    BY <1>1, <1>2
  <2> QED
    BY <1>1, <2>2, <2>3 DEF TimelineInv, Timeline!TypeOK
<1>4. ASSUME NEW k \in Keys
      PROVE  ShownOK(k)'
  <2>1. \A i \in Timeline!Of(k)' : \E j \in Timeline!Of(k) :
          /\ i = [j EXCEPT !.status = "read"] /\ i.status = "read"
          /\ i.retry = j.retry /\ i.id = j.id
    <3> SUFFICES ASSUME NEW i \in cache', i.key = k
                 PROVE  \E j \in Timeline!Of(k) :
                          /\ i = [j EXCEPT !.status = "read"] /\ i.status = "read"
                          /\ i.retry = j.retry /\ i.id = j.id
      BY DEF Timeline!Of
    <3>1. PICK j \in cache : i = [j EXCEPT !.status = "read"]
      BY <1>1
    <3> QED
      BY <1>2, <3>1 DEF Timeline!Of
  <2>2. Timeline!Of(k) # {} => Timeline!Of(k)' # {}
    BY <1>1, <1>2 DEF Timeline!Of
  <2>3. ShownOK(k)
    BY <1>1
  <2>4. \A i, j \in Timeline!Of(k)' : i = j
    BY <2>1, <2>3 DEF ShownOK
  <2>5. \A j \in Timeline!Of(k) : k \in stored \cup misread'
    <3> SUFFICES ASSUME NEW j \in Timeline!Of(k)
                 PROVE  k \in stored \cup misread'
      OBVIOUS
    <3>1. j \in cache /\ j.key = k /\ j.id \in {"client", "server"}
      BY <1>1 DEF Timeline!Of, Timeline!Items
    <3> QED
      BY <1>1, <2>3, <3>1 DEF ShownOK
  <2> QED
    BY <1>1, <2>1, <2>2, <2>3, <2>4, <2>5 DEF ShownOK
<1> QED
  BY <1>1, <1>3, <1>4 DEF TimelineInv

LEMMA FetchedStep ==
  ASSUME TimelineInv, Timeline!Fetched
  PROVE  TimelineInv'
<1>1. /\ cache' = {Timeline!Message(k) : k \in fetch.has} /\ fetch.has \subseteq stored
      /\ hidden' = {k \in Keys \ fetch.has : send[k] # "new"}
      /\ fetch' = [pc |-> "idle", has |-> {}]
      /\ UNCHANGED << send, failures, delayed, stored, events, misread >>
      /\ stored \subseteq Keys
  BY DEF Timeline!Fetched, TimelineInv, Timeline!TypeOK
<1>2. Timeline!TypeOK'
  BY <1>1, ItemTypes DEF TimelineInv, Timeline!TypeOK
<1>3. ASSUME NEW k \in Keys
      PROVE  Timeline!Of(k)' = IF k \in fetch.has THEN {Timeline!Message(k)} ELSE {}
  BY <1>1, ItemTypes DEF Timeline!Of
<1>4. \A k \in Keys : ShownOK(k)'
  BY <1>1, <1>3, ItemTypes DEF ShownOK
<1> QED
  BY <1>1, <1>2, <1>4 DEF TimelineInv

LEMMA TimelineStep ==
  ASSUME Timeline!TimelineAssumption, TimelineInv, [Timeline!Next]_Timeline!timelineVars
  PROVE  TimelineInv'
<1>1. ASSUME NEW k \in Keys,
             \/ Timeline!queueMessage(k) \/ Timeline!retryMessage(k) \/ Timeline!Store(k)
             \/ Timeline!StoreLate(k)
             \/ Timeline!onSuccess(k) \/ Timeline!NoAnswer(k) \/ Timeline!Refused(k)
             \/ Timeline!Arrive(k) \/ Timeline!Lose(k)
      PROVE  TimelineInv'
  BY <1>1, KeyStep
<1>2. CASE Timeline!seenTimeline
  BY <1>2, SeenStep
<1>3. CASE Timeline!Refetch \/ Timeline!getMessages
  <2>1. /\ UNCHANGED << cache, send, failures, delayed, stored, events, hidden, misread >>
        /\ fetch' \in [pc : {"idle", "asked", "answered"}, has : SUBSET Keys]
        /\ fetch'.has \subseteq stored
    BY <1>3 DEF Timeline!Refetch, Timeline!getMessages, TimelineInv, Timeline!TypeOK
  <2> QED
    BY <2>1 DEF TimelineInv, Timeline!TypeOK, ShownOK, Timeline!Of
<1>4. CASE Timeline!Fetched
  BY <1>4, FetchedStep
<1>5. CASE UNCHANGED Timeline!timelineVars
  BY <1>5 DEF Timeline!timelineVars, TimelineInv, Timeline!TypeOK, ShownOK, Timeline!Of
<1> QED
  BY <1>1, <1>2, <1>3, <1>4, <1>5, Zenon DEF Timeline!Next

\* ClientTimeline counts with an instance of its own.
LEMMA TimelineCounts == \A s : Timeline!Cardinality(s) = Cardinality(s)
BY Zenon DEF Timeline!Cardinality, Cardinality

LEMMA TimelineSafe == TimelineInv => Timeline!TypeOK /\ Timeline!SendIsShown
<1> SUFFICES ASSUME TimelineInv, cache # None, NEW k \in Keys
             PROVE  /\ Timeline!Cardinality(Timeline!Of(k)) <= 1
                    /\ send[k] # "new" /\ k \notin hidden => Timeline!Of(k) # {}
                    /\ \A i \in Timeline!Of(k) :
                         /\ send[k] = "sent" => i.id = "server"
                         /\ send[k] \in {"sent", "failed"} => i.status # "sending"
                         /\ i.status = "failed" => i.retry \/ k \in stored
                         /\ i.status \in {"sent", "read"} => k \in stored \cup misread
  BY DEF TimelineInv, Timeline!SendIsShown
<1>1. ShownOK(k)
  BY DEF TimelineInv
<1>2. Timeline!Cardinality(Timeline!Of(k)) <= 1
  <2>1. CASE Timeline!Of(k) = {}
    BY <2>1, FS_EmptySet, TimelineCounts
  <2>2. CASE Timeline!Of(k) # {}
    <3>1. PICK i \in Timeline!Of(k) : TRUE
      BY <2>2
    <3>2. Timeline!Of(k) = {i}
      BY <1>1, <3>1 DEF ShownOK
    <3>3. Cardinality({i}) = 1
      BY FS_Singleton
    <3> QED
      BY <3>2, <3>3, TimelineCounts
  <2> QED
    BY <2>1, <2>2
<1> QED
  BY <1>1, <1>2 DEF ShownOK

\* In whatever order the answer, the event, the receipt and a refetch arrive, a
\* message is shown once, and as sent or read only when it has been stored; but an
\* item that a receipt for earlier messages turns into a read one is shown as such
\* whatever became of its send (ChatPanel.jsx:54-92, useRealtime.js:25-46).
THEOREM MessagesAreShown ==
  ASSUME Timeline!TimelineAssumption
  PROVE  Timeline!Spec => [](Timeline!TypeOK /\ Timeline!SendIsShown)
BY TimelineInit, TimelineStep, TimelineSafe, PTL DEF Timeline!Spec

-----------------------------------------------------------------------------
\* A send goes to its own conversation, or once it has been tried again to one that
\* was opened meanwhile; what it sends has left the draft for good, and while its
\* composer is there what else is in the draft was added during a send.
Meant(x) ==
  /\ x.to = x.for \/ x.to \in x.opened
  /\ \A c \in x.stored \cup {x.at} : c = x.for \/ (x.again /\ c \in x.opened)

SendsOK ==
  \A s \in Sends :
    /\ Meant(sending[s])
    /\ \A p \in sending[s].pieces : piece[p] \in {"draft", "gone", "lost"}
    /\ sending[s] # Writing!NoSend =>
         /\ sending[s].pieces # {}
         /\ sending[s].pieces \subseteq here =>
              sending[s].follows /\ Writing!Draft \subseteq sending[s].pieces \cup beside

\* A recording that runs is the one the stop button is for, unless it waited for
\* the microphone together with another.
RecordingsOK ==
  /\ \A f \in taping : piece[f] \in {"recording", "stopped"}
  /\ \A f \in taping : f = recorder \/ piece[f] = "stopped" \/ f \notin here \/ f \in twice
  /\ recorder # None => piece[recorder] = "recording"
  /\ \A f \in Files \cap here : piece[f] = "asked" =>
       /\ recorder # None => recorder \in twice
       /\ \A g \in Files \cap here : piece[g] = "asked" /\ f # g => f \in twice

ComposerInv ==
  /\ Writing!TypeOK
  /\ SendsOK
  /\ \A p \in Writing!Pieces : piece[p] = "lost" => p \in beside
  /\ RecordingsOK

SendRecords ==
  [pieces : SUBSET Writing!Pieces, for : Chats \cup {None}, at : Chats \cup {None},
   to : Chats \cup {None}, stored : SUBSET Chats, follows : BOOLEAN,
   again : BOOLEAN, opened : SUBSET (Chats \cup {None})]

LEMMA NoSendType ==
  /\ Writing!NoSend \in SendRecords /\ Meant(Writing!NoSend) /\ ~Writing!NoSend.follows
  /\ Writing!NoSend.stored = {} /\ Writing!NoSend.pieces = {}
BY DEF Writing!NoSend, SendRecords, Meant

LEMMA NotFollowing ==
  ASSUME NEW r \in SendRecords, ~r.follows
  PROVE  [r EXCEPT !.follows = FALSE] = r
BY DEF SendRecords

LEMMA ComposerInit ==
  ASSUME Writing!ComposerAssumption, Writing!Init
  PROVE  ComposerInv
<1>1. Writing!TypeOK
  BY NoSendType DEF Writing!Init, Writing!TypeOK, Writing!States, SendRecords
<1>2. SendsOK
  BY NoSendType DEF Writing!Init, SendsOK
<1>3. RecordingsOK
  BY DEF Writing!Init, RecordingsOK
<1> QED
  BY <1>1, <1>2, <1>3 DEF Writing!Init, ComposerInv

-----------------------------------------------------------------------------
\* A piece that was not in the draft joins it, with the mark of a send under way.
LEMMA SendsKeptJoining ==
  ASSUME ComposerInv, NEW q \in Writing!Pieces, piece[q] \in {"new", "uploading"},
         piece' \in [Writing!Pieces -> Writing!States], here' \in SUBSET Writing!Pieces,
         UNCHANGED sending, here' \subseteq here \cup {q}, beside \subseteq beside',
         \A p \in Writing!Pieces : p # q => piece'[p] = piece[p]
                                            \/ (piece[p] = "draft" /\ piece'[p] = "gone"),
         piece'[q] = "draft" /\ Writing!sending => q \in beside'
  PROVE  SendsOK'
<1> SUFFICES ASSUME NEW s \in Sends
             PROVE  /\ Meant(sending[s])
                    /\ \A p \in sending[s].pieces : piece'[p] \in {"draft", "gone", "lost"}
                    /\ sending[s] # Writing!NoSend =>
                         /\ sending[s].pieces # {}
                         /\ sending[s].pieces \subseteq here' =>
                              sending[s].follows /\ Writing!Draft' \subseteq sending[s].pieces \cup beside'
  BY Zenon DEF SendsOK
<1>1. sending[s].pieces \subseteq Writing!Pieces /\ q \notin sending[s].pieces
  BY DEF ComposerInv, Writing!TypeOK, SendsOK
<1>2. \A p \in sending[s].pieces : piece'[p] \in {"draft", "gone", "lost"}
  BY <1>1 DEF ComposerInv, SendsOK
<1>3. ASSUME sending[s] # Writing!NoSend, sending[s].pieces \subseteq here'
      PROVE  sending[s].follows /\ Writing!Draft' \subseteq sending[s].pieces \cup beside'
  <2>1. sending[s].follows /\ Writing!Draft \subseteq sending[s].pieces \cup beside
    BY <1>1, <1>3 DEF ComposerInv, SendsOK
  <2>2. Writing!Draft' \subseteq Writing!Draft \cup {q}
    BY DEF Writing!Draft
  <2> QED
    BY <2>1, <2>2 DEF Writing!sending, Writing!Draft
<1> QED
  BY <1>2, <1>3 DEF ComposerInv, SendsOK

LEMMA AddStep ==
  ASSUME Writing!ComposerAssumption, ComposerInv, NEW q \in Writing!Pieces,
         piece[q] \in {"new", "uploading"},
         UNCHANGED << facing, recorder, taping, sending >>,
         piece' \in [Writing!Pieces -> Writing!States], here' \in {here, here \cup {q}},
         \A p \in Writing!Pieces : p # q => piece'[p] = piece[p]
                                            \/ (piece[p] = "draft" /\ piece'[p] = "gone"),
         piece'[q] # "lost", beside' \in {beside, beside \cup {q}},
         piece'[q] = "draft" /\ Writing!sending => q \in beside',
         \/ piece'[q] # "asked" /\ twice' = twice
         \/ /\ piece'[q] = "asked" /\ q \in Files /\ recorder = None
            /\ LET waiting == {g \in Files \cap here : piece[g] = "asked"} IN
               twice' = IF waiting = {} THEN twice ELSE twice \cup waiting \cup {q}
  PROVE  ComposerInv'
<1>1. Writing!TypeOK'
  BY DEF ComposerInv, Writing!TypeOK, Writing!Pieces
<1>2. SendsOK'
  <2>1. /\ here' \in SUBSET Writing!Pieces /\ here' \subseteq here \cup {q}
        /\ beside \subseteq beside' /\ UNCHANGED sending
    BY <1>1 DEF Writing!TypeOK
  <2> QED
    BY <2>1, SendsKeptJoining
<1>3. \A p \in Writing!Pieces : piece'[p] = "lost" => p \in beside'
  BY DEF ComposerInv
<1>4. \A f \in taping : f \in Files /\ f # q /\ piece'[f] = piece[f]
  BY DEF ComposerInv, RecordingsOK, Writing!TypeOK, Writing!Pieces
<1>5. recorder # None => recorder \in Files /\ recorder # q /\ piece'[recorder] = piece[recorder]
  BY DEF ComposerInv, RecordingsOK, Writing!TypeOK, Writing!Pieces
<1>6. twice \subseteq twice'
  OBVIOUS
<1>7. ASSUME NEW f \in Files \cap here', piece'[f] = "asked"
      PROVE  /\ recorder # None => recorder \in twice'
             /\ \A g \in Files \cap here' : piece'[g] = "asked" /\ f # g => f \in twice'
  <2>1. \A g \in Files \cap here' : piece'[g] = "asked" /\ g # q => g \in here /\ piece[g] = "asked"
    BY DEF Writing!Pieces
  <2> QED
    BY <1>6, <1>7, <2>1 DEF ComposerInv, RecordingsOK
<1>8. RecordingsOK'
  BY <1>4, <1>5, <1>6, <1>7 DEF ComposerInv, RecordingsOK, Writing!TypeOK
<1> QED
  BY <1>1, <1>2, <1>3, <1>8 DEF ComposerInv

\* The pieces being recorded change; the draft does not.
LEMMA SendsKeptRecording ==
  ASSUME ComposerInv, NEW q \in Writing!Pieces,
         piece[q] \in {"asked", "recording", "stopped"},
         NEW state \in Writing!States \ {"draft"}, Writing!Become(q, state),
         UNCHANGED << here, sending, beside >>
  PROVE  SendsOK'
<1>1. /\ piece'[q] = state /\ \A p \in Writing!Pieces : p # q => piece'[p] = piece[p]
      /\ Writing!Draft' = Writing!Draft
  BY DEF Writing!Become, Writing!Draft, ComposerInv, Writing!TypeOK
<1>2. \A s \in Sends : sending[s].pieces \subseteq Writing!Pieces /\ q \notin sending[s].pieces
  BY DEF ComposerInv, Writing!TypeOK, SendsOK
<1> QED
  BY <1>1, <1>2 DEF ComposerInv, SendsOK, Writing!NoSend

LEMMA RecordStep ==
  ASSUME Writing!ComposerAssumption, ComposerInv, NEW f \in Files,
         Writing!Granted(f) \/ Writing!Denied(f) \/ Writing!Stopped(f) \/ Writing!stopRecording
  PROVE  ComposerInv'
<1> USE DEF Writing!ComposerAssumption
<1>1. piece \in [Writing!Pieces -> Writing!States] /\ f \in Writing!Pieces /\ taping \subseteq Files
      /\ Files \subseteq Writing!Pieces /\ recorder \in Files \cup {None}
  BY DEF ComposerInv, Writing!TypeOK, Writing!Pieces
<1>2. CASE Writing!Granted(f)
  <2>1. /\ piece'[f] = "recording" /\ \A p \in Writing!Pieces : p # f => piece'[p] = piece[p]
        /\ piece[f] = "asked" /\ f # recorder /\ f \notin taping
    BY <1>1, <1>2 DEF Writing!Granted, Writing!Become, ComposerInv, RecordingsOK
  <2>2. SendsOK'
    BY <1>1, <1>2, SendsKeptRecording DEF Writing!Granted, Writing!States
  <2>3. Writing!TypeOK'
    BY <1>1, <1>2 DEF Writing!Granted, Writing!Become, Writing!States, ComposerInv,
       Writing!TypeOK
  <2>4. RecordingsOK'
    BY <1>1, <1>2, <2>1 DEF Writing!Granted, ComposerInv, RecordingsOK
  <2> QED
    BY <1>1, <1>2, <2>1, <2>2, <2>3, <2>4 DEF Writing!Granted, ComposerInv
<1>3. CASE Writing!Denied(f)
  <2>1. /\ piece'[f] = "gone" /\ \A p \in Writing!Pieces : p # f => piece'[p] = piece[p]
        /\ piece[f] = "asked" /\ f # recorder /\ f \notin taping
    BY <1>1, <1>3 DEF Writing!Denied, Writing!Become, ComposerInv, RecordingsOK
  <2>2. SendsOK'
    BY <1>1, <1>3, SendsKeptRecording DEF Writing!Denied, Writing!States
  <2>3. Writing!TypeOK'
    BY <1>1, <1>3 DEF Writing!Denied, Writing!Become, Writing!States, ComposerInv,
       Writing!TypeOK
  <2>4. RecordingsOK'
    BY <1>1, <1>3, <2>1 DEF Writing!Denied, ComposerInv, RecordingsOK
  <2> QED
    BY <1>1, <1>3, <2>1, <2>2, <2>3, <2>4 DEF Writing!Denied, ComposerInv
<1>4. CASE Writing!Stopped(f)
  <2>1. /\ piece'[f] = "uploading" /\ \A p \in Writing!Pieces : p # f => piece'[p] = piece[p]
        /\ piece[f] = "stopped" /\ f # recorder
    BY <1>1, <1>4 DEF Writing!Stopped, Writing!Become, ComposerInv, RecordingsOK
  <2>2. SendsOK'
    BY <1>1, <1>4, SendsKeptRecording DEF Writing!Stopped, Writing!States
  <2>3. Writing!TypeOK'
    BY <1>1, <1>4 DEF Writing!Stopped, Writing!Become, Writing!States, ComposerInv,
       Writing!TypeOK
  <2>4. RecordingsOK'
    BY <1>1, <1>4, <2>1 DEF Writing!Stopped, ComposerInv, RecordingsOK
  <2> QED
    BY <1>1, <1>4, <2>1, <2>2, <2>3, <2>4 DEF Writing!Stopped, ComposerInv
<1>5. CASE Writing!stopRecording
  <2>1. /\ recorder \in Files /\ recorder' = None
        /\ piece'[recorder] = "stopped"
        /\ \A p \in Writing!Pieces : p # recorder => piece'[p] = piece[p]
        /\ piece[recorder] = "recording"
    BY <1>1, <1>5 DEF Writing!stopRecording, Writing!Become, ComposerInv, RecordingsOK
  <2>2. SendsOK'
    BY <1>1, <1>5, <2>1, SendsKeptRecording DEF Writing!stopRecording, Writing!States
  <2>3. Writing!TypeOK'
    BY <1>1, <1>5, <2>1 DEF Writing!stopRecording, Writing!Become, Writing!States,
       ComposerInv, Writing!TypeOK
  <2>4. RecordingsOK'
    BY <1>1, <1>5, <2>1 DEF Writing!stopRecording, ComposerInv, RecordingsOK
  <2> QED
    BY <1>1, <1>5, <2>1, <2>2, <2>3, <2>4 DEF Writing!stopRecording, ComposerInv
<1> QED
  BY <1>2, <1>3, <1>4, <1>5

-----------------------------------------------------------------------------
\* The sends change and what is recorded does not.
LEMMA RecordingsKept ==
  ASSUME ComposerInv, UNCHANGED << recorder, taping, twice >>, here' \subseteq here,
         \A p \in Writing!Pieces : piece'[p] = piece[p]
                                   \/ (piece[p] \in {"draft", "gone", "lost"}
                                         /\ piece'[p] \in {"gone", "lost"})
  PROVE  RecordingsOK'
<1>1. taping \subseteq Files /\ Files \subseteq Writing!Pieces /\ recorder \in Files \cup {None}
  BY DEF ComposerInv, Writing!TypeOK, Writing!Pieces
<1>2. /\ \A f \in taping : piece'[f] = piece[f]
      /\ recorder # None => piece'[recorder] = piece[recorder]
      /\ \A f \in Files : piece'[f] = "asked" => piece[f] = "asked"
  BY <1>1 DEF ComposerInv, RecordingsOK
<1> QED
  BY <1>1, <1>2 DEF ComposerInv, RecordingsOK

LEMMA SendStep ==
  ASSUME Writing!ComposerAssumption, ComposerInv, NEW s \in Sends,
         Writing!submit(s) \/ Writing!Deliver(s) \/ Writing!Retry(s)
  PROVE  ComposerInv'
<1>1. UNCHANGED << facing, piece, here, recorder, taping, beside, twice >>
  BY DEF Writing!submit, Writing!Deliver, Writing!Retry
<1>2. /\ Writing!Draft' = Writing!Draft /\ Writing!Draft \subseteq Writing!Pieces
      /\ sending \in [Sends -> SendRecords]
  BY <1>1 DEF Writing!Draft, ComposerInv, Writing!TypeOK, SendRecords
<1>3. PICK x \in SendRecords :
        /\ sending' = [sending EXCEPT ![s] = x]
        /\ Meant(x)
        /\ \A p \in x.pieces : piece[p] \in {"draft", "gone", "lost"}
        /\ x.pieces # {}
        /\ x.pieces \subseteq here => x.follows /\ Writing!Draft \subseteq x.pieces \cup beside
  <2>1. CASE Writing!submit(s)
    <3> DEFINE x == [Writing!NoSend EXCEPT !.pieces = Writing!Draft, !.for = facing, !.at = facing,
                                           !.to = facing, !.follows = TRUE]
    <3>1. sending' = [sending EXCEPT ![s] = x] /\ Writing!Draft # {}
      BY <2>1 DEF Writing!submit, Writing!Post
    <3>2. facing \in Chats \cup {None}
      BY DEF ComposerInv, Writing!TypeOK
    <3>3. /\ x \in SendRecords /\ x.follows
          /\ x.pieces = Writing!Draft /\ x.for = facing /\ x.at = facing /\ x.to = facing
          /\ x.stored = {}
      BY <1>2, <3>2, NoSendType DEF SendRecords
    <3> HIDE DEF x
    <3>4. Meant(x)
      BY <3>3 DEF Meant
    <3> QED
      BY <1>2, <3>1, <3>3, <3>4 DEF Writing!Draft
  <2>2. CASE Writing!Deliver(s)
    <3> DEFINE x == [sending[s] EXCEPT !.stored = @ \cup {sending[s].at}]
    <3>1. sending[s] \in SendRecords /\ sending[s] # Writing!NoSend /\ sending[s].at \in Chats
      BY <1>2, <2>2 DEF Writing!Deliver, SendRecords
    <3>2. /\ x \in SendRecords /\ x.stored = sending[s].stored \cup {sending[s].at}
          /\ x.at = sending[s].at /\ x.to = sending[s].to /\ x.for = sending[s].for
          /\ x.pieces = sending[s].pieces /\ x.follows = sending[s].follows
          /\ x.again = sending[s].again /\ x.opened = sending[s].opened
      BY <3>1 DEF SendRecords
    <3>3. sending' = [sending EXCEPT ![s] = x]
      BY <1>2, <2>2 DEF Writing!Deliver
    <3> HIDE DEF x
    <3>4. Meant(x)
      BY <3>2 DEF ComposerInv, SendsOK, Meant
    <3> QED
      BY <3>1, <3>2, <3>3, <3>4 DEF ComposerInv, SendsOK
  <2>3. CASE Writing!Retry(s)
    <3> DEFINE x == [sending[s] EXCEPT !.at = sending[s].to, !.again = TRUE]
    <3>1. sending[s] \in SendRecords /\ sending[s] # Writing!NoSend
      BY <1>2, <2>3 DEF Writing!Retry
    <3>2. /\ x \in SendRecords /\ x.stored = sending[s].stored
          /\ x.at = sending[s].to /\ x.to = sending[s].to /\ x.for = sending[s].for
          /\ x.pieces = sending[s].pieces /\ x.follows = sending[s].follows
          /\ x.again /\ x.at = sending[s].to /\ x.opened = sending[s].opened
      BY <3>1 DEF SendRecords
    <3>3. sending' = [sending EXCEPT ![s] = x]
      BY <1>2, <2>3 DEF Writing!Retry
    <3> HIDE DEF x
    <3>4. Meant(x)
      BY <3>2 DEF ComposerInv, SendsOK, Meant
    <3> QED
      BY <3>1, <3>2, <3>3, <3>4 DEF ComposerInv, SendsOK
  <2> QED
    BY <2>1, <2>2, <2>3
<1>4. /\ sending' \in [Sends -> SendRecords] /\ sending'[s] = x
      /\ \A r \in Sends \ {s} : sending'[r] = sending[r]
  BY <1>2, <1>3
<1>5. Writing!TypeOK'
  BY <1>1, <1>4 DEF ComposerInv, Writing!TypeOK, SendRecords
<1>6. SendsOK'
  BY <1>1, <1>2, <1>3, <1>4 DEF ComposerInv, SendsOK, Writing!NoSend
<1>7. RecordingsOK'
  BY <1>1, RecordingsKept
<1> QED
  BY <1>1, <1>5, <1>6, <1>7 DEF ComposerInv

LEMMA FinishStep ==
  ASSUME Writing!ComposerAssumption, ComposerInv, NEW s \in Sends, Writing!Finish(s)
  PROVE  ComposerInv'
<1>1. /\ sending[s] # Writing!NoSend /\ sending' = [sending EXCEPT ![s] = Writing!NoSend]
      /\ UNCHANGED << facing, here, recorder, taping, beside, twice >>
      /\ sending \in [Sends -> SendRecords] /\ piece \in [Writing!Pieces -> Writing!States]
      /\ sending'[s] = Writing!NoSend /\ \A r \in Sends \ {s} : sending'[r] = sending[r]
  BY DEF Writing!Finish, ComposerInv, Writing!TypeOK, SendRecords
<1>2. /\ piece' \in [Writing!Pieces -> Writing!States]
      /\ \A p \in Writing!Pieces : \/ piece'[p] = piece[p]
                                   \/ p \in sending[s].pieces /\ piece'[p] = "gone"
                                   \/ /\ sending[s].pieces \subseteq here /\ p \in Writing!Draft
                                      /\ p \notin sending[s].pieces /\ piece'[p] = "lost"
  BY <1>1 DEF Writing!Finish, Writing!States
<1>3. \A p \in Writing!Pieces : piece'[p] = piece[p]
                                \/ (piece[p] \in {"draft", "gone", "lost"}
                                      /\ piece'[p] \in {"gone", "lost"})
  BY <1>1, <1>2 DEF Writing!Draft, ComposerInv, SendsOK
<1>4. Writing!TypeOK'
  BY <1>1, <1>2, NoSendType DEF ComposerInv, Writing!TypeOK, SendRecords
<1>5. Writing!Draft' \subseteq Writing!Draft
  BY <1>3 DEF Writing!Draft
<1>6. SendsOK'
  <2> SUFFICES ASSUME NEW r \in Sends
               PROVE  /\ Meant(sending'[r])
                      /\ \A p \in sending'[r].pieces : piece'[p] \in {"draft", "gone", "lost"}
                      /\ sending'[r] # Writing!NoSend =>
                           /\ sending'[r].pieces # {}
                           /\ sending'[r].pieces \subseteq here' =>
                                /\ sending'[r].follows
                                /\ Writing!Draft' \subseteq sending'[r].pieces \cup beside'
    BY Zenon DEF SendsOK, Writing!NoSend
  <2>1. CASE r = s
    BY <1>1, <2>1, NoSendType
  <2>2. CASE r # s
    <3>1. sending'[r] = sending[r] /\ sending[r].pieces \subseteq Writing!Pieces
      BY <1>1, <2>2 DEF SendRecords
    <3> QED
      BY <1>1, <1>3, <1>5, <3>1 DEF ComposerInv, SendsOK
  <2> QED
    BY <2>1, <2>2
<1>7. \A p \in Writing!Pieces : piece'[p] = "lost" => p \in beside'
  BY <1>1, <1>2 DEF ComposerInv, SendsOK
<1>8. RecordingsOK'
  BY <1>1, <1>3, RecordingsKept
<1> QED
  BY <1>4, <1>6, <1>7, <1>8 DEF ComposerInv

\* Another conversation is shown, or none: the sends under way follow.
LEMMA MoveStep ==
  ASSUME Writing!ComposerAssumption, ComposerInv,
         (\E c \in Chats : Writing!Switch(c) \/ Writing!Enter(c)) \/ Writing!Back \/ Writing!Leave
  PROVE  ComposerInv'
<1>1. sending \in [Sends -> SendRecords] /\ piece \in [Writing!Pieces -> Writing!States]
  BY DEF ComposerInv, Writing!TypeOK, SendRecords
<1>2. /\ facing' \in Chats \cup {None}
      /\ \/ UNCHANGED << piece, here, recorder, taping, beside, twice >>
         \/ Writing!Unmount
  BY DEF Writing!Switch, Writing!Enter, Writing!Back, Writing!Leave, Writing!Unmount
<1>3. \/ \E c \in Chats \cup {None} : Writing!Rebind(c)
      \/ /\ Writing!Unmount
         /\ sending' = [s \in Sends |-> [sending[s] EXCEPT !.follows = FALSE]]
  BY DEF Writing!Switch, Writing!Enter, Writing!Back, Writing!Leave
<1>4. /\ sending' \in [Sends -> SendRecords]
      /\ \A s \in Sends :
           /\ sending'[s].pieces = sending[s].pieces /\ sending'[s].for = sending[s].for
           /\ Meant(sending'[s])
           /\ sending'[s].follows = sending[s].follows \/ Writing!Unmount
           /\ sending[s] = Writing!NoSend => sending'[s] = Writing!NoSend
  <2>1. CASE \E c \in Chats \cup {None} : Writing!Rebind(c)
    <3>1. PICK c \in Chats \cup {None} : Writing!Rebind(c)
      BY <2>1
    <3>2. ASSUME NEW s \in Sends
          PROVE  /\ sending'[s] \in SendRecords
                 /\ sending'[s].pieces = sending[s].pieces /\ sending'[s].for = sending[s].for
                 /\ Meant(sending'[s])
                 /\ sending'[s].follows = sending[s].follows
                 /\ sending[s] = Writing!NoSend => sending'[s] = Writing!NoSend
      <4>1. sending[s] \in SendRecords /\ Meant(sending[s])
        BY <1>1 DEF ComposerInv, SendsOK
      <4>2. CASE sending[s].follows
        <5>1. sending'[s] = [sending[s] EXCEPT !.to = c, !.opened = @ \cup {c}]
          BY <3>1, <4>2 DEF Writing!Rebind
        <5>2. /\ sending'[s] \in SendRecords /\ sending'[s].again = sending[s].again
              /\ sending'[s].to = c /\ sending'[s].opened = sending[s].opened \cup {c}
              /\ sending'[s].pieces = sending[s].pieces /\ sending'[s].for = sending[s].for
              /\ sending'[s].at = sending[s].at /\ sending'[s].stored = sending[s].stored
              /\ sending'[s].follows = sending[s].follows
          BY <4>1, <5>1 DEF SendRecords
        <5>3. sending[s] # Writing!NoSend
          BY <4>2 DEF Writing!NoSend
        <5>4. Meant(sending'[s])
          BY <4>1, <5>2 DEF Meant
        <5> QED
          BY <5>2, <5>3, <5>4
      <4>3. CASE ~sending[s].follows
        BY <3>1, <4>1, <4>3 DEF Writing!Rebind
      <4> QED
        BY <4>2, <4>3
    <3>3. DOMAIN sending' = Sends /\ sending' = [s \in Sends |-> sending'[s]]
      BY <3>1 DEF Writing!Rebind
    <3> QED
      BY <3>2, <3>3
  <2>2. CASE Writing!Unmount /\ sending' = [s \in Sends |-> [sending[s] EXCEPT !.follows = FALSE]]
    <3>1. ASSUME NEW s \in Sends
          PROVE  /\ sending'[s] \in SendRecords
                 /\ sending'[s].pieces = sending[s].pieces /\ sending'[s].for = sending[s].for
                 /\ Meant(sending'[s])
                 /\ sending[s] = Writing!NoSend => sending'[s] = Writing!NoSend
      <4>1. sending[s] \in SendRecords /\ sending'[s] = [sending[s] EXCEPT !.follows = FALSE]
        BY <1>1, <2>2
      <4>2. sending[s] = Writing!NoSend => sending'[s] = Writing!NoSend
        BY <4>1, NoSendType, NotFollowing
      <4>3. Meant(sending[s])
        BY DEF ComposerInv, SendsOK
      <4> QED
        BY <4>1, <4>2, <4>3 DEF SendRecords, Meant
    <3>2. DOMAIN sending' = Sends /\ sending' = [s \in Sends |-> sending'[s]]
      BY <2>2
    <3> QED
      BY <2>2, <3>1, <3>2
  <2> QED
    BY <1>3, <2>1, <2>2
<1>5. CASE UNCHANGED << piece, here, recorder, taping, beside, twice >> /\ ~Writing!Unmount
  <2>1. Writing!TypeOK'
    BY <1>2, <1>4, <1>5 DEF ComposerInv, Writing!TypeOK, SendRecords
  <2>2. SendsOK'
    BY <1>4, <1>5 DEF ComposerInv, SendsOK, Writing!Draft, Writing!NoSend
  <2>3. RecordingsOK'
    BY <1>5, RecordingsKept
  <2> QED
    BY <1>5, <2>1, <2>2, <2>3 DEF ComposerInv
<1>6. CASE Writing!Unmount
  <2>1. /\ here' = {} /\ recorder' = None /\ UNCHANGED << taping, beside, twice >>
        /\ piece' \in [Writing!Pieces -> Writing!States]
        /\ \A p \in Writing!Pieces : piece'[p] = IF piece[p] = "draft" THEN "gone" ELSE piece[p]
    BY <1>1, <1>6 DEF Writing!Unmount, Writing!Draft, Writing!States
  <2>2. Writing!TypeOK'
    BY <1>2, <1>4, <2>1 DEF ComposerInv, Writing!TypeOK, SendRecords
  <2>3. SendsOK'
    BY <1>1, <1>4, <2>1 DEF ComposerInv, SendsOK, Writing!NoSend, SendRecords
  <2>4. RecordingsOK'
    BY <2>1 DEF ComposerInv, RecordingsOK, Writing!TypeOK, Writing!Pieces
  <2> QED
    BY <2>1, <2>2, <2>3, <2>4 DEF ComposerInv
<1> QED
  BY <1>2, <1>5, <1>6

LEMMA ComposerStep ==
  ASSUME Writing!ComposerAssumption, ComposerInv, [Writing!Next]_Writing!composerVars
  PROVE  ComposerInv'
<1>1. /\ piece \in [Writing!Pieces -> Writing!States]
      /\ Texts \subseteq Writing!Pieces /\ Files \subseteq Writing!Pieces
  BY DEF ComposerInv, Writing!TypeOK, Writing!Pieces
<1>2. ASSUME NEW t \in Texts, Writing!typing(t)
      PROVE  ComposerInv'
  BY <1>1, <1>2, AddStep DEF Writing!typing, Writing!Become, Writing!Beside,
     Writing!States
<1>3. ASSUME NEW f \in Files, Writing!sendGif(f)
      PROVE  ComposerInv'
  <2>1. /\ piece' \in [Writing!Pieces -> Writing!States] /\ piece'[f] = "draft"
        /\ \A p \in Writing!Pieces : p # f => piece'[p] = piece[p]
                                              \/ (piece[p] = "draft" /\ piece'[p] = "gone")
    BY <1>1, <1>3 DEF Writing!sendGif, Writing!States, Writing!Draft
  <2> QED
    BY <1>1, <1>3, <2>1, AddStep DEF Writing!sendGif, Writing!Beside
<1>4. ASSUME NEW f \in Files, Writing!uploadFiles(f) \/ Writing!Uploaded(f)
      PROVE  ComposerInv'
  BY <1>1, <1>4, AddStep DEF Writing!uploadFiles, Writing!Uploaded, Writing!Become,
     Writing!Beside, Writing!States
<1>5. ASSUME NEW f \in Files, Writing!startRecording(f)
      PROVE  ComposerInv'
  BY <1>1, <1>5, AddStep DEF Writing!startRecording, Writing!Become, Writing!States
<1>6. ASSUME NEW f \in Files,
             Writing!Granted(f) \/ Writing!Denied(f) \/ Writing!Stopped(f)
      PROVE  ComposerInv'
  BY <1>6, RecordStep
<1>7. CASE Writing!stopRecording
  <2>1. recorder \in Files
    BY <1>7 DEF Writing!stopRecording, ComposerInv, Writing!TypeOK
  <2> QED
    BY <1>7, <2>1, RecordStep
<1>8. ASSUME NEW s \in Sends,
             Writing!submit(s) \/ Writing!Deliver(s) \/ Writing!Retry(s) \/ Writing!Finish(s)
      PROVE  ComposerInv'
  BY <1>8, SendStep, FinishStep
<1>9. CASE (\E c \in Chats : Writing!Switch(c) \/ Writing!Enter(c)) \/ Writing!Back \/ Writing!Leave
  BY <1>9, MoveStep
<1>10. CASE UNCHANGED Writing!composerVars
  BY <1>10 DEF Writing!composerVars, ComposerInv, Writing!TypeOK, SendsOK, RecordingsOK,
     Writing!Draft, Writing!NoSend
<1> QED
  BY <1>2, <1>3, <1>4, <1>5, <1>6, <1>7, <1>8, <1>9, <1>10, Zenon DEF Writing!Next

LEMMA ComposerSafe == ComposerInv => Writing!TypeOK /\ Writing!SentAsMeant
<1> SUFFICES ASSUME ComposerInv
             PROVE  Writing!TypeOK /\ Writing!SentAsMeant
  OBVIOUS
<1>1. \A s \in Sends : \A c \in sending[s].stored :
        c = sending[s].for \/ (sending[s].again /\ c \in sending[s].opened)
  BY DEF ComposerInv, SendsOK, Meant
<1> QED
  BY <1>1 DEF ComposerInv, RecordingsOK, Writing!SentAsMeant

\* However the user goes from conversation to conversation, records and attaches
\* while sends and uploads are under way, a send is stored where it was made, or
\* when it is tried again in a conversation opened meanwhile; its end takes unsent
\* out of the composer only what was added during a send; and a microphone runs
\* for a recording that can be stopped, unless the composer went or the button was
\* pressed twice (Composer.jsx:77-127, ChatPanel.jsx:50-54, 143-146).
THEOREM WrittenGoesWhereMeant ==
  ASSUME Writing!ComposerAssumption
  PROVE  Writing!Spec => [](Writing!TypeOK /\ Writing!SentAsMeant)
BY ComposerInit, ComposerStep, ComposerSafe, PTL DEF Writing!Spec

-----------------------------------------------------------------------------
Runs(x)    == refresh[x].pc # "none"
Granted(x) == refresh[x].pc = "granted"

\* A sign-out was answered; one is under way with no refresh beside it.
Out   == quit = Browser!Quit
Alone == Browser!Leaving /\ quit.alone

\* A tab has one refresh under way at most, and what it presents was the cookie's
\* session and is not one the tab has renewed.
RefreshOK(x) ==
  Runs(x) =>
    /\ refreshing[x[1]] = x[2]
    /\ refresh[x].sid <= issued
    /\ refresh[x].sid > 0 => taker[refresh[x].sid] # x[1]
    /\ refresh[x].pc = "refused" => refresh[x].sid \notin sessions
    /\ Out => refresh[x].sid = 0
    /\ ~Alone

\* A session that was granted and has not arrived is new to everyone.
GrantOK(x) ==
  Granted(x) =>
    /\ refresh[x].sid > 0 /\ refresh[x].sid \notin sessions
    /\ << x[1], refresh[x].sid >> \notin dropped
    /\ refresh[x].got \in 1..issued
    /\ refresh[x].got # cookie /\ taker[refresh[x].got] = None
    /\ \A y \in Tabs \X Slots :
         /\ Runs(y) => refresh[y].sid # refresh[x].got
         /\ Granted(y) /\ y # x => refresh[y].got # refresh[x].got

SessionsOK ==
  /\ \A n \in sessions : n <= issued
  /\ cookie <= issued
  /\ \A n \in 1..MaxSessions : taker[n] # None => n <= issued /\ n # cookie
  /\ \A d \in dropped : /\ d[2] <= issued
                        /\ d[2] > 0 => d[2] \notin sessions /\ taker[d[2]] # d[1]
  /\ Out => cookie = 0

SessionInv ==
  /\ Browser!TypeOK
  /\ SessionsOK
  /\ \A x \in Tabs \X Slots : RefreshOK(x) /\ GrantOK(x)

LEMMA SessionInit ==
  ASSUME Browser!SessionAssumption, Browser!Init
  PROVE  SessionInv
<1>1. Browser!TypeOK
  <2>1. 0 \in 0..MaxSessions
    BY DEF Browser!SessionAssumption
  <2>2. quit = Browser!NoQuit
    BY DEF Browser!Init
  <2> QED
    BY <2>1, <2>2 DEF Browser!Init, Browser!TypeOK, Browser!NoRefresh
<1>2. \A x \in Tabs \X Slots : refresh[x].pc = "none"
  BY DEF Browser!Init, Browser!NoRefresh
<1>3. SessionsOK
  BY DEF Browser!Init, SessionsOK
<1> QED
  BY <1>1, <1>2, <1>3 DEF SessionInv, RefreshOK, GrantOK, Runs, Granted

Logouts == [pc : {"posted", "removed"}, tab : Tabs, sid : 0..MaxSessions,
            fresh : BOOLEAN, alone : BOOLEAN]

LEMMA UnderWay ==
  /\ Browser!Quit.pc = "out" /\ Browser!NoQuit.pc = "none"
  /\ Browser!TypeOK /\ Browser!Leaving => quit \in Logouts
<1>1. Browser!Quit.pc = "out" /\ Browser!NoQuit.pc = "none"
  BY DEF Browser!Quit, Browser!NoQuit
<1> QED
  BY <1>1 DEF Browser!TypeOK, Browser!Leaving, Logouts

LEMMA SameQuit == quit' = quit => (Out' <=> Out) /\ (Alone' <=> Alone)
BY DEF Out, Alone, Browser!Leaving

\* A request and the users change, and the sessions do not.
LEMMA SessionsKept ==
  ASSUME SessionInv, Browser!TypeOK',
         UNCHANGED << refreshing, refresh, cookie, sessions, issued, taker, dropped, quit >>
  PROVE  SessionInv'
BY SameQuit DEF SessionInv, SessionsOK, RefreshOK, GrantOK, Runs, Granted

LEMMA Pairs ==
  ASSUME NEW t \in Tabs, NEW r \in Slots
  PROVE  /\ << t, r >> \in Tabs \X Slots
         /\ \A x \in Tabs \X Slots : x[1] = t /\ x[2] = r => x = << t, r >>
OBVIOUS

LEMMA SignInStep ==
  ASSUME Browser!SessionAssumption, SessionInv, NEW t \in Tabs, Browser!SignIn(t)
  PROVE  SessionInv'
<1> USE DEF Browser!SessionAssumption
<1>1. /\ issued' = issued + 1 /\ sessions' = sessions \cup {issued'} /\ cookie' = issued'
      /\ quit' = IF Browser!Leaving THEN quit ELSE Browser!NoQuit
      /\ issued < MaxSessions /\ issued \in Nat /\ MaxSessions \in Nat
      /\ UNCHANGED << request, refreshing, refresh, taker, dropped >>
      /\ user' = user \cup {t} /\ stale' = stale \ {t}
  BY DEF Browser!SignIn, SessionInv, Browser!TypeOK
<1>2. Browser!TypeOK'
  <2>1. issued' \in 1..MaxSessions /\ issued' \in 0..MaxSessions
    BY <1>1
  <2>2. quit' = quit \/ quit' = Browser!NoQuit
    BY <1>1
  <2> QED
    BY <1>1, <2>1, <2>2 DEF SessionInv, Browser!TypeOK
<1>5. ~Out' /\ (Alone' => Alone)
  BY <1>1 DEF Out, Alone, Browser!Leaving, Browser!NoQuit, Browser!Quit
<1>3. SessionsOK'
  BY <1>1, <1>5 DEF SessionInv, SessionsOK, Browser!TypeOK
<1>4. ASSUME NEW x \in Tabs \X Slots
      PROVE  RefreshOK(x)' /\ GrantOK(x)'
  <2>1. refresh[x].sid \in Nat /\ refresh[x].got \in Nat
    BY DEF SessionInv, Browser!TypeOK
  <2> QED
    BY <1>1, <1>5, <2>1 DEF SessionInv, SessionsOK, Browser!TypeOK, RefreshOK, GrantOK,
       Runs, Granted
<1> QED
  BY <1>2, <1>3, <1>4 DEF SessionInv

\* A refresh begins with the cookie of now.
LEMMA PostStep ==
  ASSUME Browser!SessionAssumption, SessionInv, NEW t \in Tabs, NEW r \in Slots,
         refreshing[t] = None, Browser!Post(t, r), Browser!TypeOK',
         UNCHANGED << cookie, sessions, issued, taker, dropped >>
  PROVE  SessionInv'
<1> USE DEF Browser!SessionAssumption
<1>9. ~Alone' /\ (Out' <=> Out)
  BY DEF Browser!Post, Out, Alone, Browser!Leaving, Browser!Quit, Browser!NoQuit, SessionInv,
     Browser!TypeOK
<1> DEFINE x == << t, r >>
<1>1. x \in Tabs \X Slots /\ x[1] = t /\ x[2] = r
  OBVIOUS
<1>2. /\ refresh' = [refresh EXCEPT ![x] = [pc |-> "posted", sid |-> cookie, got |-> 0]]
      /\ refreshing' = [refreshing EXCEPT ![t] = r]
  BY DEF Browser!Post
<1>3. /\ refresh'[x].pc = "posted" /\ refresh'[x].sid = cookie
      /\ \A y \in Tabs \X Slots : y # x => refresh'[y] = refresh[y]
      /\ \A y \in Tabs \X Slots : y[1] # t => refreshing'[y[1]] = refreshing[y[1]]
      /\ refreshing'[t] = r /\ r # None
  BY <1>1, <1>2 DEF SessionInv, Browser!TypeOK
<1> HIDE DEF x
<1>4. ASSUME NEW y \in Tabs \X Slots, y[1] = t
      PROVE  ~Runs(y)
  BY <1>4 DEF SessionInv, RefreshOK
<1>5. RefreshOK(x)'
  <2>1. cookie > 0 => taker[cookie] = None
    BY DEF SessionInv, SessionsOK, Browser!TypeOK
  <2> QED
    BY <1>1, <1>3, <1>9, <2>1 DEF SessionInv, SessionsOK, Browser!TypeOK, RefreshOK, Runs
<1>6. ASSUME NEW y \in Tabs \X Slots, y # x
      PROVE  RefreshOK(y)'
  BY <1>3, <1>4, <1>6, <1>9 DEF SessionInv, RefreshOK, Runs
<1>7. ASSUME NEW y \in Tabs \X Slots
      PROVE  GrantOK(y)'
  BY <1>1, <1>3, <1>4 DEF SessionInv, GrantOK, Runs, Granted
<1>8. SessionsOK'
  BY <1>9 DEF SessionInv, SessionsOK
<1> QED
  BY <1>5, <1>6, <1>7, <1>8 DEF SessionInv

\* The server uses a session up, or refuses one that is not valid.
LEMMA RefreshSessionStep ==
  ASSUME Browser!SessionAssumption, SessionInv, NEW t \in Tabs, NEW r \in Slots,
         Browser!refreshSession(t, r)
  PROVE  SessionInv'
<1> USE DEF Browser!SessionAssumption
<1> DEFINE x == << t, r >>
           n == refresh[x].sid
<1>1. x \in Tabs \X Slots /\ x[1] = t /\ x[2] = r
  OBVIOUS
<1> USE SameQuit
<1>2. /\ refresh[x].pc = "posted" /\ n \in 0..MaxSessions /\ issued \in 0..MaxSessions
      /\ sessions \subseteq 1..MaxSessions /\ n <= issued /\ Runs(x)
      /\ UNCHANGED << user, stale, request, refreshing, cookie, taker, dropped, quit >>
  BY <1>1 DEF Browser!refreshSession, SessionInv, Browser!TypeOK, RefreshOK, Runs
<1>3. CASE n \in sessions
  <2>1. /\ issued < MaxSessions /\ issued' = issued + 1
        /\ sessions' = (sessions \ {n}) \cup {issued'}
        /\ refresh' = [refresh EXCEPT ![x] = [pc |-> "granted", sid |-> n, got |-> issued']]
    BY <1>3 DEF Browser!refreshSession
  <2>2. /\ refresh'[x].pc = "granted" /\ refresh'[x].sid = n /\ refresh'[x].got = issued'
        /\ \A y \in Tabs \X Slots : y # x => refresh'[y] = refresh[y]
        /\ n > 0
    BY <1>1, <1>2, <1>3, <2>1 DEF SessionInv, Browser!TypeOK
  <2>3. Browser!TypeOK'
    <3>1. issued' \in 1..MaxSessions /\ issued' \in 0..MaxSessions
      BY <1>2, <2>1
    <3>2. /\ sessions' \subseteq 1..MaxSessions
          /\ refresh' \in [Tabs \X Slots -> [pc : {"none", "posted", "granted", "refused"},
                                             sid : 0..MaxSessions, got : 0..MaxSessions]]
      BY <1>2, <2>1, <3>1 DEF SessionInv, Browser!TypeOK
    <3> QED
      BY <1>2, <3>1, <3>2 DEF SessionInv, Browser!TypeOK
  <2> HIDE DEF x, n
  <2>4. SessionsOK'
    BY <1>2, <2>1 DEF SessionInv, SessionsOK, Browser!TypeOK
  <2>5. \A y \in Tabs \X Slots : /\ refresh[y].sid \in Nat /\ refresh[y].got \in Nat
                                 /\ Runs(y)' <=> Runs(y)
                                 /\ refresh'[y].sid = refresh[y].sid
    <3>1. refresh \in [Tabs \X Slots -> [pc : {"none", "posted", "granted", "refused"},
                                         sid : 0..MaxSessions, got : 0..MaxSessions]]
      BY DEF SessionInv, Browser!TypeOK
    <3> QED
      BY <1>2, <2>2, <3>1 DEF Runs, n
  <2>6. ASSUME NEW y \in Tabs \X Slots
        PROVE  RefreshOK(y)'
    BY <1>2, <1>3, <2>1, <2>2, <2>5 DEF SessionInv, SessionsOK, RefreshOK,
       Browser!TypeOK
  <2>7. \A y \in Tabs \X Slots : Runs(y) => refresh[y].sid < issued'
    BY <1>2, <2>1, <2>5 DEF SessionInv, RefreshOK
  <2>8. ASSUME NEW y \in Tabs \X Slots, y # x, Granted(y)
        PROVE  refresh[y].got < issued' /\ refresh[y].sid \notin sessions'
    <3>1. Runs(y) /\ GrantOK(y)
      BY <2>8 DEF SessionInv, Runs, Granted
    <3>2. refresh[y].sid < issued' /\ refresh[y].sid \notin sessions
          /\ refresh[y].got \in 1..issued
      BY <2>7, <2>8, <3>1 DEF GrantOK
    <3> QED
      BY <1>2, <2>1, <2>5, <3>2
  <2>9. GrantOK(x)'
    <3>1. << x[1], n >> \notin dropped
      BY <1>3, <2>2 DEF SessionInv, SessionsOK
    <3>2. taker[issued'] = None /\ issued' # cookie /\ n \notin sessions'
      BY <1>2, <2>1 DEF SessionInv, SessionsOK, Browser!TypeOK
    <3> QED
      BY <1>1, <1>2, <2>1, <2>2, <2>5, <2>7, <2>8, <3>1, <3>2 DEF GrantOK, Granted, Runs
  <2>10. ASSUME NEW y \in Tabs \X Slots, y # x
         PROVE  GrantOK(y)'
    BY <1>2, <2>1, <2>2, <2>5, <2>8, <2>10 DEF SessionInv, GrantOK, Granted,
       Browser!TypeOK
  <2> QED
    BY <2>3, <2>4, <2>6, <2>9, <2>10 DEF SessionInv
<1>4. CASE n \notin sessions
  <2>1. /\ refresh' = [refresh EXCEPT ![x].pc = "refused"] /\ UNCHANGED << issued, sessions >>
    BY <1>4 DEF Browser!refreshSession
  <2>2. /\ refresh'[x].pc = "refused" /\ refresh'[x].sid = n
        /\ \A y \in Tabs \X Slots : y # x => refresh'[y] = refresh[y]
    BY <1>1, <2>1 DEF SessionInv, Browser!TypeOK
  <2>3. Browser!TypeOK'
    BY <1>1, <1>2, <2>1 DEF SessionInv, Browser!TypeOK
  <2> HIDE DEF x, n
  <2>4. SessionsOK'
    BY <1>2, <2>1 DEF SessionInv, SessionsOK
  <2>5. \A y \in Tabs \X Slots : /\ Runs(y)' <=> Runs(y)
                                 /\ refresh'[y].sid = refresh[y].sid
                                 /\ Granted(y)' <=> Granted(y)
    BY <1>2, <2>2 DEF Runs, Granted, n
  <2>6. ASSUME NEW y \in Tabs \X Slots
        PROVE  RefreshOK(y)'
    BY <1>2, <1>4, <2>1, <2>2, <2>5 DEF SessionInv, RefreshOK
  <2>7. ASSUME NEW y \in Tabs \X Slots
        PROVE  GrantOK(y)'
    BY <1>2, <2>1, <2>2, <2>5 DEF SessionInv, GrantOK, Granted
  <2> QED
    BY <2>3, <2>4, <2>6, <2>7 DEF SessionInv
<1> QED
  BY <1>3, <1>4

\* The answer has arrived, or will not: the tab's one refresh is over.
LEMMA SettleStep ==
  ASSUME Browser!SessionAssumption, SessionInv, NEW t \in Tabs, NEW r \in Slots,
         Browser!setSession(t, r) \/ Browser!Refuse(t, r) \/ Browser!Fail(t, r)
  PROVE  SessionInv'
<1> USE DEF Browser!SessionAssumption
<1> DEFINE x == << t, r >>
           n == refresh[x].sid
<1>1. x \in Tabs \X Slots /\ x[1] = t /\ x[2] = r
  OBVIOUS
<1> USE SameQuit
<1>2. /\ Runs(x) /\ refresh' = [refresh EXCEPT ![x] = Browser!NoRefresh]
      /\ refreshing' = [refreshing EXCEPT ![t] = None]
      /\ UNCHANGED << sessions, issued, quit >>
  BY DEF Browser!setSession, Browser!Refuse, Browser!Fail, Browser!Settle, Runs
<1>3. /\ ~Runs(x)' /\ \A y \in Tabs \X Slots : y # x => refresh'[y] = refresh[y]
      /\ \A y \in Tabs \X Slots : y[1] # t => refreshing'[y[1]] = refreshing[y[1]]
  BY <1>1, <1>2 DEF SessionInv, Browser!TypeOK, Runs, Browser!NoRefresh
<1>4. /\ request' \in [Tabs \X Slots -> {"idle", "sent", "waiting"}]
      /\ user' \subseteq Tabs /\ stale' \subseteq user'
      /\ refreshing' \in [Tabs -> Slots \cup {None}]
      /\ refresh' \in [Tabs \X Slots -> [pc : {"none", "posted", "granted", "refused"},
                                         sid : 0..MaxSessions, got : 0..MaxSessions]]
  <2>1. request' = [y \in Tabs \X Slots |->
          IF y[1] = t /\ request[y] = "waiting" THEN "idle" ELSE request[y]]
    BY DEF Browser!setSession, Browser!Refuse, Browser!Fail, Browser!Settle
  <2>2. request \in [Tabs \X Slots -> {"idle", "sent", "waiting"}]
    BY DEF SessionInv, Browser!TypeOK
  <2>3. request' \in [Tabs \X Slots -> {"idle", "sent", "waiting"}]
    BY <2>1, <2>2
  <2>4. user' \subseteq Tabs /\ stale' \subseteq user'
    BY DEF Browser!setSession, Browser!Refuse, Browser!Fail, Browser!clearSession,
       SessionInv, Browser!TypeOK
  <2>5. Browser!NoRefresh \in [pc : {"none", "posted", "granted", "refused"},
                               sid : 0..MaxSessions, got : 0..MaxSessions]
    BY DEF Browser!NoRefresh
  <2> HIDE DEF x
  <2> QED
    BY <1>1, <1>2, <2>3, <2>4, <2>5 DEF SessionInv, Browser!TypeOK
\* No other refresh of the tab is under way.
<1>5. ASSUME NEW y \in Tabs \X Slots, y # x, Runs(y)
      PROVE  y[1] # t
  BY <1>1, <1>2, <1>5 DEF SessionInv, RefreshOK
<1>6. /\ n \in 0..MaxSessions /\ n <= issued /\ issued \in 0..MaxSessions
      /\ n > 0 => taker[n] # t
      /\ refresh[x].pc = "refused" => n \notin sessions
      /\ Granted(x) => /\ n > 0 /\ n \notin sessions /\ << t, n >> \notin dropped
                       /\ refresh[x].got \in 1..issued /\ refresh[x].got # cookie
                       /\ taker[refresh[x].got] = None /\ n # refresh[x].got /\ ~Out
  BY <1>1, <1>2 DEF SessionInv, Browser!TypeOK, RefreshOK, GrantOK, Granted
<1>7. CASE Browser!setSession(t, r)
  <2>1. /\ Granted(x) /\ cookie' = refresh[x].got /\ taker' = [taker EXCEPT ![n] = t]
        /\ dropped' = dropped
    BY <1>7 DEF Browser!setSession, Granted
  <2>2. taker \in [1..MaxSessions -> Tabs \cup {None}] /\ n \in 1..MaxSessions
        /\ refresh[x].got \in 1..MaxSessions
    BY <1>6, <2>1 DEF SessionInv, Browser!TypeOK
  <2> HIDE DEF x, n
  <2>3. /\ taker' \in [1..MaxSessions -> Tabs \cup {None}] /\ taker'[n] = t
        /\ \A m \in 1..MaxSessions : m # n => taker'[m] = taker[m]
    BY <2>1, <2>2
  <2>4. Browser!TypeOK'
    BY <1>2, <1>4, <2>1, <2>2, <2>3 DEF SessionInv, Browser!TypeOK
  <2>5. SessionsOK'
    <3>1. ASSUME NEW d \in dropped
          PROVE  d[2] \in 0..MaxSessions /\ (d[2] = n => d[1] # t)
      <4>1. d \in Tabs \X (1..MaxSessions) /\ << t, n >> \notin dropped
        BY <1>6, <2>1 DEF SessionInv, Browser!TypeOK
      <4> QED
        BY <4>1
    <3>2. /\ \A m \in sessions' : m <= issued'
          /\ cookie' <= issued' /\ cookie' # n
          /\ ~Out'
      BY <1>2, <1>6, <2>1 DEF SessionInv, SessionsOK
    <3>3. ASSUME NEW m \in 1..MaxSessions, taker'[m] # None
          PROVE  m <= issued' /\ m # cookie'
      BY <1>2, <1>6, <2>1, <2>3, <3>2, <3>3 DEF SessionInv, SessionsOK
    <3>4. ASSUME NEW d \in dropped', d[2] > 0
          PROVE  d[2] \notin sessions' /\ taker'[d[2]] # d[1]
      BY <1>2, <2>1, <2>2, <2>3, <3>1, <3>4 DEF SessionInv, SessionsOK
    <3>5. \A d \in dropped' : d[2] <= issued'
      BY <1>2, <2>1 DEF SessionInv, SessionsOK
    <3> QED
      BY <3>2, <3>3, <3>4, <3>5 DEF SessionsOK
  <2>6. ASSUME NEW y \in Tabs \X Slots
        PROVE  RefreshOK(y)'
    <3>1. CASE y = x
      BY <1>3, <3>1 DEF RefreshOK
    <3>2. CASE y # x
      <4>1. refresh[y].sid \in 0..MaxSessions
        BY DEF SessionInv, Browser!TypeOK
      <4> QED
        BY <1>2, <1>3, <1>5, <2>3, <3>2, <4>1 DEF SessionInv, RefreshOK, Runs
    <3> QED
      BY <3>1, <3>2
  <2>7. ASSUME NEW y \in Tabs \X Slots
        PROVE  GrantOK(y)'
    <3>1. CASE y = x
      BY <1>3, <3>1 DEF GrantOK, Granted, Runs
    <3>2. CASE y # x
      <4>1. ASSUME Granted(y)
            PROVE  /\ refresh[y].got \in 1..issued /\ issued <= MaxSessions
                   /\ refresh[y].got # refresh[x].got /\ refresh[y].got # n
        <5>1. GrantOK(x) /\ GrantOK(y) /\ Runs(x) /\ x \in Tabs \X Slots
          BY <1>1, <1>2 DEF SessionInv
        <5> QED
          BY <1>6, <2>1, <3>2, <4>1, <5>1 DEF GrantOK, n
      <4>2. \A z \in Tabs \X Slots : /\ Runs(z)' => Runs(z) /\ refresh'[z] = refresh[z]
                                     /\ Granted(z)' => Granted(z)
        BY <1>3 DEF Runs, Granted
      <4>3. Granted(y)' => /\ GrantOK(y) /\ Granted(y) /\ refresh'[y] = refresh[y]
                           /\ cookie' # refresh[y].got
                           /\ taker'[refresh[y].got] = taker[refresh[y].got]
        <5>1. Granted(y)' => GrantOK(y) /\ Granted(y) /\ refresh'[y] = refresh[y]
          BY <1>3, <3>2 DEF SessionInv, Granted
        <5>2. issued \in Nat /\ MaxSessions \in Nat
          BY DEF SessionInv, Browser!TypeOK
        <5>3. Granted(y) => refresh[y].got \in 1..MaxSessions
          BY <4>1, <5>2
        <5>4. Granted(y) => /\ cookie' # refresh[y].got
                            /\ taker'[refresh[y].got] = taker[refresh[y].got]
          BY <2>1, <2>3, <4>1, <5>3
        <5> QED
          BY <5>1, <5>4
      <4>4. ASSUME Granted(y)'
            PROVE  /\ refresh'[y].sid \notin sessions' /\ refresh'[y].sid > 0
                   /\ << y[1], refresh'[y].sid >> \notin dropped'
                   /\ refresh'[y].got \in 1..issued' /\ refresh'[y].got # cookie'
                   /\ taker'[refresh'[y].got] = None
        BY <1>2, <2>1, <4>3, <4>4 DEF GrantOK
      <4>5. ASSUME Granted(y)', NEW z \in Tabs \X Slots
            PROVE  /\ Runs(z)' => refresh'[z].sid # refresh'[y].got
                   /\ Granted(z)' /\ z # y => refresh'[z].got # refresh'[y].got
        <5>1. GrantOK(y) /\ Granted(y) /\ refresh'[y] = refresh[y]
          BY <4>3, <4>5
        <5>2. /\ Runs(z) => refresh[z].sid # refresh[y].got
              /\ Granted(z) /\ z # y => refresh[z].got # refresh[y].got
          BY <4>5, <5>1 DEF GrantOK
        <5>3. Granted(z)' => Runs(z)'
          BY DEF Granted, Runs
        <5> QED
          BY <4>2, <5>1, <5>2, <5>3
      <4> QED
        BY <4>4, <4>5 DEF GrantOK
    <3> QED
      BY <3>1, <3>2
  <2> QED
    BY <2>4, <2>5, <2>6, <2>7 DEF SessionInv
<1>8. CASE Browser!Refuse(t, r) \/ Browser!Fail(t, r)
  <2>1. /\ UNCHANGED << cookie, taker >>
        /\ dropped \subseteq dropped' /\ \A d \in dropped' \ dropped :
             d[1] = t /\ d[2] = n /\ n # 0 /\ d = << t, n >> /\ refresh[x].pc = "refused"
    BY <1>8 DEF Browser!Refuse, Browser!Fail
  <2>2. dropped' \subseteq Tabs \X (1..MaxSessions)
    BY <1>6, <2>1 DEF SessionInv, Browser!TypeOK
  <2> HIDE DEF x, n
  <2>3. Browser!TypeOK'
    BY <1>2, <1>4, <2>1, <2>2 DEF SessionInv, Browser!TypeOK
  <2>4. SessionsOK'
    BY <1>2, <1>6, <2>1 DEF SessionInv, SessionsOK
  <2>5. ASSUME NEW y \in Tabs \X Slots
        PROVE  RefreshOK(y)'
    BY <1>2, <1>3, <1>5, <2>1 DEF SessionInv, RefreshOK, Runs
  <2>6. ASSUME NEW y \in Tabs \X Slots
        PROVE  GrantOK(y)'
    <3>1. \A z \in Tabs \X Slots : /\ Runs(z)' => Runs(z) /\ refresh'[z] = refresh[z] /\ z # x
                                   /\ Granted(z)' => Granted(z) /\ Runs(z) /\ Runs(z)'
      BY <1>3 DEF Runs, Granted
    <3>2. ASSUME Granted(y)'
          PROVE  << y[1], refresh[y].sid >> \notin dropped'
      <4>1. y[1] # t /\ << y[1], refresh[y].sid >> \notin dropped
        BY <1>5, <3>1, <3>2 DEF SessionInv, GrantOK
      <4> QED
        BY <2>1, <4>1
    <3> QED
      BY <1>2, <2>1, <3>1, <3>2 DEF SessionInv, GrantOK
  <2> QED
    BY <2>3, <2>4, <2>5, <2>6 DEF SessionInv
<1> QED
  BY <1>7, <1>8

\* Sessions end, by the user or from elsewhere.
LEMMA SessionsEndStep ==
  ASSUME Browser!SessionAssumption, SessionInv, Browser!TypeOK',
         sessions' \subseteq sessions,
         cookie' \in {cookie, 0},
         Out' => Out \/ (cookie' = 0 /\ ~Browser!Posted),
         Alone' => Alone \/ ~Browser!Posted,
         UNCHANGED << refreshing, refresh, issued, taker, dropped >>
  PROVE  SessionInv'
<1>1. SessionsOK'
  BY DEF SessionInv, SessionsOK, Browser!TypeOK
<1>2. ASSUME NEW x \in Tabs \X Slots
      PROVE  RefreshOK(x)'
  BY DEF SessionInv, RefreshOK, Runs, Browser!Posted
<1>3. ASSUME NEW x \in Tabs \X Slots
      PROVE  GrantOK(x)'
  BY DEF SessionInv, GrantOK, Runs, Granted
<1> QED
  BY <1>1, <1>2, <1>3 DEF SessionInv

LEMMA SessionStep ==
  ASSUME Browser!SessionAssumption, SessionInv, [Browser!Next]_Browser!sessionVars
  PROVE  SessionInv'
<1> USE DEF Browser!SessionAssumption
<1>1. ASSUME NEW t \in Tabs, Browser!SignIn(t)
      PROVE  SessionInv'
  BY <1>1, SignInStep
<1>2. ASSUME NEW t \in Tabs, Browser!Expire(t)
      PROVE  SessionInv'
  BY <1>2, SessionsKept DEF Browser!Expire, SessionInv, Browser!TypeOK
<1>3. ASSUME NEW t \in Tabs, Browser!SignOut(t)
      PROVE  SessionInv'
  <2>1. quit' \in Logouts
    <3> DEFINE fresh == t \notin stale
               alone == ~Browser!Posted
               sid   == IF t \in stale THEN 0 ELSE cookie
    <3>1. fresh \in BOOLEAN /\ alone \in BOOLEAN /\ sid \in 0..MaxSessions
      BY DEF SessionInv, Browser!TypeOK
    <3>2. quit' = [pc |-> "posted", tab |-> t, fresh |-> fresh, sid |-> sid, alone |-> alone]
      BY <1>3 DEF Browser!SignOut
    <3> HIDE DEF fresh, alone, sid
    <3> QED
      BY <3>1, <3>2 DEF Logouts
  <2>2. Browser!TypeOK'
    BY <1>3, <2>1 DEF Browser!SignOut, SessionInv, Browser!TypeOK, Logouts
  <2>3. quit'.pc = "posted" /\ (quit'.alone => ~Browser!Posted)
    BY <1>3 DEF Browser!SignOut
  <2>4. ~Out' /\ (Alone' => ~Browser!Posted)
    BY <2>3, UnderWay DEF Out, Alone
  <2> QED
    BY <1>3, <2>2, <2>4, SessionsEndStep DEF Browser!SignOut
<1>9. CASE Browser!logout \/ Browser!SignedOut \/ Browser!LogoutFails
  <2>1. Alone => ~Browser!Posted
    BY DEF SessionInv, RefreshOK, Runs, Browser!Posted
  <2>2. CASE Browser!logout
    <3>1. /\ quit' \in Logouts
          /\ quit'.pc = "removed" /\ quit'.alone = quit.alone /\ quit.pc = "posted"
      <4>1. quit \in Logouts /\ quit.pc = "posted" /\ 0 \in 0..MaxSessions
        BY <2>2, UnderWay DEF Browser!logout, Browser!Leaving, SessionInv
      <4>2. quit' = [quit EXCEPT !.pc = "removed", !.sid = 0, !.fresh = FALSE]
        BY <2>2 DEF Browser!logout
      <4> QED
        BY <4>1, <4>2 DEF Logouts
    <3>2. Browser!TypeOK'
      BY <2>2, <3>1 DEF Browser!logout, SessionInv, Browser!TypeOK, Logouts
    <3>3. ~Out' /\ (Alone' => Alone)
      BY <3>1, UnderWay DEF Out, Alone, Browser!Leaving
    <3> QED
      BY <2>2, <3>2, <3>3, SessionsEndStep DEF Browser!logout
  <2>3. CASE Browser!SignedOut
    <3>1. /\ quit' \in {Browser!NoQuit, Browser!Quit} /\ quit.pc = "removed"
          /\ quit' = Browser!Quit => quit.alone
      BY <2>3, UnderWay DEF Browser!SignedOut
    <3>2. Browser!TypeOK'
      BY <2>3, <3>1 DEF Browser!SignedOut, Browser!clearSession, SessionInv, Browser!TypeOK
    <3>3. ~Alone' /\ (Out' => ~Browser!Posted)
      BY <2>1, <3>1, UnderWay DEF Out, Alone, Browser!Leaving
    <3> QED
      BY <2>3, <3>2, <3>3, SessionsEndStep DEF Browser!SignedOut
  <2>4. CASE Browser!LogoutFails
    <3>1. Browser!TypeOK'
      BY <2>4 DEF Browser!LogoutFails, Browser!clearSession, SessionInv, Browser!TypeOK
    <3>2. ~Alone' /\ ~Out'
      BY <2>4, UnderWay DEF Browser!LogoutFails, Out, Alone, Browser!Leaving
    <3> QED
      BY <2>4, <3>1, <3>2, SessionsEndStep DEF Browser!LogoutFails
  <2> QED
    BY <1>9, <2>2, <2>3, <2>4
<1>4. ASSUME NEW t \in Tabs, NEW r \in Slots, Browser!Send(t, r)
      PROVE  SessionInv'
  <2>1. Browser!TypeOK'
    BY <1>4 DEF Browser!Send, SessionInv, Browser!TypeOK
  <2> QED
    BY <1>4, <2>1, SessionsKept DEF Browser!Send
<1>5. ASSUME NEW t \in Tabs, NEW r \in Slots, Browser!Unauthorized(t, r)
      PROVE  SessionInv'
  <2>1. request' \in [Tabs \X Slots -> {"idle", "sent", "waiting"}]
    BY <1>5 DEF Browser!Unauthorized, SessionInv, Browser!TypeOK
  <2>2. CASE refreshing[t] = None
    <3>1. Browser!Post(t, r)
      BY <1>5, <2>2 DEF Browser!Unauthorized, Browser!renew
    <3>2. Browser!TypeOK'
      <4>1. cookie \in 0..MaxSessions /\ 0 \in 0..MaxSessions
        BY DEF SessionInv, Browser!TypeOK
      <4>2. quit' \in {Browser!NoQuit, Browser!Quit} \cup Logouts
        <5>1. CASE Browser!Leaving
          <6>1. quit \in Logouts /\ quit' = [quit EXCEPT !.alone = FALSE]
            BY <3>1, <5>1, UnderWay DEF Browser!Post, SessionInv
          <6> QED
            BY <6>1 DEF Logouts
        <5>2. CASE ~Browser!Leaving
          BY <3>1, <5>2 DEF Browser!Post, SessionInv, Browser!TypeOK, Logouts
        <5> QED
          BY <5>1, <5>2
      <4>3. /\ refreshing' \in [Tabs -> Slots \cup {None}]
            /\ refresh' \in [Tabs \X Slots -> [pc : {"none", "posted", "granted", "refused"},
                                               sid : 0..MaxSessions, got : 0..MaxSessions]]
        BY <3>1, <4>1 DEF Browser!Post, SessionInv, Browser!TypeOK
      <4> QED
        BY <1>5, <2>1, <4>2, <4>3 DEF Browser!Unauthorized, SessionInv, Browser!TypeOK,
           Logouts
    <3> QED
      BY <1>5, <2>2, <3>1, <3>2, PostStep DEF Browser!Unauthorized
  <2>3. CASE refreshing[t] # None
    <3>1. UNCHANGED << refresh, refreshing, quit >>
      BY <1>5, <2>3 DEF Browser!Unauthorized, Browser!renew
    <3>2. Browser!TypeOK'
      BY <1>5, <2>1, <3>1 DEF Browser!Unauthorized, SessionInv, Browser!TypeOK
    <3> QED
      BY <1>5, <3>1, <3>2, SessionsKept DEF Browser!Unauthorized
  <2> QED
    BY <2>2, <2>3
<1>6. ASSUME NEW t \in Tabs, NEW r \in Slots,
             \/ Browser!refreshSession(t, r) \/ Browser!setSession(t, r)
             \/ Browser!Refuse(t, r) \/ Browser!Fail(t, r)
      PROVE  SessionInv'
  BY <1>6, RefreshSessionStep, SettleStep
<1>7. CASE Browser!Revoke
  <2>1. Browser!TypeOK'
    BY <1>7 DEF Browser!Revoke, SessionInv, Browser!TypeOK
  <2> QED
    BY <1>7, <2>1, SameQuit, SessionsEndStep DEF Browser!Revoke
<1>8. CASE UNCHANGED Browser!sessionVars
  <2>1. Browser!TypeOK'
    BY <1>8 DEF Browser!sessionVars, SessionInv, Browser!TypeOK
  <2> QED
    BY <1>8, <2>1, SessionsKept DEF Browser!sessionVars
<1> QED
  BY <1>1, <1>2, <1>3, <1>4, <1>5, <1>6, <1>7, <1>8, <1>9, Zenon DEF Browser!Next

LEMMA SessionSafe == SessionInv => Browser!TypeOK /\ Browser!SessionsEndForCause
BY DEF SessionInv, SessionsOK, Out, Browser!SessionsEndForCause, Browser!TypeOK

\* However many requests of a tab are refused at once, it is not signed out over
\* a session it has itself renewed; and a sign-out that the server has answered,
\* with no refresh beside it, leaves no valid session in the cookie.  One that fails,
\* or has an expired token, may (api.js:20-41, ProfileModal.jsx:53-58).
THEOREM SessionsEndRightly ==
  ASSUME Browser!SessionAssumption
  PROVE  Browser!Spec => [](Browser!TypeOK /\ Browser!SessionsEndForCause)
BY SessionInit, SessionStep, SessionSafe, PTL DEF Browser!Spec

-----------------------------------------------------------------------------
\* A check that is under way has seen what it no longer waits for; a request
\* under way knows that MongoDB was lost, if the process did not disconnect itself;
\* no client waits once the server is closed; and in production there is no way
\* past the start without MongoDB.
LifecycleInv ==
  /\ Process!TypeOK
  /\ answer # None /\ answer.ready =>
       wanted \subseteq answer.seen /\ ("mongo" \in wanted => mode = "mongo")
  /\ probe # None => /\ wanted \ probe.asked \subseteq probe.seen
                     /\ "mongo" \in wanted => mode = "mongo"
                     /\ phase \in Process!Closing \cup {"open"}
  /\ prod => /\ data = "empty"
             /\ phase \in Process!Closing \cup {"loading", "caching", "open"} => mode = "mongo"
  /\ use # None =>
       /\ "mongo" \notin link => use.cut \/ phase = "mongoShut"
       /\ mode = "mongo" /\ "memory" \in use.used => use.cut \/ phase = "mongoShut"
       /\ phase \in Process!Closing \cup {"open"}
       /\ phase \in Process!Shut => ~use.waiting

LEMMA LifecycleInit == Process!Init => LifecycleInv
BY DEF Process!Init, LifecycleInv, Process!TypeOK, Process!Phases, Process!Starting,
   Process!Closing, Process!Shut

LEMMA LifecycleStep ==
  ASSUME LifecycleInv, [Process!Next]_Process!lifecycleVars
  PROVE  LifecycleInv'
<1> USE DEF LifecycleInv, Process!TypeOK, Process!Phases, Process!Starting, Process!Shut,
        Process!Closing, Process!Services, Process!setup, Process!traffic
<1>1. ASSUME Process!Exit
      PROVE  LifecycleInv'
  BY <1>1 DEF Process!Exit
<1>2. CASE Process!DemoMode
  BY <1>1, <1>2 DEF Process!DemoMode
<1>3. CASE Process!ConnectMongo
  BY <1>3 DEF Process!ConnectMongo
<1>4. CASE Process!RetryDns \/ Process!FallBack
  BY <1>1, <1>4 DEF Process!RetryDns, Process!FallBack
<1>5. CASE Process!initializeDataService \/ Process!IndexesFail
  <2>1. CASE Process!initializeDataService
    <3>1. data' \in {data, "demo"} /\ (prod => data' = data)
      BY <2>1 DEF Process!initializeDataService
    <3> QED
      BY <2>1, <3>1 DEF Process!initializeDataService
  <2>2. CASE Process!IndexesFail
    BY <1>1, <2>2 DEF Process!IndexesFail
  <2> QED
    BY <1>5, <2>1, <2>2
<1>6. CASE Process!connectRedis
  BY <1>6 DEF Process!connectRedis
<1>7. ASSUME NEW s \in Process!Services, Process!Fail(s) \/ Process!Break(s)
      PROVE  LifecycleInv'
  <2>1. use' = IF Process!Lost(s) THEN [use EXCEPT !.cut = TRUE] ELSE use
    BY <1>7 DEF Process!Fail, Process!Break
  <2>2. CASE use = None
    BY <1>7, <2>1, <2>2 DEF Process!Fail, Process!Break, Process!Lost
  <2>3. CASE use # None
    <3>1. /\ use' \in [used : SUBSET {"memory", "mongo"}, cut : BOOLEAN, waiting : BOOLEAN]
          /\ use'.used = use.used /\ (use.cut => use'.cut) /\ use'.waiting = use.waiting
          /\ s = "mongo" => use'.cut
      BY <2>1, <2>3 DEF Process!Lost
    <3> QED
      BY <1>7, <2>3, <3>1 DEF Process!Fail, Process!Break
  <2> QED
    BY <2>2, <2>3
<1>8. ASSUME NEW s \in Process!Services, Process!Recover(s)
      PROVE  LifecycleInv'
  BY <1>8 DEF Process!Recover
<1>9. ASSUME NEW s \in Process!Services, Process!Ping(s)
      PROVE  LifecycleInv'
  BY <1>9 DEF Process!Ping
<1>10. ASSUME NEW s \in Process!Services, probe' = Process!Seen(s)
       PROVE  /\ probe = None => probe' = None
              /\ probe # None =>
                   /\ probe' \in [asked : SUBSET Process!Services, seen : SUBSET Process!Services]
                   /\ probe'.asked = probe.asked /\ probe.seen \subseteq probe'.seen
  BY <1>10 DEF Process!Seen
<1>11. CASE Process!Reconnect
  BY <1>10, <1>11 DEF Process!Reconnect
<1>12. CASE Process!ReconnectRedis
  BY <1>10, <1>12 DEF Process!ReconnectRedis
<1>13. ASSUME NEW waiting \in BOOLEAN, Process!Begin(waiting)
       PROVE  LifecycleInv'
  <2>1. /\ use' \in [used : SUBSET {"memory", "mongo"}, cut : BOOLEAN, waiting : BOOLEAN]
        /\ use'.used = {} /\ use'.waiting = waiting
        /\ "mongo" \notin link => use'.cut
    BY <1>13 DEF Process!Begin
  <2>2. phase \in Process!Closing \cup {"open"} /\ (phase \in Process!Shut => ~waiting)
    BY <1>13 DEF Process!Begin
  <2> QED
    BY <1>13, <2>1, <2>2 DEF Process!Begin
<1>14. CASE Process!Abandon \/ Process!Operate \/ Process!Respond
  <2>1. CASE Process!Abandon
    <3>1. /\ use' \in [used : SUBSET {"memory", "mongo"}, cut : BOOLEAN, waiting : BOOLEAN]
          /\ use'.used = use.used /\ use'.cut = use.cut /\ ~use'.waiting
      BY <2>1 DEF Process!Abandon
    <3> QED
      BY <2>1, <3>1 DEF Process!Abandon
  <2>2. CASE Process!Operate
    <3>1. /\ use' \in [used : SUBSET {"memory", "mongo"}, cut : BOOLEAN, waiting : BOOLEAN]
          /\ use'.cut = use.cut /\ use'.waiting = use.waiting
          /\ mode = "mongo" /\ "memory" \in use'.used => use'.cut \/ phase = "mongoShut"
      BY <2>2 DEF Process!Operate, Process!databaseReady
    <3> QED
      BY <2>2, <3>1 DEF Process!Operate
  <2>3. CASE Process!Respond
    BY <2>3 DEF Process!Respond
  <2> QED
    BY <1>14, <2>1, <2>2, <2>3
<1>15. ASSUME NEW ok \in BOOLEAN, Process!Answer(ok),
              ok => probe # None /\ probe.asked = {}
       PROVE  LifecycleInv'
  <2>1. /\ answer' \in [ready : BOOLEAN, seen : SUBSET Process!Services]
        /\ answer'.ready = ok
        /\ probe # None => answer'.seen = probe.seen
    BY <1>15 DEF Process!Answer
  <2>2. answer'.ready => wanted \subseteq answer'.seen /\ ("mongo" \in wanted => mode = "mongo")
    BY <1>15, <2>1
  <2> QED
    BY <1>15, <2>1, <2>2 DEF Process!Answer
<1>16. CASE Process!Ask \/ Process!Ready \/ Process!Unready
  <2>1. CASE Process!Answer(FALSE)
    BY <1>15, <2>1
  <2>2. CASE probe # None /\ probe.asked = {} /\ Process!Answer(TRUE)
    BY <1>15, <2>2
  <2>3. CASE /\ phase = "open"
             /\ ~("mongo" \in wanted /\ ~Process!databaseReady)
             /\ probe' = [asked |-> wanted, seen |-> link]
             /\ UNCHANGED << Process!setup, up, phase, link, mode, redis, data, use, answer >>
    <3>1. /\ probe' \in [asked : SUBSET Process!Services, seen : SUBSET Process!Services]
          /\ probe'.asked = wanted /\ ("mongo" \in wanted => mode = "mongo")
      BY <2>3 DEF Process!databaseReady
    <3> QED
      BY <2>3, <3>1
  <2> QED
    BY <1>16, <2>1, <2>2, <2>3, Zenon DEF Process!Ask, Process!Ready, Process!Unready
<1>17. CASE \/ Process!Signal \/ Process!Drained \/ Process!closeRedis
            \/ Process!Disconnect \/ Process!Disconnected \/ Process!Force
  <2>1. CASE Process!Signal
    <3>1. CASE Process!Exit
      BY <1>1, <3>1
    <3>2. CASE /\ phase = "open" /\ phase' = "draining"
               /\ UNCHANGED << Process!setup, up, link, mode, redis, data, Process!traffic >>
      BY <3>2
    <3> QED
      BY <2>1, <3>1, <3>2, Zenon DEF Process!Signal
  <2>2. CASE Process!Drained
    BY <2>2 DEF Process!Drained
  <2>3. CASE Process!closeRedis
    BY <2>3 DEF Process!closeRedis
  <2>4. CASE Process!Disconnect
    BY <2>4 DEF Process!Disconnect
  <2>5. CASE Process!Disconnected \/ Process!Force
    BY <1>1, <2>5 DEF Process!Disconnected, Process!Force
  <2> QED
    BY <1>17, <2>1, <2>2, <2>3, <2>4, <2>5
<1>18. CASE Process!Restart
  BY <1>18 DEF Process!Restart
<1>19. CASE UNCHANGED Process!lifecycleVars
  BY <1>19 DEF Process!lifecycleVars
<1> QED
  BY <1>2, <1>3, <1>4, <1>5, <1>6, <1>7, <1>8, <1>9, <1>11, <1>12, <1>13, <1>14, <1>16,
      <1>17, <1>18, <1>19, Zenon DEF Process!Next

LEMMA LifecycleSafe == LifecycleInv => Process!TypeOK /\ Process!ServesAsSetUp
BY DEF LifecycleInv, Process!ServesAsSetUp, Process!TypeOK, Process!Closing,
   Process!Shut

\* Through every loss of a service, the shutdown and the next start the process is
\* called ready only when it was connected to everything configured, serves no
\* demonstration data in production, and shuts MongoDB under no request whose
\* client waits; a request nobody waits for may outlast it (server/server.js:21-40,
\* config/database.js:47-83, services/healthService.js:8-45).
THEOREM ProcessServesAsSetUp == Process!Spec => [](Process!TypeOK /\ Process!ServesAsSetUp)
BY LifecycleInit, LifecycleStep, LifecycleSafe, PTL DEF Process!Spec
=============================================================================
