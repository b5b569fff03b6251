--------------------------- MODULE ClientTimeline ---------------------------
(***************************************************************************)
(* The messages one browser tab shows of its open conversation: the query  *)
(* cache, which an optimistic send, its HTTP answer, the socket's          *)
(* message:new and message:seen and a refetch all write, in any order      *)
(* (client/src/components/chat/ChatPanel.jsx, hooks/useRealtime.js).       *)
(*                                                                         *)
(* Only the user's own messages are told apart, by their clientMessageId.  *)
(* The server stores a key once (Messages.tla).  The user stays in the     *)
(* conversation.                                                           *)
(***************************************************************************)
EXTENDS Naturals, FiniteSets

CONSTANTS
  Keys,     \* clientMessageIds
  Retries,  \* 2 in the code: retries of a send before it fails
  None      \* nothing cached, no answer

TimelineAssumption == Retries \in Nat

VARIABLES
  cache,    \* the cached messages, or None before the first answer
  send,     \* [Keys -> how far the mutation is]
  failures, \* [Keys -> failed attempts of the mutation]
  late,     \* keys given up on that may reach the server yet
  stored,   \* keys the server has stored
  events,   \* keys whose message:new is on its way to this tab
  fetch,    \* the timeline request, and the keys in its answer
  hidden,   \* keys of mutations that are not in the cache
  misread   \* keys whose item a receipt turned into a read one before the
            \* message had come back from the server

timelineVars == << cache, send, failures, late, stored, events, fetch, hidden,
                   misread >>

\* id: "client" for the optimistic item, whose id is its key.
Items      == [key : Keys, id : {"client", "server"}, retry : BOOLEAN,
               status : {"sending", "failed", "sent", "read"}]
Optimistic(k) == [key |-> k, id |-> "client", retry |-> TRUE, status |-> "sending"]
Message(k)    == [key |-> k, id |-> "server", retry |-> FALSE, status |-> "sent"]
Of(k)         == {i \in cache : i.key = k}

Init ==
  /\ cache = None
  /\ send = [k \in Keys |-> "new"]
  /\ failures = [k \in Keys |-> 0]
  /\ late = {}
  /\ stored = {}
  /\ events = {}
  /\ fetch = [pc |-> "asked", has |-> {}]
  /\ hidden = {} /\ misread = {}

-----------------------------------------------------------------------------
\* onMutate puts the optimistic item in the place of one with its key.
Mutate(k) ==
  /\ send' = [send EXCEPT ![k] = "posting"]
  /\ failures' = [failures EXCEPT ![k] = 0]
  /\ misread' = misread \ {k}
  /\ IF cache = None
       THEN hidden' = hidden \cup {k} /\ UNCHANGED cache
       ELSE cache' = (cache \ Of(k)) \cup {Optimistic(k)} /\ hidden' = hidden \ {k}
  /\ UNCHANGED << late, stored, events, fetch >>

queueMessage(k) == send[k] = "new" /\ Mutate(k)

\* The Retry button of a failed item, which works while it has its payload.
retryMessage(k) ==
  /\ send[k] \in {"failed", "sent"} /\ cache # None
  /\ \E i \in Of(k) : i.status = "failed" /\ i.retry
  /\ Mutate(k)

Stored(k) ==
  /\ stored' = stored \cup {k}
  /\ events' = events \cup {k}
  /\ UNCHANGED << cache, failures, fetch, hidden, misread >>

Store(k)     == /\ send[k] = "posting"
                /\ send' = [send EXCEPT ![k] = "answered"]
                /\ Stored(k) /\ UNCHANGED late
StoreLate(k) == k \in late /\ late' = late \ {k} /\ Stored(k) /\ UNCHANGED send

\* onSuccess: the stored message replaces whatever has its id or its key.
onSuccess(k) ==
  /\ send[k] = "answered"
  /\ send' = [send EXCEPT ![k] = "sent"]
  /\ IF cache = None
       THEN UNCHANGED << cache, hidden >>
       ELSE cache' = (cache \ Of(k)) \cup {Message(k)} /\ hidden' = hidden \ {k}
  /\ UNCHANGED << failures, late, stored, events, fetch, misread >>

\* onError marks whatever has the key.
onError(k) ==
  /\ send' = [send EXCEPT ![k] = "failed"]
  /\ cache' = IF cache = None THEN None
              ELSE (cache \ Of(k)) \cup {[i EXCEPT !.status = "failed"] : i \in Of(k)}
  /\ misread' = misread \ {k}

\* No answer in time, or an error of the server's: tried again, twice.
NoAnswer(k) ==
  /\ send[k] \in {"posting", "answered"}
  /\ late' = IF send[k] = "posting" THEN late \cup {k} ELSE late
  /\ IF failures[k] < Retries
       THEN /\ failures' = [failures EXCEPT ![k] = @ + 1]
            /\ send' = [send EXCEPT ![k] = "posting"]
            /\ UNCHANGED << cache, misread >>
       ELSE onError(k) /\ UNCHANGED failures
  /\ UNCHANGED << stored, events, fetch, hidden >>

\* A refusal (400, 401, 403, 404, 413, 422) is final.
Refused(k) ==
  /\ send[k] = "posting"
  /\ onError(k)
  /\ UNCHANGED << failures, late, stored, events, fetch, hidden >>

-----------------------------------------------------------------------------
updateById(k) == {i \in cache : ~(i.key = k /\ i.id = "server")}    \* mutant
                   \cup {Message(k)}

\* message:new replaces what has its id or its key ...
updateTimeline(k) == (cache \ Of(k)) \cup {Message(k)}

Arrive(k) ==
  /\ k \in events
  /\ events' = events \ {k}
  /\ IF cache = None
       THEN UNCHANGED << cache, hidden >>
       ELSE cache' = updateTimeline(k) /\ hidden' = hidden \ {k}
  /\ UNCHANGED << send, failures, late, stored, fetch, misread >>

\* ... or is lost with its connection.
Lose(k) ==
  /\ k \in events
  /\ events' = events \ {k}
  /\ UNCHANGED << cache, send, failures, late, stored, fetch, hidden, misread >>

\* message:seen turns every message of the user's into a read one: an item that is
\* being sent, and one that has failed, included.
seenTimeline ==
  /\ cache # None
  /\ cache' = {[i EXCEPT !.status = "read"] : i \in cache}
  /\ misread' = misread \cup {i.key : i \in {j \in cache : j.id = "client"}}
  /\ UNCHANGED << send, failures, late, stored, events, fetch, hidden >>

\* A stale or invalidated query asks again; an answer on its way is dropped.
Refetch ==
  /\ fetch' = [pc |-> "asked", has |-> {}]
  /\ UNCHANGED << cache, send, failures, late, stored, events, hidden, misread >>

getMessages ==
  /\ fetch.pc = "asked"
  /\ fetch' = [pc |-> "answered", has |-> stored]
  /\ UNCHANGED << cache, send, failures, late, stored, events, hidden, misread >>

\* The answer takes the place of all that is cached.
Fetched ==
  /\ fetch.pc = "answered"
  /\ cache' = {Message(k) : k \in fetch.has}
  /\ hidden' = {k \in Keys \ fetch.has : send[k] # "new"}
  /\ fetch' = [pc |-> "idle", has |-> {}]
  /\ UNCHANGED << send, failures, late, stored, events, misread >>

Next ==
  \/ \E k \in Keys :
       \/ queueMessage(k) \/ retryMessage(k) \/ Store(k) \/ StoreLate(k)
       \/ onSuccess(k) \/ NoAnswer(k) \/ Refused(k) \/ Arrive(k) \/ Lose(k)
  \/ seenTimeline \/ Refetch \/ getMessages \/ Fetched

Spec == Init /\ [][Next]_timelineVars

-----------------------------------------------------------------------------
TypeOK ==
  /\ cache = None \/ cache \subseteq Items
  /\ send \in [Keys -> {"new", "posting", "answered", "sent", "failed"}]
  /\ failures \in [Keys -> 0..Retries]
  /\ late \subseteq Keys /\ stored \subseteq Keys /\ events \subseteq Keys
  /\ fetch \in [pc : {"idle", "asked", "answered"}, has : SUBSET Keys]
  /\ hidden \subseteq Keys /\ misread \subseteq Keys

\* In whatever order the answer, the event, the receipt and a refetch arrive, a
\* message is shown once unless a refetch that missed it has replaced the
\* cache.  One whose send was answered is the stored message.  One whose send is
\* over does not count as being sent; if it was never stored it is shown as
\* failed and keeps what it takes to send it again.  One shown as sent or read has
\* been stored.  The last two do not hold of an item that a receipt for earlier
\* messages has turned into a read one since its last attempt: it cannot be sent
\* again (ChatPanel.jsx:54-92, useRealtime.js:25-46).
SendIsShown ==
  cache # None => \A k \in Keys :
    /\ Cardinality(Of(k)) <= 1
    /\ send[k] # "new" /\ k \notin hidden => Of(k) # {}
    /\ \A i \in Of(k) :
         /\ send[k] = "sent" => i.id = "server"
         /\ send[k] \in {"sent", "failed"} => i.status # "sending"
         /\ i.status = "failed" => i.retry \/ k \in stored
         /\ i.status \in {"sent", "read"} => k \in stored \cup misread
=============================================================================
