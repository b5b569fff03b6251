------------------------------ MODULE Lifecycle ------------------------------
(***************************************************************************)
(* One server process from its start to its exit (server/server.js): which *)
(* store it works on while MongoDB and Redis come and go (config/          *)
(* database.js, redis.js, socketAdapter.js), what a readiness check says   *)
(* of it (services/healthService.js) and in which order it closes.         *)
(*                                                                         *)
(* One handler that touches data and one readiness check are under way at  *)
(* a time.  A handler serves an HTTP client that waits for its answer, or  *)
(* nobody: a socket's event, a timer, a client that has gone.  A process   *)
(* that has ended may be started again.                                    *)
(***************************************************************************)
CONSTANT None   \* no request, no check, no answer

VARIABLES
  wanted,   \* services whose address is configured
  prod,     \* NODE_ENV is production
  up,       \* services that can be reached
  phase,    \* how far the process is: see Phases
  link,     \* services the process has a working connection to
  mode,     \* config/database.js: "memory" or "mongo"
  cache,    \* the Redis client: "none", "client", or "ended" for good
  data,     \* the arrays of the memory store: "empty" or "demo"
  request,  \* None, or of a handler: the stores it has used, whether MongoDB was
            \* lost under it, whether a client waits for it
  probe,    \* None, or what a readiness check waits for and has seen
  answer    \* None, or the last readiness answer

setup == << wanted, prod >>
lifecycleVars == << setup, up, phase, link, mode, cache, data, request, probe,
                    answer >>
traffic == << request, probe, answer >>

Services == {"mongo", "redis"}
Starting == {"connecting", "retrying", "loading", "caching"}
Shut     == {"adapterShut", "redisShut", "mongoShut"}
Closing  == {"draining"} \cup Shut
Phases   == Starting \cup Closing \cup {"open", "ended"}

databaseReady == mode = "mongo" /\ "mongo" \in link
redisClient   == cache = "client" /\ "redis" \in link

Init ==
  /\ wanted \in SUBSET Services /\ prod \in BOOLEAN
  /\ up \in SUBSET wanted
  /\ phase = "connecting"
  /\ link = {} /\ mode = "memory" /\ cache = "none" /\ data = "empty"
  /\ request = None /\ probe = None /\ answer = None

-----------------------------------------------------------------------------
(* Start: connectDatabase, initializeDataService, connectRedis, listen. *)

Exit == /\ phase' = "ended" /\ link' = {}
        /\ request' = None /\ probe' = None
        /\ UNCHANGED << setup, up, mode, cache, data, answer >>

\* Without an address only a process outside production goes on.
DemoMode ==
  /\ phase = "connecting" /\ "mongo" \notin wanted
  /\ IF prod THEN Exit
     ELSE /\ phase' = "loading"
          /\ UNCHANGED << setup, up, link, mode, cache, data, traffic >>

ConnectMongo ==
  /\ phase \in {"connecting", "retrying"} /\ "mongo" \in wanted \cap up
  /\ phase' = "loading"
  /\ link' = link \cup {"mongo"} /\ mode' = "mongo"
  /\ UNCHANGED << setup, up, cache, data, traffic >>

\* canUseAtlasDnsFallback: another attempt for some addresses and errors.
RetryDns ==
  /\ phase = "connecting" /\ "mongo" \in wanted \ up
  /\ phase' = "retrying"
  /\ UNCHANGED << setup, up, link, mode, cache, data, traffic >>

FallBackAnyway ==                                                   \* mutant
  /\ phase \in {"connecting", "retrying"} /\ "mongo" \in wanted \ up
  /\ phase' = "loading"
  /\ UNCHANGED << setup, up, link, mode, cache, data, traffic >>

FallBack ==
  /\ phase \in {"connecting", "retrying"} /\ "mongo" \in wanted \ up
  /\ IF prod THEN Exit
     ELSE /\ phase' = "loading"
          /\ UNCHANGED << setup, up, link, mode, cache, data, traffic >>

\* A connection lost by now fills the memory store, but not in production.
initializeDataService ==
  /\ phase = "loading"
  /\ phase' = "caching"
  /\ data' = IF databaseReady \/ prod THEN data ELSE "demo"
  /\ UNCHANGED << setup, up, link, mode, cache, traffic >>

\* Outside production it builds the indexes, which fails with the connection.
IndexesFail == phase = "loading" /\ ~prod /\ databaseReady /\ Exit

\* A Redis that is not there at the start is done without for good.  The socket
\* adapter may use it or not: nothing here asks.
connectRedis ==
  /\ phase = "caching"
  /\ phase' = "open"
  /\ IF "redis" \in wanted \cap up
       THEN cache' = "client" /\ link' = link \cup {"redis"}
       ELSE UNCHANGED << cache, link >>
  /\ UNCHANGED << setup, up, mode, data, traffic >>

-----------------------------------------------------------------------------
(* The services. *)

Lost(s) == request # None /\ s = "mongo"

Fail(s) ==
  /\ s \in up
  /\ up' = up \ {s}
  /\ link' = link \ {s}
  /\ request' = IF Lost(s) THEN [request EXCEPT !.cut = TRUE] ELSE request
  /\ UNCHANGED << setup, phase, mode, cache, data, probe, answer >>

\* A connection may break while its service goes on.
Break(s) ==
  /\ s \in link
  /\ link' = link \ {s}
  /\ request' = IF Lost(s) THEN [request EXCEPT !.cut = TRUE] ELSE request
  /\ UNCHANGED << setup, up, phase, mode, cache, data, probe, answer >>

Recover(s) ==
  /\ s \in wanted \ up
  /\ up' = up \cup {s}
  /\ UNCHANGED << setup, phase, link, mode, cache, data, traffic >>

Seen(s) == IF probe = None THEN probe
                           ELSE [probe EXCEPT !.seen = @ \cup {s}]

\* The MongoDB driver reconnects for as long as the process lives ...
Reconnect ==
  /\ phase \notin {"mongoShut", "ended"} /\ mode = "mongo" /\ "mongo" \in up \ link
  /\ link' = link \cup {"mongo"}
  /\ probe' = Seen("mongo")
  /\ UNCHANGED << setup, up, phase, mode, cache, data, request, answer >>

\* ... the Redis client gives up at the fourth attempt.
ReconnectRedis ==
  /\ phase # "ended" /\ cache = "client" /\ "redis" \notin link
  /\ \/ /\ "redis" \in up
        /\ link' = link \cup {"redis"} /\ probe' = Seen("redis")
        /\ UNCHANGED cache
     \/ /\ "redis" \notin up
        /\ cache' = "ended" /\ UNCHANGED << link, probe >>
  /\ UNCHANGED << setup, up, phase, mode, data, request, answer >>

-----------------------------------------------------------------------------
(* Handlers. *)

\* While the server drains, an open connection may bring another request; timers
\* fire, and the disconnects of the sockets are handled, as long as the process
\* lives.
Begin(waiting) ==
  /\ request = None
  /\ phase \in {"open"} \cup IF waiting THEN {"draining"} ELSE Closing
  /\ request' = [used |-> {}, cut |-> "mongo" \notin link, waiting |-> waiting]
  /\ UNCHANGED << setup, up, phase, link, mode, cache, data, probe, answer >>

\* The client goes, its request does not.
Abandon ==
  /\ request # None
  /\ request' = [request EXCEPT !.waiting = FALSE]
  /\ UNCHANGED << setup, up, phase, link, mode, cache, data, probe, answer >>

\* Every operation of the data service chooses its store for itself.
Operate ==
  /\ request # None
  /\ request' = [request EXCEPT !.used =
       @ \cup {IF databaseReady THEN "mongo" ELSE "memory"}]
  /\ UNCHANGED << setup, up, phase, link, mode, cache, data, probe, answer >>

Respond ==
  /\ request # None
  /\ request' = None
  /\ UNCHANGED << setup, up, phase, link, mode, cache, data, probe, answer >>

Answer(ready) ==
  /\ probe' = None
  /\ answer' = [ready |-> ready, seen |-> IF probe = None THEN link ELSE probe.seen]
  /\ UNCHANGED << setup, up, phase, link, mode, cache, data, request >>

AskReachable ==                                                     \* mutant
  /\ phase = "open" /\ probe = None
  /\ LET asked == (IF databaseReady THEN {"mongo"} ELSE {})
                  \cup (IF redisClient THEN {"redis"} ELSE {})
     IN probe' = [asked |-> asked, seen |-> link]
  /\ UNCHANGED << setup, up, phase, link, mode, cache, data, request, answer >>

\* readinessStatus pings what is configured, and fails at once without a
\* connection to ping over.
Ask ==
  /\ phase = "open" /\ probe = None
  /\ IF \/ "mongo" \in wanted /\ ~databaseReady
        \/ "redis" \in wanted /\ ~redisClient
     THEN Answer(FALSE)
     ELSE /\ probe' = [asked |-> wanted, seen |-> link]
          /\ UNCHANGED << setup, up, phase, link, mode, cache, data, request,
                          answer >>

\* The pings come back; or one fails or takes longer than two seconds.
Ping(s) ==
  /\ probe # None /\ s \in probe.asked /\ s \in link
  /\ probe' = [probe EXCEPT !.asked = @ \ {s}, !.seen = @ \cup {s}]
  /\ UNCHANGED << setup, up, phase, link, mode, cache, data, request, answer >>

Ready   == probe # None /\ probe.asked = {} /\ Answer(TRUE)
Unready == probe # None /\ probe.asked # {} /\ Answer(FALSE)

-----------------------------------------------------------------------------
(* Shutdown. *)

\* Before the process listens, a signal ends it at once.
Signal ==
  \/ phase \in Starting /\ Exit
  \/ /\ phase = "open"
     /\ phase' = "draining"
     /\ UNCHANGED << setup, up, link, mode, cache, data, traffic >>

CloseAtOnce ==                                                      \* mutant
  /\ phase = "draining"
  /\ phase' = "adapterShut"
  /\ UNCHANGED << setup, up, link, mode, cache, data, traffic >>

\* server.close calls back when the last connection is closed; a handler that no
\* connection waits for goes on.
Drained ==
  /\ phase = "draining"
  /\ request # None => ~request.waiting
  /\ phase' = "adapterShut"
  /\ UNCHANGED << setup, up, link, mode, cache, data, traffic >>

closeRedis ==
  /\ phase = "adapterShut"
  /\ phase' = "redisShut"
  /\ link' = link \ {"redis"}
  /\ cache' = IF cache = "client" THEN "ended" ELSE cache
  /\ UNCHANGED << setup, up, mode, data, traffic >>

\* mongoose.disconnect: no connection is ready from here on.
Disconnect ==
  /\ phase = "redisShut"
  /\ phase' = "mongoShut"
  /\ link' = link \ {"mongo"}
  /\ UNCHANGED << setup, up, mode, cache, data, traffic >>

Disconnected == phase = "mongoShut" /\ Exit

\* Ten seconds after the signal the process ends, whatever it still does.
Force == phase \in Closing /\ Exit

Restart ==
  /\ phase = "ended"
  /\ phase' = "connecting"
  /\ mode' = "memory" /\ cache' = "none" /\ data' = "empty" /\ answer' = None
  /\ UNCHANGED << setup, up, link, request, probe >>

Next ==
  \/ DemoMode \/ ConnectMongo \/ RetryDns \/ FallBack
  \/ initializeDataService \/ IndexesFail \/ connectRedis
  \/ \E s \in Services : Fail(s) \/ Break(s) \/ Recover(s) \/ Ping(s)
  \/ Reconnect \/ ReconnectRedis
  \/ \E waiting \in BOOLEAN : Begin(waiting)
  \/ Abandon \/ Operate \/ Respond \/ Ask \/ Ready \/ Unready
  \/ Signal \/ Drained \/ closeRedis \/ Disconnect \/ Disconnected
  \/ Force \/ Restart

Spec == Init /\ [][Next]_lifecycleVars

-----------------------------------------------------------------------------
TypeOK ==
  /\ wanted \subseteq Services /\ prod \in BOOLEAN
  /\ up \subseteq wanted /\ link \subseteq up
  /\ phase \in Phases
  /\ mode \in {"memory", "mongo"} /\ cache \in {"none", "client", "ended"}
  /\ data \in {"empty", "demo"}
  /\ request \in {None} \cup [used : SUBSET {"memory", "mongo"}, cut : BOOLEAN,
                                waiting : BOOLEAN]
  /\ probe \in {None} \cup [asked : SUBSET Services, seen : SUBSET Services]
  /\ answer \in {None} \cup [ready : BOOLEAN, seen : SUBSET Services]

\* The process serves what it is set up to serve (server/server.js:21-40,
\* config/database.js:47-83, services/healthService.js:8-45).  It is called
\* ready only when it was connected to everything configured at some moment of
\* the check, and never once it has fallen back to the memory store.  No process
\* serves in production without MongoDB or with demonstration data in it.  The
\* shutdown closes Redis and MongoDB under no request whose client waits for it,
\* and a handler leaves MongoDB for the memory store only when the connection was
\* lost under it or, if nobody waits for it, when the process itself disconnects.
ServesAsSetUp ==
  /\ answer # None /\ answer.ready =>
       wanted \subseteq answer.seen /\ ("mongo" \in wanted => mode = "mongo")
  /\ prod /\ phase \in Closing \cup {"open"} => mode = "mongo" /\ data = "empty"
  /\ request # None =>
       /\ phase \in Shut => ~request.waiting
       /\ mode = "mongo" /\ "memory" \in request.used =>
            request.cut \/ phase = "mongoShut"
=============================================================================
