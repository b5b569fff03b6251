---------------------------- MODULE ClientSession ----------------------------
(***************************************************************************)
(* The tabs of one browser and the refresh cookie they share: a request    *)
(* refused with 401 renews the session and is sent again (client/src/      *)
(* services/api.js, store/authStore.js).  A refresh uses its session up    *)
(* and gets another (RefreshSessions.tla).                                 *)
(*                                                                         *)
(* Requests whose token is accepted are left out.  A request that was      *)
(* given up on does not reach the server later.                            *)
(***************************************************************************)
EXTENDS Naturals

CONSTANTS
  Tabs,         \* tabs of the browser
  Slots,        \* requests a tab has in progress
  MaxSessions,  \* bounds the refresh sessions issued
  None          \* no promise, no tab

SessionAssumption == MaxSessions \in Nat /\ None \notin Tabs \cup Slots

VARIABLES
  user,       \* tabs that have a user
  stale,      \* tabs whose access token has expired
  request,    \* [Tabs \X Slots -> how far the request is]
  refreshing, \* [Tabs -> the slot whose refresh the promise is of, or None]
  refresh,    \* [Tabs \X Slots -> the refresh this request began]
  cookie,     \* session of the browser's cookie, 0 for none
  sessions,   \* valid sessions
  issued,     \* number of sessions issued
  taker,      \* [1..MaxSessions -> the tab whose refresh used it up, or None]
  dropped,    \* << tab, session >> of the refreshes that were refused, but those
              \* that presented none
  quit        \* a sign-out under way; or that the last one was answered, with no
              \* refresh under way beside it and no sign-in since

sessionVars == << user, stale, request, refreshing, refresh, cookie, sessions,
                  issued, taker, dropped, quit >>

\* sid: the session presented; got: the one the server issued in its place.
NoRefresh == [pc |-> "none", sid |-> 0, got |-> 0]
Posted    == \E x \in Tabs \X Slots : refresh[x].pc # "none"

\* tab and sid: whose logout it is, and the session its cookie presents, as long as
\* the server may need it; fresh: with a token that has not expired; alone: with no
\* refresh beside it so far.
NoQuit  == [pc |-> "none", tab |-> None, sid |-> 0, fresh |-> FALSE, alone |-> FALSE]
Quit    == [NoQuit EXCEPT !.pc = "out"]
Leaving == quit.pc \in {"posted", "removed"}

Init ==
  /\ user = {}
  /\ stale = {}
  /\ request = [x \in Tabs \X Slots |-> "idle"]
  /\ refreshing = [t \in Tabs |-> None]
  /\ refresh = [x \in Tabs \X Slots |-> NoRefresh]
  /\ cookie = 0
  /\ sessions = {}
  /\ issued = 0
  /\ taker = [n \in 1..MaxSessions |-> None]
  /\ dropped = {}
  /\ quit = NoQuit

-----------------------------------------------------------------------------
SignIn(t) ==
  /\ t \notin user
  /\ issued < MaxSessions
  /\ issued' = issued + 1
  /\ sessions' = sessions \cup {issued'}
  /\ cookie' = issued'
  /\ user' = user \cup {t}
  /\ stale' = stale \ {t}
  /\ quit' = IF Leaving THEN quit ELSE NoQuit
  /\ UNCHANGED << request, refreshing, refresh, taker, dropped >>

Expire(t) ==
  /\ t \in user \ stale
  /\ stale' = stale \cup {t}
  /\ UNCHANGED << user, request, refreshing, refresh, cookie, sessions, issued,
                  taker, dropped, quit >>

Send(t, r) ==
  /\ t \in stale /\ request[<< t, r >>] = "idle"
  /\ request' = [request EXCEPT ![<< t, r >>] = "sent"]
  /\ UNCHANGED << user, stale, refreshing, refresh, cookie, sessions, issued,
                  taker, dropped, quit >>

Post(t, r) ==
  /\ refresh[<< t, r >>] = NoRefresh
  /\ refresh' = [refresh EXCEPT ![<< t, r >>] =
                  [pc |-> "posted", sid |-> cookie, got |-> 0]]
  /\ refreshing' = [refreshing EXCEPT ![t] = r]
  /\ quit' = IF Leaving THEN [quit EXCEPT !.alone = FALSE] ELSE quit

renewAgain(t, r) == Post(t, r)                                      \* mutant

\* A 401: the tab's refresh under way, or a new one with the cookie of now.
renew(t, r) == IF refreshing[t] = None THEN Post(t, r)
                                       ELSE UNCHANGED << refresh, refreshing, quit >>

Unauthorized(t, r) ==
  /\ request[<< t, r >>] = "sent"
  /\ request' = [request EXCEPT ![<< t, r >>] = "waiting"]
  /\ renew(t, r)
  /\ UNCHANGED << user, stale, cookie, sessions, issued, taker, dropped >>

\* refreshSession on the server.
refreshSession(t, r) ==
  /\ refresh[<< t, r >>].pc = "posted"
  /\ LET n == refresh[<< t, r >>].sid IN
     IF n \in sessions
       THEN /\ issued < MaxSessions
            /\ issued' = issued + 1
            /\ sessions' = (sessions \ {n}) \cup {issued'}
            /\ refresh' = [refresh EXCEPT ![<< t, r >>] =
                             [pc |-> "granted", sid |-> n, got |-> issued']]
       ELSE /\ refresh' = [refresh EXCEPT ![<< t, r >>].pc = "refused"]
            /\ UNCHANGED << issued, sessions >>
  /\ UNCHANGED << user, stale, request, refreshing, cookie, taker, dropped, quit >>

\* Every request that waited for the tab's refresh goes on.
Settle(t, r) ==
  /\ refresh' = [refresh EXCEPT ![<< t, r >>] = NoRefresh]
  /\ refreshing' = [refreshing EXCEPT ![t] = None]
  /\ request' = [x \in Tabs \X Slots |->
       IF x[1] = t /\ request[x] = "waiting" THEN "idle" ELSE request[x]]

\* The answer sets the cookie; setSession sets the user, signed in or not.
setSession(t, r) ==
  /\ refresh[<< t, r >>].pc = "granted"
  /\ cookie' = refresh[<< t, r >>].got
  /\ taker' = [taker EXCEPT ![refresh[<< t, r >>].sid] = t]
  /\ user' = user \cup {t}
  /\ stale' = stale \ {t}
  /\ Settle(t, r)
  /\ UNCHANGED << sessions, issued, dropped, quit >>

clearSession(t) == user' = user \ {t} /\ stale' = stale \ {t}

Refuse(t, r) ==
  /\ refresh[<< t, r >>].pc = "refused"
  /\ dropped' = dropped \cup ({<< t, refresh[<< t, r >>].sid >>} \ {<< t, 0 >>})
  /\ clearSession(t)
  /\ Settle(t, r)
  /\ UNCHANGED << cookie, sessions, issued, taker, quit >>

\* Any other failure of the refresh signs out as well, handled or not.
Fail(t, r) ==
  /\ refresh[<< t, r >>].pc # "none"
  /\ clearSession(t)
  /\ Settle(t, r)
  /\ UNCHANGED << cookie, sessions, issued, taker, dropped, quit >>

-----------------------------------------------------------------------------
\* One sign-out at a time.  The tab posts logout with its token and the cookie.
SignOut(t) ==
  /\ t \in user /\ ~Leaving
  /\ quit' = [pc |-> "posted", tab |-> t, fresh |-> t \notin stale,
              sid |-> IF t \in stale THEN 0 ELSE cookie, alone |-> ~Posted]
  /\ UNCHANGED << user, stale, request, refreshing, refresh, cookie, sessions,
                  issued, taker, dropped >>

\* logout on the server.  It leaves alone a session of another user, who has signed
\* in from another tab.
logout ==
  /\ quit.pc = "posted" /\ quit.fresh
  /\ sessions' \in {sessions, sessions \ {quit.sid}}
  /\ quit' = [quit EXCEPT !.pc = "removed", !.sid = 0, !.fresh = FALSE]
  /\ UNCHANGED << user, stale, request, refreshing, refresh, cookie, issued, taker,
                  dropped >>

AnswerOtherPath ==                                                  \* mutant
  /\ quit.pc = "removed"
  /\ cookie' = cookie
  /\ quit' = IF quit.alone THEN Quit ELSE NoQuit
  /\ clearSession(quit.tab)
  /\ UNCHANGED << request, refreshing, refresh, sessions, issued, taker, dropped >>

\* The answer clears the cookie.
SignedOut ==
  /\ quit.pc = "removed"
  /\ cookie' = 0
  /\ quit' = IF quit.alone THEN Quit ELSE NoQuit
  /\ clearSession(quit.tab)
  /\ UNCHANGED << request, refreshing, refresh, sessions, issued, taker, dropped >>

\* No connection, an error of the server's, an answer that is lost; or a 401 for an
\* expired token, which is not renewed for a request to /auth/.  The tab takes no
\* notice and is signed out.
LogoutFails ==
  /\ Leaving
  /\ quit' = NoQuit
  /\ clearSession(quit.tab)
  /\ UNCHANGED << request, refreshing, refresh, cookie, sessions, issued, taker,
                  dropped >>

\* Another device, a password or an administrator ends the sessions.
Revoke ==
  /\ sessions # {}
  /\ sessions' = {}
  /\ UNCHANGED << user, stale, request, refreshing, refresh, cookie, issued,
                  taker, dropped, quit >>

Next ==
  \/ \E t \in Tabs : SignIn(t) \/ Expire(t) \/ SignOut(t)
  \/ \E t \in Tabs, r \in Slots :
       \/ Send(t, r) \/ Unauthorized(t, r) \/ refreshSession(t, r)
       \/ setSession(t, r) \/ Refuse(t, r) \/ Fail(t, r)
  \/ logout \/ SignedOut \/ LogoutFails \/ Revoke

Spec == Init /\ [][Next]_sessionVars

-----------------------------------------------------------------------------
TypeOK ==
  /\ user \subseteq Tabs /\ stale \subseteq user
  /\ request \in [Tabs \X Slots -> {"idle", "sent", "waiting"}]
  /\ refreshing \in [Tabs -> Slots \cup {None}]
  /\ refresh \in [Tabs \X Slots -> [pc : {"none", "posted", "granted", "refused"},
                                    sid : 0..MaxSessions, got : 0..MaxSessions]]
  /\ cookie \in 0..MaxSessions /\ sessions \subseteq 1..MaxSessions
  /\ issued \in 0..MaxSessions
  /\ taker \in [1..MaxSessions -> Tabs \cup {None}]
  /\ dropped \subseteq Tabs \X (1..MaxSessions)
  /\ quit \in {NoQuit, Quit}
              \cup [pc : {"posted", "removed"}, tab : Tabs, sid : 0..MaxSessions,
                    fresh : BOOLEAN, alone : BOOLEAN]

\* However many requests of a tab are refused at once and whenever their
\* refusals arrive, the tab is not signed out over a session that it has itself
\* renewed (only another tab's refresh does that).  A sign-out that the server has
\* answered leaves the browser without a valid session in its cookie, unless a
\* refresh was under way beside it.  Nothing is said of a sign-out that fails,
\* for want of a connection, by an error or because the token had expired: the tab
\* is signed out, and the session and the cookie are kept (api.js:20-41,
\* ProfileModal.jsx:53-58, authController.js:44-49).
SessionsEndForCause ==
  /\ \A d \in dropped : taker[d[2]] # d[1]
  /\ quit = Quit => cookie \notin sessions
=============================================================================
