---------------------------- MODULE OneTimeCodes ----------------------------
(***************************************************************************)
(* The six-digit codes of one email address (server/services/              *)
(* authService.js: register, issueOtp, startOtp, verifyOtp).  A code sets  *)
(* a password or confirms the address.  It is kept in the process          *)
(* (otpStore), or in Redis when there is one, with its number of attempts. *)
(*                                                                         *)
(* verifyOtp reads the entry, changes it and puts it back.  The process's  *)
(* own entry is one object, so there the three are one step; with Redis    *)
(* other handlers run between the GET and the SET.                         *)
(***************************************************************************)
EXTENDS Naturals

CONSTANTS
  Codes,        \* codes that may be drawn
  Checks,       \* slots for handlers in progress (bounds concurrency)
  MaxAttempts,  \* 5 in the code
  None          \* no entry, no code

AttemptsAssumption == MaxAttempts \in Nat \ {0} /\ None \notin Codes

VARIABLES
  store,      \* "memory": the process's own map; "mongo": Redis beside MongoDB
  accounts,   \* number of accounts with this address
  entry,      \* the stored entry, or None
  drawn,      \* codes drawn so far
  sent,       \* codes the owner has received
  expired,    \* codes older than ten minutes
  dead,       \* codes that were used up, replaced or taken back
  guesses,    \* [Codes -> guesses that were compared with the code]
  check       \* the handlers in progress

codeVars == << store, accounts, entry, drawn, sent, expired, dead,
               guesses, check >>

Entries == [code : Codes, attempts : 0..(MaxAttempts + 1)]
Waiting == [pc |-> "idle", code |-> None, seen |-> None]

At(c, pc) == check[c].pc = pc
Become(c, pc, code, seen) ==
  check' = [check EXCEPT ![c] = [pc |-> pc, code |-> code, seen |-> seen]]

\* Attempts beyond the limit are not told apart.
Tried(e) == [e EXCEPT !.attempts = IF @ > MaxAttempts THEN @ ELSE @ + 1]

Init ==
  /\ store \in {"memory", "mongo"}
  /\ accounts = 0
  /\ entry = None
  /\ drawn = {}
  /\ sent = {}
  /\ expired = {}
  /\ dead = {}
  /\ guesses = [k \in Codes |-> 0]
  /\ check = [c \in Checks |-> Waiting]

-----------------------------------------------------------------------------
\* issueOtp puts a new code in the place of the last one, and sends it.
Draw(c, k, pc) ==
  /\ At(c, "idle")
  /\ k \notin drawn
  /\ drawn' = drawn \cup {k}
  /\ dead' = IF entry = None THEN dead ELSE dead \cup {entry.code}
  /\ entry' = [code |-> k, attempts |-> 0]
  /\ Become(c, pc, k, None)
  /\ UNCHANGED << store, accounts, sent, guesses, expired >>

\* register draws a code when it finds no account, startOtp and
\* sendVerificationOtp when they find one.
Register(c, k) == accounts = 0 /\ Draw(c, k, "registering")
Issue(c, k)    == accounts > 0 /\ Draw(c, k, "mailing")

\* The mail is out: register goes on to hash the password.
Mailed(c) ==
  /\ check[c].pc \in {"mailing", "registering"}
  /\ sent' = sent \cup {check[c].code}
  /\ IF At(c, "mailing") THEN check' = [check EXCEPT ![c] = Waiting]
                         ELSE Become(c, "creating", None, None)
  /\ UNCHANGED << store, accounts, entry, drawn, dead, guesses, expired >>

\* The mail cannot be sent: the entry is deleted, whosever it is.
MailFails(c) ==
  /\ check[c].pc \in {"mailing", "registering"}
  /\ check' = [check EXCEPT ![c] = Waiting]
  /\ entry' = None
  /\ dead' = IF entry = None THEN dead ELSE dead \cup {entry.code}
  /\ UNCHANGED << store, accounts, drawn, sent, guesses, expired >>

\* createUser: over MongoDB the unique index refuses a second account.
CreateUser(c) ==
  /\ At(c, "creating")
  /\ accounts' = IF store = "mongo" /\ accounts > 0 THEN accounts
                                                    ELSE accounts + 1
  /\ check' = [check EXCEPT ![c] = Waiting]
  /\ UNCHANGED << store, entry, drawn, sent, dead, guesses, expired >>

-----------------------------------------------------------------------------
Guess(c, right) ==
  /\ At(c, "idle")
  /\ entry # None
  /\ entry.code \notin expired
  /\ right => entry.code \in sent

\* Nor are guesses beyond it: with Redis there may be any number.
Compared(e) == IF e.attempts <= MaxAttempts /\ guesses[e.code] <= MaxAttempts
                 THEN [guesses EXCEPT ![e.code] = @ + 1] ELSE guesses

WrongForgotten(c) ==                                                \* mutant
  /\ Guess(c, FALSE)
  /\ guesses' = Compared(Tried(entry))
  /\ IF store = "memory" THEN UNCHANGED << entry, check >>
       ELSE UNCHANGED entry /\ Become(c, "puttingBack", None, Tried(entry))
  /\ UNCHANGED << store, accounts, drawn, sent, dead, expired >>

\* A wrong guess, or one too many, puts the entry back with its new count.
Wrong(c) ==
  /\ Guess(c, FALSE)
  /\ guesses' = Compared(Tried(entry))
  /\ IF store = "memory" THEN entry' = Tried(entry) /\ UNCHANGED check
       ELSE UNCHANGED entry /\ Become(c, "puttingBack", None, Tried(entry))
  /\ UNCHANGED << store, accounts, drawn, sent, dead, expired >>

PutBack(c) ==
  /\ At(c, "puttingBack")
  /\ entry' = check[c].seen
  /\ check' = [check EXCEPT ![c] = Waiting]
  /\ UNCHANGED << store, accounts, drawn, sent, dead, guesses, expired >>

\* The right code, in time: the count goes up in the process's own entry only.
Right(c) ==
  /\ Guess(c, TRUE)
  /\ accounts > 0
  /\ Tried(entry).attempts <= MaxAttempts
  /\ guesses' = Compared(Tried(entry))
  /\ entry' = IF store = "memory" THEN Tried(entry) ELSE entry
  /\ Become(c, "applying", entry.code, None)
  /\ UNCHANGED << store, accounts, drawn, sent, dead, expired >>

\* A new password that is too short or too long leaves the code as it is.
BadPassword(c) ==
  /\ At(c, "applying")
  /\ check' = [check EXCEPT ![c] = Waiting]
  /\ UNCHANGED << store, accounts, entry, drawn, sent, dead, guesses, expired >>

KeepUsed(c) ==                                                      \* mutant
  /\ At(c, "applying")
  /\ dead' = dead \cup {check[c].code}
  /\ check' = [check EXCEPT ![c] = Waiting]
  /\ UNCHANGED << store, accounts, entry, drawn, sent, guesses, expired >>

\* The password is stored and the sessions revoked, or the address confirmed;
\* then the entry is deleted, whosever it is.
UseUp(c) ==
  /\ At(c, "applying")
  /\ entry' = None
  /\ dead' = dead \cup {check[c].code}
                  \cup (IF entry = None THEN {} ELSE {entry.code})
  /\ check' = [check EXCEPT ![c] = Waiting]
  /\ UNCHANGED << store, accounts, drawn, sent, guesses, expired >>

\* Ten minutes later.
Expire(k) ==
  /\ k \in drawn \ expired
  /\ expired' = expired \cup {k}
  /\ UNCHANGED << store, accounts, entry, drawn, sent, dead, guesses, check >>

Next ==
  \/ \E c \in Checks, k \in Codes : Register(c, k) \/ Issue(c, k)
  \/ \E c \in Checks :
       \/ Mailed(c) \/ MailFails(c) \/ CreateUser(c)
       \/ Wrong(c) \/ PutBack(c) \/ Right(c) \/ BadPassword(c) \/ UseUp(c)
  \/ \E k \in Codes : Expire(k)

Spec == Init /\ [][Next]_codeVars

-----------------------------------------------------------------------------
TypeOK ==
  /\ store \in {"memory", "mongo"}
  /\ accounts \in Nat
  /\ entry \in Entries \cup {None}
  /\ drawn \subseteq Codes /\ sent \subseteq Codes
  /\ expired \subseteq Codes /\ dead \subseteq Codes
  /\ guesses \in [Codes -> 0..(MaxAttempts + 1)]
  /\ check \in [Checks ->
       [pc : {"idle", "mailing", "registering", "creating", "puttingBack",
              "applying"},
        code : Codes \cup {None}, seen : Entries \cup {None}]]

\* Without Redis a code that was used or replaced is never valid again, and at
\* most five guesses are ever compared with one, whatever handlers were in
\* progress (verifyOtp, authService.js:317-351).
CodesAreSpent ==
  store = "memory" => /\ entry # None => entry.code \notin dead
                      /\ \A k \in Codes : guesses[k] <= MaxAttempts
=============================================================================
