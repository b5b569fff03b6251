------------------------------- MODULE Reports -------------------------------
(***************************************************************************)
(* The reports one user files about one item, and the statuses the         *)
(* administrators give them (server/services/dataService.js,               *)
(* mongoDataService.js, controllers/moderationController.js).  The entry   *)
(* in the audit log, written last, is left out.                            *)
(***************************************************************************)
EXTENDS Naturals, FiniteSets

CONSTANTS
  Reports,   \* ids of reports (bounds how many are filed)
  Filings    \* slots for requests in progress (bounds concurrency)

VARIABLES
  store,     \* "memory" or "mongo"
  status,    \* [Reports -> the stored status, or "none"]
  resolved,  \* reports that carry the administrator who closed them
  reopened,  \* reports an administrator has opened again
  filing     \* filings that have passed the check and have yet to store

reportVars == << store, status, resolved, reopened, filing >>

OpenStatuses == {"open", "in_review"}
Open         == {r \in Reports : status[r] \in OpenStatuses}

Init ==
  /\ store \in {"memory", "mongo"}
  /\ status = [r \in Reports |-> "none"]
  /\ resolved = {}
  /\ reopened = {}
  /\ filing = {}

\* The partial unique index of the collection: one open report per reporter
\* and item.  The memory store has none.
Admits(r) == store = "mongo" => Open \subseteq {r}

StoreBesideReview(r) ==                                             \* mutant
  /\ status[r] = "none"
  /\ \A o \in Open \ {r} : status[o] = "in_review"
  /\ status' = [status EXCEPT ![r] = "open"]

Store(r) ==
  /\ status[r] = "none"
  /\ Admits(r)
  /\ status' = [status EXCEPT ![r] = "open"]

\* createReport: the check, and over the memory store the report at once.
File(f, r) ==
  /\ f \notin filing
  /\ Open = {}
  /\ IF store = "memory" THEN Store(r) /\ UNCHANGED filing
                         ELSE filing' = filing \cup {f} /\ UNCHANGED status
  /\ UNCHANGED << store, resolved, reopened >>

\* Over MongoDB the insertion is a step of its own; the index may refuse it.
Insert(f, r) ==
  /\ f \in filing
  /\ Store(r)
  /\ filing' = filing \ {f}
  /\ UNCHANGED << store, resolved, reopened >>

RefuseInsert(f) ==
  /\ f \in filing
  /\ \E r \in Reports : ~Admits(r) /\ status[r] = "none"
  /\ filing' = filing \ {f}
  /\ UNCHANGED << store, status, resolved, reopened >>

\* updateReportStatus and resolve: any status from any other.
Update(r, to) ==
  /\ status[r] # "none"
  /\ to \in OpenStatuses => Admits(r)
  /\ status' = [status EXCEPT ![r] = to]
  /\ resolved' = IF to \in OpenStatuses THEN resolved \ {r} ELSE resolved \cup {r}
  /\ reopened' = IF to \in OpenStatuses /\ r \notin Open THEN reopened \cup {r}
                                                         ELSE reopened
  /\ UNCHANGED << store, filing >>

Next ==
  \/ \E f \in Filings : RefuseInsert(f) \/ \E r \in Reports : File(f, r) \/ Insert(f, r)
  \/ \E r \in Reports, to \in OpenStatuses \cup {"resolved", "dismissed"} : Update(r, to)

Spec == Init /\ [][Next]_reportVars

-----------------------------------------------------------------------------
TypeOK ==
  /\ store \in {"memory", "mongo"}
  /\ status \in [Reports -> {"none", "resolved", "dismissed"} \cup OpenStatuses]
  /\ resolved \subseteq Reports /\ reopened \subseteq Reports
  /\ filing \subseteq Filings

\* However many requests file at once, one report of the item is open, under
\* review included; over the memory store only an administrator who opens an
\* earlier one again makes it two (dataService.js:1084-1087,
\* mongoDataService.js:866-879, models/Report.js:21-24).
OneOpenReport ==
  Cardinality(IF store = "memory" THEN Open \ reopened ELSE Open) <= 1
=============================================================================
