------------------------------ MODULE Uploads ------------------------------
(***************************************************************************)
(* Uploaded files of one owner: a file on disk, its record, the quota, the *)
(* messages, stories and avatars that use it, and the clean-up script that *)
(* removes files nobody uses (server/controllers/miscController.js,        *)
(* services/dataService.js, services/mongoDataService.js).                 *)
(*                                                                         *)
(* Reading, converting and removing files takes time in either store; the  *)
(* rest of a request does over MongoDB only.  A request carries one file   *)
(* of size one.                                                            *)
(***************************************************************************)
EXTENDS Naturals, FiniteSets, SequencesExt

CONSTANTS
  Files,   \* names multer may draw
  Jobs,    \* slots for uploads and uses in progress (bounds concurrency)
  Quota,   \* USER_UPLOAD_QUOTA_BYTES, in files
  Limit,   \* the clean-up's limit
  None     \* no file

UploadAssumption ==
  /\ Quota \in Nat /\ Limit \in Nat \ {0} /\ None \notin Files
  /\ IsFiniteSet(Jobs) /\ Jobs # {}

VARIABLES
  store,   \* "memory" or "mongo"
  disk,    \* files in the upload directory
  shelf,   \* active records, oldest first
  old,     \* records older than the clean-up's grace
  used,    \* files a message, story or avatar links to
  job,     \* the requests in progress
  sweep,   \* the clean-up in progress
  late,    \* files claimed while the clean-up had already decided on them
  unaudited \* files unlinked because the audit entry failed

uploadVars == << store, disk, shelf, old, used, job, sweep, late, unaudited >>

Active == Range(shelf)
Orphans == {f \in Active \cap old : f \notin used}

NoJob   == [pc |-> "idle", file |-> None]
NoSweep == [todo |-> {}, at |-> None, pc |-> "idle"]

At(j, pc)      == job[j].pc = pc
Goto(j, pc, f) == job' = [job EXCEPT ![j] = [pc |-> pc, file |-> f]]
Done(j)        == job' = [job EXCEPT ![j] = NoJob]

Init ==
  /\ store \in {"memory", "mongo"}
  /\ disk = {}
  /\ shelf = << >>
  /\ old = {}
  /\ used = {}
  /\ job = [j \in Jobs |-> NoJob]
  /\ sweep = NoSweep
  /\ late = {}
  /\ unaudited = {}

-----------------------------------------------------------------------------
\* multer has written the file before the request is handled.
Receive(j, f) ==
  /\ At(j, "idle")
  /\ f \notin disk \cup Active \cup old
  /\ disk' = disk \cup {f}
  /\ Goto(j, "quota", f)
  /\ UNCHANGED << store, shelf, old, used, sweep, late, unaudited >>

RefuseKeepingFile(j) ==                                             \* mutant
  /\ At(j, "quota") \/ At(j, "storing")
  /\ Done(j)
  /\ UNCHANGED << store, disk, shelf, old, used, sweep, late, unaudited >>

\* An error at any stage before the record is stored unlinks the file.
Refuse(j) ==
  /\ At(j, "quota") \/ At(j, "storing")
  /\ disk' = disk \ {job[j].file}
  /\ Done(j)
  /\ UNCHANGED << store, shelf, old, used, sweep, late, unaudited >>

\* assertUploadQuota adds up the active records; the file is then checked and
\* perhaps converted.
WithinQuota(j) ==
  /\ At(j, "quota")
  /\ Len(shelf) + 1 <= Quota
  /\ Goto(j, "storing", job[j].file)
  /\ UNCHANGED << store, disk, shelf, old, used, sweep, late, unaudited >>

Register(j) ==
  /\ At(j, "storing")
  /\ shelf' = Append(shelf, job[j].file)
  /\ IF store = "mongo" THEN Goto(j, "auditing", job[j].file) ELSE Done(j)
  /\ UNCHANGED << store, disk, old, used, sweep, late, unaudited >>

\* Over MongoDB the audit entry may fail: the files go, the records stay.
Audited(j) ==
  /\ At(j, "auditing")
  /\ Done(j)
  /\ UNCHANGED << store, disk, shelf, old, used, sweep, late, unaudited >>
AuditFails(j) ==
  /\ At(j, "auditing")
  /\ disk' = disk \ {job[j].file}
  /\ unaudited' = unaudited \cup {job[j].file}
  /\ Done(j)
  /\ UNCHANGED << store, shelf, old, used, sweep, late >>

-----------------------------------------------------------------------------
\* The clean-up has decided to remove file f, or has removed it.
Doomed(f) == \/ f \notin Active
             \/ sweep.at = f /\ sweep.pc \in {"remove", "mark"}
             \/ store = "memory" /\ f \in sweep.todo

\* A message claims an attachment, a story or profile takes its picture: the
\* record is looked up, then the link is stored.
Claim(f) ==
  /\ used' = used \cup {f}
  /\ late' = IF Doomed(f) THEN late \cup {f} ELSE late

Use(j, f) ==
  /\ At(j, "idle")
  /\ f \in Active
  /\ IF store = "memory"
       THEN Claim(f) /\ UNCHANGED job
       ELSE Goto(j, "using", f) /\ UNCHANGED << used, late >>
  /\ UNCHANGED << store, disk, shelf, old, sweep, unaudited >>

StoreUse(j) ==
  /\ At(j, "using")
  /\ Claim(job[j].file)
  /\ Done(j)
  /\ UNCHANGED << store, disk, shelf, old, sweep, unaudited >>

\* A story is deleted or expires, a picture is replaced, a group is removed.
Release(f) ==
  /\ f \in used
  /\ used' = used \ {f}
  /\ UNCHANGED << store, disk, shelf, old, job, sweep, late, unaudited >>

Age(f) ==
  /\ f \in Active \ old
  /\ old' = old \cup {f}
  /\ UNCHANGED << store, disk, shelf, used, job, sweep, late, unaudited >>

-----------------------------------------------------------------------------
\* The records of s that are older than f's, and the n oldest of s.
Place(f)      == CHOOSE i \in DOMAIN shelf : shelf[i] = f
Older(f, s)   == {g \in s : Place(g) < Place(f)}
FirstOf(s, n) == {f \in s : Cardinality(Older(f, s)) < n}

\* cleanupOrphanUploads: the first candidates.  Over MongoDB they include
\* records that are used, which take up the limit.
StartSweep ==
  /\ sweep.pc = "idle"
  /\ sweep' = [todo |-> FirstOf(IF store = "memory" THEN Orphans ELSE Active \cap old, Limit),
               at |-> None, pc |-> "next"]
  /\ UNCHANGED << store, disk, shelf, old, used, job, late, unaudited >>

\* The oldest candidate is next.
Take(f, pc) ==
  /\ sweep.pc = "next" /\ f \in sweep.todo /\ Older(f, sweep.todo) = {}
  /\ sweep' = [todo |-> sweep.todo \ {f}, at |-> f, pc |-> pc]
  /\ UNCHANGED << store, disk, shelf, old, used, job, late, unaudited >>

RemoveWithoutLook(f) == Take(f, "remove")                           \* mutant

\* Over MongoDB each is looked up once more, and skipped when it is used.
Look(f) == Take(f, IF store = "mongo" /\ f \in used THEN "next" ELSE "remove")

\* The file goes first, then the record is marked deleted.
Unlink ==
  /\ sweep.pc = "remove"
  /\ disk' = disk \ {sweep.at}
  /\ sweep' = [sweep EXCEPT !.pc = "mark"]
  /\ UNCHANGED << store, shelf, old, used, job, late, unaudited >>

Mark ==
  /\ sweep.pc = "mark"
  /\ \E i \in DOMAIN shelf : shelf[i] = sweep.at /\ shelf' = RemoveAt(shelf, i)
  /\ sweep' = [sweep EXCEPT !.pc = "next"]
  /\ UNCHANGED << store, disk, old, used, job, late, unaudited >>

EndSweep ==
  /\ sweep.pc = "next" /\ sweep.todo = {}
  /\ sweep' = NoSweep
  /\ UNCHANGED << store, disk, shelf, old, used, job, late, unaudited >>

Next ==
  \/ \E j \in Jobs :
       \/ Refuse(j) \/ WithinQuota(j) \/ Register(j) \/ Audited(j)
       \/ AuditFails(j) \/ StoreUse(j)
       \/ \E f \in Files : Receive(j, f) \/ Use(j, f)
  \/ \E f \in Files : Release(f) \/ Age(f) \/ Look(f)
  \/ StartSweep \/ Unlink \/ Mark \/ EndSweep

Spec == Init /\ [][Next]_uploadVars

-----------------------------------------------------------------------------
TypeOK ==
  /\ store \in {"memory", "mongo"}
  /\ disk \subseteq Files /\ old \subseteq Files /\ used \subseteq Files
  /\ late \subseteq Files /\ unaudited \subseteq Files
  /\ shelf \in Seq(Files)
  /\ job \in [Jobs -> [pc : {"idle", "quota", "storing", "auditing", "using"},
                       file : Files \cup {None}]]
  /\ sweep \in [todo : SUBSET Files, at : Files \cup {None},
                pc : {"idle", "next", "remove", "mark"}]

\* Every file on disk has an active record or an upload that will store one or
\* unlink it; a link is dead only if it was made while the clean-up was
\* removing its file or the audit entry of its upload had failed; and uploads
\* that pass the quota together exceed it by no more files than there are
\* requests beside the last (miscController.js:22-71, mongoDataService.js:
\* 315-320, 386-401).
FilesMatchRecords ==
  /\ \A f \in disk : f \in Active \/ \E j \in Jobs : job[j].file = f
  /\ used \subseteq disk \cup late \cup unaudited
  /\ Len(shelf) < Quota + Cardinality(Jobs)
=============================================================================
