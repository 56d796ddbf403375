------------------------------ MODULE SourceIntake ------------------------------
(***************************************************************************)
(* How an uploaded PDF becomes a dictionary with pages, and how it leaves:  *)
(* UploadDictionaryService and DeleteDictionaryService in the API,          *)
(* the Celery tasks inspect_dictionary_source and split_dictionary_pages    *)
(* with the services that record their results, and the backfill command.   *)
(*                                                                          *)
(* Three stores that share no transaction take part: PostgreSQL, the object *)
(* store and the task queue.  Every unit of work, object-store call and     *)
(* message is a step of its own; what may fail spends one of MaxFaults.     *)
(*                                                                          *)
(* All the uploads modelled are of the same PDF by the same owner, the case *)
(* the duplicate check is for; each has a dictionary and storage keys of    *)
(* its own, made from fresh UUIDs.                                          *)
(***************************************************************************)
EXTENDS Naturals

CONSTANTS
  Files,       \* uploads of the PDF: the source file each would create
  Workers,     \* Celery worker processes
  PageCount,   \* pages of the PDF
  MaxQueued,   \* bound: copies of one message waiting in the queue
  MaxFaults    \* bound: failures in one behaviour

ASSUME IntakeAssumption ==
  /\ PageCount \in Nat \ {0}
  /\ MaxQueued \in Nat
  /\ MaxFaults \in Nat

VARIABLES
  upload,      \* how far the upload request has come
  row,         \* the dictionary's row and its source file's
  object,      \* the PDF is in the object store
  images,      \* the page images in the object store
  inspection,  \* dictionary_source_files.inspection_status
  pages,       \* dictionary_source_files.pages_status
  pageRows,    \* dictionary_pages has the rows of this file
  work,        \* lexemes, and their entries, were made on those pages
  queue,       \* messages waiting, by task name and file
  task,        \* what each worker process is doing
  listed,      \* files a running backfill has still to enqueue
  cleanup,     \* the object-store part of a deletion
  faults       \* failures so far

database == <<row, inspection, pages, pageRows, work>>
storage == <<object, images>>
vars == <<upload, database, storage, queue, task, listed, cleanup, faults>>

TaskNames == {"inspect_source", "split_pages"}

Running == {"inspect", "counted", "unreadable", "enqueue",
            "split", "rendering", "recording", "unrendered"}

Idle == [at |-> "idle"]

Task == {Idle} \union
        [at : Running, file : Files, next : 1..(PageCount + 1)]

Start(place, f) == [at |-> place, file |-> f, next |-> 1]

(* The step of worker w that comes next, or the end of its task. *)
Go(w, place) == task' = [task EXCEPT ![w] = [@ EXCEPT !.at = place]]

Finish(w) == task' = [task EXCEPT ![w] = Idle]

(* Both tasks end at once when the row of their file is gone. *)
Begin(w, place, f) ==
  /\ task[w] = Idle
  /\ task' = [task EXCEPT ![w] = IF row[f] = "stored" THEN Start(place, f) ELSE Idle]

Init ==
  /\ upload = [f \in Files |-> "idle"]
  /\ row = [f \in Files |-> "none"]
  /\ object = [f \in Files |-> FALSE]
  /\ images = [f \in Files |-> {}]
  /\ inspection = [f \in Files |-> "pending"]
  /\ pages = [f \in Files |-> "pending"]
  /\ pageRows = [f \in Files |-> FALSE]
  /\ work = [f \in Files |-> FALSE]
  /\ queue = [n \in TaskNames |-> [f \in Files |-> 0]]
  /\ task = [w \in Workers |-> Idle]
  /\ listed = {}
  /\ cleanup = [f \in Files |-> "none"]
  /\ faults = 0

Fault == faults < MaxFaults /\ faults' = faults + 1

(* `self.x_status is XStatus.MEMBER` of a loaded row: the columns are       *)
(* String, so the attribute is a str equal to the member and never the      *)
(* member itself.  A status set in this unit of work would be, and none of  *)
(* the guards below reads one.                                              *)
IsMember(status, member) == FALSE

(* The broker accepts every message; MaxQueued copies stand for any more. *)
Send(n, f) ==
  queue' = [queue EXCEPT ![n][f] = IF @ < MaxQueued THEN @ + 1 ELSE @]

(* Celery acknowledges a message before it runs the task. *)
Receive(n, f) ==
  /\ queue[n][f] > 0
  /\ queue' = [queue EXCEPT ![n][f] = @ - 1]

--------------------------------------------------------------------------------
(* UploadDictionaryService.upload *)

(* find_duplicate_source: the owner has a dictionary of this checksum. *)
Duplicate == \E g \in Files : row[g] = "stored"

CheckUpload(f) ==
  /\ upload[f] = "idle"
  /\ upload' = [upload EXCEPT ![f] = IF Duplicate THEN "refused" ELSE "checked"]
  /\ UNCHANGED <<database, storage, queue, task, listed, cleanup, faults>>

StoreUpload(f) ==
  /\ upload[f] = "checked"
  /\ upload' = [upload EXCEPT ![f] = "stored"]
  /\ object' = [object EXCEPT ![f] = TRUE]
  /\ UNCHANGED <<database, images, queue, task, listed, cleanup, faults>>

RefuseUpload(f) ==
  /\ upload' = [upload EXCEPT ![f] = "refused"]
  /\ object' = [object EXCEPT ![f] = FALSE]

(* The second duplicate check opens the unit of work that inserts. *)
RecheckUpload(f) ==
  /\ upload[f] = "stored"
  /\ IF Duplicate
       THEN RefuseUpload(f)
       ELSE upload' = [upload EXCEPT ![f] = "unique"] /\ UNCHANGED object
  /\ UNCHANGED <<database, images, queue, task, listed, cleanup, faults>>

CommitUpload(f) ==
  /\ upload[f] = "unique"
  /\ \/ /\ upload' = [upload EXCEPT ![f] = "committed"]
        /\ row' = [row EXCEPT ![f] = "stored"]
        /\ UNCHANGED <<object, faults>>
     \/ /\ Fault
        /\ RefuseUpload(f)
        /\ UNCHANGED row
  /\ UNCHANGED <<inspection, pages, pageRows, work, images, queue, task, listed, cleanup>>

(* An unreachable queue is logged and the upload still succeeds. *)
EnqueueInspection(f) ==
  /\ upload[f] = "committed"
  /\ upload' = [upload EXCEPT ![f] = "done"]
  /\ \/ Send("inspect_source", f) /\ UNCHANGED faults
     \/ Fault /\ UNCHANGED queue
  /\ UNCHANGED <<database, storage, task, listed, cleanup>>

UploadDies(f) ==
  /\ upload[f] \in {"checked", "stored", "unique", "committed"}
  /\ Fault
  /\ upload' = [upload EXCEPT ![f] = "crashed"]
  /\ UNCHANGED <<database, storage, queue, task, listed, cleanup>>

--------------------------------------------------------------------------------
(* inspect_dictionary_source *)

TakeInspection(w, f) ==
  /\ Receive("inspect_source", f)
  /\ Begin(w, "inspect", f)
  /\ UNCHANGED <<upload, database, storage, listed, cleanup, faults>>

(* The download misses the object, or the parse fails or runs out of time. *)
Inspect(w) ==
  /\ task[w].at = "inspect"
  /\ \/ /\ object[task[w].file]
        /\ Go(w, "counted")
        /\ UNCHANGED faults
     \/ /\ IF object[task[w].file] THEN Fault ELSE UNCHANGED faults
        /\ Go(w, "unreadable")
  /\ UNCHANGED <<upload, database, storage, queue, listed, cleanup>>

Inspected(f, result) ==
  IF row[f] # "stored" \/ IsMember(inspection[f], "verified")
    THEN UNCHANGED inspection
    ELSE inspection' = [inspection EXCEPT ![f] = result]

(* CompleteSourceInspectionService.complete *)
CompleteInspection(w) ==
  /\ \/ /\ task[w].at = "counted"
        /\ Inspected(task[w].file, "verified")
        /\ Go(w, "enqueue")
     \/ /\ task[w].at = "unreadable"
        /\ Inspected(task[w].file, "failed")
        /\ Finish(w)
  /\ UNCHANGED <<upload, row, pages, pageRows, work, storage, queue, listed, cleanup, faults>>

EnqueueNoSplit(w) ==
  /\ task[w].at = "enqueue"
  /\ Finish(w)
  /\ UNCHANGED <<upload, database, storage, queue, listed, cleanup, faults>>

EnqueueSplit(w) ==
  /\ task[w].at = "enqueue"
  /\ \/ Send("split_pages", task[w].file) /\ UNCHANGED faults
     \/ Fault /\ UNCHANGED queue
  /\ Finish(w)
  /\ UNCHANGED <<upload, database, storage, listed, cleanup>>

--------------------------------------------------------------------------------
(* split_dictionary_pages *)

TakeSplit(w, f) ==
  /\ Receive("split_pages", f)
  /\ Begin(w, "split", f)
  /\ UNCHANGED <<upload, database, storage, listed, cleanup, faults>>

DownloadSkippingFirst(w) ==
  /\ task[w].at = "split"
  /\ task' = [task EXCEPT ![w] = [@ EXCEPT !.at = "rendering", !.next = 2]]
  /\ UNCHANGED <<upload, database, storage, queue, listed, cleanup, faults>>

Download(w) ==
  /\ task[w].at = "split"
  /\ Go(w, IF object[task[w].file] THEN "rendering" ELSE "unrendered")
  /\ UNCHANGED <<upload, database, storage, queue, listed, cleanup, faults>>

(* Each image goes to the key of its page, over an earlier one. *)
RenderPage(w) ==
  /\ task[w].at = "rendering"
  /\ task[w].next <= PageCount
  /\ \/ /\ images' = [images EXCEPT ![task[w].file] = @ \union {task[w].next}]
        /\ task' = [task EXCEPT ![w] = [task[w] EXCEPT !.next = @ + 1]]
        /\ UNCHANGED faults
     \/ /\ Fault
        /\ Go(w, "unrendered")
        /\ UNCHANGED images
  /\ UNCHANGED <<upload, database, object, queue, listed, cleanup>>

(* record_success, its load: nothing more is done for a row that is gone. *)
RecordLoad(w) ==
  /\ task[w].at = "rendering"
  /\ task[w].next > PageCount
  /\ IF row[task[w].file] = "stored" THEN Go(w, "recording") ELSE Finish(w)
  /\ UNCHANGED <<upload, database, storage, queue, listed, cleanup, faults>>

(* MUTANT of RecordCommit: no foreign key ties a page to its source file. *)
RecordCommitUnchecked(w) ==
  LET f == task[w].file IN
  /\ task[w].at = "recording"
  /\ pageRows' = [pageRows EXCEPT ![f] = TRUE]
  /\ work' = [work EXCEPT ![f] = FALSE]
  /\ pages' = [pages EXCEPT ![f] = "completed"]
  /\ Finish(w)
  /\ UNCHANGED <<upload, row, inspection, storage, queue, listed, cleanup, faults>>

(* record_success, its commit.  replace_pages deletes the rows, and by the  *)
(* foreign keys every lexeme and entry made on them, before it inserts the  *)
(* new ones; where the dictionary was deleted since the load, the pages     *)
(* refer to nothing and the transaction fails.  Of two recordings that      *)
(* overlap the later fails on the unique page index: its task ends as in    *)
(* TaskDies.                                                                *)
RecordCommit(w) ==
  LET f == task[w].file IN
  /\ task[w].at = "recording"
  /\ IF row[f] = "stored"
       THEN /\ pageRows' = [pageRows EXCEPT ![f] = TRUE]
            /\ work' = [work EXCEPT ![f] = FALSE]
            /\ pages' = [pages EXCEPT ![f] = "completed"]
       ELSE UNCHANGED <<pageRows, work, pages>>
  /\ Finish(w)
  /\ UNCHANGED <<upload, row, inspection, storage, queue, listed, cleanup, faults>>

RecordFailure(w) ==
  LET f == task[w].file IN
  /\ task[w].at = "unrendered"
  /\ IF row[f] # "stored" \/ IsMember(pages[f], "completed")
       THEN UNCHANGED pages
       ELSE pages' = [pages EXCEPT ![f] = "failed"]
  /\ Finish(w)
  /\ UNCHANGED <<upload, row, inspection, pageRows, work, storage, queue, listed, cleanup, faults>>

(* The process dies or the task raises: its message was acknowledged. *)
TaskDies(w) ==
  /\ task[w] # Idle
  /\ Fault
  /\ Finish(w)
  /\ UNCHANGED <<upload, database, storage, queue, listed, cleanup>>

(* A message a busy worker held unacknowledged past the broker's visibility *)
(* timeout is delivered once more.                                          *)
Redeliver(w) ==
  /\ task[w] # Idle
  /\ Fault
  /\ Send(IF task[w].at \in {"split", "rendering", "recording", "unrendered"}
            THEN "split_pages" ELSE "inspect_source", task[w].file)
  /\ UNCHANGED <<upload, database, storage, task, listed, cleanup>>

--------------------------------------------------------------------------------
(* The backfill command, the editors' work, and DeleteDictionaryService. *)

BackfillList ==
  /\ listed = {}
  /\ listed' = {f \in Files : /\ row[f] = "stored"
                              /\ inspection[f] = "verified"
                              /\ pages[f] # "completed"}
  /\ UNCHANGED <<upload, database, storage, queue, task, cleanup, faults>>

BackfillEnqueue(f) ==
  /\ f \in listed
  /\ \/ /\ Send("split_pages", f)
        /\ listed' = listed \ {f}
        /\ UNCHANGED faults
     \/ /\ Fault
        /\ listed' = {}
        /\ UNCHANGED queue
  /\ UNCHANGED <<upload, database, storage, task, cleanup>>

CreateWork(f) ==
  /\ pageRows[f]
  /\ work' = [work EXCEPT ![f] = TRUE]
  /\ UNCHANGED <<upload, row, inspection, pages, pageRows, storage, queue, task,
                 listed, cleanup, faults>>

DeleteObjectFirst(f) ==
  /\ row[f] = "stored"
  /\ object' = [object EXCEPT ![f] = FALSE]
  /\ UNCHANGED <<upload, database, images, queue, task, listed, cleanup, faults>>

(* The row goes first and takes its children along. *)
DeleteRow(f) ==
  /\ row[f] = "stored"
  /\ row' = [row EXCEPT ![f] = "deleted"]
  /\ pageRows' = [pageRows EXCEPT ![f] = FALSE]
  /\ work' = [work EXCEPT ![f] = FALSE]
  /\ cleanup' = [cleanup EXCEPT ![f] = "object"]
  /\ UNCHANGED <<upload, inspection, pages, storage, queue, task, listed, faults>>

(* object_storage.delete, then delete_prefix; a failure of either is logged. *)
CleanUp(f) ==
  /\ \/ /\ cleanup[f] = "object"
        /\ object' = [object EXCEPT ![f] = FALSE]
        /\ cleanup' = [cleanup EXCEPT ![f] = "pages"]
        /\ UNCHANGED <<images, faults>>
     \/ /\ cleanup[f] = "pages"
        /\ images' = [images EXCEPT ![f] = {}]
        /\ cleanup' = [cleanup EXCEPT ![f] = "done"]
        /\ UNCHANGED <<object, faults>>
     \/ /\ cleanup[f] \in {"object", "pages"}
        /\ Fault
        /\ cleanup' = [cleanup EXCEPT ![f] = "failed"]
        /\ UNCHANGED storage
  /\ UNCHANGED <<upload, database, queue, task, listed>>

--------------------------------------------------------------------------------
UploadStep(f) ==
  \/ CheckUpload(f) \/ StoreUpload(f) \/ RecheckUpload(f) \/ CommitUpload(f)
  \/ EnqueueInspection(f)

TaskStep(w) ==
  \/ Inspect(w) \/ CompleteInspection(w) \/ EnqueueSplit(w)
  \/ Download(w) \/ RenderPage(w)
  \/ RecordLoad(w) \/ RecordCommit(w) \/ RecordFailure(w)

Take(w) == \E f \in Files : TakeInspection(w, f) \/ TakeSplit(w, f)

Next ==
  \/ \E f \in Files : UploadStep(f) \/ UploadDies(f)
  \/ \E w \in Workers : Take(w) \/ TaskStep(w) \/ TaskDies(w) \/ Redeliver(w)
  \/ BackfillList
  \/ \E f \in Files : BackfillEnqueue(f) \/ CreateWork(f) \/ DeleteRow(f) \/ CleanUp(f)

Spec == Init /\ [][Next]_vars

(* A request that was accepted runs to its end, and a worker process takes  *)
(* messages and runs tasks.  Nobody has to upload, delete or run backfill.  *)
FairSpec ==
  /\ Spec
  /\ \A f \in Files : WF_vars(upload[f] # "idle" /\ UploadStep(f))
  /\ \A w \in Workers : WF_vars(TaskStep(w)) /\ WF_vars(Take(w))

--------------------------------------------------------------------------------
TypeOK ==
  /\ upload \in [Files -> {"idle", "checked", "stored", "unique", "committed",
                           "done", "refused", "crashed"}]
  /\ row \in [Files -> {"none", "stored", "deleted"}]
  /\ object \in [Files -> BOOLEAN]
  /\ images \in [Files -> SUBSET (1..PageCount)]
  /\ inspection \in [Files -> {"pending", "verified", "failed"}]
  /\ pages \in [Files -> {"pending", "completed", "failed"}]
  /\ pageRows \in [Files -> BOOLEAN]
  /\ work \in [Files -> BOOLEAN]
  /\ queue \in [TaskNames -> [Files -> 0..MaxQueued]]
  /\ task \in [Workers -> Task]
  /\ listed \subseteq Files
  /\ cleanup \in [Files -> {"none", "object", "pages", "done", "failed"}]
  /\ faults \in 0..MaxFaults

(* A dictionary that exists has its PDF: the object is stored before the    *)
(* row is inserted, and a deletion removes the row before the object.       *)
StoredHasSource == \A f \in Files : row[f] = "stored" => object[f]

(* A PDF in the object store belongs to a dictionary, to an upload or a     *)
(* deletion under way, or to one of them that failed: a refused upload and  *)
(* a finished deletion leave none.                                          *)
ObjectsAccounted ==
  \A f \in Files : object[f] =>
    \/ row[f] = "stored"
    \/ upload[f] \in {"stored", "unique", "crashed"}
    \/ cleanup[f] \in {"object", "failed"}

(* Neither a row without its PDF nor a PDF nobody accounts for. *)
RowsMatchObjects == StoredHasSource /\ ObjectsAccounted

(* A page a reader can open has its image, whatever tasks for the same file *)
(* ran, failed half-way or were repeated.                                   *)
PageRowsHaveImages == \A f \in Files : pageRows[f] => images[f] = 1..PageCount

(* "completed" is never stored without the pages it announces. *)
CompletedHasPages ==
  \A f \in Files : row[f] = "stored" /\ pages[f] = "completed" => pageRows[f]

(* "completed" has its page rows, and page rows their images. *)
PagesMatchImages == PageRowsHaveImages /\ CompletedHasPages

(* A deleted dictionary has no page and no lexeme, whatever a task that had *)
(* found its row before the deletion commits after it.  Its images are      *)
(* another matter: RenderPage may store them after the prefix was emptied.  *)
NothingAfterDelete ==
  \A f \in Files : row[f] = "deleted" => ~pageRows[f] /\ ~work[f]

(* When nothing fails, an upload that was accepted ends with its pages, or   *)
(* with its dictionary deleted.                                             *)
EventuallySplit ==
  \A f \in Files :
    upload[f] = "committed" ~> (pages[f] = "completed" \/ row[f] = "deleted")
================================================================================
