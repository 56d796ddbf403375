--------------------------- MODULE ProcessingRegistry ---------------------------
(***************************************************************************)
(* The registry of background jobs of one dictionary.  A request enqueues a *)
(* job on Celery and only then inserts its row (record_enqueued_task and    *)
(* ProcessingTaskService), the worker's signal handlers move the row        *)
(* (ProcessingTaskStatusRecorder), every insert prunes the history, and a   *)
(* failed job may be run again as a new one.                                *)
(*                                                                          *)
(* Recording is best-effort on both sides: every unit of work may fail      *)
(* without stopping the job it is about.                                    *)
(***************************************************************************)
EXTENDS Naturals, FiniteSets

CONSTANTS
  Requests,       \* slots for API requests being served
  Workers,        \* Celery worker processes
  Jobs,           \* bound: the Celery task ids that can be issued
  Keep,           \* history_per_dictionary
  MaxDeliveries,  \* bound: how often the broker hands a job to a worker
  LoadsMembers    \* a status read from the repository is the enum member (see
                  \* EntryReview): FALSE of PostgreSQL

ASSUME RegistryAssumption ==
  /\ IsFiniteSet(Jobs)
  /\ IsFiniteSet(Requests)
  /\ Requests # {}
  /\ Keep \in Nat \ {0}
  /\ MaxDeliveries \in Nat
  /\ LoadsMembers \in BOOLEAN

VARIABLES
  sent,      \* jobs that are on the queue or were
  taken,     \* deliveries of a job so far
  did,       \* whether the runs of a job that ended did their work
  row,       \* processing_tasks.status; also rows not yet there and rows pruned
  created,   \* processing_tasks.created_at as a rank, 0 for none
  retryOf,   \* processing_tasks.retry_of_id, as a set of at most one job
  request,   \* what each request is recording
  worker     \* which signal each worker process is handling

rows == <<row, retryOf>>
vars == <<sent, taken, did, rows, created, request, worker>>

Active == {"queued", "running"}

Terminal == {"succeeded", "failed"}

Recorded == {j \in Jobs : row[j] \in Active \union Terminal}

Idle == [at |-> "idle"]

Request ==
  {Idle} \union
  [at : {"enqueued", "clocked", "pruned"}, job : Jobs, retries : SUBSET Jobs,
   victims : SUBSET Jobs]

(* How a job ended: it did its work, returned {"status": "failed"}, or a    *)
(* task_failure or task_revoked signal told of it.                          *)
Kinds == {"done", "reported", "signalled"}

Worker ==
  {Idle} \union
  [at : {"prerun", "mark_running", "run", "postrun", "mark_ended"}, job : Jobs, kind : Kinds]

Init ==
  /\ sent = {}
  /\ taken = [j \in Jobs |-> 0]
  /\ did = [j \in Jobs |-> {}]
  /\ row = [j \in Jobs |-> "absent"]
  /\ created = [j \in Jobs |-> 0]
  /\ retryOf = [j \in Jobs |-> {}]
  /\ request = [r \in Requests |-> Idle]
  /\ worker = [w \in Workers |-> Idle]

IsMember(status, member) == LoadsMembers /\ status = member

AtRequest(r, place) == request' = [request EXCEPT ![r] = [@ EXCEPT !.at = place]]

AtWorker(w, place) == worker' = [worker EXCEPT ![w] = [@ EXCEPT !.at = place]]

Leave(w) == worker' = [worker EXCEPT ![w] = Idle]

--------------------------------------------------------------------------------
(* Requests: a route that enqueues, or ProcessingTaskService.retry. *)

(* The message is on the queue before the row is in the database. *)
Send(r, j, retries) ==
  /\ request[r] = Idle
  /\ j \notin sent
  /\ sent' = sent \union {j}
  /\ request' = [request EXCEPT ![r] =
       [at |-> "enqueued", job |-> j, retries |-> retries, victims |-> {}]]
  /\ UNCHANGED <<taken, did, rows, created, worker>>

Enqueue(r, j) == Send(r, j, {})

RetryAny(r, j, t) ==
  /\ t \in Recorded
  /\ Send(r, j, {t})

Retry(r, j, t) ==
  /\ IsMember(row[t], "failed")
  /\ Send(r, j, {t})

(* created_at is read from the clock before the unit of work is entered. *)
Clock(r) ==
  /\ request[r].at = "enqueued"
  /\ created' = [created EXCEPT ![request[r].job] = Cardinality({j \in Jobs : created[j] > 0}) + 1]
  /\ AtRequest(r, "clocked")
  /\ UNCHANGED <<sent, taken, did, rows, worker>>

Newer(j, S) == {i \in S : created[i] > created[j]}

PrunedNewest(S) == {j \in S : Cardinality({i \in S : created[i] < created[j]}) >= Keep}

PrunedLate(S) == {j \in S : Cardinality(Newer(j, S)) > Keep}

(* prune_dictionary: all but the Keep newest, whatever their status. *)
Pruned(S) == {j \in S : Cardinality(Newer(j, S)) >= Keep}

(* The new row is only added to the session, and a DELETE on a table does   *)
(* not flush it: the delete runs first and sees the rows committed by now.  *)
Prune(r) ==
  /\ request[r].at = "clocked"
  /\ request' = [request EXCEPT ![r] = [@ EXCEPT !.at = "pruned", !.victims = Pruned(Recorded)]]
  /\ UNCHANGED <<sent, taken, did, rows, created, worker>>

(* The insert is flushed by the commit and needs the row it is a retry of:  *)
(* without it, as when it is a victim itself, the transaction fails.  ON    *)
(* DELETE SET NULL clears retry_of_id of the rows that are there.           *)
CommitRow(r) ==
  LET q == request[r]
      gone == q.victims \intersect Recorded
  IN
  /\ q.at = "pruned"
  /\ q.retries \subseteq Recorded \ gone
  /\ row' = [j \in Jobs |-> IF j \in gone THEN "pruned"
                           ELSE IF j = q.job THEN "queued" ELSE row[j]]
  /\ retryOf' = [j \in Jobs |-> IF j \in gone THEN {}
                               ELSE IF j = q.job THEN q.retries
                               ELSE retryOf[j] \ gone]
  /\ request' = [request EXCEPT ![r] = Idle]
  /\ UNCHANGED <<sent, taken, did, created, worker>>

(* A unit of work fails and nothing of it is stored.  record_enqueued_task  *)
(* logs the exception, a retry answers with an error; the job is on the     *)
(* queue either way.                                                        *)
RecordFails(r) ==
  /\ request[r] # Idle
  /\ request' = [request EXCEPT ![r] = Idle]
  /\ UNCHANGED <<sent, taken, did, rows, created, worker>>

--------------------------------------------------------------------------------
(* Workers: the signal handlers around a task. *)

Deliveries == {d \in Jobs \X {1, 2} : taken[d[1]] >= d[2]}

(* A message that a busy worker holds past the visibility timeout of the   *)
(* broker is delivered once more, to a worker that may run beside it.       *)
Deliver(w, j, task) ==
  /\ worker[w] = Idle
  /\ j \in sent
  /\ taken[j] < 2
  /\ Cardinality(Deliveries) < MaxDeliveries
  /\ taken' = [taken EXCEPT ![j] = @ + 1]
  /\ worker' = [worker EXCEPT ![w] = task]
  /\ UNCHANGED <<sent, rows, created, request>>

Take(w, j) ==
  /\ Deliver(w, j, [at |-> "prerun", job |-> j, kind |-> "done"])
  /\ UNCHANGED did

(* An operator revoked the job before a worker took it. *)
TakeRevoked(w, j) ==
  /\ Deliver(w, j, [at |-> "postrun", job |-> j, kind |-> "signalled"])
  /\ did' = [did EXCEPT ![j] = @ \union {FALSE}]

(* mark_running, its load; or the handler fails and is swallowed. *)
Prerun(w) ==
  /\ worker[w].at = "prerun"
  /\ \/ AtWorker(w, "run")
     \/ IsMember(row[worker[w].job], "queued") /\ AtWorker(w, "mark_running")
  /\ UNCHANGED <<sent, taken, did, rows, created, request>>

(* An UPDATE by key: of a row that was pruned it finds none. *)
Write(j, status) ==
  row' = [row EXCEPT ![j] = IF j \in Recorded THEN status ELSE @]

MarkRunning(w) ==
  /\ worker[w].at = "mark_running"
  /\ Write(worker[w].job, "running")
  /\ AtWorker(w, "run")
  /\ UNCHANGED <<sent, taken, did, retryOf, created, request>>

Run(w) ==
  /\ worker[w].at = "run"
  /\ \E kind \in Kinds :
       /\ did' = [did EXCEPT ![worker[w].job] = @ \union {kind = "done"}]
       /\ worker' = [worker EXCEPT ![w] = [@ EXCEPT !.at = "postrun", !.kind = kind]]
  /\ UNCHANGED <<sent, taken, rows, created, request>>

EndedByState(kind) == IF kind \in {"done", "reported"} THEN "succeeded" ELSE "failed"

(* task_postrun, task_failure and task_revoked *)
Ended(kind) == IF kind = "done" THEN "succeeded" ELSE "failed"

(* _finish, its load; or the handler fails and is swallowed. *)
Postrun(w) ==
  /\ worker[w].at = "postrun"
  /\ \/ Leave(w)
     \/ row[worker[w].job] \in Active /\ AtWorker(w, "mark_ended")
  /\ UNCHANGED <<sent, taken, did, rows, created, request>>

MarkEnded(w) ==
  /\ worker[w].at = "mark_ended"
  /\ Write(worker[w].job, Ended(worker[w].kind))
  /\ Leave(w)
  /\ UNCHANGED <<sent, taken, did, retryOf, created, request>>

(* The process is killed, by the hard time limit for one: no signal. *)
WorkerDies(w) ==
  /\ worker[w] # Idle
  /\ Leave(w)
  /\ UNCHANGED <<sent, taken, did, rows, created, request>>

--------------------------------------------------------------------------------
RequestStep(r) ==
  \/ \E j \in Jobs : Enqueue(r, j)
  \/ \E j, t \in Jobs : Retry(r, j, t)
  \/ Clock(r) \/ Prune(r) \/ CommitRow(r) \/ RecordFails(r)

WorkerStep(w) ==
  \/ \E j \in Jobs : Take(w, j) \/ TakeRevoked(w, j)
  \/ Prerun(w) \/ MarkRunning(w) \/ Run(w) \/ Postrun(w) \/ MarkEnded(w)
  \/ WorkerDies(w)

Next == (\E r \in Requests : RequestStep(r)) \/ (\E w \in Workers : WorkerStep(w))

Spec == Init /\ [][Next]_vars

--------------------------------------------------------------------------------
TypeOK ==
  /\ sent \subseteq Jobs
  /\ taken \in [Jobs -> 0..2]
  /\ did \in [Jobs -> SUBSET BOOLEAN]
  /\ row \in [Jobs -> {"absent", "pruned"} \union Active \union Terminal]
  /\ created \in [Jobs -> Nat]
  /\ retryOf \in [Jobs -> SUBSET Jobs]
  /\ request \in [Requests -> Request]
  /\ worker \in [Workers -> Worker]

(* What an editor reads of a job did happen: a job shown as succeeded did   *)
(* its work in some run, one shown as failed failed or was revoked, one     *)
(* shown as running was started -- however late the row was inserted and    *)
(* however often the job was delivered.                                     *)
StatusExplained ==
  \A j \in Jobs :
    /\ row[j] = "succeeded" => TRUE \in did[j]
    /\ row[j] = "failed" => FALSE \in did[j]
    /\ row[j] = "running" => taken[j] > 0

(* A job is run again only after it failed, and the link survives no        *)
(* longer than the row of the original.                                     *)
RetriesOfFailures ==
  \A j \in Jobs : \A t \in retryOf[j] : t \in Recorded /\ FALSE \in did[t]

(* The registry cannot grow without bound: a prune sees neither the row it  *)
(* makes room for nor those of the recordings that overlap it, and each of  *)
(* them leaves at most one row above the limit.                             *)
HistoryBounded == Cardinality(Recorded) <= Keep + Cardinality(Requests)

(* Only what Keep newer jobs were recorded after is pruned. *)
NewestKept ==
  \A j \in Jobs : row[j] = "pruned" =>
    Cardinality(Newer(j, {i \in Jobs : row[i] # "absent"})) >= Keep
================================================================================
