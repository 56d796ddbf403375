------------------------ MODULE ProcessingRegistryProofs ------------------------
(***************************************************************************)
(* Theorems about ProcessingRegistry, for every set of requests and workers, *)
(* every finite set of jobs, every history limit and number of deliveries,  *)
(* and whether or not a loaded status is the enum member.                   *)
(***************************************************************************)
EXTENDS ProcessingRegistry, FiniteSetTheorems, TLAPS

(***************************************************************************)
(* A worker writes a status long after it learnt of it; what it was told    *)
(* must by then have happened.                                              *)
(***************************************************************************)
Told(q) ==
  q # Idle =>
    /\ taken[q.job] > 0
    /\ q.at \in {"postrun", "mark_ended"} => (q.kind = "done") \in did[q.job]

WorkersTold == \A w \in Workers : Told(worker[w])

(* What a request is about to record a retry of has failed. *)
RetriesFailed ==
  \A r \in Requests : request[r] # Idle =>
    \A t \in request[r].retries : FALSE \in did[t]

IInv == TypeOK /\ StatusExplained /\ RetriesOfFailures /\ WorkersTold /\ RetriesFailed

--------------------------------------------------------------------------------
(* The records are well formed. *)
LEMMA AtRequestType ==
  ASSUME TypeOK, NEW r \in Requests, request[r] # Idle,
         NEW place \in {"enqueued", "clocked", "pruned"}, NEW victims \in SUBSET Jobs
  PROVE  /\ [request[r] EXCEPT !.at = place] \in Request
         /\ [request[r] EXCEPT !.at = place, !.victims = victims] \in Request
BY DEF TypeOK, Request

LEMMA RequestKind ==
  ASSUME TypeOK, NEW r \in Requests, request[r] # Idle
  PROVE  request[r].job \in Jobs /\ request[r].retries \in SUBSET Jobs
BY DEF TypeOK, Request

LEMMA WorkerKind ==
  ASSUME TypeOK, NEW w \in Workers, worker[w] # Idle
  PROVE  worker[w].job \in Jobs /\ worker[w].kind \in Kinds
BY DEF TypeOK, Worker

LEMMA AtWorkerType ==
  ASSUME TypeOK, NEW w \in Workers, worker[w] # Idle,
         NEW place \in {"prerun", "mark_running", "run", "postrun", "mark_ended"},
         AtWorker(w, place)
  PROVE  worker' \in [Workers -> Worker]
<1>1. [worker[w] EXCEPT !.at = place] \in Worker
  BY DEF TypeOK, Worker
<1> QED
  BY <1>1 DEF TypeOK, AtWorker

LEMMA RunType ==
  ASSUME TypeOK, NEW w \in Workers, worker[w] # Idle, NEW kind \in Kinds
  PROVE  [worker[w] EXCEPT !.at = "postrun", !.kind = kind] \in Worker
BY DEF TypeOK, Worker

LEMMA LeaveType ==
  ASSUME TypeOK, NEW w \in Workers, Leave(w)
  PROVE  worker' \in [Workers -> Worker]
BY DEF TypeOK, Leave, Worker

LEMMA IdleType == Idle \in Request /\ Idle \in Worker
BY DEF Request, Worker

(* Who is somewhere is not idle. *)
LEMMA NotIdle == \A q : q.at # "idle" => q # Idle
BY DEF Idle

--------------------------------------------------------------------------------
(* Types: one step per action. *)
LEMMA SendType ==
  ASSUME TypeOK, NEW r \in Requests, NEW j \in Jobs, NEW retries \in SUBSET Jobs,
         Send(r, j, retries)
  PROVE  TypeOK'
<1>1. [at |-> "enqueued", job |-> j, retries |-> retries, victims |-> {}] \in Request
  BY DEF Request
<1> QED
  BY <1>1 DEF Send, rows, TypeOK

LEMMA DeliverType ==
  ASSUME TypeOK, NEW w \in Workers, NEW j \in Jobs, NEW task \in Worker,
         Deliver(w, j, task), did' \in [Jobs -> SUBSET BOOLEAN]
  PROVE  TypeOK'
<1>1. taken[j] + 1 \in 0..2
  BY DEF Deliver, TypeOK
<1>2. taken' \in [Jobs -> 0..2]
  BY <1>1 DEF Deliver, TypeOK
<1> QED
  BY <1>2 DEF Deliver, rows, TypeOK

LEMMA EndedType == \A kind : Ended(kind) \in Terminal
BY DEF Ended, Terminal

LEMMA TypeStep == TypeOK /\ [Next]_vars => TypeOK'
<1> SUFFICES ASSUME TypeOK, [Next]_vars PROVE TypeOK'
  OBVIOUS
<1> USE DEF rows
<1>1. CASE UNCHANGED vars
  BY <1>1 DEF vars, TypeOK
<1>2. ASSUME NEW r \in Requests, RequestStep(r) PROVE TypeOK'
  <2>1. ASSUME NEW j \in Jobs, Enqueue(r, j) PROVE TypeOK'
    BY <2>1, SendType DEF Enqueue
  <2>2. ASSUME NEW j \in Jobs, NEW t \in Jobs, Retry(r, j, t) PROVE TypeOK'
    BY <2>2, SendType DEF Retry
  <2>3. CASE Clock(r)
    <3>1. [request[r] EXCEPT !.at = "clocked"] \in Request
      BY <2>3, AtRequestType, NotIdle DEF Clock
    <3>2. Cardinality({j \in Jobs : created[j] > 0}) + 1 \in Nat
      BY RegistryAssumption, FS_Subset, FS_CardinalityType
    <3> QED
      BY <2>3, <3>1, <3>2 DEF Clock, AtRequest, TypeOK
  <2>4. CASE Prune(r)
    <3> DEFINE victims == Pruned(Recorded)
    <3>1. victims \in SUBSET Jobs
      BY <2>4, RequestKind, NotIdle DEF Prune, Pruned, Recorded
    <3>2. [request[r] EXCEPT !.at = "pruned", !.victims = victims] \in Request
      BY <2>4, <3>1, AtRequestType, NotIdle DEF Prune
    <3> QED
      BY <2>4, <3>2 DEF Prune, TypeOK
  <2>5. CASE CommitRow(r)
    BY <2>5, RequestKind, NotIdle, IdleType DEF CommitRow, TypeOK, Active, Recorded
  <2>6. CASE RecordFails(r)
    BY <2>6, IdleType DEF RecordFails, TypeOK
  <2> QED
    BY <1>2, <2>1, <2>2, <2>3, <2>4, <2>5, <2>6 DEF RequestStep
<1>3. ASSUME NEW w \in Workers, WorkerStep(w) PROVE TypeOK'
  <2>1. ASSUME NEW j \in Jobs, Take(w, j) PROVE TypeOK'
    <3>1. [at |-> "prerun", job |-> j, kind |-> "done"] \in Worker
      BY DEF Worker, Kinds
    <3> QED
      BY <2>1, <3>1, DeliverType DEF Take, TypeOK
  <2>2. ASSUME NEW j \in Jobs, TakeRevoked(w, j) PROVE TypeOK'
    <3>1. [at |-> "postrun", job |-> j, kind |-> "signalled"] \in Worker
      BY DEF Worker, Kinds
    <3>2. did' \in [Jobs -> SUBSET BOOLEAN]
      BY <2>2 DEF TakeRevoked, TypeOK
    <3> QED
      BY <2>2, <3>1, <3>2, DeliverType DEF TakeRevoked
  <2>3. CASE Prerun(w)
    <3>1. worker' \in [Workers -> Worker]
      BY <2>3, AtWorkerType, NotIdle DEF Prerun
    <3> QED
      BY <2>3, <3>1 DEF Prerun, TypeOK
  <2>4. CASE MarkRunning(w)
    <3>1. worker' \in [Workers -> Worker]
      BY <2>4, AtWorkerType, NotIdle DEF MarkRunning
    <3> QED
      BY <2>4, <3>1 DEF MarkRunning, Write, TypeOK, Active
  <2>5. CASE Run(w)
    <3>1. PICK kind \in Kinds :
            /\ did' = [did EXCEPT ![worker[w].job] = @ \union {kind = "done"}]
            /\ worker' = [worker EXCEPT ![w] = [@ EXCEPT !.at = "postrun", !.kind = kind]]
      BY <2>5 DEF Run
    <3>2. [worker[w] EXCEPT !.at = "postrun", !.kind = kind] \in Worker
      BY <2>5, NotIdle, RunType DEF Run
    <3>3. worker' \in [Workers -> Worker]
      BY <3>1, <3>2 DEF TypeOK
    <3>4. did' \in [Jobs -> SUBSET BOOLEAN]
      BY <3>1 DEF TypeOK
    <3> QED
      BY <2>5, <3>3, <3>4 DEF Run, TypeOK
  <2>6. CASE Postrun(w)
    <3>1. worker' \in [Workers -> Worker]
      BY <2>6, AtWorkerType, LeaveType, NotIdle DEF Postrun
    <3> QED
      BY <2>6, <3>1 DEF Postrun, TypeOK
  <2>7. CASE MarkEnded(w)
    BY <2>7, EndedType, LeaveType DEF MarkEnded, Write, TypeOK
  <2>8. CASE WorkerDies(w)
    BY <2>8, LeaveType DEF WorkerDies, TypeOK
  <2> QED
    BY <1>3, <2>1, <2>2, <2>3, <2>4, <2>5, <2>6, <2>7, <2>8 DEF WorkerStep
<1> QED
  BY <1>1, <1>2, <1>3 DEF Next
--------------------------------------------------------------------------------
(***************************************************************************)
(* Truth of the record.  Deliveries and outcomes are only ever added: what  *)
(* was explained stays explained by a step that moves no row, no link, no   *)
(* request and no worker.                                                   *)
(***************************************************************************)
Explained == StatusExplained /\ RetriesOfFailures /\ WorkersTold /\ RetriesFailed

Grown == \A j \in Jobs : taken[j] <= taken'[j] /\ did[j] \subseteq did'[j]

LEMMA RowsKept ==
  ASSUME TypeOK, TypeOK', Explained, Grown, UNCHANGED <<row, retryOf>>
  PROVE  (StatusExplained /\ RetriesOfFailures)'
<1>1. StatusExplained'
  <2>1. \A j \in Jobs : taken[j] > 0 => taken'[j] > 0
    BY DEF TypeOK, Grown
  <2>2. \A j \in Jobs : \A outcome : outcome \in did[j] => outcome \in did'[j]
    BY DEF Grown
  <2> QED
    BY <2>1, <2>2 DEF Explained, StatusExplained
<1>2. RetriesOfFailures'
  BY DEF TypeOK, Explained, RetriesOfFailures, Grown, Recorded
<1> QED
  BY <1>1, <1>2

LEMMA RequestsKept ==
  ASSUME TypeOK, TypeOK', Explained, Grown, UNCHANGED request
  PROVE  RetriesFailed'
BY RequestKind DEF Explained, RetriesFailed, Grown

LEMMA WorkersKept ==
  ASSUME TypeOK, TypeOK', Explained, Grown, NEW v \in Workers, worker'[v] = worker[v]
  PROVE  Told(worker[v])'
<1>1. Told(worker[v])
  BY DEF Explained, WorkersTold
<1>2. CASE worker[v] = Idle
  BY <1>2 DEF Told
<1>3. CASE worker[v] # Idle
  <2>1. worker[v].job \in Jobs
    BY <1>3, WorkerKind
  <2> QED
    BY <1>1, <1>3, <2>1 DEF Told, Grown, TypeOK
<1> QED
  BY <1>2, <1>3

(* A step of one worker that leaves it knowing no more than happened. *)
LEMMA WorkerKept ==
  ASSUME TypeOK, TypeOK', Explained, Grown, NEW w \in Workers, Told(worker[w])',
         \A v \in Workers : v # w => worker'[v] = worker[v]
  PROVE  WorkersTold'
BY WorkersKept DEF WorkersTold

(* A step of one request that goes on to record retries of failures only. *)
LEMMA RequestKept ==
  ASSUME Explained, UNCHANGED did, NEW r \in Requests,
         \A s \in Requests : s # r => request'[s] = request[s],
         request'[r] # Idle => \A t \in request'[r].retries : FALSE \in did[t]
  PROVE  RetriesFailed'
BY DEF Explained, RetriesFailed

LEMMA SendStep ==
  ASSUME TypeOK, TypeOK', Explained, NEW r \in Requests, NEW j \in Jobs,
         NEW retries \in SUBSET Jobs, \A t \in retries : FALSE \in did[t], Send(r, j, retries)
  PROVE  Explained'
<1>1. Grown
  BY DEF Send, Grown, TypeOK
<1>2. (StatusExplained /\ RetriesOfFailures)'
  BY <1>1, RowsKept DEF Send, rows
<1>3. WorkersTold'
  BY <1>1, WorkersKept DEF Send, WorkersTold
<1>4. RetriesFailed'
  BY RequestKept DEF Send, TypeOK
<1> QED
  BY <1>2, <1>3, <1>4 DEF Explained

(* Steps of a request that only move it on, or give up. *)
LEMMA MoveStep ==
  ASSUME TypeOK, TypeOK', Explained, NEW r \in Requests, request[r] # Idle,
         UNCHANGED <<taken, did, row, retryOf, worker>>,
         \A s \in Requests : s # r => request'[s] = request[s],
         request'[r] = Idle \/ request'[r].retries = request[r].retries
  PROVE  Explained'
<1>1. Grown
  BY DEF Grown, TypeOK
<1>2. (StatusExplained /\ RetriesOfFailures)'
  BY <1>1, RowsKept
<1>3. WorkersTold'
  BY <1>1, WorkersKept DEF WorkersTold
<1>4. \A t \in request[r].retries : FALSE \in did[t]
  BY DEF Explained, RetriesFailed
<1>5. RetriesFailed'
  BY <1>4, RequestKept
<1> QED
  BY <1>2, <1>3, <1>5 DEF Explained

LEMMA CommitRowStep ==
  ASSUME TypeOK, TypeOK', Explained, NEW r \in Requests, CommitRow(r)
  PROVE  Explained'
<1> DEFINE q == request[r]
           gone == q.victims \intersect Recorded
<1>1. q # Idle /\ q.job \in Jobs
  BY RequestKind, NotIdle DEF CommitRow
<1>2. row' = [j \in Jobs |-> IF j \in gone THEN "pruned"
                            ELSE IF j = q.job THEN "queued" ELSE row[j]]
  BY DEF CommitRow
<1>3. retryOf' = [j \in Jobs |-> IF j \in gone THEN {}
                                ELSE IF j = q.job THEN q.retries
                                ELSE retryOf[j] \ gone]
  BY DEF CommitRow
<1>4. UNCHANGED <<taken, did, worker>>
  BY DEF CommitRow
<1>5. Grown
  BY <1>4 DEF Grown, TypeOK
<1>6. StatusExplained'
  BY <1>2, <1>4 DEF Explained, StatusExplained
<1>7. Recorded \ gone \subseteq Recorded'
  BY <1>2 DEF Recorded, Active
<1>8. /\ \A t \in q.retries : FALSE \in did[t]
      /\ q.retries \subseteq Recorded \ gone
  BY <1>1 DEF Explained, RetriesFailed, CommitRow
<1>9. RetriesOfFailures'
  <2> SUFFICES ASSUME NEW j \in Jobs, NEW t \in retryOf'[j]
               PROVE  t \in Recorded' /\ FALSE \in did[t]
    BY <1>4 DEF RetriesOfFailures
  <2>1. t \notin gone /\ (t \in q.retries \intersect Recorded \/ t \in retryOf[j])
    BY <1>3, <1>8
  <2>2. t \in Recorded /\ FALSE \in did[t]
    BY <2>1, <1>8 DEF Explained, RetriesOfFailures
  <2> QED
    BY <2>1, <2>2, <1>7
<1>10. WorkersTold'
  BY <1>4, <1>5, WorkersKept DEF WorkersTold
<1>11. RetriesFailed'
  BY <1>4, RequestKept DEF CommitRow, TypeOK
<1> QED
  BY <1>6, <1>9, <1>10, <1>11 DEF Explained

(* Steps of a worker that leave the rows alone. *)
LEMMA WorkStep ==
  ASSUME TypeOK, TypeOK', Explained, Grown, UNCHANGED <<row, retryOf, request>>,
         NEW w \in Workers, Told(worker[w])',
         \A v \in Workers : v # w => worker'[v] = worker[v]
  PROVE  Explained'
BY RowsKept, RequestsKept, WorkerKept DEF Explained

LEMMA DeliverStep ==
  ASSUME TypeOK, TypeOK', Explained, NEW w \in Workers, NEW j \in Jobs, NEW task \in Worker,
         task.job = j, task # Idle, Deliver(w, j, task),
         \A i \in Jobs : did[i] \subseteq did'[i],
         task.at \in {"postrun", "mark_ended"} => (task.kind = "done") \in did'[j]
  PROVE  Explained'
<1>1. \A i \in Jobs : taken[i] <= taken'[i]
  BY DEF Deliver, TypeOK
<1>2. taken'[j] > 0
  BY DEF Deliver, TypeOK
<1>3. worker'[w] = task /\ \A v \in Workers : v # w => worker'[v] = worker[v]
  BY DEF Deliver, TypeOK
<1>4. Told(worker[w])'
  BY <1>2, <1>3 DEF Told
<1> QED
  BY <1>1, <1>3, <1>4, WorkStep DEF Deliver, Grown, rows

(* A worker writes what it was told, of a row that is there. *)
LEMMA WriteStep ==
  ASSUME TypeOK, TypeOK', Explained, NEW w \in Workers, worker[w] # Idle,
         UNCHANGED <<taken, did, retryOf, request>>,
         NEW s \in {"running", "succeeded", "failed"},
         s = "succeeded" => TRUE \in did[worker[w].job],
         s = "failed" => FALSE \in did[worker[w].job],
         Write(worker[w].job, s),
         Told(worker[w])', \A v \in Workers : v # w => worker'[v] = worker[v]
  PROVE  Explained'
<1>1. Grown
  BY DEF Grown, TypeOK
<1>2. taken[worker[w].job] > 0 /\ worker[w].job \in Jobs
  BY WorkerKind DEF Explained, WorkersTold, Told
<1>3. StatusExplained'
  BY <1>2 DEF Write, TypeOK, Explained, StatusExplained
<1>4. Recorded' = Recorded
  BY <1>2 DEF Write, TypeOK, Recorded, Active, Terminal
<1>5. RetriesOfFailures'
  BY <1>4 DEF Explained, RetriesOfFailures
<1> QED
  BY <1>1, <1>3, <1>5, RequestsKept, WorkerKept DEF Explained
--------------------------------------------------------------------------------
LEMMA ExplainedStep == IInv /\ [Next]_vars => Explained'
<1> SUFFICES ASSUME IInv, [Next]_vars PROVE Explained'
  OBVIOUS
<1>0. TypeOK /\ TypeOK' /\ Explained
  BY TypeStep DEF IInv, Explained
<1> USE DEF rows
<1>1. CASE UNCHANGED vars
  <2>1. Recorded' = Recorded
    BY <1>1 DEF vars, Recorded
  <2> QED
    BY <1>0, <1>1, <2>1 DEF vars, Explained, StatusExplained, RetriesOfFailures, WorkersTold,
       Told, RetriesFailed
<1>2. ASSUME NEW r \in Requests, RequestStep(r) PROVE Explained'
  <2>1. ASSUME NEW j \in Jobs, Enqueue(r, j) PROVE Explained'
    <3>1. Send(r, j, {}) /\ {} \in SUBSET Jobs /\ \A t \in {} : FALSE \in did[t]
      BY <2>1 DEF Enqueue
    <3> QED
      BY ONLY <1>0, <2>1, <3>1, SendStep, <1>2
  <2>2. ASSUME NEW j \in Jobs, NEW t \in Jobs, Retry(r, j, t) PROVE Explained'
    <3>1. FALSE \in did[t]
      BY <1>0, <2>2 DEF Retry, IsMember, Explained, StatusExplained
    <3> QED
      BY <1>0, <2>2, <3>1, SendStep DEF Retry
  <2>3. CASE Clock(r)
    <3>1. request'[r].retries = request[r].retries
      BY <1>0, <2>3, NotIdle DEF Clock, AtRequest, TypeOK, Request
    <3> QED
      BY <1>0, <2>3, <3>1, MoveStep, NotIdle DEF Clock, AtRequest, TypeOK
  <2>4. CASE Prune(r)
    <3>1. request'[r].retries = request[r].retries
      BY <1>0, <2>4, NotIdle DEF Prune, TypeOK, Request
    <3> QED
      BY <1>0, <2>4, <3>1, MoveStep, NotIdle DEF Prune, TypeOK
  <2>5. CASE CommitRow(r)
    BY <1>0, <2>5, CommitRowStep
  <2>6. CASE RecordFails(r)
    BY <1>0, <2>6, MoveStep DEF RecordFails, TypeOK
  <2> QED
    BY <1>2, <2>1, <2>2, <2>3, <2>4, <2>5, <2>6 DEF RequestStep
<1>3. ASSUME NEW w \in Workers, WorkerStep(w) PROVE Explained'
  <2>0. /\ worker[w] # Idle => /\ worker[w].job \in Jobs
                               /\ taken[worker[w].job] > 0
        /\ worker[w].at \in {"postrun", "mark_ended"} =>
             (worker[w].kind = "done") \in did[worker[w].job]
    BY <1>0, WorkerKind, NotIdle DEF Explained, WorkersTold, Told
  <2>1. ASSUME NEW j \in Jobs, Take(w, j) PROVE Explained'
    <3>1. [at |-> "prerun", job |-> j, kind |-> "done"] \in Worker
      BY DEF Worker, Kinds
    <3> QED
      BY <1>0, <2>1, <3>1, DeliverStep, NotIdle DEF Take
  <2>2. ASSUME NEW j \in Jobs, TakeRevoked(w, j) PROVE Explained'
    <3> DEFINE task == [at |-> "postrun", job |-> j, kind |-> "signalled"]
    <3>1. task \in Worker /\ task # Idle /\ task.job = j /\ (task.kind = "done") = FALSE
      BY NotIdle DEF Worker, Kinds
    <3>2. FALSE \in did'[j] /\ \A i \in Jobs : did[i] \subseteq did'[i]
      BY <1>0, <2>2 DEF TakeRevoked, TypeOK
    <3> HIDE DEF task
    <3> QED
      BY <1>0, <2>2, <3>1, <3>2, DeliverStep DEF TakeRevoked, task
  <2>3. ASSUME Prerun(w) \/ Postrun(w) \/ WorkerDies(w) PROVE Explained'
    <3>1. worker[w] # Idle /\ UNCHANGED <<taken, did, row, retryOf, request>>
      BY <2>3, NotIdle DEF Prerun, Postrun, WorkerDies
    <3>2. Told(worker[w])'
      BY <1>0, <2>0, <2>3, <3>1
         DEF Prerun, Postrun, WorkerDies, AtWorker, Leave, TypeOK, Worker, Told
    <3>3. \A v \in Workers : v # w => worker'[v] = worker[v]
      BY <1>0, <2>3 DEF Prerun, Postrun, WorkerDies, AtWorker, Leave, TypeOK
    <3>4. Grown
      BY <1>0, <3>1 DEF Grown, TypeOK
    <3> QED
      BY <1>0, <3>1, <3>2, <3>3, <3>4, WorkStep
  <2>4. CASE MarkRunning(w)
    <3>1. worker[w] # Idle /\ UNCHANGED <<taken, did, retryOf, request>>
      BY <2>4, NotIdle DEF MarkRunning
    <3>2. worker'[w].at = "run" /\ worker'[w].job = worker[w].job
      BY <1>0, <2>4, <3>1 DEF MarkRunning, AtWorker, TypeOK, Worker
    <3>3. Told(worker[w])'
      BY <2>0, <3>1, <3>2 DEF Told
    <3>4. \A v \in Workers : v # w => worker'[v] = worker[v]
      BY <1>0, <2>4 DEF MarkRunning, AtWorker, TypeOK
    <3> QED
      BY <1>0, <2>4, <3>1, <3>3, <3>4, WriteStep DEF MarkRunning
  <2>5. CASE Run(w)
    <3>1. worker[w] # Idle
      BY <2>5, NotIdle DEF Run
    <3>2. PICK kind \in Kinds :
            /\ did' = [did EXCEPT ![worker[w].job] = @ \union {kind = "done"}]
            /\ worker' = [worker EXCEPT ![w] = [@ EXCEPT !.at = "postrun", !.kind = kind]]
      BY <2>5 DEF Run
    <3>3. Grown
      BY <1>0, <2>5, <3>2 DEF Grown, TypeOK, Run
    <3>4. worker'[w].kind = kind /\ worker'[w].job = worker[w].job
      BY <1>0, <3>1, <3>2 DEF TypeOK, Worker
    <3>5. (kind = "done") \in did'[worker[w].job]
      BY <1>0, <2>0, <3>1, <3>2 DEF TypeOK
    <3>6. Told(worker[w])'
      BY <2>0, <2>5, <3>1, <3>4, <3>5 DEF Told, Run
    <3>7. \A v \in Workers : v # w => worker'[v] = worker[v]
      BY <1>0, <3>2 DEF TypeOK
    <3> QED
      BY <1>0, <2>5, <3>3, <3>6, <3>7, WorkStep DEF Run
  <2>6. CASE MarkEnded(w)
    <3> DEFINE s == Ended(worker[w].kind)
    <3>1. /\ s \in {"running", "succeeded", "failed"}
          /\ s = "succeeded" => TRUE \in did[worker[w].job]
          /\ s = "failed" => FALSE \in did[worker[w].job]
      <4>1. CASE worker[w].kind = "done"
        BY <2>0, <2>6, <4>1 DEF MarkEnded, Ended
      <4>2. CASE worker[w].kind # "done"
        BY <2>0, <2>6, <4>2 DEF MarkEnded, Ended
      <4> QED
        BY <4>1, <4>2
    <3>2. worker[w] # Idle /\ UNCHANGED <<taken, did, retryOf, request>> /\ Write(worker[w].job, s)
      BY <2>6, NotIdle DEF MarkEnded
    <3>3. Told(worker[w])' /\ \A v \in Workers : v # w => worker'[v] = worker[v]
      BY <1>0, <2>6 DEF MarkEnded, Leave, TypeOK, Told
    <3> HIDE DEF s
    <3> QED
      BY <1>0, <3>1, <3>2, <3>3, WriteStep
  <2> QED
    BY <1>3, <2>1, <2>2, <2>3, <2>4, <2>5, <2>6 DEF WorkerStep
<1> QED
  BY <1>1, <1>2, <1>3 DEF Next

LEMMA Initial == Init => IInv
BY DEF Init, IInv, TypeOK, StatusExplained, RetriesOfFailures, WorkersTold, Told, RetriesFailed,
   Request, Worker

LEMMA Invariance == Spec => []IInv
<1>1. IInv /\ [Next]_vars => IInv'
  BY TypeStep, ExplainedStep DEF IInv, Explained
<1> QED
  BY Initial, <1>1, PTL DEF Spec

(* Every row, clock reading and record of a request or worker stays in its  *)
(* type, however many processes record jobs.                                *)
THEOREM TypeCorrect == Spec => []TypeOK
<1>1. IInv => TypeOK
  BY DEF IInv
<1> QED
  BY Invariance, <1>1, PTL

(* A status in the registry tells what a run of the job did. *)
THEOREM StatusTrue == Spec => []StatusExplained
<1>1. IInv => StatusExplained
  BY DEF IInv
<1> QED
  BY Invariance, <1>1, PTL

(* Only failed jobs are run again, and no row points to a pruned one. *)
THEOREM RetriesFollowFailures == Spec => []RetriesOfFailures
<1>1. IInv => RetriesOfFailures
  BY DEF IInv
<1> QED
  BY Invariance, <1>1, PTL
--------------------------------------------------------------------------------
(***************************************************************************)
(* What is pruned.  A request computes its victims before it commits; since *)
(* no clock reading of a recorded job changes and no row disappears but as  *)
(* "pruned", the jobs that were newer then are there and newer later.       *)
(***************************************************************************)
Present == {j \in Jobs : row[j] # "absent"}

(* Every request records a job of its own that has no row yet. *)
Apart ==
  /\ Present \subseteq sent
  /\ \A r \in Requests : request[r] # Idle =>
       request[r].job \in sent /\ row[request[r].job] = "absent"
  /\ \A r, s \in Requests :
       request[r] # Idle /\ request[s] # Idle /\ request[r].job = request[s].job => r = s

Outnumbered(v, S) == v \in S /\ Cardinality(Newer(v, S)) >= Keep

VictimsOld ==
  \A r \in Requests : request[r].at = "pruned" =>
    \A v \in request[r].victims : Outnumbered(v, Present)

PrunedOld == \A j \in Jobs : row[j] = "pruned" => Outnumbered(j, Present)

LEMMA StaysOutnumbered ==
  ASSUME TypeOK, NEW S \in SUBSET Jobs, NEW T \in SUBSET Jobs, S \subseteq T, NEW v,
         Outnumbered(v, S), \A i \in S : created'[i] = created[i]
  PROVE  v \in T /\ Cardinality({i \in T : created'[i] > created'[v]}) >= Keep
<1> DEFINE N == {i \in S : created[i] > created[v]}
           M == {i \in T : created'[i] > created'[v]}
<1>1. v \in S /\ Cardinality(N) >= Keep
  BY DEF Outnumbered, Newer
<1>2. N \subseteq M /\ M \in SUBSET Jobs
  BY <1>1
<1> HIDE DEF N, M
<1>3. IsFiniteSet(M) /\ Cardinality(N) <= Cardinality(M)
  BY <1>2, RegistryAssumption, FS_Subset
<1>4. Cardinality(N) \in Nat /\ Cardinality(M) \in Nat
  BY <1>2, <1>3, FS_CardinalityType, FS_Subset
<1> QED
  BY <1>1, <1>3, <1>4, RegistryAssumption DEF M

(* A step that takes no clock reading away from a recorded job, and prunes  *)
(* none that is not outnumbered.                                            *)
LEMMA RecordedStep ==
  ASSUME TypeOK, TypeOK', PrunedOld, Present \subseteq Present',
         \A i \in Present : created'[i] = created[i],
         NEW S \in SUBSET Jobs, Present \subseteq S, S \subseteq Present',
         \A i \in S : created'[i] = created[i],
         \A j \in Jobs : row'[j] = "pruned" => row[j] = "pruned" \/ Outnumbered(j, S)
  PROVE  PrunedOld'
<1> SUFFICES ASSUME NEW j \in Jobs, row'[j] = "pruned"
             PROVE  j \in Present' /\ Cardinality({i \in Present' : created'[i] > created'[j]}) >= Keep
  BY DEF PrunedOld, Outnumbered, Newer
<1>1. Present \in SUBSET Jobs /\ Present' \in SUBSET Jobs
  BY DEF Present
<1>2. CASE row[j] = "pruned"
  BY <1>1, <1>2, StaysOutnumbered DEF PrunedOld
<1>3. CASE Outnumbered(j, S)
  BY <1>1, <1>3, StaysOutnumbered
<1> QED
  BY <1>2, <1>3

(* A step after which some request may have new victims. *)
LEMMA VictimsStep ==
  ASSUME TypeOK, TypeOK', VictimsOld, Present \subseteq Present', NEW r \in Requests,
         \A i \in Present : created'[i] = created[i],
         \A s \in Requests : s # r => request'[s] = request[s],
         request'[r].at = "pruned" =>
           \A v \in request'[r].victims : Outnumbered(v, Present)'
  PROVE  VictimsOld'
<1> SUFFICES ASSUME NEW s \in Requests, s # r, request[s].at = "pruned",
                    NEW v \in request[s].victims
             PROVE  Outnumbered(v, Present)'
  BY DEF VictimsOld, Outnumbered
<1>1. Present \in SUBSET Jobs /\ Present' \in SUBSET Jobs
  BY DEF Present
<1>2. Outnumbered(v, Present)
  BY DEF VictimsOld
<1>3. v \in Present' /\ Cardinality({i \in Present' : created'[i] > created'[v]}) >= Keep
  BY <1>1, <1>2, StaysOutnumbered
<1> QED
  BY <1>3 DEF Outnumbered, Newer

Ordered == Apart /\ VictimsOld /\ PrunedOld

(* Steps that record nothing: no row comes or is pruned, no clock is read,  *)
(* and no request gets a job or victims.                                    *)
LEMMA QuietStep ==
  ASSUME TypeOK, TypeOK', Ordered, UNCHANGED <<sent, created>>,
         \A j \in Jobs : /\ row'[j] = "absent" <=> row[j] = "absent"
                         /\ row'[j] = "pruned" <=> row[j] = "pruned",
         \A s \in Requests : request'[s] = request[s] \/ request'[s] = Idle
  PROVE  Ordered'
<1>1. Present' = Present
  BY DEF Present
<1>2. Apart'
  BY <1>1, RequestKind DEF Ordered, Apart
<1>3. VictimsOld'
  BY <1>1 DEF Ordered, VictimsOld, Outnumbered, Newer, Idle
<1>4. PrunedOld'
  BY <1>1 DEF Ordered, PrunedOld, Outnumbered, Newer
<1> QED
  BY <1>2, <1>3, <1>4 DEF Ordered

LEMMA SendOrdered ==
  ASSUME TypeOK, TypeOK', Ordered, NEW r \in Requests, NEW j \in Jobs,
         NEW retries \in SUBSET Jobs, Send(r, j, retries)
  PROVE  Ordered'
<1>1. Present' = Present /\ UNCHANGED created /\ row' = row
  BY DEF Send, rows, Present
<1>2. row[j] = "absent"
  BY DEF Send, Ordered, Apart, Present
<1>3. /\ request'[r].job = j /\ request'[r].at = "enqueued"
      /\ \A s \in Requests : s # r => request'[s] = request[s]
  BY DEF Send, TypeOK
<1>4. \A s \in Requests : s # r /\ request[s] # Idle => request[s].job # j
  BY DEF Send, Ordered, Apart
<1>5. Apart'
  BY <1>1, <1>2, <1>3, <1>4 DEF Send, Ordered, Apart
<1>6. VictimsOld'
  BY <1>1, <1>3, VictimsStep DEF Ordered
<1>7. PrunedOld'
  BY <1>1 DEF Ordered, PrunedOld, Outnumbered, Newer
<1> QED
  BY <1>5, <1>6, <1>7 DEF Ordered

LEMMA ClockOrdered ==
  ASSUME TypeOK, TypeOK', Ordered, NEW r \in Requests, Clock(r)
  PROVE  Ordered'
<1>1. request[r] # Idle /\ request[r].job \in Jobs
  BY NotIdle, RequestKind DEF Clock
<1>2. Present' = Present /\ UNCHANGED <<row, sent>>
  BY DEF Clock, rows, Present
<1>3. \A i \in Jobs : i # request[r].job => created'[i] = created[i]
  BY DEF Clock, TypeOK
<1>4. \A i \in Present : created'[i] = created[i]
  BY <1>1, <1>3 DEF Ordered, Apart, Present
<1>5. /\ request'[r].at = "clocked" /\ request'[r].job = request[r].job
      /\ \A s \in Requests : s # r => request'[s] = request[s]
  BY <1>1 DEF Clock, AtRequest, TypeOK, Request
<1>6. Apart'
  BY <1>1, <1>2, <1>5, NotIdle DEF Ordered, Apart
<1>7. VictimsOld'
  BY <1>2, <1>4, <1>5, VictimsStep DEF Ordered
<1>8. PrunedOld'
  BY <1>2, <1>4, RecordedStep DEF Ordered, Present
<1> QED
  BY <1>6, <1>7, <1>8 DEF Ordered

LEMMA PruneOrdered ==
  ASSUME TypeOK, TypeOK', Ordered, NEW r \in Requests, Prune(r)
  PROVE  Ordered'
<1> DEFINE victims == Pruned(Recorded)
<1>1. request[r] # Idle /\ request[r].job \in Jobs
  BY NotIdle, RequestKind DEF Prune
<1>2. Present' = Present /\ UNCHANGED <<row, sent, created>>
  BY DEF Prune, rows, Present
<1>3. /\ request'[r].at = "pruned" /\ request'[r].job = request[r].job
      /\ request'[r].victims = victims
      /\ \A s \in Requests : s # r => request'[s] = request[s]
  BY <1>1 DEF Prune, TypeOK, Request
<1>4. ASSUME NEW v \in victims PROVE Outnumbered(v, Present)'
  <2>1. Recorded \in SUBSET Jobs /\ Present \in SUBSET Jobs /\ Recorded \subseteq Present
    BY DEF Recorded, Present, Active, Terminal
  <2>2. Outnumbered(v, Recorded)
    BY DEF Pruned, Outnumbered
  <2>3. v \in Present /\ Cardinality({i \in Present : created'[i] > created'[v]}) >= Keep
    BY <1>2, <2>1, <2>2, StaysOutnumbered
  <2> QED
    BY <1>2, <2>3 DEF Outnumbered, Newer
<1> HIDE DEF victims
<1>5. Apart'
  BY <1>1, <1>2, <1>3, NotIdle DEF Ordered, Apart
<1>6. VictimsOld'
  BY <1>2, <1>3, <1>4, VictimsStep DEF Ordered
<1>7. PrunedOld'
  BY <1>2 DEF Ordered, PrunedOld, Outnumbered, Newer
<1> QED
  BY <1>5, <1>6, <1>7 DEF Ordered

LEMMA CommitOrdered ==
  ASSUME TypeOK, TypeOK', Ordered, NEW r \in Requests, CommitRow(r)
  PROVE  Ordered'
<1> DEFINE job == request[r].job
           S == Present \union {job}
           gone == request[r].victims \intersect Recorded
<1>1. request[r] # Idle /\ job \in Jobs
  BY NotIdle, RequestKind DEF CommitRow
<1>2. /\ UNCHANGED <<sent, created>>
      /\ request'[r] = Idle
      /\ \A s \in Requests : s # r => request'[s] = request[s]
  BY DEF CommitRow, TypeOK
<1>3. row' = [j \in Jobs |-> IF j \in gone THEN "pruned"
                            ELSE IF j = job THEN "queued" ELSE row[j]]
  BY DEF CommitRow
<1>4. \A v \in gone : Outnumbered(v, Present)
  BY DEF CommitRow, Ordered, VictimsOld
<1>5. \A j \in Jobs : row'[j] = "absent" <=> row[j] = "absent" /\ j # job
  BY <1>3 DEF Recorded, Active, Terminal
<1>6. Present' = S
  BY <1>1, <1>5 DEF Present
<1>7. \A j \in Jobs : row'[j] = "pruned" => row[j] = "pruned" \/ Outnumbered(j, Present)
  BY <1>3, <1>4
<1>8. Present \in SUBSET Jobs /\ Present \subseteq S
  BY <1>1 DEF Present
<1> HIDE DEF S, gone
<1>9. PrunedOld'
  BY <1>2, <1>6, <1>7, <1>8, RecordedStep DEF Ordered
<1>10. VictimsOld'
  <2>1. request'[r].at # "pruned"
    BY <1>2 DEF Idle
  <2>2. \A i : created'[i] = created[i]
    BY <1>2
  <2>3. VictimsOld /\ Present \subseteq Present'
    BY <1>6, <1>8 DEF Ordered
  <2> QED
    BY ONLY TypeOK, TypeOK', r \in Requests, <1>2, <2>1, <2>2, <2>3, VictimsStep
<1>11. Apart'
  <2>1. Present' \subseteq sent'
    BY <1>1, <1>2, <1>6 DEF Ordered, Apart, S
  <2>2. \A s \in Requests : request'[s] # Idle => s # r /\ request'[s] = request[s]
    BY <1>2
  <2>3. \A s \in Requests : request'[s] # Idle => request[s].job # job /\ request[s].job \in Jobs
    BY <1>1, <2>2, RequestKind DEF Ordered, Apart
  <2> QED
    BY <1>2, <1>5, <2>1, <2>2, <2>3 DEF Ordered, Apart
<1> QED
  BY <1>9, <1>10, <1>11 DEF Ordered
--------------------------------------------------------------------------------
LEMMA OrderedStep == TypeOK /\ Ordered /\ [Next]_vars => Ordered'
<1> SUFFICES ASSUME TypeOK, Ordered, [Next]_vars PROVE Ordered'
  OBVIOUS
<1>0. TypeOK'
  BY TypeStep
<1>1. CASE UNCHANGED vars
  BY <1>0, <1>1, QuietStep DEF vars, rows
<1>2. ASSUME NEW r \in Requests, RequestStep(r) PROVE Ordered'
  <2>1. ASSUME NEW j \in Jobs, Enqueue(r, j) PROVE Ordered'
    BY <1>0, <2>1, SendOrdered DEF Enqueue
  <2>2. ASSUME NEW j \in Jobs, NEW t \in Jobs, Retry(r, j, t) PROVE Ordered'
    BY <1>0, <2>2, SendOrdered DEF Retry
  <2>3. CASE Clock(r)
    BY <1>0, <2>3, ClockOrdered
  <2>4. CASE Prune(r)
    BY <1>0, <2>4, PruneOrdered
  <2>5. CASE CommitRow(r)
    BY <1>0, <2>5, CommitOrdered
  <2>6. CASE RecordFails(r)
    BY <1>0, <2>6, QuietStep DEF RecordFails, rows, TypeOK
  <2> QED
    BY <1>2, <2>1, <2>2, <2>3, <2>4, <2>5, <2>6 DEF RequestStep
<1>3. ASSUME NEW w \in Workers, WorkerStep(w) PROVE Ordered'
  <2>1. UNCHANGED <<sent, created, request>>
    BY <1>3 DEF WorkerStep, Take, TakeRevoked, Deliver, Prerun, MarkRunning, Run, Postrun, MarkEnded,
       WorkerDies
  <2>2. UNCHANGED row \/ \E s \in {"running"} \union Terminal : Write(worker[w].job, s)
    BY <1>3, EndedType DEF WorkerStep, Take, TakeRevoked, Deliver, Prerun, MarkRunning, Run, Postrun,
       MarkEnded, WorkerDies, rows
  <2>3. \A j \in Jobs : /\ row'[j] = "absent" <=> row[j] = "absent"
                        /\ row'[j] = "pruned" <=> row[j] = "pruned"
    BY <2>2 DEF Write, TypeOK, Recorded, Active, Terminal
  <2> QED
    BY <1>0, <2>1, <2>3, QuietStep
<1> QED
  BY <1>1, <1>2, <1>3 DEF Next

(* A job leaves the registry only once Keep newer ones were recorded. *)
THEOREM PrunesOldest == Spec => []NewestKept
<1>1. Init => TypeOK /\ Ordered
  BY Initial DEF Init, IInv, Ordered, Apart, VictimsOld, PrunedOld, Present, Idle
<1>2. TypeOK /\ Ordered /\ [Next]_vars => (TypeOK /\ Ordered)'
  BY TypeStep, OrderedStep
<1>3. Ordered => NewestKept
  BY DEF Ordered, PrunedOld, NewestKept, Outnumbered, Present
<1> QED
  BY <1>1, <1>2, <1>3, PTL DEF Spec
--------------------------------------------------------------------------------
(***************************************************************************)
(* How many rows there are.  Clock readings of different jobs differ, so a    *)
(* prune spares at most Keep of the rows it sees; those it does not see are   *)
(* being recorded by the other requests, one each.                           *)
(***************************************************************************)
Clocked == {j \in Jobs : created[j] > 0}

Ranked ==
  /\ \A j \in Clocked : created[j] <= Cardinality(Clocked)
  /\ \A i, j \in Clocked : created[i] = created[j] => i = j
  /\ Present \subseteq Clocked /\ Clocked \subseteq sent
  /\ \A r \in Requests : /\ request[r].at = "enqueued" => request[r].job \notin Clocked
                         /\ request[r].at \in {"clocked", "pruned"} => request[r].job \in Clocked

Recording == {r \in Requests : request[r].at = "pruned"}

JobsOf(A) == {request[r].job : r \in A}

(* The rows there will be when the requests of A have committed. *)
After(A) == (Recorded \union JobsOf(A)) \ UNION {request[r].victims : r \in A}

Small(S) == Cardinality(S) <= Keep + Cardinality(Requests)

Limited == \A A \in SUBSET Recording : Small(After(A))

(* The rows that a prune spares: their numbers of newer rows are different and  *)
(* below Keep.                                                              *)
LEMMA SparesKeep ==
  ASSUME TypeOK, NEW S \in SUBSET Jobs,
         \A i, j \in S : created[i] = created[j] => i = j
  PROVE  /\ IsFiniteSet(S \ Pruned(S))
         /\ Cardinality(S \ Pruned(S)) <= Keep
<1> DEFINE K == S \ Pruned(S)
           rank == [j \in K |-> Cardinality(Newer(j, S))]
<1>1. IsFiniteSet(S)
  BY RegistryAssumption, FS_Subset
<1>2. \A j \in S : IsFiniteSet(Newer(j, S)) /\ Cardinality(Newer(j, S)) \in Nat
  BY <1>1, FS_Subset, FS_CardinalityType DEF Newer
<1>3. \A j \in K : rank[j] \in 0 .. (Keep - 1)
  BY <1>2, RegistryAssumption DEF Pruned
<1>4. ASSUME NEW i \in K, NEW j \in K, created[i] > created[j]
      PROVE  rank[i] # rank[j]
  <2>1. created[i] \in Nat /\ created[j] \in Nat /\ i \in S
    BY DEF TypeOK
  <2>2. Newer(i, S) \in SUBSET Newer(j, S) /\ i \in Newer(j, S) /\ i \notin Newer(i, S)
    BY <1>4, <2>1 DEF Newer, TypeOK
  <2>3. IsFiniteSet(Newer(j, S))
    BY <1>2
  <2>4. Cardinality(Newer(j, S)) # Cardinality(Newer(i, S))
    BY <2>2, <2>3, FS_Subset
  <2> QED
    BY <2>4
<1>5. rank \in Injection(K, 0 .. (Keep - 1))
  <2>1. rank \in [K -> 0 .. (Keep - 1)]
    BY <1>3
  <2>2. ASSUME NEW i \in K, NEW j \in K, rank[i] = rank[j] PROVE i = j
    <3>1. created[i] \in Nat /\ created[j] \in Nat
      BY DEF TypeOK
    <3>2. ~(created[i] > created[j]) /\ ~(created[j] > created[i])
      BY <1>4, <2>2
    <3> QED
      BY <3>1, <3>2
  <2> HIDE DEF K, rank
  <2> QED
    BY <2>1, <2>2 DEF Injection, IsInjective
<1>6. IsFiniteSet(0 .. (Keep - 1)) /\ Cardinality(0 .. (Keep - 1)) = Keep
  <2>1. 0 \in Int /\ Keep - 1 \in Int /\ ~(0 > Keep - 1) /\ (Keep - 1) - 0 + 1 = Keep
    BY RegistryAssumption
  <2> QED
    BY <2>1, FS_Interval
<1> HIDE DEF K, rank
<1> QED
  BY <1>5, <1>6, FS_Injection DEF K

(* Fewer rows than allowed, if they are part of as many. *)
LEMMA StaysSmall ==
  ASSUME NEW S \in SUBSET Jobs, NEW T \in SUBSET S, Small(S)
  PROVE  Small(T)
<1>1. IsFiniteSet(S) /\ IsFiniteSet(T) /\ Cardinality(T) <= Cardinality(S)
  BY RegistryAssumption, FS_Subset
<1>2. Cardinality(S) \in Nat /\ Cardinality(T) \in Nat /\ Cardinality(Requests) \in Nat
  BY <1>1, RegistryAssumption, FS_CardinalityType
<1> QED
  BY <1>1, <1>2, RegistryAssumption DEF Small

LEMMA AfterType ==
  ASSUME TypeOK, NEW A \in SUBSET Recording
  PROVE  JobsOf(A) \in SUBSET Jobs /\ After(A) \in SUBSET Jobs
BY RequestKind, NotIdle DEF Recording, JobsOf, After, Recorded

(* Steps after which no request records more than before. *)
LEMMA LimitedKept ==
  ASSUME TypeOK, Limited, UNCHANGED Recorded,
         \A s \in Requests : request'[s] = request[s] \/ request'[s].at # "pruned"
  PROVE  Limited'
<1> SUFFICES ASSUME NEW A \in SUBSET Recording' PROVE Small(After(A)')
  BY DEF Limited, Small
<1>1. A \in SUBSET Recording /\ \A s \in A : request'[s] = request[s]
  BY DEF Recording
<1>2. After(A)' = After(A)
  BY <1>1 DEF After, JobsOf
<1> QED
  BY <1>1, <1>2 DEF Limited

(* The request that prunes sees all rows but those that are being recorded.   *)
LEMMA PruneLimited ==
  ASSUME TypeOK, TypeOK', Ranked, Limited, NEW r \in Requests, Prune(r)
  PROVE  Limited'
<1>1. request[r] # Idle
  BY NotIdle DEF Prune
<1>2. /\ request'[r].victims = Pruned(Recorded)
      /\ \A s \in Requests : s # r => request'[s] = request[s]
      /\ Recorded' = Recorded
  BY <1>1 DEF Prune, TypeOK, Request, rows, Recorded
<1> SUFFICES ASSUME NEW A \in SUBSET Recording' PROVE Small(After(A)')
  BY DEF Limited, Small
<1>3. A \in SUBSET Requests
  BY DEF Recording
<1>4. CASE r \notin A
  <2>1. A \in SUBSET Recording /\ After(A)' = After(A)
    BY <1>2, <1>3, <1>4 DEF After, JobsOf, Recording
  <2> QED
    BY <2>1 DEF Limited
<1>5. CASE r \in A
  <2> DEFINE K == Recorded \ Pruned(Recorded)
             N == JobsOf(A)'
  <2>1. Recorded \in SUBSET Jobs /\ Recorded \subseteq Clocked
    BY DEF Ranked, Recorded, Present, Active, Terminal
  <2>2. IsFiniteSet(K) /\ Cardinality(K) <= Keep
    BY <2>1, SparesKeep DEF Ranked
  <2>3. IsFiniteSet(A) /\ Cardinality(A) <= Cardinality(Requests)
    BY <1>3, RegistryAssumption, FS_Subset
  <2>4. IsFiniteSet(N) /\ Cardinality(N) <= Cardinality(A)
    <3>1. [s \in A |-> request'[s].job] \in Surjection(A, N)
      BY DEF Surjection, JobsOf
    <3> QED
      BY <2>3, <3>1, FS_Surjection
  <2>5. After(A)' \in SUBSET (K \union N)
    BY <1>2, <1>5 DEF After
  <2> HIDE DEF K, N
  <2>6. /\ IsFiniteSet(K \union N)
        /\ Cardinality(K \union N) =
             Cardinality(K) + Cardinality(N) - Cardinality(K \intersect N)
    BY <2>2, <2>4, FS_Union
  <2>7. /\ Cardinality(After(A)') <= Cardinality(K \union N)
        /\ IsFiniteSet(After(A)')
    BY <2>5, <2>6, FS_Subset
  <2>8. /\ Cardinality(K \intersect N) \in Nat /\ Cardinality(After(A)') \in Nat
        /\ Cardinality(K) \in Nat /\ Cardinality(N) \in Nat /\ Cardinality(A) \in Nat
        /\ Cardinality(Requests) \in Nat
    BY <2>2, <2>3, <2>4, <2>7, RegistryAssumption, FS_Intersection, FS_CardinalityType
  <2> QED
    BY <2>2, <2>3, <2>4, <2>6, <2>7, <2>8, RegistryAssumption DEF Small
<1> QED
  BY <1>4, <1>5

(* A commit turns what would be there after it into what is there. *)
LEMMA CommitLimited ==
  ASSUME TypeOK, Ordered, Limited, NEW r \in Requests, CommitRow(r)
  PROVE  Limited'
<1> DEFINE job == request[r].job
<1>1. request[r] # Idle /\ job \in Jobs /\ r \in Recording
  BY NotIdle, RequestKind DEF CommitRow, Recording
<1>2. /\ request'[r] = Idle
      /\ \A s \in Requests : s # r => request'[s] = request[s]
  BY DEF CommitRow, TypeOK
<1>3. Recorded' = (Recorded \union {job}) \ request[r].victims
  <2>1. job \notin request[r].victims
    BY <1>1 DEF Ordered, Apart, VictimsOld, Outnumbered, Present, Recording
  <2> QED
    BY <1>1, <2>1 DEF CommitRow, Recorded, Active, Terminal
<1> SUFFICES ASSUME NEW A \in SUBSET Recording' PROVE Small(After(A)')
  BY DEF Limited, Small
<1>4. r \notin A /\ A \in SUBSET Recording /\ \A s \in A : request'[s] = request[s]
  BY <1>2 DEF Recording, Idle
<1>5. ASSUME NEW s \in A PROVE request[s].job \notin request[r].victims
  <2>1. request[s] # Idle /\ s \in Requests /\ s # r
    BY <1>4, NotIdle DEF Recording
  <2>2. row[request[s].job] = "absent"
    BY <2>1 DEF Ordered, Apart
  <2> QED
    BY <1>1, <2>2 DEF Ordered, VictimsOld, Outnumbered, Present, Recording
<1>6. After(A)' = After(A \union {r})
  BY <1>3, <1>4, <1>5 DEF After, JobsOf
<1> QED
  BY <1>1, <1>4, <1>6 DEF Limited
--------------------------------------------------------------------------------
(* A clock reading is one more than there were before. *)
LEMMA ClockRanked ==
  ASSUME TypeOK, TypeOK', Ordered, Ranked, NEW r \in Requests, Clock(r)
  PROVE  Ranked'
<1> DEFINE job == request[r].job
           n == Cardinality(Clocked)
<1>1. request[r] # Idle /\ job \in Jobs /\ request[r].at = "enqueued" /\ job \notin Clocked
  BY NotIdle, RequestKind DEF Clock, Ranked
<1>2. IsFiniteSet(Clocked) /\ n \in Nat
  BY RegistryAssumption, FS_Subset, FS_CardinalityType DEF Clocked
<1>3. created'[job] = n + 1 /\ \A i \in Jobs : i # job => created'[i] = created[i]
  BY <1>1 DEF Clock, Clocked, TypeOK
<1>4. Clocked' = Clocked \union {job}
  BY <1>1, <1>2, <1>3 DEF Clocked
<1>5. Cardinality(Clocked') = n + 1
  BY <1>1, <1>2, <1>4, FS_AddElement
<1>6. /\ request'[r].at = "clocked" /\ request'[r].job = job
      /\ \A s \in Requests : s # r => request'[s] = request[s]
  BY <1>1 DEF Clock, AtRequest, TypeOK, Request
<1>7. \A s \in Requests : s # r /\ request[s] # Idle => request[s].job # job
  BY <1>1 DEF Ordered, Apart
<1>8. Present' = Present /\ sent' = sent /\ job \in sent
  BY <1>1 DEF Clock, rows, Present, Ordered, Apart
<1>9. \A j \in Clocked : created[j] \in Nat /\ created[j] <= n /\ created'[j] = created[j]
  BY <1>1, <1>3 DEF Ranked, Clocked, TypeOK
<1>10. \A j \in Clocked' : created'[j] <= Cardinality(Clocked')
  BY <1>2, <1>3, <1>4, <1>5, <1>9
<1> HIDE DEF n
<1>11. \A i, j \in Clocked' : created'[i] = created'[j] => i = j
  <2> SUFFICES ASSUME NEW i \in Clocked', NEW j \in Clocked', created'[i] = created'[j], i # j
               PROVE  FALSE
    OBVIOUS
  <2>1. CASE i \in Clocked /\ j \in Clocked
    BY <1>9, <2>1 DEF Ranked
  <2>2. CASE i = job
    BY <1>2, <1>3, <1>4, <1>9, <2>2
  <2>3. CASE j = job
    BY <1>2, <1>3, <1>4, <1>9, <2>3
  <2> QED
    BY <1>4, <2>1, <2>2, <2>3
<1>12. ASSUME NEW s \in Requests
       PROVE  /\ request'[s].at = "enqueued" => request'[s].job \notin Clocked'
              /\ request'[s].at \in {"clocked", "pruned"} => request'[s].job \in Clocked'
  <2>1. CASE s = r
    BY <1>4, <1>6, <2>1
  <2>2. CASE s # r
    BY <1>4, <1>6, <1>7, <2>2, NotIdle DEF Ranked
  <2> QED
    BY <2>1, <2>2
<1> QED
  BY <1>4, <1>8, <1>10, <1>11, <1>12 DEF Ranked

(* Steps that read no clock. *)
LEMMA RankedKept ==
  ASSUME Ranked, UNCHANGED created, sent \subseteq sent', Present' \subseteq Clocked,
         \A s \in Requests :
           \/ request'[s] = request[s] \/ request'[s] = Idle
           \/ request'[s].at = "enqueued" /\ request'[s].job \notin Clocked
           \/ request'[s].at = "pruned" /\ request'[s].job \in Clocked
  PROVE  Ranked'
<1>1. Clocked' = Clocked
  BY DEF Clocked
<1>2. ASSUME NEW s \in Requests
      PROVE  /\ request'[s].at = "enqueued" => request'[s].job \notin Clocked
             /\ request'[s].at \in {"clocked", "pruned"} => request'[s].job \in Clocked
  BY DEF Ranked, Idle
<1> QED
  BY <1>1, <1>2 DEF Ranked

HistoryInv == TypeOK /\ Ordered /\ Ranked /\ Limited

LEMMA HistoryRequest ==
  ASSUME HistoryInv, TypeOK', NEW r \in Requests, RequestStep(r)
  PROVE  Ranked' /\ Limited'
<1> USE DEF HistoryInv
<1>1. ASSUME NEW j \in Jobs, NEW retries \in SUBSET Jobs, Send(r, j, retries)
      PROVE  Ranked' /\ Limited'
  <2>1. /\ request'[r].at = "enqueued" /\ request'[r].job = j
        /\ \A s \in Requests : s # r => request'[s] = request[s]
    BY <1>1 DEF Send, TypeOK
  <2>2. j \notin Clocked /\ sent \subseteq sent' /\ UNCHANGED created
        /\ Present' \subseteq Clocked /\ UNCHANGED Recorded
    BY <1>1 DEF Send, Ranked, rows, Present, Recorded
  <2>3. \A s \in Requests : request'[s] = request[s] \/ request'[s].at # "pruned"
    BY <2>1
  <2> QED
    BY <2>1, <2>2, <2>3, RankedKept, LimitedKept
<1>2. ASSUME NEW j \in Jobs, Enqueue(r, j) \/ \E t \in Jobs : Retry(r, j, t)
      PROVE  Ranked' /\ Limited'
  BY <1>1, <1>2 DEF Enqueue, Retry
<1>3. CASE Clock(r)
  <2>1. UNCHANGED Recorded
    BY <1>3 DEF Clock, rows, Recorded
  <2>2. \A s \in Requests : request'[s] = request[s] \/ request'[s].at # "pruned"
    BY <1>3, NotIdle DEF Clock, AtRequest, TypeOK, Request
  <2> QED
    BY <1>3, <2>1, <2>2, ClockRanked, LimitedKept
<1>4. CASE Prune(r)
  <2>1. /\ UNCHANGED <<created, sent>> /\ Present' \subseteq Clocked
        /\ request[r].at = "clocked" /\ request[r].job \in Clocked
    BY <1>4 DEF Prune, Ranked, rows, Present
  <2>2. /\ request'[r].at = "pruned" /\ request'[r].job = request[r].job
        /\ \A s \in Requests : s # r => request'[s] = request[s]
    BY <1>4, NotIdle DEF Prune, TypeOK, Request
  <2>3. Ranked'
    BY <2>1, <2>2, RankedKept
  <2> QED
    BY <1>4, <2>3, PruneLimited
<1>5. CASE CommitRow(r)
  <2>1. /\ UNCHANGED <<created, sent>> /\ request[r].job \in Clocked
        /\ \A s \in Requests : request'[s] = request[s] \/ request'[s] = Idle
    BY <1>5 DEF CommitRow, Ranked, TypeOK
  <2>2. Present' \subseteq Present \union {request[r].job}
    BY <1>5 DEF CommitRow, Present, Recorded, Active, Terminal
  <2>3. Ranked'
    BY <2>1, <2>2, RankedKept DEF Ranked
  <2> QED
    BY <1>5, <2>3, CommitLimited
<1>6. CASE RecordFails(r)
  <2>1. /\ UNCHANGED <<created, sent, Recorded>> /\ Present' \subseteq Clocked
        /\ \A s \in Requests : request'[s] = request[s] \/ request'[s] = Idle
    BY <1>6 DEF RecordFails, Ranked, rows, Present, Recorded, TypeOK
  <2>2. \A s \in Requests : request'[s] = request[s] \/ request'[s].at # "pruned"
    BY <2>1 DEF Idle
  <2> QED
    BY <2>1, <2>2, RankedKept, LimitedKept
<1> QED
  BY <1>2, <1>3, <1>4, <1>5, <1>6 DEF RequestStep

LEMMA HistoryStep == HistoryInv /\ [Next]_vars => HistoryInv'
<1> SUFFICES ASSUME HistoryInv, [Next]_vars PROVE HistoryInv'
  OBVIOUS
<1>1. TypeOK' /\ Ordered'
  BY TypeStep, OrderedStep DEF HistoryInv
<1>2. ASSUME UNCHANGED <<sent, created, request>>, UNCHANGED <<Present, Recorded>>
      PROVE  Ranked' /\ Limited'
  BY <1>2, RankedKept, LimitedKept DEF HistoryInv, Ranked
<1>3. CASE UNCHANGED vars
  BY <1>1, <1>2, <1>3 DEF vars, rows, Present, Recorded, HistoryInv
<1>4. ASSUME NEW w \in Workers, WorkerStep(w) PROVE Ranked' /\ Limited'
  <2>1. UNCHANGED <<sent, created, request>>
    BY <1>4 DEF WorkerStep, Take, TakeRevoked, Deliver, Prerun, MarkRunning, Run, Postrun, MarkEnded,
       WorkerDies
  <2>2. UNCHANGED row \/ \E s \in {"running"} \union Terminal : Write(worker[w].job, s)
    BY <1>4, EndedType DEF WorkerStep, Take, TakeRevoked, Deliver, Prerun, MarkRunning, Run, Postrun,
       MarkEnded, WorkerDies, rows
  <2>3. UNCHANGED <<Present, Recorded>>
    BY <2>2 DEF HistoryInv, Write, TypeOK, Present, Recorded, Active, Terminal
  <2> QED
    BY <1>2, <2>1, <2>3
<1>5. ASSUME NEW r \in Requests, RequestStep(r) PROVE Ranked' /\ Limited'
  BY <1>1, <1>5, HistoryRequest
<1> QED
  BY <1>1, <1>3, <1>4, <1>5 DEF Next, HistoryInv

(* The history of a dictionary never exceeds the limit by more than one row for  *)
(* each recording that can be under way at once.                              *)
THEOREM HistoryStaysBounded == Spec => []HistoryBounded
<1>1. Init => HistoryInv
  <2> SUFFICES ASSUME Init PROVE HistoryInv
    OBVIOUS
  <2>1. TypeOK
    BY Initial DEF IInv
  <2>2. /\ Recorded = {} /\ Present = {} /\ Clocked = {} /\ Recording = {}
    BY DEF Init, Recorded, Present, Clocked, Recording, Active, Terminal, Idle
  <2>3. Ordered
    BY <2>2 DEF Init, Ordered, Apart, VictimsOld, PrunedOld, Idle
  <2>4. Ranked
    BY <2>2 DEF Init, Ranked, Idle
  <2>5. After({}) = {}
    BY <2>2 DEF After, JobsOf
  <2>6. Cardinality({}) = 0 /\ Cardinality(Requests) \in Nat
    BY RegistryAssumption, FS_EmptySet, FS_CardinalityType
  <2>7. Limited
    <3>1. Small({})
      BY <2>6, RegistryAssumption DEF Small
    <3>2. SUBSET Recording = {{}}
      BY <2>2
    <3> QED
      BY <2>5, <3>1, <3>2 DEF Limited
  <2> QED
    BY <2>1, <2>3, <2>4, <2>7 DEF HistoryInv
<1>2. HistoryInv => HistoryBounded
  <2> SUFFICES ASSUME HistoryInv PROVE HistoryBounded
    OBVIOUS
  <2>1. Small(After({})) /\ After({}) = Recorded
    BY DEF HistoryInv, Limited, After, JobsOf
  <2> QED
    BY <2>1 DEF Small, HistoryBounded
<1> QED
  BY <1>1, <1>2, HistoryStep, PTL DEF Spec
================================================================================
