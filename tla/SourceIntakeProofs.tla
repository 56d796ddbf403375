--------------------------- MODULE SourceIntakeProofs ---------------------------
(***************************************************************************)
(* Theorems about SourceIntake, for every set of uploads and workers, every *)
(* number of pages and every bound on failures and on queued copies.        *)
(***************************************************************************)
EXTENDS SourceIntake, TLAPS

(***************************************************************************)
(* The inductive invariant relates the stores to the processes between      *)
(* them: how far the upload, the deletion or the task of a file has come    *)
(* says what its row and its objects are.                                   *)
(***************************************************************************)
UploadOwns(f) ==
  /\ row[f] # "none" => upload[f] \in {"committed", "done", "crashed"}
  /\ upload[f] \in {"stored", "unique"} => object[f]
  /\ cleanup[f] # "none" <=> row[f] = "deleted"
  /\ row[f] = "none" => pages[f] # "completed" /\ ~pageRows[f] /\ ~work[f]

TaskOwns(w) ==
  LET t == task[w] IN
  /\ t # Idle => row[t.file] # "none"
  /\ t # Idle /\ row[t.file] = "stored" => 1..(t.next - 1) \subseteq images[t.file]
  /\ t.at = "recording" => t.next = PageCount + 1

IInv ==
  /\ TypeOK
  /\ \A f \in Files : UploadOwns(f)
  /\ \A w \in Workers : TaskOwns(w)
  /\ StoredHasSource
  /\ ObjectsAccounted
  /\ PageRowsHaveImages
  /\ CompletedHasPages
  /\ NothingAfterDelete

(* What is known of a task that a worker is at. *)
LEMMA BusyType ==
  ASSUME TypeOK, NEW w \in Workers, task[w] # Idle
  PROVE  task[w] \in [at : Running, file : Files, next : 1..(PageCount + 1)]
BY DEF TypeOK, Task

LEMMA PlaceIsBusy ==
  ASSUME NEW w \in Workers, task[w].at # "idle"
  PROVE  task[w] # Idle
BY DEF Idle

(* A task that goes on, ends or begins stays well formed. *)
LEMMA GoType ==
  ASSUME TypeOK, NEW w \in Workers, task[w] # Idle, NEW place \in Running, Go(w, place)
  PROVE  task' \in [Workers -> Task]
BY BusyType DEF TypeOK, Go, Task

LEMMA FinishType ==
  ASSUME TypeOK, NEW w \in Workers, Finish(w)
  PROVE  task' \in [Workers -> Task]
BY DEF TypeOK, Finish, Task

LEMMA BeginType ==
  ASSUME TypeOK, NEW w \in Workers, NEW f \in Files, NEW place \in Running,
         Begin(w, place, f)
  PROVE  task' \in [Workers -> Task]
<1>1. Start(place, f) \in Task
  BY IntakeAssumption DEF Start, Task
<1>2. Idle \in Task
  BY DEF Task
<1> QED
  BY <1>1, <1>2 DEF TypeOK, Begin

(* Messages stay within the bound, and so do failures. *)
LEMMA SendType ==
  ASSUME TypeOK, NEW n \in TaskNames, NEW f \in Files, Send(n, f)
  PROVE  queue' \in [TaskNames -> [Files -> 0..MaxQueued]]
<1>1. queue[n] \in [Files -> 0..MaxQueued]
  BY DEF TypeOK
<1>2. [queue[n] EXCEPT ![f] = IF @ < MaxQueued THEN @ + 1 ELSE @]
         \in [Files -> 0..MaxQueued]
  BY <1>1, IntakeAssumption
<1> QED
  BY <1>2 DEF TypeOK, Send

LEMMA ReceiveType ==
  ASSUME TypeOK, NEW n \in TaskNames, NEW f \in Files, Receive(n, f)
  PROVE  queue' \in [TaskNames -> [Files -> 0..MaxQueued]]
<1>1. queue[n] \in [Files -> 0..MaxQueued]
  BY DEF TypeOK
<1>2. [queue[n] EXCEPT ![f] = @ - 1] \in [Files -> 0..MaxQueued]
  BY <1>1, IntakeAssumption DEF Receive
<1> QED
  BY <1>2 DEF TypeOK, Receive

LEMMA FaultType ==
  ASSUME TypeOK, Fault
  PROVE  faults' \in 0..MaxFaults
BY IntakeAssumption DEF TypeOK, Fault

LEMMA LastOfRange == \A n, m \in Nat : n \in 1..m => 1..n = 1..(n - 1) \union {n}
OBVIOUS

(* Types: one step per action. *)
LEMMA TypeStep == TypeOK /\ [Next]_vars => TypeOK'
<1> SUFFICES ASSUME TypeOK, [Next]_vars PROVE TypeOK'
  OBVIOUS
<1> USE DEF database, storage
<1>1. CASE UNCHANGED vars
  BY <1>1 DEF vars, TypeOK
<1>2. ASSUME NEW f \in Files, UploadStep(f) PROVE TypeOK'
  <2>1. CASE CheckUpload(f)
    BY <2>1 DEF CheckUpload, TypeOK
  <2>2. CASE StoreUpload(f)
    BY <2>2 DEF StoreUpload, TypeOK
  <2>3. CASE RecheckUpload(f)
    BY <2>3 DEF RecheckUpload, RefuseUpload, TypeOK
  <2>4. CASE CommitUpload(f)
    <3>1. faults' \in 0..MaxFaults
      BY <2>4, FaultType DEF CommitUpload, TypeOK
    <3> QED
      BY <2>4, <3>1 DEF CommitUpload, RefuseUpload, TypeOK
  <2>5. CASE EnqueueInspection(f)
    <3>1. queue' \in [TaskNames -> [Files -> 0..MaxQueued]] /\ faults' \in 0..MaxFaults
      BY <2>5, FaultType, SendType DEF EnqueueInspection, TypeOK, TaskNames
    <3> QED
      BY <2>5, <3>1 DEF EnqueueInspection, TypeOK
  <2> QED
    BY <1>2, <2>1, <2>2, <2>3, <2>4, <2>5 DEF UploadStep
<1>3. ASSUME NEW f \in Files, UploadDies(f) PROVE TypeOK'
  <2>1. faults' \in 0..MaxFaults
    BY <1>3, FaultType DEF UploadDies
  <2> QED
    BY <1>3, <2>1 DEF UploadDies, TypeOK
<1>4. ASSUME NEW w \in Workers, Take(w) PROVE TypeOK'
  <2>1. PICK f \in Files : TakeInspection(w, f) \/ TakeSplit(w, f)
    BY <1>4 DEF Take
  <2>2. task' \in [Workers -> Task]
    BY <2>1, BeginType DEF TakeInspection, TakeSplit, Running
  <2>3. queue' \in [TaskNames -> [Files -> 0..MaxQueued]]
    BY <2>1, ReceiveType DEF TakeInspection, TakeSplit, TaskNames
  <2> QED
    BY <2>1, <2>2, <2>3 DEF TakeInspection, TakeSplit, TypeOK
<1>5. ASSUME NEW w \in Workers, TaskStep(w) PROVE TypeOK'
  <2>1. CASE Inspect(w)
    <3>1. task' \in [Workers -> Task]
      BY <2>1, PlaceIsBusy, GoType DEF Inspect, Running
    <3>2. faults' \in 0..MaxFaults
      BY <2>1, FaultType DEF Inspect, TypeOK
    <3> QED
      BY <2>1, <3>1, <3>2 DEF Inspect, TypeOK
  <2>2. CASE CompleteInspection(w)
    <3>1. task' \in [Workers -> Task]
      BY <2>2, PlaceIsBusy, GoType, FinishType DEF CompleteInspection, Running
    <3> QED
      BY <2>2, <3>1 DEF CompleteInspection, Inspected, TypeOK
  <2>3. CASE EnqueueSplit(w)
    <3>1. task[w].file \in Files
      BY <2>3, PlaceIsBusy, BusyType DEF EnqueueSplit
    <3>2. queue' \in [TaskNames -> [Files -> 0..MaxQueued]] /\ faults' \in 0..MaxFaults
      BY <2>3, <3>1, FaultType, SendType DEF EnqueueSplit, TypeOK, TaskNames
    <3>3. task' \in [Workers -> Task]
      BY <2>3, FinishType DEF EnqueueSplit
    <3> QED
      BY <2>3, <3>2, <3>3 DEF EnqueueSplit, TypeOK
  <2>4. CASE Download(w)
    <3>1. task' \in [Workers -> Task]
      BY <2>4, PlaceIsBusy, GoType DEF Download, Running
    <3> QED
      BY <2>4, <3>1 DEF Download, TypeOK
  <2>5. CASE RenderPage(w)
    <3>1. task[w] \in [at : Running, file : Files, next : 1..(PageCount + 1)]
      BY <2>5, PlaceIsBusy, BusyType DEF RenderPage
    <3>2. task' \in [Workers -> Task]
      <4>1. CASE Go(w, "unrendered")
        BY <2>5, <4>1, PlaceIsBusy, GoType DEF RenderPage, Running
      <4>2. CASE task' = [task EXCEPT ![w] = [task[w] EXCEPT !.next = @ + 1]]
        <5>1. [task[w] EXCEPT !.next = @ + 1] \in Task
          BY <2>5, <3>1, IntakeAssumption DEF RenderPage, Task
        <5> QED
          BY <4>2, <5>1 DEF TypeOK
      <4> QED
        BY <2>5, <4>1, <4>2 DEF RenderPage
    <3>3. images' \in [Files -> SUBSET (1..PageCount)]
      BY <2>5, <3>1 DEF RenderPage, TypeOK
    <3>4. faults' \in 0..MaxFaults
      BY <2>5, FaultType DEF RenderPage, TypeOK
    <3> QED
      BY <2>5, <3>2, <3>3, <3>4 DEF RenderPage, TypeOK
  <2>6. CASE RecordLoad(w)
    <3>1. task' \in [Workers -> Task]
      BY <2>6, PlaceIsBusy, GoType, FinishType DEF RecordLoad, Running
    <3> QED
      BY <2>6, <3>1 DEF RecordLoad, TypeOK
  <2>7. CASE RecordCommit(w)
    <3>1. task' \in [Workers -> Task]
      BY <2>7, FinishType DEF RecordCommit
    <3> QED
      BY <2>7, <3>1 DEF RecordCommit, TypeOK
  <2>8. CASE RecordFailure(w)
    <3>1. task' \in [Workers -> Task]
      BY <2>8, FinishType DEF RecordFailure
    <3> QED
      BY <2>8, <3>1 DEF RecordFailure, TypeOK
  <2> QED
    BY <1>5, <2>1, <2>2, <2>3, <2>4, <2>5, <2>6, <2>7, <2>8 DEF TaskStep
<1>6. ASSUME NEW w \in Workers, TaskDies(w) \/ Redeliver(w) PROVE TypeOK'
  <2>1. faults' \in 0..MaxFaults
    BY <1>6, FaultType DEF TaskDies, Redeliver
  <2>2. CASE TaskDies(w)
    BY <2>1, <2>2, FinishType DEF TaskDies, TypeOK
  <2>3. CASE Redeliver(w)
    <3>1. task[w].file \in Files
      BY <2>3, BusyType DEF Redeliver
    <3>2. queue' \in [TaskNames -> [Files -> 0..MaxQueued]]
      BY <2>3, <3>1, SendType DEF Redeliver, TaskNames
    <3> QED
      BY <2>1, <2>3, <3>2 DEF Redeliver, TypeOK
  <2> QED
    BY <1>6, <2>2, <2>3
<1>7. CASE BackfillList
  BY <1>7 DEF BackfillList, TypeOK
<1>8. ASSUME NEW f \in Files, BackfillEnqueue(f) PROVE TypeOK'
  <2>1. queue' \in [TaskNames -> [Files -> 0..MaxQueued]] /\ faults' \in 0..MaxFaults
    BY <1>8, FaultType, SendType DEF BackfillEnqueue, TypeOK, TaskNames
  <2> QED
    BY <1>8, <2>1 DEF BackfillEnqueue, TypeOK
<1>9. ASSUME NEW f \in Files, CreateWork(f) \/ DeleteRow(f) PROVE TypeOK'
  BY <1>9 DEF CreateWork, DeleteRow, TypeOK
<1>10. ASSUME NEW f \in Files, CleanUp(f) PROVE TypeOK'
  <2>1. faults' \in 0..MaxFaults
    BY <1>10, FaultType DEF CleanUp, TypeOK
  <2> QED
    BY <1>10, <2>1 DEF CleanUp, TypeOK
<1> QED
  BY <1>1, <1>2, <1>3, <1>4, <1>5, <1>6, <1>7, <1>8, <1>9, <1>10 DEF Next

LEMMA InitIInv == Init => IInv
<1> SUFFICES ASSUME Init PROVE IInv
  OBVIOUS
<1>1. TypeOK
  <2>1. queue \in [TaskNames -> [Files -> 0..MaxQueued]] /\ faults \in 0..MaxFaults
    BY IntakeAssumption DEF Init
  <2> QED
    BY <2>1 DEF Init, TypeOK, Task
<1>2. \A f \in Files : UploadOwns(f)
  BY DEF Init, UploadOwns
<1>3. \A w \in Workers : TaskOwns(w)
  BY DEF Init, TaskOwns, Idle
<1> QED
  BY <1>1, <1>2, <1>3 DEF Init, IInv, StoredHasSource, ObjectsAccounted,
     PageRowsHaveImages, CompletedHasPages, NothingAfterDelete

(* What holds of the files, and what holds of the tasks. *)
FileFacts ==
  /\ \A f \in Files : UploadOwns(f)
  /\ StoredHasSource
  /\ ObjectsAccounted
  /\ PageRowsHaveImages
  /\ CompletedHasPages
  /\ NothingAfterDelete

LEMMA FilesStep == IInv /\ [Next]_vars => FileFacts'
<1> SUFFICES ASSUME IInv, [Next]_vars PROVE FileFacts'
  OBVIOUS
<1> USE DEF IInv, TypeOK, database, storage, FileFacts, UploadOwns, StoredHasSource, ObjectsAccounted,
            PageRowsHaveImages, CompletedHasPages, NothingAfterDelete
<1>1. CASE UNCHANGED vars
  BY <1>1 DEF vars
<1>2. ASSUME NEW f \in Files, UploadStep(f) PROVE FileFacts'
  <2>1. CASE CheckUpload(f)
    BY <2>1 DEF CheckUpload
  <2>2. CASE StoreUpload(f)
    BY <2>2 DEF StoreUpload
  <2>3. CASE RecheckUpload(f)
    <3>1. row[f] = "none" /\ cleanup[f] = "none"
      BY <2>3 DEF RecheckUpload
    <3>2. \A g \in Files : UploadOwns(g)'
      BY <2>3, <3>1 DEF RecheckUpload, RefuseUpload
    <3>3. StoredHasSource'
      BY <2>3, <3>1 DEF RecheckUpload, RefuseUpload
    <3>4. ObjectsAccounted'
      <4>1. UNCHANGED <<row, cleanup>>
        BY <2>3 DEF RecheckUpload
      <4>2. ASSUME NEW g \in Files, g # f PROVE object'[g] = object[g] /\ upload'[g] = upload[g]
        BY <2>3, <4>2 DEF RecheckUpload, RefuseUpload
      <4>3. upload'[f] = "unique" \/ ~object'[f]
        BY <2>3 DEF RecheckUpload, RefuseUpload
      <4> QED
        BY <4>1, <4>2, <4>3
    <3> QED
      BY <2>3, <3>2, <3>3, <3>4 DEF RecheckUpload
  <2>4. CASE CommitUpload(f)
    <3>1. row[f] = "none" /\ cleanup[f] = "none" /\ object[f]
      BY <2>4 DEF CommitUpload
    <3>2. \A g \in Files : UploadOwns(g)'
      BY <2>4, <3>1 DEF CommitUpload, RefuseUpload
    <3>0. /\ UNCHANGED cleanup
          /\ \A g \in Files : g # f => /\ object'[g] = object[g]
                                      /\ upload'[g] = upload[g]
                                      /\ row'[g] = row[g]
          /\ (row'[f] = "stored" /\ object'[f]) \/ (row'[f] = "none" /\ ~object'[f])
      <4>1. CASE /\ row' = [row EXCEPT ![f] = "stored"]
                 /\ upload' = [upload EXCEPT ![f] = "committed"]
                 /\ UNCHANGED object
        BY <2>4, <3>1, <4>1 DEF CommitUpload
      <4>2. CASE RefuseUpload(f) /\ UNCHANGED row
        BY <2>4, <3>1, <4>2 DEF CommitUpload, RefuseUpload
      <4> QED
        BY <2>4, <4>1, <4>2 DEF CommitUpload
    <3>3. StoredHasSource'
      <4>1. ASSUME NEW g \in Files, g # f, row'[g] = "stored" PROVE object'[g]
        <5>1. object[g]
          BY <3>0, <4>1
        <5> QED
          BY <3>0, <4>1, <5>1
      <4>2. row'[f] = "stored" => object'[f]
        BY <3>0
      <4> QED
        BY <4>1, <4>2
    <3>4. ObjectsAccounted'
      <4>1. ASSUME NEW g \in Files, g # f, object'[g]
            PROVE  \/ row'[g] = "stored"
                   \/ upload'[g] \in {"stored", "unique", "crashed"}
                   \/ cleanup'[g] \in {"object", "failed"}
        <5>1. object[g]
          BY <3>0, <4>1
        <5> QED
          BY <3>0, <4>1, <5>1
      <4>2. object'[f] => row'[f] = "stored"
        BY <3>0
      <4> QED
        BY <4>1, <4>2
    <3>5. PageRowsHaveImages' /\ NothingAfterDelete'
      BY <2>4, <3>1 DEF CommitUpload
    <3>6. CompletedHasPages'
      BY <2>4, <3>1 DEF CommitUpload
    <3> QED
      BY <3>2, <3>3, <3>4, <3>5, <3>6
  <2>5. CASE EnqueueInspection(f)
    BY <2>5 DEF EnqueueInspection
  <2> QED
    BY <1>2, <2>1, <2>2, <2>3, <2>4, <2>5 DEF UploadStep
<1>3. ASSUME NEW f \in Files, UploadDies(f) PROVE FileFacts'
  BY <1>3 DEF UploadDies
<1>4. ASSUME NEW w \in Workers, Take(w) PROVE FileFacts'
  <2>1. CASE \E f \in Files : TakeInspection(w, f) \/ TakeSplit(w, f)
    BY <2>1 DEF TakeInspection, TakeSplit, Begin, Start
  <2> QED
    BY <1>4, <2>1 DEF Take
<1>5. ASSUME NEW w \in Workers, TaskStep(w) PROVE FileFacts'
  <2>1. CASE Inspect(w)
    BY <2>1 DEF Inspect, Go
  <2>2. CASE CompleteInspection(w)
    BY <2>2 DEF CompleteInspection, Go, Finish, Inspected
  <2>3. CASE EnqueueSplit(w)
    BY <2>3 DEF EnqueueSplit, Finish
  <2>4. CASE Download(w)
    BY <2>4 DEF Download, Go
  <2>5. CASE RenderPage(w)
    <3>1. task[w].file \in Files /\ task[w].next \in 1..PageCount
      BY <2>5, PlaceIsBusy, BusyType, IntakeAssumption DEF RenderPage
    <3>2. PageRowsHaveImages'
      <4>1. ASSUME NEW g \in Files, pageRows'[g] PROVE images'[g] = 1..PageCount
        <5>1. images[g] = 1..PageCount
          BY <2>5, <4>1 DEF RenderPage
        <5>2. images'[g] = images[g] \/ images'[g] = images[g] \union {task[w].next}
          BY <2>5, <3>1 DEF RenderPage
        <5> QED
          BY <3>1, <5>1, <5>2
      <4> QED
        BY <4>1
    <3> QED
      BY <2>5, <3>2 DEF RenderPage
  <2>6. CASE RecordLoad(w)
    BY <2>6 DEF RecordLoad, Go, Finish
  <2>7. CASE RecordCommit(w)
    <3> DEFINE f == task[w].file
    <3>1. task[w] # Idle /\ f \in Files /\ task[w].next = PageCount + 1
      BY <2>7, PlaceIsBusy, BusyType, IntakeAssumption DEF RecordCommit, TaskOwns
    <3>2. row[f] = "stored" => images[f] = 1..PageCount
      <4>1. row[f] = "stored" => 1..(task[w].next - 1) \subseteq images[f]
        BY <3>1 DEF TaskOwns
      <4>2. task[w].next - 1 = PageCount
        BY <3>1, IntakeAssumption
      <4>3. images[f] \subseteq 1..PageCount
        BY <3>1
      <4> QED
        BY <4>1, <4>2, <4>3
    <3> HIDE DEF f
    <3>3. CASE row[f] = "stored"
      <4>1. /\ pageRows' = [pageRows EXCEPT ![f] = TRUE]
            /\ work' = [work EXCEPT ![f] = FALSE]
            /\ pages' = [pages EXCEPT ![f] = "completed"]
            /\ UNCHANGED <<upload, row, cleanup, object, images>>
        BY <2>7, <3>3 DEF RecordCommit, f
      <4> QED
        BY <3>1, <3>2, <3>3, <4>1
    <3>4. CASE row[f] # "stored"
      BY <2>7, <3>4 DEF RecordCommit, f
    <3> QED
      BY <3>3, <3>4
  <2>8. CASE RecordFailure(w)
    BY <2>8 DEF RecordFailure, Finish
  <2> QED
    BY <1>5, <2>1, <2>2, <2>3, <2>4, <2>5, <2>6, <2>7, <2>8 DEF TaskStep
<1>6. ASSUME NEW w \in Workers, TaskDies(w) PROVE FileFacts'
  BY <1>6 DEF TaskDies, Finish
<1>7. ASSUME NEW w \in Workers, Redeliver(w) PROVE FileFacts'
  BY <1>7 DEF Redeliver
<1>8. CASE BackfillList
  BY <1>8 DEF BackfillList
<1>9. ASSUME NEW f \in Files, BackfillEnqueue(f) PROVE FileFacts'
  BY <1>9 DEF BackfillEnqueue
<1>10. ASSUME NEW f \in Files, CreateWork(f) PROVE FileFacts'
  BY <1>10 DEF CreateWork
<1>11. ASSUME NEW f \in Files, DeleteRow(f) PROVE FileFacts'
  BY <1>11 DEF DeleteRow
<1>12. ASSUME NEW f \in Files, CleanUp(f) PROVE FileFacts'
  <2>1. row[f] = "deleted"
    BY <1>12 DEF CleanUp
  <2>2. \A g \in Files : UploadOwns(g)'
    BY <1>12, <2>1 DEF CleanUp
  <2>3. StoredHasSource'
    BY <1>12, <2>1 DEF CleanUp
  <2>4. ObjectsAccounted'
    <3>1. UNCHANGED <<row, upload>>
      BY <1>12 DEF CleanUp
    <3>2. ASSUME NEW g \in Files, g # f PROVE object'[g] = object[g] /\ cleanup'[g] = cleanup[g]
      BY <1>12, <3>2 DEF CleanUp
    <3>3. \/ cleanup'[f] = "failed" \/ ~object'[f]
          \/ cleanup[f] = "pages" /\ UNCHANGED object
      BY <1>12 DEF CleanUp
    <3>4. object'[f] /\ cleanup[f] = "pages" /\ UNCHANGED object => upload'[f] = "crashed"
      BY <2>1, <3>1
    <3> QED
      BY <3>1, <3>2, <3>3, <3>4
  <2>5. PageRowsHaveImages'
    BY <1>12, <2>1 DEF CleanUp
  <2> QED
    BY <1>12, <2>2, <2>3, <2>4, <2>5 DEF CleanUp
<1> QED
  BY <1>1, <1>2, <1>3, <1>4, <1>5, <1>6, <1>7, <1>8, <1>9, <1>10, <1>11, <1>12 DEF Next

(* A task that goes on with its own page, or ends, keeps what every task     *)
(* owns, as long as it touches no row and no image.                         *)
LEMMA GoKeepsTasks ==
  ASSUME IInv, NEW w \in Workers, task[w] # Idle, NEW place \in Running, Go(w, place),
         place = "recording" => task[w].next = PageCount + 1,
         UNCHANGED <<row, images>>
  PROVE  \A v \in Workers : TaskOwns(v)'
<1> DEFINE t == task[w]
<1>1. t \in [at : Running, file : Files, next : 1..(PageCount + 1)]
  BY BusyType DEF IInv
<1>2. task \in [Workers -> Task]
  BY DEF IInv, TypeOK
<1>3. task'[w] = [t EXCEPT !.at = place]
  BY <1>2 DEF Go
<1>4. task'[w].at = place /\ task'[w].file = t.file /\ task'[w].next = t.next
  BY <1>1, <1>3
<1>5. TaskOwns(w)'
  <2>1. TaskOwns(w)
    BY DEF IInv
  <2>2. row[t.file] # "none"
    BY <2>1 DEF TaskOwns
  <2>3. row[t.file] = "stored" => 1..(t.next - 1) \subseteq images[t.file]
    BY <2>1 DEF TaskOwns
  <2> QED
    BY <1>4, <2>2, <2>3 DEF TaskOwns
<1>6. ASSUME NEW v \in Workers, v # w PROVE TaskOwns(v)'
  <2>1. TaskOwns(v) /\ task'[v] = task[v]
    BY <1>2, <1>6 DEF IInv, Go
  <2> QED
    BY <2>1 DEF TaskOwns
<1> QED
  BY <1>5, <1>6

LEMMA FinishKeepsTasks ==
  ASSUME IInv, NEW w \in Workers, Finish(w), UNCHANGED <<row, images>>
  PROVE  \A v \in Workers : TaskOwns(v)'
<1>1. task \in [Workers -> Task]
  BY DEF IInv, TypeOK
<1>2. TaskOwns(w)'
  BY <1>1 DEF Finish, TaskOwns, Idle
<1>3. ASSUME NEW v \in Workers, v # w PROVE TaskOwns(v)'
  <2>1. TaskOwns(v) /\ task'[v] = task[v]
    BY <1>1, <1>3 DEF IInv, Finish
  <2> QED
    BY <2>1 DEF TaskOwns
<1> QED
  BY <1>2, <1>3

LEMMA TasksStep == IInv /\ [Next]_vars => \A v \in Workers : TaskOwns(v)'
<1> SUFFICES ASSUME IInv, [Next]_vars PROVE \A v \in Workers : TaskOwns(v)'
  OBVIOUS
<1> USE DEF IInv, TypeOK, database, storage, UploadOwns
<1>1. CASE UNCHANGED vars
  BY <1>1 DEF vars, TaskOwns, Idle, Task
<1>2. ASSUME NEW f \in Files, UploadStep(f) PROVE \A v \in Workers : TaskOwns(v)'
  <2>1. CASE CheckUpload(f)
    BY <2>1 DEF CheckUpload, TaskOwns, Idle, Task
  <2>2. CASE StoreUpload(f)
    BY <2>2 DEF StoreUpload, TaskOwns, Idle, Task
  <2>3. CASE RecheckUpload(f)
    BY <2>3 DEF RecheckUpload, RefuseUpload, TaskOwns, Idle, Task
  <2>4. CASE CommitUpload(f)
    BY <2>4 DEF CommitUpload, RefuseUpload, TaskOwns, Idle, Task
  <2>5. CASE EnqueueInspection(f)
    BY <2>5 DEF EnqueueInspection, TaskOwns, Idle, Task
  <2> QED
    BY <1>2, <2>1, <2>2, <2>3, <2>4, <2>5 DEF UploadStep
<1>3. ASSUME NEW f \in Files, UploadDies(f) PROVE \A v \in Workers : TaskOwns(v)'
  BY <1>3 DEF UploadDies, TaskOwns, Idle, Task
<1>4. ASSUME NEW w \in Workers, Take(w) PROVE \A v \in Workers : TaskOwns(v)'
  <2>1. CASE \E f \in Files : TakeInspection(w, f) \/ TakeSplit(w, f)
    BY <2>1 DEF TakeInspection, TakeSplit, Begin, Start, TaskOwns, Idle, Task
  <2> QED
    BY <1>4, <2>1 DEF Take
<1>5. ASSUME NEW w \in Workers, TaskStep(w) PROVE \A v \in Workers : TaskOwns(v)'
  <2>1. CASE Inspect(w)
    BY <2>1 DEF Inspect, Go, TaskOwns, Idle, Task
  <2>2. CASE CompleteInspection(w)
    <3>1. UNCHANGED <<row, images>>
      BY <2>2 DEF CompleteInspection
    <3>2. CASE task[w].at = "counted" /\ Go(w, "enqueue")
      BY <3>1, <3>2, PlaceIsBusy, GoKeepsTasks DEF Running
    <3>3. CASE Finish(w)
      BY <3>1, <3>3, FinishKeepsTasks
    <3> QED
      BY <2>2, <3>2, <3>3 DEF CompleteInspection
  <2>3. CASE EnqueueSplit(w)
    BY <2>3 DEF EnqueueSplit, Finish, TaskOwns, Idle, Task
  <2>4. CASE Download(w)
    BY <2>4 DEF Download, Go, TaskOwns, Idle, Task
  <2>5. CASE RenderPage(w)
    <3> DEFINE f == task[w].file
               p == task[w].next
    <3>1. task[w] # Idle /\ f \in Files /\ p \in 1..PageCount
      BY <2>5, PlaceIsBusy, BusyType, IntakeAssumption DEF RenderPage
    <3>2. \A g \in Files : images[g] \subseteq images'[g]
      BY <2>5, <3>1 DEF RenderPage
    <3>3. ASSUME NEW v \in Workers, v # w PROVE TaskOwns(v)'
      <4>1. task'[v] = task[v] /\ row' = row
        BY <2>5, <3>3 DEF RenderPage, Go
      <4>2. task[v] # Idle => task[v].file \in Files
        BY BusyType
      <4> QED
        BY <3>2, <4>1, <4>2 DEF TaskOwns
    <3>4. TaskOwns(w)'
      <4>1. CASE Go(w, "unrendered") /\ UNCHANGED images
        BY <2>5, <3>1, <4>1, BusyType DEF RenderPage, Go, TaskOwns
      <4>2. CASE /\ images' = [images EXCEPT ![f] = @ \union {p}]
                 /\ task' = [task EXCEPT ![w] = [task[w] EXCEPT !.next = @ + 1]]
        <5>1. /\ task'[w].file = f /\ task'[w].next = p + 1 /\ row' = row
              /\ task'[w].at = "rendering"
          BY <2>5, <3>1, <4>2, BusyType DEF RenderPage
        <5>2. row[f] = "stored" => 1..p \subseteq images'[f]
          <6>1. row[f] = "stored" => 1..(p - 1) \subseteq images[f]
            BY <3>1 DEF TaskOwns
          <6>2. images'[f] = images[f] \union {p}
            BY <3>1, <4>2
          <6>3. 1..p = 1..(p - 1) \union {p}
            <7>1. p \in Nat /\ p \in 1..PageCount /\ PageCount \in Nat
              BY <3>1, IntakeAssumption
            <7> QED
              BY ONLY <7>1, LastOfRange
          <6> QED
            BY <6>1, <6>2, <6>3
        <5>3. (p + 1) - 1 = p
          BY <3>1
        <5> QED
          BY <3>1, <5>1, <5>2, <5>3 DEF TaskOwns
      <4> QED
        BY <2>5, <4>1, <4>2 DEF RenderPage
    <3> QED
      BY <3>3, <3>4
  <2>6. CASE RecordLoad(w)
    <3>1. task[w] # Idle
      BY <2>6, PlaceIsBusy DEF RecordLoad
    <3>2. task[w].next = PageCount + 1
      <4>1. task[w].next \in 1..(PageCount + 1)
        BY <3>1, BusyType
      <4>2. task[w].next > PageCount
        BY <2>6 DEF RecordLoad
      <4> QED
        BY ONLY <4>1, <4>2, IntakeAssumption
    <3>3. UNCHANGED <<row, images>>
      BY <2>6 DEF RecordLoad
    <3>4. CASE Finish(w)
      BY <3>3, <3>4, FinishKeepsTasks
    <3>5. CASE Go(w, "recording")
      BY <3>1, <3>2, <3>3, <3>5, GoKeepsTasks DEF Running
    <3> QED
      BY <2>6, <3>4, <3>5 DEF RecordLoad
  <2>7. CASE RecordCommit(w)
    BY <2>7 DEF RecordCommit, Finish, TaskOwns, Idle, Task
  <2>8. CASE RecordFailure(w)
    BY <2>8 DEF RecordFailure, Finish, TaskOwns, Idle, Task
  <2> QED
    BY <1>5, <2>1, <2>2, <2>3, <2>4, <2>5, <2>6, <2>7, <2>8 DEF TaskStep
<1>6. ASSUME NEW w \in Workers, TaskDies(w) PROVE \A v \in Workers : TaskOwns(v)'
  BY <1>6 DEF TaskDies, Finish, TaskOwns, Idle, Task
<1>7. ASSUME NEW w \in Workers, Redeliver(w) PROVE \A v \in Workers : TaskOwns(v)'
  BY <1>7 DEF Redeliver, TaskOwns, Idle, Task
<1>8. CASE BackfillList
  BY <1>8 DEF BackfillList, TaskOwns, Idle, Task
<1>9. ASSUME NEW f \in Files, BackfillEnqueue(f) PROVE \A v \in Workers : TaskOwns(v)'
  BY <1>9 DEF BackfillEnqueue, TaskOwns, Idle, Task
<1>10. ASSUME NEW f \in Files, CreateWork(f) PROVE \A v \in Workers : TaskOwns(v)'
  BY <1>10 DEF CreateWork, TaskOwns, Idle, Task
<1>11. ASSUME NEW f \in Files, DeleteRow(f) PROVE \A v \in Workers : TaskOwns(v)'
  BY <1>11 DEF DeleteRow, TaskOwns, Idle, Task
<1>12. ASSUME NEW f \in Files, CleanUp(f) PROVE \A v \in Workers : TaskOwns(v)'
  BY <1>12 DEF CleanUp, TaskOwns, Idle, Task
<1> QED
  BY <1>1, <1>2, <1>3, <1>4, <1>5, <1>6, <1>7, <1>8, <1>9, <1>10, <1>11, <1>12 DEF Next

(* The stores and the processes agree in every state. *)
THEOREM IntakeInductive == Spec => []IInv
<1>1. IInv /\ [Next]_vars => IInv'
  BY TypeStep, FilesStep, TasksStep DEF IInv, FileFacts
<1> QED
  BY InitIInv, <1>1, PTL DEF Spec

(* Every row, object, message and task is one the code can handle.          *)
THEOREM IntakeTypeCorrect == Spec => []TypeOK
<1>1. IInv => TypeOK
  BY DEF IInv
<1> QED
  BY IntakeInductive, <1>1, PTL

(* A stored dictionary always has its PDF, and a PDF in the store always    *)
(* has an owner or a failed step that explains it: whatever fails, and in    *)
(* whatever order uploads, tasks and deletions run.                         *)
THEOREM SourcesAndObjectsAgree == Spec => []RowsMatchObjects
<1>1. IInv => RowsMatchObjects
  BY DEF IInv, RowsMatchObjects
<1> QED
  BY IntakeInductive, <1>1, PTL

(* Page rows always have their images and "completed" its page rows, also   *)
(* when splits of one file overlap, fail half-way or are repeated.          *)
THEOREM PagesAndImagesAgree == Spec => []PagesMatchImages
<1>1. IInv => PagesMatchImages
  BY DEF IInv, PagesMatchImages
<1> QED
  BY IntakeInductive, <1>1, PTL

(* A deleted dictionary has no page and no lexeme, however long before its   *)
(* deletion the task that records them had found its row.                   *)
THEOREM DeletedStaysEmpty == Spec => []NothingAfterDelete
<1>1. IInv => NothingAfterDelete
  BY DEF IInv
<1> QED
  BY IntakeInductive, <1>1, PTL
================================================================================
