-------------------------------- MODULE OneAtATime -------------------------------
(***************************************************************************)
(* What three components promise when nothing disturbs them: one request at  *)
(* a time, no failure.  They share no state here and do not interact, so a   *)
(* behaviour runs one of them while the two others wait in their initial     *)
(* states: the states are the union of the three instances' states.          *)
(***************************************************************************)
EXTENDS DictionaryLifecycle

CONSTANTS
  FieldIds,                                        \* of the entry
  Files, Workers, PageCount, MaxQueued, MaxFaults  \* of the intake

VARIABLES
  lemma, record, origin, parent, label, unfit, decisions, decision,
  upload, row, object, images, verified, pages, pageRows, work, queue, task,
  listed, cleanup, faults

(* The program's repository is PostgreSQL: statuses are loaded as strings.  The     *)
(* instance brings the theorems of EntryReview along.                          *)
Review == INSTANCE EntryReviewProofs WITH
  LoadsMembers <- FALSE, lexeme <- lemma, entry <- record, events <- decisions,
  request <- decision

Intake == INSTANCE SourceIntake WITH inspection <- verified

article == <<lemma, record, origin, parent, label, unfit, decisions, decision>>

intake == <<upload, row, object, images, verified, pages, pageRows, work, queue, task,
            listed, cleanup, faults>>

UndisturbedInit == Init /\ Review!Init /\ Intake!Init

UndisturbedNext ==
  \/ Review!Init /\ Intake!Init /\ Next /\ UNCHANGED <<article, intake>>
  \/ Init /\ Intake!Init /\ Review!Next /\ UNCHANGED <<vars, intake>>
  \/ Init /\ Review!Init /\ Intake!Next /\ UNCHANGED <<vars, article>>

(* The fairness of the intake: an accepted upload goes on, a worker works.   *)
Undisturbed ==
  /\ UndisturbedInit /\ [][UndisturbedNext]_<<vars, article, intake>>
  /\ \A f \in Files : WF_intake(upload[f] # "idle" /\ Intake!UploadStep(f))
  /\ \A w \in Workers : WF_intake(Intake!TaskStep(w)) /\ WF_intake(Intake!Take(w))

(* The use cases on one entry implement the workflow that statuses loaded as  *)
(* strings leave of the one the docstrings describe.                          *)
ImplementsWorkflow == Review!ImplementsWorkflow

(* An entry becomes complete only while it is valid against its schema.      *)
CompleteWhenValid == Review!CompleteWhenValid

(* An accepted upload ends with its pages, or with its dictionary deleted.   *)
EventuallySplit == Intake!EventuallySplit
================================================================================
