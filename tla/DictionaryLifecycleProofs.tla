----------------------- MODULE DictionaryLifecycleProofs -----------------------
(***************************************************************************)
(* Theorems about DictionaryLifecycle, for every set of requests, lexemes  *)
(* and metadata forms.                                                     *)
(***************************************************************************)
EXTENDS OneAtATime, TLAPS

(***************************************************************************)
(* The inductive invariant: what a request that has already checked may    *)
(* rely on when it commits, however many commits overtook it.              *)
(***************************************************************************)
InFlight(q) ==
  /\ q.at \in {"ranges", "ranges_replaced", "confirm"} => counted
  /\ q.at \in {"mark", "mark_commit"} => \E l \in Lexemes : lexeme[l] # "unborn"
  /\ q.at = "advance_commit" => q.target \in Band /\ "scanned" \in events
  /\ q.at = "publish" => "processed" \in events

(* The inspection that verifies a PDF stores its page count with the result. *)
VerifiedCounted == inspection = "verified" => counted

IInv ==
  /\ TypeOK
  /\ VerifiedCounted
  /\ status # "draft" => status \in events
  /\ ReleaseOrder
  /\ ScannedHadLexeme
  /\ ConfiguredHadPageCount
  /\ \A r \in Requests : InFlight(request[r])

(* The record of a request that holds nothing is well formed. *)
LEMMA IdleType == Idle \in Request
BY DEF Idle, Request, Places, Status, Band, Metadata, NoMetadata, Signals, NoSignals

(* A request that begins with a well-formed record keeps the type.         *)
LEMMA BeginType ==
  ASSUME TypeOK, NEW r \in Requests, NEW loaded \in Request, Begin(r, loaded)
  PROVE  request' \in [Requests -> Request]
BY DEF TypeOK, Begin

(* Every use case starts from a dictionary as the upload left it. *)
LEMMA InitIInv == Init => IInv
<1> SUFFICES ASSUME Init PROVE IInv
  OBVIOUS
<1>1. TypeOK
  BY IdleType DEF Init, TypeOK, Metadata, NoMetadata, Status
<1>2. \A r \in Requests : InFlight(request[r])
  BY DEF Init, InFlight, Idle
<1> QED
  BY <1>1, <1>2 DEF Init, IInv, VerifiedCounted, ReleaseOrder, ScannedHadLexeme,
     ConfiguredHadPageCount, Band

(* Types: one step per action. *)
LEMMA TypeStep == TypeOK /\ [Next]_vars => TypeOK'
<1> SUFFICES ASSUME TypeOK, [Next]_vars PROVE TypeOK'
  OBVIOUS
<1> USE IdleType DEF TypeOK, lexicon, others, source
<1>1. CASE UNCHANGED vars
  BY <1>1 DEF vars
<1>2. CASE InspectionCompletes
  BY <1>2 DEF InspectionCompletes
<1>3. ASSUME NEW r \in Requests, RequestStep(r) PROVE TypeOK'
  <2> DEFINE q == request[r]
  <2>0. q \in Request
    OBVIOUS
  <2>1. CASE SaveMetadataLoad(r)
    <3>1. PICK form \in MetadataInputs :
             Begin(r, [Idle EXCEPT !.at = "metadata", !.seen = status,
                                   !.old = metadata, !.new = form])
      BY <2>1 DEF SaveMetadataLoad
    <3>2. form \in Metadata
      BY InputsAssumption
    <3> DEFINE loaded == [Idle EXCEPT !.at = "metadata", !.seen = status,
                                      !.old = metadata, !.new = form]
    <3>3. loaded \in Request
      BY <3>2 DEF Request, Places
    <3>4. request' \in [Requests -> Request]
      BY <3>1, <3>3, BeginType
    <3> QED
      BY <2>1, <3>4 DEF SaveMetadataLoad
  <2>2. CASE SaveMetadataCommit(r)
    <3>1. metadata' \in Metadata
      BY <2>2, <2>0 DEF SaveMetadataCommit, Written, Request, Metadata
    <3> QED
      BY <2>2, <3>1 DEF SaveMetadataCommit, Move, Keep, Done, Status
  <2>3. CASE SavePageRangesLoad(r)
    <3>1. PICK keep \in BOOLEAN :
             Begin(r, [Idle EXCEPT !.at = "ranges", !.seen = status,
                                   !.old = metadata, !.keep = keep])
      BY <2>3 DEF SavePageRangesLoad
    <3> DEFINE loaded == [Idle EXCEPT !.at = "ranges", !.seen = status,
                                      !.old = metadata, !.keep = keep]
    <3>2. loaded \in Request
      BY DEF Request, Places
    <3>3. request' \in [Requests -> Request]
      BY <3>1, <3>2, BeginType
    <3> QED
      BY <2>3, <3>3 DEF SavePageRangesLoad
  <2>4. CASE SavePageRangesReplace(r)
    BY <2>4, <2>0 DEF SavePageRangesReplace, Request, Places
  <2>5. CASE SavePageRangesCommit(r)
    BY <2>5, <2>0 DEF SavePageRangesCommit, Move, Keep, Done, Status
  <2>6. CASE ConfirmLoad(r)
    BY <2>6 DEF ConfirmLoad, Begin, Request, Places
  <2>7. CASE ConfirmCommit(r)
    BY <2>7 DEF ConfirmCommit, Move, Keep, Done, Status
  <2>8. CASE FinishCheck(r)
    BY <2>8 DEF FinishCheck, Begin, Request, Places
  <2>9. CASE FinishHasLexeme(r)
    BY <2>9, <2>0 DEF FinishHasLexeme, Done, Request, Places
  <2>10. CASE MarkScannedLoad(r)
    <3>1. CASE Done(r)
      BY <2>10, <3>1 DEF MarkScannedLoad, Done
    <3>2. CASE request' = [request EXCEPT
                 ![r] = [@ EXCEPT !.at = "mark_commit", !.seen = status]]
      BY <2>10, <2>0, <3>2 DEF MarkScannedLoad, Request, Places
    <3> QED
      BY <2>10, <3>1, <3>2 DEF MarkScannedLoad
  <2>11. CASE MarkScannedCommit(r)
    BY <2>11 DEF MarkScannedCommit, Move, Done, Status, Band
  <2>12. CASE CountLexemes(r)
    <3>1. LexemeSignals \in Signals
      BY Zenon DEF LexemeSignals, Signals
    <3> DEFINE loaded == [Idle EXCEPT !.at = "count_entries",
                                      !.signals = LexemeSignals]
    <3>2. loaded \in Request
      BY <3>1 DEF Request, Places
    <3>3. request' \in [Requests -> Request]
      BY <2>12, <3>2, BeginType DEF CountLexemes
    <3> QED
      BY <2>12, <3>3 DEF CountLexemes
  <2>13. CASE CountEntries(r)
    BY <2>13, <2>0 DEF CountEntries, Request, Places, Signals
  <2>14. CASE AdvanceLoad(r)
    <3> DEFINE target == NextProcessingStatus(status, q.signals)
               loaded == [Idle EXCEPT !.at = "advance_commit", !.seen = status,
                                      !.target = target]
    <3>1. target \in Status
      BY DEF NextProcessingStatus, Status, Band
    <3>2. loaded \in Request
      BY <3>1 DEF Request, Places
    <3> HIDE DEF target
    <3>3. CASE Done(r)
      BY <2>14, <3>3 DEF AdvanceLoad, Done
    <3>4. CASE request' = [request EXCEPT ![r] = loaded]
      BY <2>14, <3>2, <3>4 DEF AdvanceLoad
    <3> QED
      BY <2>14, <3>3, <3>4 DEF AdvanceLoad, target
  <2>15. CASE AdvanceCommit(r)
    BY <2>15, <2>0 DEF AdvanceCommit, Move, Done, Request
  <2>16. CASE PublishLoad(r)
    BY <2>16 DEF PublishLoad, Begin, Request, Places
  <2>17. CASE PublishCommit(r)
    BY <2>17 DEF PublishCommit, Move, Done, Status
  <2> QED
    BY <1>3, <2>1, <2>2, <2>3, <2>4, <2>5, <2>6, <2>7, <2>8, <2>9, <2>10, <2>11,
       <2>12, <2>13, <2>14, <2>15, <2>16, <2>17 DEF RequestStep
<1>4. ASSUME NEW l \in Lexemes, LexiconStep(l) PROVE TypeOK'
  BY <1>4 DEF LexiconStep, CreateLexeme, UpdateLexeme, DeleteLexeme, PromoteLexeme,
     CompleteEntry, ReopenEntry
<1> QED
  BY <1>1, <1>2, <1>3, <1>4 DEF Next

(* Every column of the dictionary holds a value of its type in every        *)
(* reachable state.                                                        *)
THEOREM TypeCorrect == Spec => []TypeOK
<1>1. Init => TypeOK
  BY InitIInv DEF IInv
<1> QED
  BY <1>1, TypeStep, PTL DEF Spec

(***************************************************************************)
(* What no step undoes: recorded statuses stay recorded, a counted source  *)
(* stays counted, a lexeme that was created has been created.              *)
(***************************************************************************)
Settled ==
  /\ events \subseteq events'
  /\ counted => counted'
  /\ VerifiedCounted => VerifiedCounted'
  /\ \A l \in Lexemes : lexeme[l] # "unborn" => lexeme'[l] # "unborn"

LEMMA NextSettled == TypeOK /\ [Next]_vars => Settled
<1> SUFFICES ASSUME TypeOK, [Next]_vars PROVE Settled
  OBVIOUS
<1> USE DEF TypeOK, Settled, VerifiedCounted, lexicon, others, source
<1>1. CASE UNCHANGED vars
  BY <1>1 DEF vars
<1>2. CASE InspectionCompletes
  BY <1>2 DEF InspectionCompletes
<1>3. ASSUME NEW r \in Requests, RequestStep(r) PROVE Settled
  <2> USE <1>3 DEF RequestStep, 
     SaveMetadataLoad, SaveMetadataCommit,
     SavePageRangesLoad, SavePageRangesReplace, SavePageRangesCommit,
     ConfirmLoad, ConfirmCommit, FinishCheck, FinishHasLexeme,
     MarkScannedLoad, MarkScannedCommit, CountLexemes, CountEntries,
     AdvanceLoad, AdvanceCommit, PublishLoad, PublishCommit, VerifiedCounted
  <2>1. UNCHANGED <<source, lexeme>>
    OBVIOUS
  <2>2. UNCHANGED events \/ \E to : Move(to)
    BY DEF Keep
  <2>3. events \subseteq events'
    BY ONLY <2>2 DEF Move
  <2> QED
    BY <2>1, <2>3
<1>4. ASSUME NEW l \in Lexemes, LexiconStep(l) PROVE Settled
  BY <1>4 DEF LexiconStep, CreateLexeme, UpdateLexeme, DeleteLexeme, PromoteLexeme,
     CompleteEntry, ReopenEntry
<1> QED
  BY <1>1, <1>2, <1>3, <1>4 DEF Next

(* A request that waits while another one commits keeps what it relies on. *)
LEMMA InFlightStable ==
  ASSUME TypeOK, Settled, NEW s \in Requests, InFlight(request[s]),
         request'[s] = request[s]
  PROVE  InFlight(request[s])'
BY DEF Settled, InFlight, TypeOK

(* What a step of request r must establish besides the types.              *)
Rest ==
  /\ VerifiedCounted
  /\ status # "draft" => status \in events
  /\ ReleaseOrder
  /\ ScannedHadLexeme
  /\ ConfiguredHadPageCount

(* A step that writes neither the status nor the ranges disturbs nothing.  *)
LEMMA QuietStep ==
  ASSUME IInv, Settled, UNCHANGED <<status, events, ranges>>
  PROVE  Rest'
BY DEF IInv, Settled, Rest, VerifiedCounted, ReleaseOrder, ScannedHadLexeme,
   ConfiguredHadPageCount

(* A step that writes the status together with its event keeps the audit   *)
(* trail and the release order, when the move it records is a legal one.   *)
LEMMA MoveStep ==
  ASSUME IInv, Settled, NEW to \in Status, Move(to), UNCHANGED <<ranges, lexeme>>,
         to = "published" => "processed" \in events,
         to \in Band \ {"scanned"} => "scanned" \in events,
         to = "scanned" => \E l \in Lexemes : lexeme[l] # "unborn",
         to = "configured" => counted
  PROVE  Rest'
BY DEF IInv, Settled, Rest, Move, TypeOK, VerifiedCounted, ReleaseOrder,
   ScannedHadLexeme, ConfiguredHadPageCount, Band

(* The inductive step: one step per action.                                *)
LEMMA NextIInv == IInv /\ [Next]_vars => IInv'
<1> SUFFICES ASSUME IInv, [Next]_vars PROVE IInv'
  OBVIOUS
<1>1. TypeOK /\ TypeOK'
  BY TypeStep DEF IInv
<1>2. Settled
  BY <1>1, NextSettled
<1>3. SUFFICES Rest' /\ \A s \in Requests : InFlight(request[s])'
  BY <1>1 DEF IInv, Rest
<1>4. CASE UNCHANGED vars
  BY <1>1, <1>2, <1>4, QuietStep, InFlightStable DEF vars, IInv
<1>5. CASE InspectionCompletes
  BY <1>1, <1>2, <1>5, QuietStep, InFlightStable DEF InspectionCompletes, IInv
<1>6. ASSUME NEW l \in Lexemes, LexiconStep(l)
      PROVE  Rest' /\ \A s \in Requests : InFlight(request[s])'
  <2>1. UNCHANGED <<status, events, ranges, request>>
    BY <1>6 DEF LexiconStep, CreateLexeme, UpdateLexeme, DeleteLexeme,
       PromoteLexeme, CompleteEntry, ReopenEntry, others
  <2> QED
    BY <1>1, <1>2, <2>1, QuietStep, InFlightStable DEF IInv
<1>7. ASSUME NEW r \in Requests, RequestStep(r)
      PROVE  Rest' /\ \A s \in Requests : InFlight(request[s])'
  <2> DEFINE q == request[r]
  <2>0. q \in Request /\ InFlight(q)
    BY <1>1 DEF TypeOK, IInv
  <2>1. \A s \in Requests \ {r} : InFlight(request[s])'
    <3>1. \A s \in Requests \ {r} : request'[s] = request[s]
      BY <1>1, <1>7 DEF TypeOK, RequestStep, Begin, Done,
         SaveMetadataLoad, SaveMetadataCommit,
         SavePageRangesLoad, SavePageRangesReplace, SavePageRangesCommit,
         ConfirmLoad, ConfirmCommit, FinishCheck, FinishHasLexeme,
         MarkScannedLoad, MarkScannedCommit, CountLexemes, CountEntries,
         AdvanceLoad, AdvanceCommit, PublishLoad, PublishCommit
    <3> QED
      BY <1>1, <1>2, <3>1, InFlightStable DEF IInv
  <2>2. ASSUME Done(r) PROVE InFlight(request[r])'
    BY <1>1, <2>2 DEF TypeOK, Done, Idle, InFlight
  <2>3. SUFFICES Rest' /\ InFlight(request[r])'
    BY <2>1
  <2>4. CASE SaveMetadataLoad(r)
    BY <1>1, <1>2, <2>4, QuietStep
       DEF SaveMetadataLoad, Begin, InFlight, TypeOK, Idle
  <2>5. CASE SaveMetadataCommit(r)
    <3>1. CASE Move("draft")
      BY <1>2, <2>2, <2>5, <3>1, MoveStep
         DEF SaveMetadataCommit, Status, Band, lexicon
    <3>2. CASE Keep
      BY <1>2, <2>2, <2>5, <3>2, QuietStep DEF SaveMetadataCommit, Keep
    <3> QED
      BY <2>5, <3>1, <3>2 DEF SaveMetadataCommit
  <2>6. CASE SavePageRangesLoad(r)
    <3>1. Rest'
      BY <1>2, <2>6, QuietStep DEF SavePageRangesLoad
    <3>2. PICK keep \in BOOLEAN :
             Begin(r, [Idle EXCEPT !.at = "ranges", !.seen = status,
                                   !.old = metadata, !.keep = keep])
      BY <2>6 DEF SavePageRangesLoad
    <3>3. request'[r].at = "ranges" /\ counted'
      BY <1>1, <2>6, <3>2 DEF SavePageRangesLoad, Begin, TypeOK, Idle, source
    <3> QED
      BY <3>1, <3>3 DEF InFlight
  <2>7. CASE SavePageRangesReplace(r)
    BY <1>1, <1>2, <2>0, <2>7, QuietStep
       DEF SavePageRangesReplace, InFlight, TypeOK, Request, source
  <2>8. CASE SavePageRangesCommit(r)
    <3>1. counted /\ UNCHANGED <<source, lexeme>>
      BY <2>0, <2>8 DEF InFlight, SavePageRangesCommit, lexicon
    <3>2. CASE Move("draft")
      BY <1>1, <2>2, <2>8, <3>1, <3>2
         DEF SavePageRangesCommit, source, Move, IInv, Rest, TypeOK, VerifiedCounted,
             ReleaseOrder, ScannedHadLexeme, ConfiguredHadPageCount, Band
    <3>3. CASE Keep
      BY <1>1, <2>2, <2>8, <3>1, <3>3
         DEF SavePageRangesCommit, source, Keep, IInv, Rest, TypeOK, VerifiedCounted,
             ReleaseOrder, ScannedHadLexeme, ConfiguredHadPageCount
    <3> QED
      BY <2>8, <3>2, <3>3 DEF SavePageRangesCommit
  <2>9. CASE ConfirmLoad(r)
    BY <1>1, <1>2, <2>9, QuietStep
       DEF ConfirmLoad, Ready, Begin, InFlight, TypeOK, Idle, IInv, VerifiedCounted,
           source
  <2>10. CASE ConfirmCommit(r)
    <3>1. CASE Move("configured")
      BY <1>2, <2>0, <2>2, <2>10, <3>1, MoveStep
         DEF ConfirmCommit, InFlight, Status, Band, lexicon
    <3>2. CASE Keep
      BY <1>2, <2>2, <2>10, <3>2, QuietStep DEF ConfirmCommit, Keep
    <3> QED
      BY <2>10, <3>1, <3>2 DEF ConfirmCommit
  <2>11. CASE FinishCheck(r)
    BY <1>1, <1>2, <2>11, QuietStep DEF FinishCheck, Begin, InFlight, TypeOK, Idle
  <2>12. CASE FinishHasLexeme(r)
    <3>1. Rest'
      BY <1>2, <2>12, QuietStep DEF FinishHasLexeme
    <3>2. CASE HasLexeme /\ request' = [request EXCEPT ![r].at = "mark"]
      BY <1>1, <2>0, <2>12, <3>1, <3>2
         DEF HasLexeme, FinishHasLexeme, InFlight, TypeOK, Request, lexicon
    <3> QED
      BY <2>2, <2>12, <3>1, <3>2 DEF FinishHasLexeme
  <2>13. CASE MarkScannedLoad(r)
    <3>1. Rest'
      BY <1>2, <2>13, QuietStep DEF MarkScannedLoad
    <3>2. CASE request' = [request EXCEPT
                 ![r] = [@ EXCEPT !.at = "mark_commit", !.seen = status]]
      BY <1>1, <2>0, <2>13, <3>1, <3>2
         DEF MarkScannedLoad, InFlight, TypeOK, Request, lexicon
    <3> QED
      BY <2>2, <2>13, <3>1, <3>2 DEF MarkScannedLoad
  <2>14. CASE MarkScannedCommit(r)
    BY <1>2, <2>0, <2>2, <2>14, MoveStep
       DEF MarkScannedCommit, InFlight, Status, Band, lexicon
  <2>15. CASE CountLexemes(r)
    BY <1>1, <1>2, <2>15, QuietStep DEF CountLexemes, Begin, InFlight, TypeOK, Idle
  <2>16. CASE CountEntries(r)
    BY <1>1, <1>2, <2>0, <2>16, QuietStep
       DEF CountEntries, InFlight, TypeOK, Request
  <2>17. CASE AdvanceLoad(r)
    <3> DEFINE target == NextProcessingStatus(status, q.signals)
               loaded == [Idle EXCEPT !.at = "advance_commit", !.seen = status,
                                      !.target = target]
    <3>1. Rest'
      BY <1>2, <2>17, QuietStep DEF AdvanceLoad
    <3>2. ASSUME target # status, request' = [request EXCEPT ![r] = loaded]
          PROVE  InFlight(request[r])'
      <4>1. status \in Band /\ target \in Band
        BY <3>2 DEF NextProcessingStatus, Band
      <4>2. "scanned" \in events
        BY <4>1 DEF IInv, ReleaseOrder, Band
      <4> HIDE DEF target
      <4> QED
        BY <1>1, <2>17, <3>2, <4>1, <4>2 DEF AdvanceLoad, InFlight, TypeOK, Idle
    <3>3. IF target = status THEN Done(r) ELSE request' = [request EXCEPT ![r] = loaded]
      BY <2>17 DEF AdvanceLoad
    <3> HIDE DEF target, loaded
    <3> QED
      BY <2>2, <3>1, <3>2, <3>3
  <2>18. CASE AdvanceCommit(r)
    <3>1. q.target \in Band /\ q.target \in Status /\ "scanned" \in events
      BY <2>0, <2>18 DEF AdvanceCommit, InFlight, Request
    <3>2. q.target # "published" /\ q.target # "configured"
      BY <3>1 DEF Band
    <3>3. \E l \in Lexemes : lexeme[l] # "unborn"
      BY <3>1 DEF IInv, ScannedHadLexeme
    <3>4. Move(q.target) /\ UNCHANGED <<ranges, lexeme>> /\ Done(r)
      BY <2>18 DEF AdvanceCommit, lexicon
    <3>5. Rest'
      BY <1>2, <3>1, <3>2, <3>3, <3>4, MoveStep
    <3> QED
      BY <2>2, <3>4, <3>5
  <2>19. CASE PublishLoad(r)
    BY <1>1, <1>2, <2>19, QuietStep
       DEF PublishLoad, Begin, InFlight, TypeOK, Idle, IInv
  <2>20. CASE PublishCommit(r)
    BY <1>2, <2>0, <2>2, <2>20, MoveStep
       DEF PublishCommit, InFlight, Status, Band, lexicon
  <2> QED
    BY <1>7, <2>4, <2>5, <2>6, <2>7, <2>8, <2>9, <2>10, <2>11, <2>12, <2>13, <2>14,
       <2>15, <2>16, <2>17, <2>18, <2>19, <2>20 DEF RequestStep
<1> QED
  BY <1>4, <1>5, <1>6, <1>7 DEF Next

(* The inductive invariant holds in every reachable state.                 *)
LEMMA Invariance == Spec => []IInv
BY InitIInv, NextIInv, PTL DEF Spec

(* Whatever requests race, a released dictionary had been recorded         *)
(* processed, and a processed one had finished scanning.                   *)
THEOREM ReleaseFollowsProcessing == Spec => []ReleaseOrder
BY Invariance, PTL DEF IInv

(* Whatever requests race, scanning is finished only after some lexeme was *)
(* selected.                                                               *)
THEOREM ScanningNeedsLexeme == Spec => []ScannedHadLexeme
BY Invariance, PTL DEF IInv

(* Whatever requests race, the pages of a dictionary that was ever         *)
(* configured, or has page ranges, had been counted.                       *)
THEOREM ConfiguringNeedsSource == Spec => []ConfiguredHadPageCount
BY Invariance, PTL DEF IInv

(* Whatever requests race, no stage of the lifecycle is recorded without   *)
(* those before it: the three results above in one.                        *)
THEOREM Milestones == Spec => []StagesEarned
<1>1. IInv => StagesEarned
  BY DEF IInv, StagesEarned
<1> QED
  BY <1>1, Invariance, PTL

(***************************************************************************)
(* One request at a time.  When a single request is served at once, what   *)
(* it loaded is still there when it commits, whatever the lexicographers   *)
(* and the worker do meanwhile.                                            *)
(***************************************************************************)
Fresh(q) ==
  /\ q.at \in {"metadata", "ranges", "ranges_replaced", "confirm", "mark_commit"}
       => q.seen = status
  /\ q.at \in {"metadata", "ranges", "ranges_replaced"} => q.old = metadata
  /\ q.at = "confirm" => metadata.scalars /\ ranges # {}
  /\ q.at = "mark_commit" => status # "scanned"
  /\ q.at = "advance_commit" => status \in Band /\ q.target \in Band \ {status}
  /\ q.at = "publish" => status = "processed"

SerialInv ==
  /\ IInv
  /\ ConfiguredStaysReady
  /\ \A r \in Requests : Fresh(request[r])

LEMMA SerialInit == Init => SerialInv
BY InitIInv DEF Init, SerialInv, ConfiguredStaysReady, Fresh, Idle

(* The only request's step: what it commits is what the status machine     *)
(* allows, and it leaves a fresh record and a ready dictionary behind.     *)
LEMMA SerialStep ==
  ASSUME NEW r, Requests = {r}, SerialInv, TypeOK', RequestStep(r)
  PROVE  /\ ConfiguredStaysReady' /\ Fresh(request[r])'
         /\ [Machine!Next]_status
<1> DEFINE q == request[r]
           Goal == /\ ConfiguredStaysReady' /\ Fresh(request[r])'
                   /\ [Machine!Next]_status
<1>1. /\ TypeOK /\ ConfiguredStaysReady
      /\ q \in Request /\ Fresh(q) /\ InFlight(q)
  BY DEF SerialInv, IInv, TypeOK
<1>2. request'[r].at = "idle" => Fresh(request[r])'
  BY DEF Fresh
<1>3. ASSUME Done(r) PROVE Fresh(request[r])'
  BY <1>1, <1>2, <1>3 DEF Done, Idle, TypeOK
<1>4. ASSUME UNCHANGED <<status, metadata, ranges>>
      PROVE  ConfiguredStaysReady' /\ [Machine!Next]_status
  BY <1>1, <1>4 DEF ConfiguredStaysReady
<1>5. CASE SaveMetadataLoad(r)
  BY <1>1, <1>4, <1>5 DEF SaveMetadataLoad, Begin, Fresh, Idle, TypeOK
<1>6. CASE SaveMetadataCommit(r)
  <2>1. /\ q.seen = status /\ q.old = metadata /\ UNCHANGED ranges
    BY <1>1, <1>6 DEF SaveMetadataCommit, Fresh
  <2>2. ASSUME Demotes(q.seen, Ready([scalars |-> q.new.scalars,
                                      languages |-> q.old.languages],
                                     inspection, ranges # {})), Move("draft")
        PROVE  Goal
    BY <1>3, <1>6, <2>1, <2>2
       DEF SaveMetadataCommit, Demotes, Move, ConfiguredStaysReady, Machine!Next,
           Machine!Demote
  <2>3. ASSUME ~Demotes(q.seen, Ready([scalars |-> q.new.scalars,
                                       languages |-> q.old.languages],
                                      inspection, ranges # {})), Keep
        PROVE  Goal
    <3>1. status = "configured" => q.new.scalars /\ ranges # {}
      BY <2>1, <2>3 DEF Demotes, Ready
    <3>2. q.new.scalars => metadata'.scalars
      BY <1>1, <1>6, <2>1 DEF SaveMetadataCommit, Written, Request, Metadata
    <3> QED
      BY <1>3, <1>6, <2>1, <2>3, <3>1, <3>2
         DEF SaveMetadataCommit, Keep, ConfiguredStaysReady
  <2> QED
    BY <1>6, <2>2, <2>3 DEF SaveMetadataCommit
<1>7. CASE SavePageRangesLoad(r)
  BY <1>1, <1>4, <1>7 DEF SavePageRangesLoad, Begin, Fresh, Idle, TypeOK
<1>8. CASE SavePageRangesReplace(r)
  BY <1>1, <1>4, <1>8 DEF SavePageRangesReplace, Fresh, Request, TypeOK
<1>9. CASE SavePageRangesCommit(r)
  <2>1. /\ q.seen = status /\ q.old = metadata /\ UNCHANGED metadata
    BY <1>1, <1>9 DEF SavePageRangesCommit, Fresh
  <2>2. ASSUME Demotes(q.seen, Ready(q.old, inspection, q.keep)), Move("draft")
        PROVE  Goal
    BY <1>3, <1>9, <2>1, <2>2
       DEF SavePageRangesCommit, Demotes, Move, ConfiguredStaysReady, Machine!Next,
           Machine!Demote
  <2>3. ASSUME ~Demotes(q.seen, Ready(q.old, inspection, q.keep)), Keep
        PROVE  Goal
    <3>1. status = "configured" => metadata.scalars /\ q.keep
      BY <2>1, <2>3 DEF Demotes, Ready
    <3>2. q.keep => ranges' # {}
      BY <1>9 DEF SavePageRangesCommit
    <3> QED
      BY <1>3, <1>9, <2>1, <2>3, <3>1, <3>2
         DEF SavePageRangesCommit, Keep, ConfiguredStaysReady
  <2> QED
    BY <1>9, <2>2, <2>3 DEF SavePageRangesCommit
<1>10. CASE ConfirmLoad(r)
  BY <1>1, <1>4, <1>10 DEF ConfirmLoad, Ready, Begin, Fresh, Idle, TypeOK
<1>11. CASE ConfirmCommit(r)
  BY <1>1, <1>3, <1>11
     DEF ConfirmCommit, Fresh, Ready, Move, Keep, ConfiguredStaysReady,
         Machine!Next, Machine!Configure
<1>12. CASE FinishCheck(r)
  BY <1>1, <1>4, <1>12 DEF FinishCheck, Begin, Fresh, Idle, TypeOK
<1>13. CASE FinishHasLexeme(r)
  <2>1. ConfiguredStaysReady' /\ [Machine!Next]_status
    BY <1>4, <1>13 DEF FinishHasLexeme
  <2>2. CASE request' = [request EXCEPT ![r].at = "mark"]
    BY <1>1, <2>1, <2>2 DEF Fresh, Request, TypeOK
  <2> QED
    BY <1>3, <1>13, <2>1, <2>2 DEF FinishHasLexeme
<1>14. CASE MarkScannedLoad(r)
  <2>1. ConfiguredStaysReady' /\ [Machine!Next]_status
    BY <1>4, <1>14 DEF MarkScannedLoad
  <2>2. CASE /\ status # "scanned"
             /\ request' = [request EXCEPT
                  ![r] = [@ EXCEPT !.at = "mark_commit", !.seen = status]]
    BY <1>1, <1>14, <2>1, <2>2 DEF MarkScannedLoad, Fresh, Request, TypeOK
  <2> QED
    BY <1>3, <1>14, <2>1, <2>2 DEF MarkScannedLoad
<1>15. CASE MarkScannedCommit(r)
  BY <1>1, <1>3, <1>15
     DEF MarkScannedCommit, Fresh, Move, ConfiguredStaysReady, Machine!Next,
         Machine!FinishScanning
<1>16. CASE CountLexemes(r)
  BY <1>1, <1>4, <1>16 DEF CountLexemes, Begin, Fresh, Idle, TypeOK
<1>17. CASE CountEntries(r)
  BY <1>1, <1>4, <1>17 DEF CountEntries, Fresh, Request, TypeOK
<1>18. CASE AdvanceLoad(r)
  <2> DEFINE target == NextProcessingStatus(status, q.signals)
             loaded == [Idle EXCEPT !.at = "advance_commit", !.seen = status,
                                    !.target = target]
  <2>1. ConfiguredStaysReady' /\ [Machine!Next]_status
    BY <1>4, <1>18 DEF AdvanceLoad
  <2>2. ASSUME target # status, request' = [request EXCEPT ![r] = loaded]
        PROVE  Fresh(request[r])'
    <3>1. status \in Band /\ target \in Band \ {status}
      BY <2>2 DEF NextProcessingStatus, Band
    <3> HIDE DEF target
    <3> QED
      BY <1>1, <1>18, <2>2, <3>1 DEF AdvanceLoad, Fresh, TypeOK, Idle
  <2>3. IF target = status THEN Done(r) ELSE request' = [request EXCEPT ![r] = loaded]
    BY <1>18 DEF AdvanceLoad
  <2> HIDE DEF target, loaded
  <2> QED
    BY <1>3, <2>1, <2>2, <2>3
<1>19. CASE AdvanceCommit(r)
  BY <1>1, <1>3, <1>19
     DEF AdvanceCommit, Fresh, Move, ConfiguredStaysReady, Band, Machine!Next,
         Machine!AutoSync, Machine!Band
<1>20. CASE PublishLoad(r)
  BY <1>1, <1>4, <1>20 DEF PublishLoad, Begin, Fresh, Idle, TypeOK
<1>21. CASE PublishCommit(r)
  BY <1>1, <1>3, <1>21
     DEF PublishCommit, Fresh, Move, ConfiguredStaysReady, Machine!Next,
         Machine!Publish
<1> QED
  BY <1>5, <1>6, <1>7, <1>8, <1>9, <1>10, <1>11, <1>12, <1>13, <1>14, <1>15, <1>16,
     <1>17, <1>18, <1>19, <1>20, <1>21 DEF RequestStep

(* Steps of the worker and of the lexicographers are stutters of the       *)
(* status machine and spoil nothing a request has loaded.                  *)
LEMMA SerialNext ==
  ASSUME NEW r, Requests = {r}, SerialInv, [Next]_vars
  PROVE  SerialInv' /\ [Machine!Next]_status
<1>1. IInv' /\ TypeOK'
  BY NextIInv DEF SerialInv, IInv
<1>2. CASE RequestStep(r)
  BY <1>1, <1>2, SerialStep DEF SerialInv
<1>3. ASSUME UNCHANGED <<status, metadata, ranges, request>>
      PROVE  SerialInv' /\ [Machine!Next]_status
  BY <1>1, <1>3 DEF SerialInv, ConfiguredStaysReady, Fresh
<1>4. CASE UNCHANGED vars
  BY <1>3, <1>4 DEF vars
<1>5. CASE InspectionCompletes
  BY <1>3, <1>5 DEF InspectionCompletes
<1>6. ASSUME NEW l \in Lexemes, LexiconStep(l)
      PROVE  SerialInv' /\ [Machine!Next]_status
  <2>1. UNCHANGED others
    BY <1>6 DEF LexiconStep, CreateLexeme, UpdateLexeme, DeleteLexeme,
       PromoteLexeme, CompleteEntry, ReopenEntry
  <2> QED
    BY <1>3, <2>1 DEF others
<1> QED
  BY <1>2, <1>4, <1>5, <1>6 DEF Next

(* Served one at a time, the use cases implement the status machine: the   *)
(* automatic sync stays in its band, a release starts from "processed" and *)
(* only the two explicit acts leave "published".                           *)
THEOREM SerialRefinement ==
  ASSUME NEW r, Requests = {r}
  PROVE  Spec => ImplementsStatusMachine
<1>1. Init => Machine!Init
  BY DEF Init, Machine!Init
<1>2. SerialInv /\ [Next]_vars => SerialInv' /\ [Machine!Next]_status
  BY SerialNext
<1> QED
  BY <1>1, <1>2, SerialInit, PTL DEF Spec, Machine!Spec, ImplementsStatusMachine

(* Served one at a time, a configured dictionary keeps its title, its      *)
(* legal status and its page ranges.                                       *)
THEOREM SerialReadiness ==
  ASSUME NEW r, Requests = {r}
  PROVE  Spec => []ConfiguredStaysReady
<1>1. SerialInv /\ [Next]_vars => SerialInv'
  BY SerialNext
<1>2. SerialInv => ConfiguredStaysReady
  BY DEF SerialInv
<1> QED
  BY <1>1, <1>2, SerialInit, PTL DEF Spec

--------------------------------------------------------------------------------
(* The three components that run one at a time: each behaves as its own           *)
(* specification says.                                                          *)
THEOREM EachAsSpecified == Undisturbed => Spec /\ Review!Spec /\ Intake!Spec
<1>1. UndisturbedInit => Init /\ Review!Init /\ Intake!Init
  BY DEF UndisturbedInit
<1>2. [UndisturbedNext]_<<vars, article, intake>> =>
        [Next]_vars /\ [Review!Next]_Review!vars /\ [Intake!Next]_Intake!vars
  BY DEF UndisturbedNext, article, intake, Review!vars, Review!fields, Intake!vars,
         Intake!database, Intake!storage
<1> QED
  BY <1>1, <1>2, PTL DEF Undisturbed, Spec, Review!Spec, Intake!Spec

(* Served one at a time, with statuses loaded as strings, the use cases on an entry   *)
(* implement the workflow that is left, beside whatever the two others do.         *)
THEOREM UndisturbedWorkflow ==
  ASSUME NEW r, Requests = {r}
  PROVE  Undisturbed => ImplementsWorkflow
<1>1. FALSE \in BOOLEAN
  OBVIOUS
<1>2. Review!Spec => Review!ImplementsWorkflow
  BY <1>1, Review!SerialWorkflow
<1> QED
  BY <1>2, EachAsSpecified, PTL DEF ImplementsWorkflow

(* However many requests overlap, an entry is completed only while it is valid as   *)
(* long as no field goes and no value stops fitting while a completion is decided.  *)
THEOREM UndisturbedCompletion ==
  Undisturbed /\ [][Review!FieldsRest]_Review!vars => CompleteWhenValid
<1>1. FALSE \in BOOLEAN
  OBVIOUS
<1>2. Review!Spec /\ [][Review!FieldsRest]_Review!vars => Review!CompleteWhenValid
  BY <1>1, Review!CompletionSerialized
<1> QED
  BY <1>2, EachAsSpecified, PTL DEF CompleteWhenValid
================================================================================
