-------------------------- MODULE DictionaryLifecycle --------------------------
(***************************************************************************)
(* The status of one dictionary and the use cases that move it:            *)
(* SaveDictionaryMetadataService, SavePageRangesService,                   *)
(* DictionaryReadinessService, FinishScanningService with                  *)
(* MarkDictionaryScannedService, ScanProgressService with                  *)
(* AdvanceDictionaryProcessingStatusService, and PublishDictionaryService. *)
(*                                                                         *)
(* The API serves requests concurrently and PostgreSQL runs every unit of  *)
(* work READ COMMITTED without row locks, so a use case is modelled as a   *)
(* load of what it reads and a later commit of the columns it changed;     *)
(* other requests run in between.  An early return or a refusal changes    *)
(* nothing and is a step that is simply not taken.                         *)
(*                                                                         *)
(* The lexicon appears by the counts the status depends on: each lexeme    *)
(* and entry has a status, and its use cases are single steps here.        *)
(***************************************************************************)
EXTENDS Naturals

CONSTANTS
  Requests,        \* slots for requests that are being served
  Lexemes,         \* the lexemes that may ever be created (fresh UUIDs)
  MetadataInputs   \* the metadata forms the editors submit

Band == {"scanned", "in_progress", "processed"}

Status == {"draft", "configured", "published"} \union Band

(* Presence of what readiness asks for: the scalar columns (title and     *)
(* legal status) and at least one language row.                            *)
Metadata == [scalars : BOOLEAN, languages : BOOLEAN]

NoMetadata == [scalars |-> FALSE, languages |-> FALSE]

Signals == [any : BOOLEAN, work : BOOLEAN, lexemes : BOOLEAN, entries : BOOLEAN]

NoSignals == [any |-> FALSE, work |-> FALSE, lexemes |-> FALSE, entries |-> FALSE]

Places == {"idle", "metadata", "ranges", "ranges_replaced", "confirm",
           "finish", "mark", "mark_commit",
           "count_entries", "advance", "advance_commit", "publish"}

ASSUME InputsAssumption == MetadataInputs \subseteq Metadata

VARIABLES
  status,      \* dictionaries.status
  metadata,    \* the stored title, legal status and languages
  inspection,  \* dictionary_source_files.inspection_status
  counted,     \* dictionary_source_files.page_count is known
  ranges,      \* dictionary_page_ranges: the requests whose rows are stored
  lexeme,      \* lexemes.status, "unborn" before and "deleted" after the row
  entry,       \* dictionary_entries.status of the lexeme's entry
  events,      \* the statuses that STATUS_CHANGED rows name
  request      \* what each request being served has loaded

source == <<inspection, counted>>

vars == <<status, metadata, source, ranges, lexeme, entry, events, request>>

lexicon == <<lexeme, entry>>

Idle == [at |-> "idle", seen |-> "draft", old |-> NoMetadata, new |-> NoMetadata,
         rows |-> {}, keep |-> FALSE, signals |-> NoSignals, target |-> "draft"]

Request == [at : Places, seen : Status, old : Metadata, new : Metadata,
            rows : SUBSET Requests, keep : BOOLEAN, signals : Signals,
            target : Status]

Init ==
  /\ status = "draft"
  /\ metadata = NoMetadata
  /\ inspection = "pending"
  /\ counted = FALSE
  /\ ranges = {}
  /\ lexeme = [l \in Lexemes |-> "unborn"]
  /\ entry = [l \in Lexemes |-> "none"]
  /\ events = {}
  /\ request = [r \in Requests |-> Idle]

(***************************************************************************)
(* Pure rules of sources/domain.py.                                        *)
(***************************************************************************)

(* readiness_blockers returns no blocker. *)
Ready(form, result, haveRanges) ==
  form.scalars /\ form.languages /\ result = "verified" /\ haveRanges

(* MUTANT of Demotes: the check looks for the wrong status. *)
DemotesScanned(seen, ready) == seen = "scanned" /\ ~ready

(* apply_status_after_edit: the edit demotes the dictionary it loaded. *)
Demotes(seen, ready) == seen = "configured" /\ ~ready

(* MUTANTS of NextProcessingStatus: the band is not checked; the status of *)
(* the lexemes is written instead of the dictionary's own.                 *)
ProcessingStatusOutsideBand(current, s) ==
  IF s.any /\ s.lexemes /\ s.entries THEN "processed"
  ELSE IF s.work THEN "in_progress"
  ELSE "scanned"

NextProcessingStatus(current, s) ==
  IF current \notin Band THEN current
  ELSE IF s.any /\ s.lexemes /\ s.entries THEN "processed"
  ELSE IF s.work THEN "in_progress"
  ELSE "scanned"

(* A status column written together with its STATUS_CHANGED row.  The rows *)
(* carry no order but occurred_at, a clock read when the request began, so *)
(* of requests that overlap the later row need not be the later commit:    *)
(* only which statuses were ever recorded is kept.                         *)
Move(to) ==
  /\ status' = to
  /\ events' = events \union {to}

Keep == UNCHANGED <<status, events>>

Done(r) == request' = [request EXCEPT ![r] = Idle]

Begin(r, loaded) ==
  /\ request[r] = Idle
  /\ request' = [request EXCEPT ![r] = loaded]

(***************************************************************************)
(* Metadata (SaveDictionaryMetadataService.save).  The session flushes the *)
(* dictionary row, and so locks it, before it reads the source and the     *)
(* ranges: from there to the commit is one step.  The blockers are         *)
(* computed from the submitted scalars and the languages loaded before.    *)
(***************************************************************************)
SaveMetadataLoad(r) ==
  \E form \in MetadataInputs :
    /\ Begin(r, [Idle EXCEPT !.at = "metadata", !.seen = status,
                             !.old = metadata, !.new = form])
    /\ UNCHANGED <<status, metadata, source, ranges, lexicon, events>>

(* A column is written when its value differs from the loaded one; two     *)
(* present values may be the same text or different texts.                 *)
Written(old, new, stored) ==
  IF old # new THEN {new} ELSE IF new THEN {new, stored} ELSE {stored}

SaveMetadataCommit(r) ==
  LET q == request[r]
      checked == [scalars |-> q.new.scalars, languages |-> q.old.languages]
  IN  /\ q.at = "metadata"
      /\ \E text \in Written(q.old.scalars, q.new.scalars, metadata.scalars) :
           metadata' = [scalars |-> text, languages |-> q.new.languages]
      /\ IF Demotes(q.seen, Ready(checked, inspection, ranges # {}))
         THEN Move("draft")
         ELSE Keep
      /\ Done(r)
      /\ UNCHANGED <<source, ranges, lexicon>>

(***************************************************************************)
(* Page ranges (SavePageRangesService.save): DELETE the rows the statement *)
(* sees, insert the merged ones.  Nothing in the table stops a second save *)
(* from adding rows the DELETE of the first did not see.                   *)
(***************************************************************************)
SavePageRangesLoad(r) ==
  \E keep \in BOOLEAN :
    /\ counted
    /\ Begin(r, [Idle EXCEPT !.at = "ranges", !.seen = status,
                             !.old = metadata, !.keep = keep])
    /\ UNCHANGED <<status, metadata, source, ranges, lexicon, events>>

SavePageRangesReplace(r) ==
  /\ request[r].at = "ranges"
  /\ request' = [request EXCEPT
       ![r] = [@ EXCEPT !.at = "ranges_replaced", !.rows = ranges]]
  /\ UNCHANGED <<status, metadata, source, ranges, lexicon, events>>

SavePageRangesCommit(r) ==
  LET q == request[r]
  IN  /\ q.at = "ranges_replaced"
      /\ ranges' = (ranges \ q.rows) \union (IF q.keep THEN {r} ELSE {})
      /\ IF Demotes(q.seen, Ready(q.old, inspection, q.keep))
         THEN Move("draft")
         ELSE Keep
      /\ Done(r)
      /\ UNCHANGED <<metadata, source, lexicon>>

(***************************************************************************)
(* Readiness (DictionaryReadinessService.confirm_configured).              *)
(***************************************************************************)
ConfirmLoad(r) ==
  /\ Ready(metadata, inspection, ranges # {})
  /\ Begin(r, [Idle EXCEPT !.at = "confirm", !.seen = status])
  /\ UNCHANGED <<status, metadata, source, ranges, lexicon, events>>

ConfirmCommit(r) ==
  /\ request[r].at = "confirm"
  /\ IF request[r].seen # "configured" THEN Move("configured") ELSE Keep
  /\ Done(r)
  /\ UNCHANGED <<metadata, source, ranges, lexicon>>

(***************************************************************************)
(* Finishing the scanning stage: FinishScanningService.finish reads the    *)
(* status, then whether a lexeme exists, then hands over to mark_scanned,  *)
(* each in a unit of work of its own.                                      *)
(***************************************************************************)
HasLexeme == \E l \in Lexemes : lexeme[l] \notin {"unborn", "deleted"}

FinishCheck(r) ==
  /\ status # "scanned"
  /\ Begin(r, [Idle EXCEPT !.at = "finish"])
  /\ UNCHANGED <<status, metadata, source, ranges, lexicon, events>>

FinishHasLexeme(r) ==
  /\ request[r].at = "finish"
  /\ IF HasLexeme
     THEN request' = [request EXCEPT ![r].at = "mark"]
     ELSE Done(r)
  /\ UNCHANGED <<status, metadata, source, ranges, lexicon, events>>

MarkScannedLoad(r) ==
  /\ request[r].at = "mark"
  /\ IF status = "scanned"
     THEN Done(r)
     ELSE request' = [request EXCEPT
            ![r] = [@ EXCEPT !.at = "mark_commit", !.seen = status]]
  /\ UNCHANGED <<status, metadata, source, ranges, lexicon, events>>

MarkScannedCommit(r) ==
  /\ request[r].at = "mark_commit"
  /\ Move("scanned")
  /\ Done(r)
  /\ UNCHANGED <<metadata, source, ranges, lexicon>>

(***************************************************************************)
(* Scan progress (ScanProgressService.get_progress): two counts, each a    *)
(* statement with a snapshot of its own, then advance in another unit of   *)
(* work.                                                                   *)
(***************************************************************************)
Present == {l \in Lexemes : lexeme[l] \notin {"unborn", "deleted"}}

Promoted == {l \in Lexemes : entry[l] # "none"}

LexemeSignals ==
  [any     |-> Present # {},
   work    |-> \E l \in Present : lexeme[l] # "draft",
   lexemes |-> Present # {} /\ \A l \in Present : lexeme[l] = "complete",
   entries |-> FALSE]

CountLexemes(r) ==
  /\ Begin(r, [Idle EXCEPT !.at = "count_entries", !.signals = LexemeSignals])
  /\ UNCHANGED <<status, metadata, source, ranges, lexicon, events>>

CountEntries(r) ==
  /\ request[r].at = "count_entries"
  /\ request' = [request EXCEPT
       ![r] = [@ EXCEPT
         !.at = "advance",
         !.signals.work = @ \/ Promoted # {},
         !.signals.entries = \A l \in Promoted : entry[l] = "complete"]]
  /\ UNCHANGED <<status, metadata, source, ranges, lexicon, events>>

AdvanceLoad(r) ==
  LET target == NextProcessingStatus(status, request[r].signals)
  IN  /\ request[r].at = "advance"
      /\ IF target = status
         THEN Done(r)
         ELSE request' = [request EXCEPT ![r] =
                [Idle EXCEPT !.at = "advance_commit", !.seen = status,
                             !.target = target]]
      /\ UNCHANGED <<status, metadata, source, ranges, lexicon, events>>

AdvanceCommit(r) ==
  /\ request[r].at = "advance_commit"
  /\ Move(request[r].target)
  /\ Done(r)
  /\ UNCHANGED <<metadata, source, ranges, lexicon>>

(***************************************************************************)
(* Release (PublishDictionaryService.publish).                             *)
(***************************************************************************)
(* MUTANT of PublishLoad: any dictionary past scanning can be released. *)
PublishLoadInBand(r) ==
  /\ status \in Band
  /\ Begin(r, [Idle EXCEPT !.at = "publish", !.seen = status])
  /\ UNCHANGED <<status, metadata, source, ranges, lexicon, events>>

PublishLoad(r) ==
  /\ status = "processed"
  /\ Begin(r, [Idle EXCEPT !.at = "publish", !.seen = status])
  /\ UNCHANGED <<status, metadata, source, ranges, lexicon, events>>

PublishCommit(r) ==
  /\ request[r].at = "publish"
  /\ Move("published")
  /\ Done(r)
  /\ UNCHANGED <<metadata, source, ranges, lexicon>>

(***************************************************************************)
(* The worker's inspection result, and the lexicographers' work.           *)
(***************************************************************************)
(* A message may be delivered again, and the result of every delivery is   *)
(* recorded: mark_failed is written to keep a verified result, but its     *)
(* test compares a status loaded as a string with an enum member by        *)
(* identity and never holds.  The page count stays.                        *)
InspectionCompletes ==
  /\ \/ inspection' = "verified" /\ counted' = TRUE
     \/ inspection' = "failed" /\ UNCHANGED counted
  /\ UNCHANGED <<status, metadata, ranges, lexicon, events, request>>

others == <<status, metadata, source, ranges, events, request>>

CreateLexeme(l) ==
  /\ counted                      \* pages exist only for an inspected PDF
  /\ lexeme[l] = "unborn"
  /\ lexeme' = [lexeme EXCEPT ![l] = "draft"]
  /\ UNCHANGED <<entry, others>>

UpdateLexeme(l) ==
  /\ lexeme[l] \in {"draft", "ready"}
  /\ \E s \in {"draft", "ready", "complete"} : lexeme' = [lexeme EXCEPT ![l] = s]
  /\ UNCHANGED <<entry, others>>

DeleteLexeme(l) ==
  /\ lexeme[l] \in {"draft", "ready"}
  /\ lexeme' = [lexeme EXCEPT ![l] = "deleted"]
  /\ entry' = [entry EXCEPT ![l] = "none"]
  /\ UNCHANGED others

PromoteLexeme(l) ==
  /\ lexeme[l] = "complete"
  /\ entry[l] = "none"
  /\ entry' = [entry EXCEPT ![l] = "open"]
  /\ UNCHANGED <<lexeme, others>>

CompleteEntry(l) ==
  /\ entry[l] # "none"
  /\ entry' = [entry EXCEPT ![l] = "complete"]
  /\ UNCHANGED <<lexeme, others>>

(* submit_for_review and send_back: the entry is open work again. *)
ReopenEntry(l) ==
  /\ entry[l] # "none"
  /\ entry' = [entry EXCEPT ![l] = "open"]
  /\ UNCHANGED <<lexeme, others>>

RequestStep(r) ==
  \/ SaveMetadataLoad(r) \/ SaveMetadataCommit(r)
  \/ SavePageRangesLoad(r) \/ SavePageRangesReplace(r) \/ SavePageRangesCommit(r)
  \/ ConfirmLoad(r) \/ ConfirmCommit(r)
  \/ FinishCheck(r) \/ FinishHasLexeme(r)
  \/ MarkScannedLoad(r) \/ MarkScannedCommit(r)
  \/ CountLexemes(r) \/ CountEntries(r) \/ AdvanceLoad(r) \/ AdvanceCommit(r)
  \/ PublishLoad(r) \/ PublishCommit(r)

LexiconStep(l) ==
  \/ CreateLexeme(l) \/ UpdateLexeme(l) \/ DeleteLexeme(l)
  \/ PromoteLexeme(l) \/ CompleteEntry(l) \/ ReopenEntry(l)

Next ==
  \/ InspectionCompletes
  \/ \E r \in Requests : RequestStep(r)
  \/ \E l \in Lexemes : LexiconStep(l)

Spec == Init /\ [][Next]_vars

(***************************************************************************)
(* Properties.                                                             *)
(***************************************************************************)

(* Every column holds a value its type allows, and a request holds a       *)
(* well-formed copy of what it loaded.                                     *)
TypeOK ==
  /\ status \in Status
  /\ metadata \in Metadata
  /\ inspection \in {"pending", "verified", "failed"}
  /\ counted \in BOOLEAN
  /\ ranges \subseteq Requests
  /\ lexeme \in [Lexemes -> {"unborn", "draft", "ready", "complete", "deleted"}]
  /\ entry \in [Lexemes -> {"none", "open", "complete"}]
  /\ events \subseteq Status
  /\ request \in [Requests -> Request]

(* A dictionary that was ever released had once been recorded processed,   *)
(* and a dictionary ever recorded processed or in progress had finished    *)
(* scanning, also when the requests that decided so were long overtaken.   *)
ReleaseOrder ==
  /\ "published" \in events => "processed" \in events
  /\ events \intersect Band # {} => "scanned" \in events

(* The scanning stage is finished only for a dictionary in which somebody  *)
(* had selected a lexeme: the check runs in an earlier unit of work than   *)
(* the move, and the lexeme may be gone again by then.                     *)
ScannedHadLexeme ==
  "scanned" \in events => \E l \in Lexemes : lexeme[l] # "unborn"

(* No dictionary becomes configured and no page range is stored, not even  *)
(* by a request overtaken by a failed inspection, unless an inspection had *)
(* once counted the pages of the PDF.                                      *)
ConfiguredHadPageCount == "configured" \in events \/ ranges # {} => counted

(* No stage without the ones before it: whichever requests overtook each   *)
(* other between deciding and writing, and however often the PDF was       *)
(* inspected again meanwhile, no status is ever recorded that the work was *)
(* not once there for.                                                     *)
StagesEarned ==
  ReleaseOrder /\ ScannedHadLexeme /\ ConfiguredHadPageCount

(* One request at a time: a configured dictionary keeps its title and      *)
(* legal status and its page ranges, since the edit that takes one away    *)
(* demotes it in the same commit.  Of its PDF no such thing can be said:   *)
(* no inspection demotes a dictionary.                                     *)
ConfiguredStaysReady ==
  status = "configured" => metadata.scalars /\ ranges # {}

Machine == INSTANCE StatusMachine

(* One request at a time: the use cases implement the status machine; in   *)
(* particular the automatic sync never undoes a release and a release      *)
(* starts from "processed".                                                *)
ImplementsStatusMachine == Machine!Spec

(* What docstrings say and the code does not keep; see README.             *)
(* next_processing_status: a released dictionary is never auto-reverted,   *)
(* and the sync cannot undo a confirmed one.                               *)
NeverAutoReverted ==
  [][\A r \in Requests :
       AdvanceCommit(r) => status \notin {"configured", "published"}]_vars
================================================================================
