------------------------------- MODULE EntryReview -------------------------------
(***************************************************************************)
(* One lexeme on its way to a reviewed article: editing and promoting it    *)
(* (UpdateLexemeService, DeleteLexemeService, PromoteLexemeToEntryService), *)
(* filling its fields by the extract_entry_fields task and by hand          *)
(* (Create-, Update- and DeleteEntryFieldService), and its status           *)
(* (ValidateEntryService and ReviewService).                                *)
(*                                                                          *)
(* A use case reads in one unit of work and writes in a later one, or in    *)
(* the same one without a lock: a load and a commit here, with the use      *)
(* cases of others in between.  SQLAlchemy writes the columns a request     *)
(* changed and no others.                                                   *)
(***************************************************************************)
CONSTANTS
  Requests,     \* slots for API requests and extraction tasks being served
  FieldIds,     \* bound: the fields that can be created (fresh UUIDs); each
                \* fills the one required node, a child because its parent does
  LoadsMembers  \* a status or role read from a repository is the enum member:
                \* TRUE of the in-memory repositories of the tests, FALSE of
                \* PostgreSQL, whose String columns load as plain strings

ASSUME LoadsAssumption == LoadsMembers \in BOOLEAN

VARIABLES
  lexeme,   \* the status of the lexeme
  entry,    \* status and "has a schema_id" of its entry
  origin,   \* entry_fields.origin, "none" before the row, "deleted" after it
  parent,   \* entry_fields.parent_field_id, the field itself where it is null
  label,    \* a geographic_label that names a settlement mapping: linked or not
  unfit,    \* fields whose value breaks its node's typed constraint
  events,   \* the decisions in review_events
  request   \* what each request has loaded and goes on to do

vars == <<lexeme, entry, origin, parent, label, unfit, events, request>>

fields == <<origin, parent, label, unfit>>

(* "open" stands for every status but complete: what can still be edited. *)
LexemeStatus == {"open", "complete"}

Lexeme == LexemeStatus \union {"deleted"}

EntryStatus == {"draft", "ready_to_review", "complete"}

Entry == [status : EntryStatus \union {"none", "deleted"}, schema : BOOLEAN]

Decision == {"approved", "sent_back"}

Places == {"idle", "edit", "delete", "promote", "field", "extract", "tag", "tag_commit",
           "resolve", "resolve_commit", "complete", "submit", "submit_commit", "review",
           "decide", "record"}

Origin == {"model", "manual", "rule"}

Label == {"other", "unlinked", "linked"}

(* Loaded: the entry's status and schema, the fields to tag or to link.     *)
(* Asked for: the new status of a lexeme, the decision on an entry.         *)
Request == [at : Places, entry : Entry, found : SUBSET FieldIds,
            mark : LexemeStatus \union {"keep"}, decision : Decision]

NoEntry == [status |-> "none", schema |-> FALSE]

Idle == [at |-> "idle", entry |-> NoEntry, found |-> {}, mark |-> "keep",
         decision |-> "approved"]

Init ==
  /\ lexeme = "open"
  /\ entry = NoEntry
  /\ origin = [i \in FieldIds |-> "none"]
  /\ parent = [i \in FieldIds |-> i]
  /\ label = [i \in FieldIds |-> "other"]
  /\ unfit = {}
  /\ events = {}
  /\ request = [r \in Requests |-> Idle]

IsMemberInverted(value, member) == ~(LoadsMembers /\ value = member)

(* `value is Enum.MEMBER` for a status or a role read from a repository. *)
IsMember(value, member) == LoadsMembers /\ value = member

HasEntry == entry.status \in EntryStatus

Filled == {i \in FieldIds : origin[i] \in Origin}

Fresh == {i \in FieldIds : origin[i] = "none"}

(* A set of rows with every row below them. *)
Closed(S) == \A i \in Filled : parent[i] \in S => i \in S

(* The row and all below it: in every closed set that has it. *)
Subtree(i) == {j \in Filled : \A S \in SUBSET Filled : i \in S /\ Closed(S) => j \in S}

(* Rows go, by a DELETE or along a foreign key. *)
Remove(S) ==
  /\ origin' = [i \in FieldIds |-> IF i \in S THEN "deleted" ELSE origin[i]]
  /\ parent' = [i \in FieldIds |-> IF i \in S THEN i ELSE parent[i]]
  /\ label' = [i \in FieldIds |-> IF i \in S THEN "other" ELSE label[i]]
  /\ unfit' = unfit \ S

ValidUnchecked == Filled # {}

(* validate_entry_against_schema: the required node is filled and every     *)
(* value fits; without a schema there is nothing to be valid against.       *)
Valid == entry.schema /\ Filled # {} /\ unfit = {}

Begin(r, loaded) ==
  /\ request[r] = Idle
  /\ request' = [request EXCEPT ![r] = loaded]

Go(r, place) == request' = [request EXCEPT ![r] = [@ EXCEPT !.at = place]]

Done(r) == request' = [request EXCEPT ![r] = Idle]

(* A request is refused, raises, or dies with its process. *)
Abandon(r) ==
  /\ request[r] # Idle
  /\ Done(r)
  /\ UNCHANGED <<lexeme, entry, fields, events>>

--------------------------------------------------------------------------------
(* The lexeme. *)

EditLexemeLoad(r) ==
  /\ lexeme = "open"
  /\ \E s \in LexemeStatus \union {"keep"} : Begin(r, [Idle EXCEPT !.at = "edit", !.mark = s])
  /\ UNCHANGED <<lexeme, entry, fields, events>>

(* The status is written when it differs from the one loaded. *)
EditLexemeCommit(r) ==
  /\ request[r].at = "edit"
  /\ lexeme # "deleted"
  /\ lexeme' = IF request[r].mark = "keep" THEN lexeme ELSE request[r].mark
  /\ Done(r)
  /\ UNCHANGED <<entry, fields, events>>

DeleteLexemeLoad(r) ==
  /\ lexeme = "open"
  /\ Begin(r, [Idle EXCEPT !.at = "delete"])
  /\ UNCHANGED <<lexeme, entry, fields, events>>

(* The foreign keys take the entry and its fields along. *)
DeleteLexemeCommit(r) ==
  /\ request[r].at = "delete"
  /\ lexeme' = "deleted"
  /\ entry' = IF HasEntry THEN [entry EXCEPT !.status = "deleted"] ELSE entry
  /\ Remove(Filled)
  /\ Done(r)
  /\ UNCHANGED events

PromoteLoad(r) ==
  /\ lexeme = "complete"
  /\ entry.status = "none"
  /\ Begin(r, [Idle EXCEPT !.at = "promote"])
  /\ UNCHANGED <<lexeme, entry, fields, events>>

(* The foreign key and the unique lexeme_id decide whether the insert runs. *)
PromoteCommit(r) ==
  /\ request[r].at = "promote"
  /\ lexeme # "deleted"
  /\ entry.status = "none"
  /\ entry' = [status |-> "draft", schema |-> FALSE]
  /\ Done(r)
  /\ UNCHANGED <<lexeme, fields, events>>

--------------------------------------------------------------------------------
(* The fields. *)

FieldLoad(r) ==
  /\ HasEntry
  /\ Begin(r, [Idle EXCEPT !.at = "field", !.entry.schema = entry.schema])
  /\ UNCHANGED <<lexeme, entry, fields, events>>

(* Rows inserted below others, or below none: each its own parent.          *)
Insert(new, kind, below, misfits) ==
  /\ origin' = [i \in FieldIds |-> IF i \in new THEN kind ELSE origin[i]]
  /\ parent' = [i \in FieldIds |-> IF i \in new THEN below[i] ELSE parent[i]]
  /\ \E named \in [new -> Label] :
       /\ kind # "manual" => \A i \in new : named[i] # "linked"
       /\ label' = [i \in FieldIds |-> IF i \in new THEN named[i] ELSE label[i]]
  /\ unfit' = unfit \union misfits

(* The schema loaded with the entry checks source_text, not normalized_text. *)
(* A parent that is gone fails the insert.                                  *)
CreateField(i) ==
  /\ i \in Fresh
  /\ \E p \in Filled \union {i}, misfits \in SUBSET {i} :
       Insert({i}, "manual", [j \in {i} |-> p], misfits)

(* It checks what the request replaces; an old normalized_text may stay. *)
UpdateField(i, checked) ==
  /\ i \in Filled
  /\ origin' = [origin EXCEPT ![i] = "manual"]
  /\ \E l \in Label : label' = [label EXCEPT ![i] = l]
  /\ unfit' \in {unfit, unfit \ {i}} \union (IF checked THEN {} ELSE {unfit \union {i}})
  /\ UNCHANGED parent

(* parent_field_id takes the rows below along. *)
DeleteField(i) ==
  /\ i \in Filled
  /\ Remove(Subtree(i))

FieldCommit(r) ==
  /\ request[r].at = "field"
  /\ HasEntry
  /\ \E i \in FieldIds :
       \/ CreateField(i)
       \/ UpdateField(i, request[r].entry.schema)
       \/ DeleteField(i)
  /\ Done(r)
  /\ UNCHANGED <<lexeme, entry, events>>

ExtractLoad(r) ==
  /\ HasEntry
  /\ Begin(r, [Idle EXCEPT !.at = "extract", !.entry.status = entry.status])
  /\ UNCHANGED <<lexeme, entry, fields, events>>

(* New rows for what the model found, with values nobody checked. *)
ExtractCommit(r) ==
  /\ request[r].at = "extract"
  /\ HasEntry
  /\ \E new \in SUBSET Fresh : \E misfits \in SUBSET new :
       Insert(new, "model", [i \in new |-> i], misfits)
  /\ entry' = [entry EXCEPT !.schema = TRUE,
                 !.status = IF request[r].entry.status = "draft" THEN "ready_to_review" ELSE @]
  /\ Go(r, "tag")
  /\ UNCHANGED <<lexeme, events>>

(* tag_abbreviations_and_geography: which of the fields that are there now, *)
(* those of this pass excepted, contain an abbreviation or a place name.    *)
TagLoad(r) ==
  /\ request[r].at = "tag"
  /\ \E found \in SUBSET {i \in Filled : origin[i] # "rule"} :
       request' = [request EXCEPT ![r] =
         [Idle EXCEPT !.at = IF found = {} THEN "resolve" ELSE "tag_commit", !.found = found]]
  /\ UNCHANGED <<lexeme, entry, fields, events>>

(* MUTANT of TagCommit: no foreign key on parent_field_id. *)
TagCommitUnchecked(r) ==
  /\ request[r].at = "tag_commit"
  /\ \E new \in SUBSET Fresh : \E below \in [new -> request[r].found] :
       /\ request[r].found = {below[i] : i \in new}
       /\ Insert(new, "rule", below, {})
  /\ request' = [request EXCEPT ![r] = [Idle EXCEPT !.at = "resolve"]]
  /\ UNCHANGED <<lexeme, entry, events>>

(* Each of them gets rows below it, all at once; where one of them is gone   *)
(* the transaction fails, and the task with it.                             *)
TagCommit(r) ==
  /\ request[r].at = "tag_commit"
  /\ request[r].found \subseteq Filled
  /\ \E new \in SUBSET Fresh : \E below \in [new -> request[r].found] :
       /\ request[r].found = {below[i] : i \in new}
       /\ \E misfits \in SUBSET new : Insert(new, "rule", below, misfits)
  /\ request' = [request EXCEPT ![r] = [Idle EXCEPT !.at = "resolve"]]
  /\ UNCHANGED <<lexeme, entry, events>>

Unlinked == {i \in Filled : label[i] = "unlinked"}

(* resolve_geographic_labels; without a label to link there is no commit.   *)
ResolveLoad(r) ==
  LET found == {i \in Unlinked : IsMember("geographic_label", "geographic_label")} IN
  /\ request[r].at = "resolve"
  /\ request' = [request EXCEPT ![r] =
       IF found = {} THEN Idle ELSE [Idle EXCEPT !.at = "resolve_commit", !.found = found]]
  /\ UNCHANGED <<lexeme, entry, fields, events>>

(* The link and a normalized_text nobody checked, manual fields included;   *)
(* the UPDATE of a row that is gone fails.                                  *)
ResolveCommit(r) ==
  /\ request[r].at = "resolve_commit"
  /\ request[r].found \subseteq Filled
  /\ label' = [i \in FieldIds |-> IF i \in request[r].found THEN "linked" ELSE label[i]]
  /\ \E misfits \in SUBSET request[r].found :
       unfit' = (unfit \ request[r].found) \union misfits
  /\ Done(r)
  /\ UNCHANGED <<lexeme, entry, origin, parent, events>>

--------------------------------------------------------------------------------
(* The status: ValidateEntryService and ReviewService. *)

SetStatus(status) ==
  /\ HasEntry
  /\ entry' = [entry EXCEPT !.status = status]
  /\ UNCHANGED <<lexeme, fields>>

CompleteUnvalidated(r) ==
  /\ HasEntry
  /\ Begin(r, [Idle EXCEPT !.at = "complete"])
  /\ UNCHANGED <<lexeme, entry, fields, events>>

CompleteValidate(r) ==
  /\ HasEntry
  /\ Valid
  /\ Begin(r, [Idle EXCEPT !.at = "complete"])
  /\ UNCHANGED <<lexeme, entry, fields, events>>

CompleteCommit(r) ==
  /\ request[r].at = "complete"
  /\ SetStatus("complete")
  /\ Done(r)
  /\ UNCHANGED events

SubmitLoad(r) ==
  /\ HasEntry
  /\ ~IsMember(entry.status, "ready_to_review")
  /\ ~IsMember(entry.status, "complete")
  /\ Begin(r, [Idle EXCEPT !.at = "submit"])
  /\ UNCHANGED <<lexeme, entry, fields, events>>

SubmitValidate(r) ==
  /\ request[r].at = "submit"
  /\ HasEntry
  /\ Valid
  /\ Go(r, "submit_commit")
  /\ UNCHANGED <<lexeme, entry, fields, events>>

SubmitCommit(r) ==
  /\ request[r].at = "submit_commit"
  /\ SetStatus("ready_to_review")
  /\ Done(r)
  /\ UNCHANGED events

ReviewLoad(r) ==
  /\ HasEntry
  /\ \E d \in Decision :
       Begin(r, [Idle EXCEPT !.at = "review", !.entry.status = entry.status, !.decision = d])
  /\ UNCHANGED <<lexeme, entry, fields, events>>

(* EntryNotAwaitingReviewError *)
ReviewRefuse(r) ==
  /\ request[r].at = "review"
  /\ ~IsMember(request[r].entry.status, "ready_to_review")
  /\ Done(r)
  /\ UNCHANGED <<lexeme, entry, fields, events>>

ReviewAccept(r) ==
  /\ request[r].at = "review"
  /\ IsMember(request[r].entry.status, "ready_to_review")
  /\ request[r].decision = "approved" => HasEntry /\ Valid
  /\ Go(r, "decide")
  /\ UNCHANGED <<lexeme, entry, fields, events>>

DecideCommit(r) ==
  /\ request[r].at = "decide"
  /\ SetStatus(IF request[r].decision = "approved" THEN "complete" ELSE "draft")
  /\ Go(r, "record")
  /\ UNCHANGED events

RecordDecision(r) ==
  /\ request[r].at = "record"
  /\ events' = events \union {request[r].decision}
  /\ Done(r)
  /\ UNCHANGED <<lexeme, entry, fields>>

--------------------------------------------------------------------------------
RequestStep(r) ==
  \/ Abandon(r)
  \/ EditLexemeLoad(r) \/ EditLexemeCommit(r)
  \/ DeleteLexemeLoad(r) \/ DeleteLexemeCommit(r)
  \/ PromoteLoad(r) \/ PromoteCommit(r)
  \/ FieldLoad(r) \/ FieldCommit(r)
  \/ ExtractLoad(r) \/ ExtractCommit(r)
  \/ TagLoad(r) \/ TagCommit(r) \/ ResolveLoad(r) \/ ResolveCommit(r)
  \/ CompleteValidate(r) \/ CompleteCommit(r)
  \/ SubmitLoad(r) \/ SubmitValidate(r) \/ SubmitCommit(r)
  \/ ReviewLoad(r) \/ ReviewRefuse(r) \/ ReviewAccept(r)
  \/ DecideCommit(r) \/ RecordDecision(r)

Next == \E r \in Requests : RequestStep(r)

Spec == Init /\ [][Next]_vars

--------------------------------------------------------------------------------
TypeOK ==
  /\ lexeme \in Lexeme
  /\ entry \in Entry
  /\ origin \in [FieldIds -> Origin \union {"none", "deleted"}]
  /\ parent \in [FieldIds -> FieldIds]
  /\ label \in [FieldIds -> Label]
  /\ unfit \subseteq FieldIds
  /\ events \subseteq Decision
  /\ request \in [Requests -> Request]

(* An entry leaves "draft" only with a schema it was extracted or validated *)
(* against, whoever moved it and however stale what they had loaded.        *)
SchemaBeforeReview ==
  entry.status \in {"ready_to_review", "complete"} => entry.schema

(* No row is without its parent: an entry has its lexeme, a field its entry  *)
(* and a child its parent field, also when an extraction, a tagging or an   *)
(* edit commits after a deletion it did not see.                            *)
ParentsExist ==
  /\ HasEntry => lexeme # "deleted"
  /\ ~HasEntry => Filled = {}
  /\ \A i \in Filled : parent[i] \in Filled

Workflow == INSTANCE EntryWorkflow WITH status <- entry.status

(* One use case at a time: the use cases implement the workflow that this   *)
(* way of loading statuses leaves of the one the docstrings describe.       *)
ImplementsWorkflow == Workflow!Spec

(* One use case at a time: an entry becomes complete, by its editor or by a *)
(* reviewer, only while it is valid against its schema.  With two, a field  *)
(* deleted after the validation makes this false.                           *)
CompleteWhenValid ==
  [][entry.status # "complete" /\ entry'.status = "complete" => Valid]_vars

(* What the docstrings say and the code does not keep; see README.          *)
(* EntryNotAwaitingReviewError: raised for an entry that is not READY_TO_REVIEW. *)
RefusedOnlyWhenNotAwaiting ==
  [][\A r \in Requests : ReviewRefuse(r) => request[r].entry.status # "ready_to_review"]_vars
================================================================================
