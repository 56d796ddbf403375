---------------------------- MODULE EntryReviewProofs ----------------------------
(***************************************************************************)
(* Theorems about EntryReview, for every set of requests and fields, and    *)
(* whether or not a loaded status is the enum member.                       *)
(***************************************************************************)
EXTENDS EntryReview, TLAPS

(***************************************************************************)
(* A request that has validated the entry, or a reviewer's approval past    *)
(* its check, commits a status later: what it saw then must still hold.     *)
(* The schema is what survives, since no use case takes it away.            *)
(***************************************************************************)
Validated(q) ==
  \/ q.at \in {"complete", "submit_commit"}
  \/ q.at = "decide" /\ q.decision = "approved"

ValidatedSchema ==
  \A r \in Requests : Validated(request[r]) => entry.schema /\ entry.status # "none"

IInv == TypeOK /\ SchemaBeforeReview /\ ParentsExist /\ ValidatedSchema

(* The records are well formed. *)
LEMMA IdleType == Idle \in Request
BY DEF Idle, Request, Places, NoEntry, Entry, EntryStatus, LexemeStatus, Decision

LEMMA BeginType ==
  ASSUME TypeOK, NEW r \in Requests, NEW q \in Request, Begin(r, q)
  PROVE  request' \in [Requests -> Request]
BY DEF TypeOK, Begin

LEMMA DoneType ==
  ASSUME TypeOK, NEW r \in Requests, Done(r)
  PROVE  request' \in [Requests -> Request]
BY IdleType DEF TypeOK, Done

LEMMA GoType ==
  ASSUME TypeOK, NEW r \in Requests, NEW place \in Places, Go(r, place)
  PROVE  request' \in [Requests -> Request]
<1>1. [request[r] EXCEPT !.at = place] \in Request
  BY DEF TypeOK, Request
<1> QED
  BY <1>1 DEF TypeOK, Go

(* The pass over the fields goes on with those it has found. *)
LEMMA FoundType ==
  ASSUME NEW place \in Places, NEW found \in SUBSET FieldIds
  PROVE  [Idle EXCEPT !.at = place, !.found = found] \in Request
BY IdleType DEF Request

(* What SetStatus leaves is an entry. *)
LEMMA SetStatusType ==
  ASSUME TypeOK, NEW status \in EntryStatus, SetStatus(status)
  PROVE  /\ entry' \in Entry
         /\ entry'.status = status
         /\ entry'.schema = entry.schema
         /\ UNCHANGED <<lexeme, origin, parent, label, unfit>>
BY DEF SetStatus, fields, TypeOK, Entry

--------------------------------------------------------------------------------
(* The rows of the fields. *)

FieldTypes ==
  /\ origin \in [FieldIds -> Origin \union {"none", "deleted"}]
  /\ parent \in [FieldIds -> FieldIds]
  /\ label \in [FieldIds -> Label]
  /\ unfit \subseteq FieldIds

ParentFields == \A i \in Filled : parent[i] \in Filled

(* An insert adds rows below rows that are there, or below none. *)
LEMMA InsertKeeps ==
  ASSUME TypeOK, ParentFields,
         NEW new \in SUBSET Fresh, NEW kind \in Origin, NEW below \in [new -> FieldIds],
         NEW misfits \in SUBSET new, Insert(new, kind, below, misfits),
         \A i \in new : below[i] \in Filled \union {i}
  PROVE  FieldTypes' /\ ParentFields' /\ Filled' = Filled \union new
<1>1. FieldTypes'
  BY DEF Insert, Fresh, TypeOK, FieldTypes
<1>2. Filled' = Filled \union new
  BY DEF Insert, Fresh, Filled, TypeOK, Origin
<1>3. \A i \in FieldIds : parent'[i] = IF i \in new THEN below[i] ELSE parent[i]
  BY DEF Insert, Fresh
<1>4. new \subseteq FieldIds /\ Filled \subseteq FieldIds
  BY DEF Fresh, Filled
<1>5. ParentFields'
  <2> SUFFICES ASSUME NEW i \in Filled' PROVE parent'[i] \in Filled'
    BY DEF ParentFields
  <2> QED
    BY <1>2, <1>3, <1>4 DEF ParentFields
<1> QED
  BY <1>1, <1>2, <1>5

LEMMA RemoveTypes ==
  ASSUME TypeOK, NEW S \in SUBSET FieldIds, Remove(S)
  PROVE  FieldTypes' /\ Filled' = Filled \ S
         /\ \A i \in FieldIds \ S : parent'[i] = parent[i]
<1>1. FieldTypes'
  BY DEF Remove, TypeOK, FieldTypes, Label
<1>2. Filled' = Filled \ S
  BY DEF Remove, Filled, TypeOK, Origin
<1> QED
  BY <1>1, <1>2 DEF Remove

(* The rows below a row are a closed set: what stays has its parent. *)
LEMMA SubtreeClosed ==
  ASSUME NEW i \in FieldIds
  PROVE  Closed(Subtree(i)) /\ Subtree(i) \subseteq FieldIds
<1>1. ASSUME NEW j \in Filled, parent[j] \in Subtree(i) PROVE j \in Subtree(i)
  <2>1. ASSUME NEW S \in SUBSET Filled, i \in S, Closed(S) PROVE j \in S
    <3>1. parent[j] \in S
      BY <1>1, <2>1 DEF Subtree
    <3> QED
      BY <1>1, <2>1, <3>1 DEF Closed
  <2> QED
    BY <1>1, <2>1 DEF Subtree
<1>2. Subtree(i) \subseteq FieldIds
  BY DEF Subtree, Filled
<1> QED
  BY <1>1, <1>2 DEF Closed

LEMMA RemoveKeeps ==
  ASSUME TypeOK, ParentFields, NEW S \in SUBSET FieldIds, Remove(S), Closed(S)
  PROVE  ParentFields'
<1> SUFFICES ASSUME NEW i \in Filled' PROVE parent'[i] \in Filled'
  BY DEF ParentFields
<1>1. i \in Filled \ S /\ i \in FieldIds /\ parent'[i] = parent[i] /\ Filled' = Filled \ S
  BY RemoveTypes DEF Filled
<1>2. parent[i] \in Filled /\ parent[i] \notin S
  BY <1>1 DEF ParentFields, Closed
<1> QED
  BY <1>1, <1>2

(* A use case of the editor on one field. *)
LEMMA FieldCommitKeeps ==
  ASSUME TypeOK, ParentFields, NEW r \in Requests, FieldCommit(r)
  PROVE  FieldTypes' /\ ParentFields'
<1>1. PICK i \in FieldIds : \/ CreateField(i)
                            \/ UpdateField(i, request[r].entry.schema)
                            \/ DeleteField(i)
  BY DEF FieldCommit
<1>2. CASE CreateField(i)
  <2>1. PICK p \in Filled \union {i}, misfits \in SUBSET {i} :
          Insert({i}, "manual", [j \in {i} |-> p], misfits)
    BY <1>2 DEF CreateField
  <2> DEFINE new == {i}
             below == [j \in new |-> p]
  <2>2. new \in SUBSET Fresh /\ "manual" \in Origin
    BY <1>2 DEF CreateField, Origin
  <2>3. below \in [new -> FieldIds]
    BY DEF Filled
  <2>4. \A k \in new : below[k] \in Filled \union {k}
    OBVIOUS
  <2>5. Insert(new, "manual", below, misfits)
    BY <2>1
  <2>6. misfits \in SUBSET new
    OBVIOUS
  <2> HIDE DEF new, below
  <2> QED
    BY <2>2, <2>3, <2>4, <2>5, <2>6, InsertKeeps
<1>3. CASE UpdateField(i, request[r].entry.schema)
  <2>1. FieldTypes' /\ UNCHANGED parent
    BY <1>3 DEF UpdateField, TypeOK, FieldTypes, Origin
  <2>2. Filled' = Filled
    BY <1>3 DEF UpdateField, TypeOK, Filled, Origin
  <2> QED
    BY <2>1, <2>2 DEF ParentFields
<1>4. CASE DeleteField(i)
  BY <1>4, SubtreeClosed, RemoveTypes, RemoveKeeps DEF DeleteField
<1> QED
  BY <1>1, <1>2, <1>3, <1>4

LEMMA ExtractCommitKeeps ==
  ASSUME TypeOK, ParentFields, NEW r \in Requests, ExtractCommit(r)
  PROVE  FieldTypes' /\ ParentFields' /\ entry' \in Entry /\ entry'.status \in EntryStatus
<1>0. PICK new \in SUBSET Fresh :
        \E misfits \in SUBSET new : Insert(new, "model", [i \in new |-> i], misfits)
  BY DEF ExtractCommit
<1>1. PICK misfits \in SUBSET new : Insert(new, "model", [i \in new |-> i], misfits)
  BY <1>0
<1> DEFINE below == [i \in new |-> i]
<1>2. below \in [new -> FieldIds] /\ "model" \in Origin
  BY DEF Fresh, Origin
<1>3. \A k \in new : below[k] \in Filled \union {k}
  OBVIOUS
<1>4. Insert(new, "model", below, misfits)
  BY <1>1
<1>5. FieldTypes' /\ ParentFields'
  <2> HIDE DEF below
  <2> QED
    BY <1>2, <1>3, <1>4, InsertKeeps
<1>6. entry' \in Entry /\ entry'.status \in EntryStatus
  BY DEF ExtractCommit, TypeOK, Entry, EntryStatus, HasEntry
<1> QED
  BY <1>5, <1>6

(* What the tagging found must still be there. *)
LEMMA TagCommitKeeps ==
  ASSUME TypeOK, ParentFields, NEW r \in Requests, TagCommit(r)
  PROVE  FieldTypes' /\ ParentFields'
<1>0. PICK new \in SUBSET Fresh : \E below \in [new -> request[r].found] :
        \E misfits \in SUBSET new : Insert(new, "rule", below, misfits)
  BY DEF TagCommit
<1>1. PICK below \in [new -> request[r].found] :
        \E misfits \in SUBSET new : Insert(new, "rule", below, misfits)
  BY <1>0
<1>2. PICK misfits \in SUBSET new : Insert(new, "rule", below, misfits)
  BY <1>1
<1>3. request[r].found \subseteq Filled /\ Filled \subseteq FieldIds
  BY DEF TagCommit, Filled
<1>4. below \in [new -> FieldIds] /\ "rule" \in Origin
  BY <1>1, <1>3 DEF Origin
<1>5. \A k \in new : below[k] \in Filled \union {k}
  BY <1>1, <1>3
<1> QED
  BY <1>2, <1>4, <1>5, InsertKeeps

--------------------------------------------------------------------------------
(* Types: one step per action. *)
LEMMA TypeStep == TypeOK /\ ParentFields /\ [Next]_vars => TypeOK'
<1> SUFFICES ASSUME TypeOK, ParentFields, [Next]_vars PROVE TypeOK'
  OBVIOUS
<1> USE DEF fields
<1>1. CASE UNCHANGED vars
  BY <1>1 DEF vars, TypeOK
<1>2. ASSUME NEW r \in Requests, RequestStep(r) PROVE TypeOK'
  <2>1. CASE Abandon(r)
    BY <2>1, DoneType DEF Abandon, TypeOK
  <2>2. CASE EditLexemeLoad(r)
    <3>1. PICK s \in LexemeStatus \union {"keep"} :
            Begin(r, [Idle EXCEPT !.at = "edit", !.mark = s])
      BY <2>2 DEF EditLexemeLoad
    <3>2. [Idle EXCEPT !.at = "edit", !.mark = s] \in Request
      BY IdleType DEF Request, Places
    <3> QED
      BY <2>2, <3>1, <3>2, BeginType DEF EditLexemeLoad, TypeOK
  <2>3. CASE EditLexemeCommit(r)
    <3>1. lexeme' \in Lexeme
      BY <2>3 DEF EditLexemeCommit, TypeOK, Request, Lexeme
    <3> QED
      BY <2>3, <3>1, DoneType DEF EditLexemeCommit, TypeOK
  <2>4. CASE DeleteLexemeLoad(r)
    <3>1. [Idle EXCEPT !.at = "delete"] \in Request
      BY IdleType DEF Request, Places
    <3> QED
      BY <2>4, <3>1, BeginType DEF DeleteLexemeLoad, TypeOK
  <2>5. CASE DeleteLexemeCommit(r)
    <3>1. lexeme' \in Lexeme /\ entry' \in Entry
      BY <2>5 DEF DeleteLexemeCommit, TypeOK, Lexeme, Entry
    <3>2. FieldTypes'
      BY <2>5, RemoveTypes DEF DeleteLexemeCommit, Filled
    <3> QED
      BY <2>5, <3>1, <3>2, DoneType DEF DeleteLexemeCommit, TypeOK, FieldTypes
  <2>6. CASE PromoteLoad(r)
    <3>1. [Idle EXCEPT !.at = "promote"] \in Request
      BY IdleType DEF Request, Places
    <3> QED
      BY <2>6, <3>1, BeginType DEF PromoteLoad, TypeOK
  <2>7. CASE PromoteCommit(r)
    BY <2>7, DoneType DEF PromoteCommit, TypeOK, Entry, EntryStatus
  <2>8. CASE FieldLoad(r)
    <3>1. [Idle EXCEPT !.at = "field", !.entry.schema = entry.schema] \in Request
      BY IdleType DEF TypeOK, Request, Places, Entry
    <3> QED
      BY <2>8, <3>1, BeginType DEF FieldLoad, TypeOK
  <2>9. CASE FieldCommit(r)
    BY <2>9, DoneType, FieldCommitKeeps DEF FieldCommit, TypeOK, FieldTypes
  <2>10. CASE ExtractLoad(r)
    <3>1. [Idle EXCEPT !.at = "extract", !.entry.status = entry.status] \in Request
      BY IdleType DEF TypeOK, Request, Places, Entry
    <3> QED
      BY <2>10, <3>1, BeginType DEF ExtractLoad, TypeOK
  <2>11. CASE ExtractCommit(r)
    BY <2>11, GoType, ExtractCommitKeeps DEF ExtractCommit, TypeOK, FieldTypes, Places
  <2>12. CASE TagLoad(r)
    <3>1. PICK found \in SUBSET {i \in Filled : origin[i] # "rule"} :
            request' = [request EXCEPT ![r] =
              [Idle EXCEPT !.at = IF found = {} THEN "resolve" ELSE "tag_commit",
                           !.found = found]]
      BY <2>12 DEF TagLoad
    <3>2. [Idle EXCEPT !.at = IF found = {} THEN "resolve" ELSE "tag_commit",
                       !.found = found] \in Request
      BY FoundType DEF Places, Filled
    <3> QED
      BY <2>12, <3>1, <3>2 DEF TagLoad, TypeOK
  <2>13. CASE TagCommit(r)
    <3>1. [Idle EXCEPT !.at = "resolve"] \in Request
      BY IdleType DEF Request, Places
    <3> QED
      BY <2>13, <3>1, TagCommitKeeps DEF TagCommit, TypeOK, FieldTypes
  <2>14. CASE ResolveLoad(r)
    <3> DEFINE found == {i \in Unlinked : IsMember("geographic_label", "geographic_label")}
    <3>1. [Idle EXCEPT !.at = "resolve_commit", !.found = found] \in Request
      BY FoundType DEF Places, Unlinked, Filled
    <3>2. request' = [request EXCEPT ![r] =
            IF found = {} THEN Idle
            ELSE [Idle EXCEPT !.at = "resolve_commit", !.found = found]]
      BY <2>14 DEF ResolveLoad
    <3> HIDE DEF found
    <3>3. request' \in [Requests -> Request]
      BY <3>1, <3>2, IdleType DEF TypeOK
    <3> QED
      BY <2>14, <3>3 DEF ResolveLoad, TypeOK
  <2>15. CASE ResolveCommit(r)
    <3>1. unfit' \subseteq FieldIds /\ label' \in [FieldIds -> Label]
      BY <2>15 DEF ResolveCommit, TypeOK, Request, Label
    <3> QED
      BY <2>15, <3>1, DoneType DEF ResolveCommit, TypeOK
  <2>16. CASE CompleteValidate(r)
    <3>1. [Idle EXCEPT !.at = "complete"] \in Request
      BY IdleType DEF Request, Places
    <3> QED
      BY <2>16, <3>1, BeginType DEF CompleteValidate, TypeOK
  <2>17. CASE CompleteCommit(r)
    BY <2>17, DoneType, SetStatusType DEF CompleteCommit, TypeOK, EntryStatus
  <2>18. CASE SubmitLoad(r)
    <3>1. [Idle EXCEPT !.at = "submit"] \in Request
      BY IdleType DEF Request, Places
    <3> QED
      BY <2>18, <3>1, BeginType DEF SubmitLoad, TypeOK
  <2>19. CASE SubmitValidate(r)
    BY <2>19, GoType DEF SubmitValidate, Places, TypeOK
  <2>20. CASE SubmitCommit(r)
    BY <2>20, DoneType, SetStatusType DEF SubmitCommit, TypeOK, EntryStatus
  <2>21. CASE ReviewLoad(r)
    <3>1. PICK d \in Decision :
            Begin(r, [Idle EXCEPT !.at = "review", !.entry.status = entry.status,
                                  !.decision = d])
      BY <2>21 DEF ReviewLoad
    <3>2. [Idle EXCEPT !.at = "review", !.entry.status = entry.status,
                       !.decision = d] \in Request
      BY IdleType DEF TypeOK, Request, Places, Entry
    <3> QED
      BY <2>21, <3>1, <3>2, BeginType DEF ReviewLoad, TypeOK
  <2>22. CASE ReviewRefuse(r)
    BY <2>22, DoneType DEF ReviewRefuse, TypeOK
  <2>23. CASE ReviewAccept(r)
    BY <2>23, GoType DEF ReviewAccept, Places, TypeOK
  <2>24. CASE DecideCommit(r)
    <3>1. PICK status \in EntryStatus : SetStatus(status)
      BY <2>24 DEF DecideCommit, EntryStatus
    <3> QED
      BY <2>24, <3>1, GoType, SetStatusType DEF DecideCommit, Places, TypeOK
  <2>25. CASE RecordDecision(r)
    <3>1. request[r].decision \in Decision
      BY DEF TypeOK, Request
    <3> QED
      BY <2>25, <3>1, DoneType DEF RecordDecision, TypeOK
  <2> QED
    BY <1>2, <2>1, <2>2, <2>3, <2>4, <2>5, <2>6, <2>7, <2>8, <2>9, <2>10, <2>11, <2>12,
       <2>13, <2>14, <2>15, <2>16, <2>17, <2>18, <2>19, <2>20, <2>21, <2>22, <2>23, <2>24,
       <2>25 DEF RequestStep
<1> QED
  BY <1>1, <1>2 DEF Next

--------------------------------------------------------------------------------
LEMMA InitIInv == Init => IInv
<1> SUFFICES ASSUME Init PROVE IInv
  OBVIOUS
<1>1. TypeOK
  BY IdleType DEF Init, TypeOK, NoEntry, Lexeme, LexemeStatus, Entry, EntryStatus, Label
<1>2. Filled = {}
  BY DEF Init, Filled, Origin
<1>3. SchemaBeforeReview /\ ParentsExist
  BY <1>2 DEF Init, SchemaBeforeReview, ParentsExist, HasEntry, EntryStatus, NoEntry
<1>4. ValidatedSchema
  BY DEF Init, ValidatedSchema, Validated, Idle
<1> QED
  BY <1>1, <1>3, <1>4 DEF IInv

(* A status that demands a schema is written by a request that saw one. *)
LEMMA SchemaStep == IInv /\ [Next]_vars => SchemaBeforeReview'
<1> SUFFICES ASSUME IInv, [Next]_vars PROVE SchemaBeforeReview'
  OBVIOUS
<1> USE DEF IInv, SchemaBeforeReview
<1>1. CASE UNCHANGED vars
  BY <1>1 DEF vars
<1>2. ASSUME NEW r \in Requests, RequestStep(r) PROVE SchemaBeforeReview'
  <2>1. CASE UNCHANGED entry
    BY <2>1
  <2>2. CASE DeleteLexemeCommit(r)
    BY <2>2 DEF DeleteLexemeCommit, TypeOK, Entry, HasEntry
  <2>3. CASE PromoteCommit(r)
    BY <2>3 DEF PromoteCommit
  <2>4. CASE ExtractCommit(r)
    BY <2>4 DEF ExtractCommit, TypeOK, Entry
  <2>5. CASE CompleteCommit(r)
    BY <2>5, SetStatusType DEF CompleteCommit, EntryStatus, ValidatedSchema, Validated
  <2>6. CASE SubmitCommit(r)
    BY <2>6, SetStatusType DEF SubmitCommit, EntryStatus, ValidatedSchema, Validated
  <2>7. CASE DecideCommit(r)
    <3>1. CASE request[r].decision = "approved"
      BY <2>7, <3>1, SetStatusType DEF DecideCommit, EntryStatus, ValidatedSchema, Validated
    <3>2. CASE request[r].decision # "approved"
      BY <2>7, <3>2, SetStatusType DEF DecideCommit, EntryStatus
    <3> QED
      BY <3>1, <3>2
  <2> QED
    BY <1>2, <2>1, <2>2, <2>3, <2>4, <2>5, <2>6, <2>7
       DEF RequestStep, Abandon, EditLexemeLoad, EditLexemeCommit, DeleteLexemeLoad,
           PromoteLoad, FieldLoad, FieldCommit, ExtractLoad, TagLoad, TagCommit, ResolveLoad,
           ResolveCommit, CompleteValidate, SubmitLoad, SubmitValidate, ReviewLoad,
           ReviewRefuse, ReviewAccept, RecordDecision
<1> QED
  BY <1>1, <1>2 DEF Next

(* Each insert needs its parent and each deletion takes the children along. *)
LEMMA ParentsStep == IInv /\ [Next]_vars => ParentsExist'
<1> SUFFICES ASSUME IInv, [Next]_vars PROVE ParentsExist'
  OBVIOUS
<1> USE DEF IInv, fields
<1>0. TypeOK /\ ParentFields
  BY DEF ParentsExist, ParentFields
<1>1. CASE UNCHANGED vars
  BY <1>1 DEF vars, ParentsExist, HasEntry, Filled
<1>2. ASSUME NEW r \in Requests, RequestStep(r) PROVE ParentsExist'
  <2>1. CASE UNCHANGED <<lexeme, entry, origin, parent>>
    BY <2>1 DEF ParentsExist, HasEntry, Filled
  <2>2. CASE EditLexemeCommit(r)
    <3>1. lexeme' # "deleted" /\ UNCHANGED <<entry, origin, parent>>
      BY <2>2 DEF EditLexemeCommit, TypeOK, Request, LexemeStatus
    <3> QED
      BY <3>1 DEF ParentsExist, HasEntry, Filled
  <2>3. CASE DeleteLexemeCommit(r)
    <3>1. Filled' = {}
      BY <2>3, RemoveTypes DEF DeleteLexemeCommit, Filled
    <3>2. ~HasEntry'
      BY <2>3 DEF DeleteLexemeCommit, HasEntry, EntryStatus, TypeOK, Entry
    <3> QED
      BY <3>1, <3>2 DEF ParentsExist
  <2>4. CASE PromoteCommit(r)
    BY <2>4 DEF PromoteCommit, ParentsExist, HasEntry, Filled, EntryStatus
  <2>5. CASE FieldCommit(r)
    <3>1. ParentFields' /\ HasEntry /\ UNCHANGED <<lexeme, entry>>
      BY <1>0, <2>5, FieldCommitKeeps DEF FieldCommit
    <3> QED
      BY <3>1 DEF ParentFields, ParentsExist, HasEntry
  <2>6. CASE ExtractCommit(r)
    <3>1. ParentFields' /\ HasEntry /\ HasEntry' /\ UNCHANGED lexeme
      BY <1>0, <2>6, ExtractCommitKeeps DEF ExtractCommit, HasEntry
    <3> QED
      BY <3>1 DEF ParentFields, ParentsExist
  <2>7. CASE TagCommit(r)
    <3>1. ParentFields' /\ UNCHANGED <<lexeme, entry>>
      BY <1>0, <2>7, TagCommitKeeps DEF TagCommit
    <3>2. ~HasEntry => UNCHANGED <<origin, parent>>
      <4>1. SUFFICES ASSUME ~HasEntry PROVE UNCHANGED <<origin, parent>>
        OBVIOUS
      <4>2. request[r].found = {}
        BY <2>7, <4>1 DEF TagCommit, ParentsExist
      <4>3. PICK new \in SUBSET Fresh : \E below \in [new -> request[r].found] :
              \E misfits \in SUBSET new : Insert(new, "rule", below, misfits)
        BY <2>7 DEF TagCommit
      <4>4. new = {}
        BY <4>2, <4>3
      <4> QED
        BY <4>3, <4>4 DEF Insert, TypeOK
    <3> QED
      BY <3>1, <3>2 DEF ParentFields, ParentsExist, HasEntry, Filled
  <2>8. ASSUME NEW status \in EntryStatus, SetStatus(status) PROVE ParentsExist'
    BY <2>8, SetStatusType DEF SetStatus, ParentsExist, HasEntry, Filled
  <2>9. CASE CompleteCommit(r) \/ SubmitCommit(r) \/ DecideCommit(r)
    BY <2>8, <2>9 DEF CompleteCommit, SubmitCommit, DecideCommit, EntryStatus
  <2> QED
    BY <1>2, <2>1, <2>2, <2>3, <2>4, <2>5, <2>6, <2>7, <2>9
       DEF RequestStep, Abandon, EditLexemeLoad, DeleteLexemeLoad, PromoteLoad, FieldLoad,
           ExtractLoad, TagLoad, ResolveLoad, ResolveCommit, CompleteValidate, SubmitLoad,
           SubmitValidate, ReviewLoad, ReviewRefuse, ReviewAccept, RecordDecision
<1> QED
  BY <1>1, <1>2 DEF Next

(* The schema of an entry, once there, stays: only the insert of a new      *)
(* entry has none, and an entry is inserted once.                           *)
LEMMA SchemaStays ==
  IInv /\ [Next]_vars /\ entry.status # "none" =>
    (entry.schema => entry'.schema) /\ entry'.status # "none"
<1> SUFFICES ASSUME IInv, [Next]_vars, entry.status # "none"
             PROVE  (entry.schema => entry'.schema) /\ entry'.status # "none"
  OBVIOUS
<1>1. CASE UNCHANGED vars
  BY <1>1 DEF vars
<1>2. ASSUME NEW r \in Requests, RequestStep(r)
      PROVE  (entry.schema => entry'.schema) /\ entry'.status # "none"
  <2>1. CASE UNCHANGED entry
    BY <2>1
  <2>2. CASE DeleteLexemeCommit(r)
    BY <2>2 DEF DeleteLexemeCommit, IInv, TypeOK, Entry
  <2>3. CASE ExtractCommit(r)
    BY <2>3 DEF ExtractCommit, IInv, TypeOK, Entry
  <2>4. ASSUME NEW status \in EntryStatus, SetStatus(status)
        PROVE  (entry.schema => entry'.schema) /\ entry'.status # "none"
    BY <2>4, SetStatusType DEF IInv, EntryStatus
  <2>5. CASE CompleteCommit(r) \/ SubmitCommit(r) \/ DecideCommit(r)
    BY <2>4, <2>5 DEF CompleteCommit, SubmitCommit, DecideCommit, EntryStatus
  <2> QED
    BY <1>2, <2>1, <2>2, <2>3, <2>5
       DEF RequestStep, Abandon, EditLexemeLoad, EditLexemeCommit, DeleteLexemeLoad,
           PromoteLoad, PromoteCommit, FieldLoad, FieldCommit, ExtractLoad, TagLoad,
           TagCommit, ResolveLoad, ResolveCommit, CompleteValidate, SubmitLoad,
           SubmitValidate, ReviewLoad, ReviewRefuse, ReviewAccept, RecordDecision
<1> QED
  BY <1>1, <1>2 DEF Next

(* The passes over the fields stay among themselves. *)
LEMMA PassesAt ==
  ASSUME TypeOK, NEW r \in Requests, TagLoad(r) \/ TagCommit(r) \/ ResolveLoad(r)
  PROVE  /\ request'[r].at \in {"tag_commit", "resolve", "resolve_commit", "idle"}
         /\ \A q \in Requests : q = r \/ request'[q] = request[q]
<1>1. request \in [Requests -> Request]
  BY DEF TypeOK
<1>2. CASE TagLoad(r)
  <2>1. PICK found : request' = [request EXCEPT ![r] =
          [Idle EXCEPT !.at = IF found = {} THEN "resolve" ELSE "tag_commit", !.found = found]]
    BY <1>2 DEF TagLoad
  <2> QED
    BY <1>1, <2>1 DEF Idle
<1>3. CASE TagCommit(r)
  <2>1. request' = [request EXCEPT ![r] = [Idle EXCEPT !.at = "resolve"]]
    BY <1>3 DEF TagCommit
  <2> QED
    BY <1>1, <2>1 DEF Idle
<1>4. CASE ResolveLoad(r)
  <2> DEFINE found == {i \in Unlinked : IsMember("geographic_label", "geographic_label")}
  <2>1. request' = [request EXCEPT ![r] =
          IF found = {} THEN Idle ELSE [Idle EXCEPT !.at = "resolve_commit", !.found = found]]
    BY <1>4 DEF ResolveLoad
  <2> HIDE DEF found
  <2> QED
    BY <1>1, <2>1 DEF Idle
<1> QED
  BY <1>2, <1>3, <1>4

(* No other use case moves a request to where a validated entry is due. *)
LEMMA ElsewhereStep ==
  ASSUME TypeOK, NEW r \in Requests, NEW q \in Requests, RequestStep(r),
         ~(CompleteValidate(r) \/ ReviewAccept(r))
  PROVE  \/ request'[q] = request[q]
         \/ request'[q].at \notin {"complete", "submit_commit", "decide"}
         \/ SubmitValidate(r) /\ request'[q].at = "submit_commit"
<1> DEFINE Goal == \/ request'[q] = request[q]
                   \/ request'[q].at \notin {"complete", "submit_commit", "decide"}
<1>1. request[q] \in Request /\ request[r] \in Request /\ request \in [Requests -> Request]
  BY DEF TypeOK
<1>2. ASSUME EditLexemeLoad(r) \/ DeleteLexemeLoad(r) \/ PromoteLoad(r) \/ FieldLoad(r)
      PROVE  Goal
  BY <1>1, <1>2 DEF EditLexemeLoad, DeleteLexemeLoad, PromoteLoad, FieldLoad, Begin, Idle
<1>3. ASSUME ExtractLoad(r) \/ SubmitLoad(r) \/ ReviewLoad(r)
      PROVE  Goal
  <2>1. CASE ExtractLoad(r)
    BY <1>1, <2>1 DEF ExtractLoad, Begin, Idle
  <2>2. CASE SubmitLoad(r)
    BY <1>1, <2>2 DEF SubmitLoad, Begin, Idle
  <2>3. CASE ReviewLoad(r)
    BY <1>1, <2>3 DEF ReviewLoad, Begin, Idle
  <2> QED
    BY <1>3, <2>1, <2>2, <2>3
<1>4. ASSUME Done(r) PROVE Goal
  BY <1>1, <1>4 DEF Done, Idle
<1>5. ASSUME TagLoad(r) \/ TagCommit(r) \/ ResolveLoad(r)
      PROVE  Goal
  BY <1>5, PassesAt
<1>6. ASSUME Go(r, "record") \/ Go(r, "tag")
      PROVE  Goal
  BY <1>1, <1>6 DEF Go, Request
<1>7. ASSUME SubmitValidate(r)
      PROVE  Goal \/ request'[q].at = "submit_commit"
  BY <1>1, <1>7 DEF SubmitValidate, Go, Request
<1> QED
  BY <1>2, <1>3, <1>4, <1>5, <1>6, <1>7
     DEF RequestStep, Abandon, EditLexemeCommit, DeleteLexemeCommit, PromoteCommit,
         FieldCommit, ExtractCommit, ResolveCommit, CompleteCommit, SubmitCommit,
         ReviewRefuse, DecideCommit, RecordDecision

(* A request becomes validated only by finding the entry valid. *)
LEMMA ValidatedStep == IInv /\ [Next]_vars => ValidatedSchema'
<1> SUFFICES ASSUME IInv, [Next]_vars, NEW q \in Requests, Validated(request'[q])
             PROVE  entry'.schema /\ entry'.status # "none"
  BY DEF ValidatedSchema, Validated
<1>1. CASE Validated(request[q])
  BY <1>1, SchemaStays DEF IInv, ValidatedSchema
<1>2. CASE ~Validated(request[q])
  <2>1. PICK r \in Requests : RequestStep(r)
    BY <1>2 DEF Next, vars
  <2>2. CASE CompleteValidate(r) \/ SubmitValidate(r)
    BY <2>2 DEF CompleteValidate, SubmitValidate, Valid, HasEntry, EntryStatus
  <2>3. CASE ReviewAccept(r)
    <3>1. q = r /\ request[r].decision = "approved"
      BY <1>2, <2>3 DEF ReviewAccept, Go, Validated, IInv, TypeOK, Request
    <3> QED
      BY <2>3, <3>1 DEF ReviewAccept, Valid, HasEntry, EntryStatus
  <2>4. CASE ~(CompleteValidate(r) \/ SubmitValidate(r) \/ ReviewAccept(r))
    <3>1. request'[q] = request[q] \/ request'[q].at \notin {"complete", "submit_commit", "decide"}
      BY <2>1, <2>4, ElsewhereStep DEF IInv
    <3> QED
      BY <1>2, <3>1 DEF Validated
  <2> QED
    BY <2>2, <2>3, <2>4
<1> QED
  BY <1>1, <1>2

--------------------------------------------------------------------------------
(* What a request validated is still there when it commits, in every state. *)
THEOREM ReviewInductive == Spec => []IInv
<1>1. IInv => TypeOK /\ ParentFields
  BY DEF IInv, ParentsExist, ParentFields
<1>2. IInv /\ [Next]_vars => IInv'
  BY <1>1, TypeStep, SchemaStep, ParentsStep, ValidatedStep DEF IInv
<1> QED
  BY InitIInv, <1>2, PTL DEF Spec

(* Every row and every request is one the code can handle.                  *)
THEOREM ReviewTypeCorrect == Spec => []TypeOK
<1>1. IInv => TypeOK
  BY DEF IInv
<1> QED
  BY ReviewInductive, <1>1, PTL

(* An entry that awaits review or is complete has the schema it was         *)
(* extracted or validated against.                                          *)
THEOREM ReviewedHasSchema == Spec => []SchemaBeforeReview
<1>1. IInv => SchemaBeforeReview
  BY DEF IInv
<1> QED
  BY ReviewInductive, <1>1, PTL

(* No entry outlives its lexeme and no field its entry, however late a      *)
(* request or an extraction commits.                                        *)
THEOREM ReviewParentsExist == Spec => []ParentsExist
<1>1. IInv => ParentsExist
  BY DEF IInv
<1> QED
  BY ReviewInductive, <1>1, PTL

--------------------------------------------------------------------------------
(***************************************************************************)
(* Completing an entry takes two units of work: one that finds it valid and *)
(* one that writes the status.  The schema cannot go in between, the fields *)
(* can.  So what keeps every completion sound, for any number of requests,   *)
(* is that no field goes and no value stops fitting while one is decided.    *)
(***************************************************************************)
Deciding(q) ==
  \/ q.at = "complete"
  \/ q.at = "decide" /\ q.decision = "approved"

FieldsRest ==
  (\E r \in Requests : Deciding(request[r])) => Filled \subseteq Filled' /\ unfit' \subseteq unfit

DecidedValid == \A r \in Requests : Deciding(request[r]) => Valid

Completed == entry.status # "complete" /\ entry'.status = "complete" => Valid

LEMMA DecidedStep == IInv /\ DecidedValid /\ [Next]_vars /\ [FieldsRest]_vars => DecidedValid'
<1> SUFFICES ASSUME IInv, DecidedValid, [Next]_vars, [FieldsRest]_vars,
                    NEW q \in Requests, Deciding(request'[q])
             PROVE  Valid'
  BY DEF DecidedValid, Deciding
<1>1. CASE UNCHANGED vars
  BY <1>1 DEF vars, DecidedValid, Valid, Filled
<1>2. CASE Deciding(request[q]) /\ FieldsRest
  <2>1. Valid /\ entry.schema /\ entry.status # "none"
    BY <1>2 DEF DecidedValid, Deciding, IInv, ValidatedSchema, Validated
  <2> QED
    BY <1>2, <2>1, SchemaStays DEF FieldsRest, Valid
<1>3. CASE ~Deciding(request[q])
  <2>1. PICK r \in Requests : RequestStep(r)
    BY <1>3 DEF Next, vars
  <2>2. CASE CompleteValidate(r) \/ ReviewAccept(r)
    <3>1. q = r \/ request'[q] = request[q]
      BY <2>2 DEF CompleteValidate, ReviewAccept, Begin, Go, IInv, TypeOK
    <3>2. request'[r].decision = request[r].decision \/ CompleteValidate(r)
      BY <2>2 DEF ReviewAccept, Go, IInv, TypeOK, Request
    <3>3. ReviewAccept(r) => request'[r].at = "decide"
      BY DEF ReviewAccept, Go, IInv, TypeOK, Request
    <3>4. Valid
      BY <1>3, <2>2, <3>1, <3>2, <3>3 DEF CompleteValidate, ReviewAccept, Deciding
    <3> QED
      BY <2>2, <3>4 DEF CompleteValidate, ReviewAccept, Valid, Filled, fields
  <2>3. CASE ~(CompleteValidate(r) \/ ReviewAccept(r))
    <3>1. request'[q] = request[q] \/ request'[q].at \notin {"complete", "decide"}
      BY <2>1, <2>3, ElsewhereStep DEF IInv
    <3> QED
      BY <1>3, <3>1 DEF Deciding
  <2> QED
    BY <2>2, <2>3
<1> QED
  BY <1>1, <1>2, <1>3

(* Whatever the number of requests, only a valid entry is completed, as long *)
(* as the fields rest while a completion is decided: nothing but a deleted   *)
(* field or an unfit value can come between validation and commit.           *)
THEOREM CompletionSerialized == Spec /\ [][FieldsRest]_vars => CompleteWhenValid
<1>1. Init => DecidedValid
  BY DEF Init, DecidedValid, Deciding, Idle
<1>2. IInv /\ DecidedValid /\ [Next]_vars => [Completed]_vars
  <2> SUFFICES ASSUME IInv, DecidedValid, Next,
                      entry.status # "complete", entry'.status = "complete"
               PROVE  Valid
    BY DEF Completed
  <2>1. PICK r \in Requests : RequestStep(r)
    BY DEF Next
  <2>2. CASE UNCHANGED entry
    BY <2>2
  <2>3. CASE DeleteLexemeCommit(r)
    BY <2>3 DEF DeleteLexemeCommit, IInv, TypeOK, Entry
  <2>4. CASE PromoteCommit(r)
    BY <2>4 DEF PromoteCommit
  <2>5. CASE ExtractCommit(r)
    BY <2>5 DEF ExtractCommit, IInv, TypeOK, Entry
  <2>6. CASE CompleteCommit(r)
    BY <2>6 DEF CompleteCommit, DecidedValid, Deciding
  <2>7. CASE SubmitCommit(r)
    BY <2>7, SetStatusType DEF SubmitCommit, EntryStatus, IInv
  <2>8. CASE DecideCommit(r)
    <3>1. CASE request[r].decision = "approved"
      BY <2>8, <3>1 DEF DecideCommit, DecidedValid, Deciding
    <3>2. CASE request[r].decision # "approved"
      BY <2>8, <3>2, SetStatusType DEF DecideCommit, EntryStatus, IInv
    <3> QED
      BY <3>1, <3>2
  <2> QED
    BY <2>1, <2>2, <2>3, <2>4, <2>5, <2>6, <2>7, <2>8
       DEF RequestStep, Abandon, EditLexemeLoad, EditLexemeCommit, DeleteLexemeLoad,
           PromoteLoad, FieldLoad, FieldCommit, ExtractLoad, TagLoad, TagCommit,
           ResolveLoad, ResolveCommit, CompleteValidate, SubmitLoad, SubmitValidate,
           ReviewLoad, ReviewRefuse, ReviewAccept, RecordDecision
<1> QED
  BY <1>1, <1>2, DecidedStep, ReviewInductive, PTL DEF Spec, CompleteWhenValid, Completed

--------------------------------------------------------------------------------
(***************************************************************************)
(* One request at a time.  What the only request has loaded or checked is   *)
(* still so when it commits; and a lexeme with an entry is complete, so      *)
(* that nobody edits or deletes it any more.                                *)
(***************************************************************************)
Current(q) ==
  /\ q.at \in {"edit", "delete"} => lexeme = "open"
  /\ q.at = "promote" => lexeme = "complete" /\ entry.status = "none"
  /\ q.at \in {"extract", "review"} => q.entry.status = entry.status
  /\ q.at \in {"submit", "submit_commit"} => entry.status = "draft" \/ ~LoadsMembers
  /\ q.at = "decide" => entry.status = "ready_to_review" /\ LoadsMembers

Promoted ==
  /\ entry.status # "deleted"
  /\ entry.status # "none" => lexeme = "complete"

SerialInv == TypeOK /\ ParentFields /\ Promoted /\ \A r \in Requests : Current(request[r])

LEMMA SerialInit == Init => SerialInv
<1> SUFFICES ASSUME Init PROVE SerialInv
  OBVIOUS
<1>1. TypeOK /\ ParentFields
  BY InitIInv DEF IInv, ParentsExist, ParentFields
<1> QED
  BY <1>1 DEF Init, SerialInv, Promoted, Current, Idle, NoEntry

(* The only request's step: what it commits is a step of the workflow, or   *)
(* leaves the status alone.                                                 *)
LEMMA SerialStep ==
  ASSUME NEW r, Requests = {r}, SerialInv, RequestStep(r)
  PROVE  Promoted' /\ Current(request[r])' /\ [Workflow!Next]_(entry.status)
<1> DEFINE q == request[r]
<1>1. TypeOK /\ Promoted /\ q \in Request /\ Current(q) /\ request \in [Requests -> Request]
  BY DEF SerialInv, TypeOK
<1>2. ASSUME UNCHANGED <<lexeme, entry>>
      PROVE  Promoted' /\ [Workflow!Next]_(entry.status)
  BY <1>1, <1>2 DEF Promoted
<1>3. ASSUME Done(r) PROVE Current(request[r])'
  BY <1>1, <1>3 DEF Done, Idle, Current
<1>4. ASSUME NEW place, Go(r, place)
      PROVE  request'[r].at = place /\ request'[r].decision = q.decision
  BY <1>1, <1>4 DEF Go, Request
<1>5. CASE Abandon(r)
  BY <1>2, <1>3, <1>5 DEF Abandon
<1>6. CASE EditLexemeLoad(r) \/ DeleteLexemeLoad(r) \/ PromoteLoad(r)
  <2>1. CASE EditLexemeLoad(r)
    <3>1. lexeme = "open" /\ UNCHANGED <<lexeme, entry>>
      BY <2>1 DEF EditLexemeLoad
    <3>2. request'[r].at = "edit"
      BY <1>1, <2>1 DEF EditLexemeLoad, Begin, Idle
    <3> QED
      BY <1>2, <3>1, <3>2 DEF Current
  <2>2. CASE DeleteLexemeLoad(r)
    BY <1>1, <1>2, <2>2 DEF DeleteLexemeLoad, Begin, Current, Idle
  <2>3. CASE PromoteLoad(r)
    BY <1>1, <1>2, <2>3 DEF PromoteLoad, Begin, Current, Idle
  <2> QED
    BY <1>6, <2>1, <2>2, <2>3
<1>7. CASE EditLexemeCommit(r)
  <2>1. entry.status = "none" /\ UNCHANGED entry
    BY <1>1, <1>7 DEF EditLexemeCommit, Current, Promoted
  <2> QED
    BY <1>3, <1>7, <2>1 DEF EditLexemeCommit, Promoted
<1>8. CASE DeleteLexemeCommit(r)
  <2>1. entry.status = "none" /\ UNCHANGED entry
    BY <1>1, <1>8 DEF DeleteLexemeCommit, Current, Promoted, HasEntry, EntryStatus
  <2> QED
    BY <1>3, <1>8, <2>1 DEF DeleteLexemeCommit, Promoted
<1>9. CASE PromoteCommit(r)
  BY <1>1, <1>3, <1>9
     DEF PromoteCommit, Current, Promoted, Workflow!Next, Workflow!Promote
<1>10. CASE FieldLoad(r) \/ ExtractLoad(r)
  <2>1. CASE FieldLoad(r)
    BY <1>1, <1>2, <2>1 DEF FieldLoad, Begin, Current, Idle
  <2>2. CASE ExtractLoad(r)
    <3>1. /\ request'[r].at = "extract" /\ request'[r].entry.status = entry.status
          /\ UNCHANGED <<lexeme, entry>>
      BY <1>1, <2>2 DEF ExtractLoad, Begin, Idle, NoEntry
    <3> QED
      BY <1>2, <3>1 DEF Current
  <2> QED
    BY <1>10, <2>1, <2>2
<1>11. CASE FieldCommit(r)
  BY <1>2, <1>3, <1>11 DEF FieldCommit
<1>12. CASE ExtractCommit(r)
  <2>1. q.entry.status = entry.status /\ HasEntry
    BY <1>1, <1>12 DEF ExtractCommit, Current
  <2>2. entry'.status = IF entry.status = "draft" THEN "ready_to_review" ELSE entry.status
    BY <1>1, <1>12, <2>1 DEF ExtractCommit, TypeOK, Entry
  <2>3. request'[r].at = "tag"
    BY <1>4, <1>12 DEF ExtractCommit
  <2> QED
    BY <1>1, <1>12, <2>1, <2>2, <2>3
       DEF ExtractCommit, HasEntry, EntryStatus, Current, Promoted, Workflow!Next,
           Workflow!Submit
<1>13. CASE TagLoad(r) \/ TagCommit(r) \/ ResolveLoad(r)
  <2>1. request'[r].at \in {"tag_commit", "resolve", "resolve_commit", "idle"}
    BY <1>1, <1>13, PassesAt
  <2> QED
    BY <1>2, <1>13, <2>1 DEF TagLoad, TagCommit, ResolveLoad, Current
<1>14. CASE ResolveCommit(r)
  BY <1>2, <1>3, <1>14 DEF ResolveCommit
<1>15. ASSUME NEW status \in EntryStatus, SetStatus(status)
       PROVE  /\ Promoted' /\ HasEntry /\ entry'.status = status
              /\ entry.status \in EntryStatus
  BY <1>1, <1>15, SetStatusType DEF SetStatus, HasEntry, EntryStatus, Promoted
<1>16. CASE CompleteValidate(r)
  BY <1>1, <1>2, <1>16 DEF CompleteValidate, Begin, Current, Idle
<1>17. CASE CompleteCommit(r)
  <2>1. Done(r) /\ SetStatus("complete")
    BY <1>17 DEF CompleteCommit
  <2>2. "complete" \in EntryStatus
    BY DEF EntryStatus
  <2> QED
    BY <1>3, <1>15, <2>1, <2>2 DEF EntryStatus, Workflow!Next, Workflow!Complete
<1>18. CASE SubmitLoad(r)
  <2>1. (entry.status = "draft" \/ ~LoadsMembers) /\ UNCHANGED <<lexeme, entry>>
    BY <1>18 DEF SubmitLoad, HasEntry, EntryStatus, IsMember
  <2>2. request'[r].at = "submit"
    BY <1>1, <1>18 DEF SubmitLoad, Begin, Idle
  <2> QED
    BY <1>2, <2>1, <2>2 DEF Current
<1>19. CASE SubmitValidate(r)
  BY <1>1, <1>2, <1>4, <1>19 DEF SubmitValidate, Current
<1>20. CASE SubmitCommit(r)
  <2>1. /\ entry.status = "draft" \/ ~LoadsMembers
        /\ Done(r) /\ SetStatus("ready_to_review")
    BY <1>1, <1>20 DEF SubmitCommit, Current
  <2>2. "ready_to_review" \in EntryStatus
    BY DEF EntryStatus
  <2>3. Promoted' /\ entry'.status = "ready_to_review" /\ entry.status \in EntryStatus
    BY <1>15, <2>1, <2>2
  <2> QED
    BY <1>3, <2>1, <2>3 DEF EntryStatus, Workflow!Next, Workflow!Submit
<1>21. CASE ReviewLoad(r)
  <2>1. /\ request'[r].at = "review" /\ request'[r].entry.status = entry.status
        /\ UNCHANGED <<lexeme, entry>>
    BY <1>1, <1>21 DEF ReviewLoad, Begin, Idle, NoEntry
  <2> QED
    BY <1>2, <2>1 DEF Current
<1>22. CASE ReviewRefuse(r)
  BY <1>2, <1>3, <1>22 DEF ReviewRefuse
<1>23. CASE ReviewAccept(r)
  <2>1. entry.status = "ready_to_review" /\ LoadsMembers /\ UNCHANGED <<lexeme, entry>>
    BY <1>1, <1>23 DEF ReviewAccept, Current, IsMember
  <2> QED
    BY <1>2, <1>4, <1>23, <2>1 DEF ReviewAccept, Current
<1>24. CASE DecideCommit(r)
  <2> DEFINE status == IF q.decision = "approved" THEN "complete" ELSE "draft"
  <2>1. /\ entry.status = "ready_to_review" /\ LoadsMembers
        /\ SetStatus(status) /\ Go(r, "record")
    BY <1>1, <1>24 DEF DecideCommit, Current
  <2>2. status \in EntryStatus
    BY DEF EntryStatus
  <2>3. Promoted' /\ entry'.status = status
    BY <1>15, <2>1, <2>2
  <2>4. Current(request[r])'
    BY <1>4, <2>1 DEF Current
  <2> QED
    BY <2>1, <2>3, <2>4 DEF Workflow!Next, Workflow!Complete, Workflow!SendBack
<1>25. CASE RecordDecision(r)
  BY <1>2, <1>3, <1>25 DEF RecordDecision
<1> QED
  BY <1>5, <1>6, <1>7, <1>8, <1>9, <1>10, <1>11, <1>12, <1>13, <1>14, <1>16, <1>17,
     <1>18, <1>19, <1>20, <1>21, <1>22, <1>23, <1>24, <1>25 DEF RequestStep

LEMMA SerialNext ==
  ASSUME NEW r, Requests = {r}, IInv, SerialInv, [Next]_vars
  PROVE  SerialInv' /\ [Workflow!Next]_(entry.status)
<1>1. (TypeOK /\ ParentFields)'
  BY TypeStep, ParentsStep DEF IInv, SerialInv, ParentsExist, ParentFields
<1>2. CASE RequestStep(r)
  BY <1>1, <1>2, SerialStep DEF SerialInv
<1>3. CASE UNCHANGED vars
  BY <1>1, <1>3 DEF vars, SerialInv, Promoted, Current
<1> QED
  BY <1>2, <1>3 DEF Next

(* Served one at a time, the use cases implement the workflow that the way    *)
(* statuses are loaded leaves: by members the one of the docstrings, by       *)
(* strings the one that no reviewer decides in and that a complete entry can   *)
(* leave by another submission.                                              *)
THEOREM SerialWorkflow ==
  ASSUME NEW r, Requests = {r}
  PROVE  Spec => ImplementsWorkflow
<1>1. Init => Workflow!Init
  BY DEF Init, Workflow!Init, NoEntry
<1>2. IInv /\ SerialInv /\ [Next]_vars => SerialInv' /\ [Workflow!Next]_(entry.status)
  BY SerialNext
<1> QED
  BY <1>1, <1>2, SerialInit, ReviewInductive, PTL DEF Spec, Workflow!Spec, ImplementsWorkflow
==================================================================================
