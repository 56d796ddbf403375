-------------------------- MODULE ArticleSchemasProofs --------------------------
(***************************************************************************)
(* Theorems about ArticleSchemas, for every set of requests and workers and *)
(* every finite set of rows.                                                *)
(***************************************************************************)
EXTENDS ArticleSchemas, FiniteSetTheorems, TLAPS

(* Rows belong to the dictionary. *)
Owned == ~dictionary => Rows = {}

(***************************************************************************)
(* A number counted before others committed theirs can only be too small:   *)
(* while the dictionary exists no version goes away.  With the unique       *)
(* constraint, what is accepted is therefore the next number exactly.       *)
(***************************************************************************)
CountedInRange ==
  dictionary => \A p \in Processes :
    process[p].at \in {"save", "generate"} => process[p].version <= Cardinality(Rows) + 1

(* What an activation loaded is still there and still ready. *)
LoadedIsReady ==
  dictionary => \A p \in Processes :
    Activating(p) => process[p].to \in Rows /\ status[process[p].to] = "ready"

(* An activation that nothing overlapped will clear all that is active. *)
FoundAll ==
  ~overlapped /\ dictionary =>
    /\ \A p, q \in Editors : Activating(p) /\ Activating(q) => p = q
    /\ \A p \in Editors : Activating(p) => process[p].found = active

IInv ==
  /\ TypeOK /\ VersionsDense /\ ActiveIsReady /\ OneActive
  /\ Owned /\ CountedInRange /\ LoadedIsReady /\ FoundAll

--------------------------------------------------------------------------------
(* The rows are finitely many. *)
LEMMA RowsFinite ==
  /\ IsFiniteSet(Rows)
  /\ Cardinality(Rows) \in Nat
  /\ Cardinality(Ids) \in Nat
  /\ Cardinality(Rows) <= Cardinality(Ids)
<1>1. Rows \in SUBSET Ids
  BY DEF Rows
<1> QED
  BY <1>1, SchemasAssumption, FS_Subset, FS_CardinalityType

LEMMA NextVersionType == NextVersion \in 1..(Cardinality(Ids) + 1)
BY RowsFinite DEF NextVersion

LEMMA NoVersions == [i \in Ids |-> 0] \in [Ids -> 0..(Cardinality(Ids) + 1)]
<1>1. 0 \in 0..(Cardinality(Ids) + 1)
  BY RowsFinite
<1> QED
  BY <1>1

(* What a process goes on to do tells which record it holds. *)
LEMMA ProcessKinds ==
  ASSUME TypeOK, NEW p \in Processes
  PROVE  /\ process[p].at \in {"save", "generate"} => process[p] \in Append
         /\ Activating(p) => process[p] \in Activation
BY DEF TypeOK, Idle, Append, Activation, Activating

(***************************************************************************)
(* What a commit that the constraints accept stores: the next version, in a *)
(* row that was free.                                                       *)
(***************************************************************************)
LEMMA Appended ==
  ASSUME IInv, NEW p \in Processes, AppendCommit(p)
  PROVE  \E i \in Ids \ Rows, s \in {"ready", "failed"} :
           /\ version' = [version EXCEPT ![i] = Cardinality(Rows) + 1]
           /\ status' = [status EXCEPT ![i] = s]
           /\ Rows' = Rows \union {i}
           /\ Cardinality(Rows') = Cardinality(Rows) + 1
<1>1. process[p].version \in Nat /\ process[p].version >= 1
  BY ProcessKinds, RowsFinite DEF IInv, AppendCommit, Append
<1>2. process[p].version <= Cardinality(Rows) + 1
  BY DEF IInv, CountedInRange, AppendCommit, Accepted
<1>3. process[p].version \notin 1..Cardinality(Rows)
  BY DEF IInv, VersionsDense, AppendCommit, Accepted
<1>4. process[p].version = Cardinality(Rows) + 1
  BY <1>1, <1>2, <1>3, RowsFinite
<1>5. PICK i \in Ids \ Rows, s \in {"ready", "failed"} :
        /\ version' = [version EXCEPT ![i] = Cardinality(Rows) + 1]
        /\ status' = [status EXCEPT ![i] = s]
  BY <1>4 DEF AppendCommit
<1>6. Rows' = Rows \union {i}
  BY <1>5, RowsFinite DEF IInv, TypeOK, Rows
<1>7. Cardinality(Rows') = Cardinality(Rows) + 1
  BY <1>5, <1>6, RowsFinite, FS_AddElement
<1> QED
  BY <1>5, <1>6, <1>7

(* Without a dictionary, or with the rows left alone, Rows is as it was. *)
LEMMA RowsUnchanged == UNCHANGED version => UNCHANGED Rows
BY DEF Rows
--------------------------------------------------------------------------------
(* Types: one step per action. *)
LEMMA TypeStep == IInv /\ [Next]_vars => TypeOK'
<1> SUFFICES ASSUME IInv, [Next]_vars PROVE TypeOK'
  OBVIOUS
<1> USE DEF Processes
<1>0. TypeOK
  BY DEF IInv
<1>1. CASE UNCHANGED vars
  BY <1>0, <1>1 DEF vars, TypeOK
<1>2. ASSUME NEW p \in Processes, Abandon(p) PROVE TypeOK'
  BY <1>0, <1>2 DEF Abandon, Done, TypeOK
<1>3. ASSUME NEW p \in Processes, AppendCommit(p) PROVE TypeOK'
  <2>1. PICK i \in Ids \ Rows, s \in {"ready", "failed"} :
          /\ version' = [version EXCEPT ![i] = Cardinality(Rows) + 1]
          /\ status' = [status EXCEPT ![i] = s]
    BY <1>3, Appended
  <2>2. Cardinality(Rows) + 1 \in 0..(Cardinality(Ids) + 1)
    BY RowsFinite
  <2> QED
    BY <1>0, <1>3, <2>1, <2>2 DEF AppendCommit, Done, TypeOK
<1>4. ASSUME NEW e \in Editors, SaveLoad(e) PROVE TypeOK'
  <2>1. [at |-> "save", version |-> NextVersion] \in Append
    BY NextVersionType DEF Append
  <2> QED
    BY <1>0, <1>4, <2>1 DEF SaveLoad, Begin, TypeOK
<1>5. ASSUME NEW e \in Editors, ActivateCommit(e) PROVE TypeOK'
  <2>1. process[e].to \in Ids
    BY <1>0, <1>5, ProcessKinds DEF ActivateCommit, Activation
  <2> QED
    BY <1>0, <1>5, <2>1 DEF ActivateCommit, Activated, Done, TypeOK
<1>6. ASSUME NEW e \in Editors, NEW i \in Ids, ActivateLoad(e, i) PROVE TypeOK'
  <2>1. PICK found \in Newest : Begin(e, [at |-> "activate", to |-> i, found |-> found])
    BY <1>6 DEF ActivateLoad
  <2>2. [at |-> "activate", to |-> i, found |-> found] \in Activation
    BY <1>0, <2>1 DEF TypeOK, Newest, Activation
  <2> QED
    BY <1>0, <1>6, <2>1, <2>2 DEF ActivateLoad, Begin, TypeOK
<1>7. ASSUME NEW w \in Workers, GenerateLoad(w) PROVE TypeOK'
  <2>1. [at |-> "generate", version |-> NextVersion] \in Append
    BY NextVersionType DEF Append
  <2> QED
    BY <1>0, <1>7, <2>1 DEF GenerateLoad, Begin, TypeOK
<1>8. CASE DeleteDictionary
  BY <1>0, <1>8, NoVersions DEF DeleteDictionary, TypeOK
<1> QED
  BY <1>1, <1>2, <1>3, <1>4, <1>5, <1>6, <1>7, <1>8 DEF Next
--------------------------------------------------------------------------------
(* The numbers: only a commit adds a row, only the deletion removes any. *)
LEMMA VersionsStep == IInv /\ [Next]_vars => (VersionsDense /\ Owned /\ CountedInRange)'
<1> SUFFICES ASSUME IInv, [Next]_vars PROVE (VersionsDense /\ Owned /\ CountedInRange)'
  OBVIOUS
<1>0. TypeOK /\ VersionsDense /\ Owned /\ CountedInRange
  BY DEF IInv
<1>a. ASSUME UNCHANGED <<dictionary, version>> PROVE (VersionsDense /\ Owned)'
  BY <1>0, <1>a, RowsUnchanged DEF VersionsDense, Owned
<1>b. ASSUME UNCHANGED <<dictionary, version>>, NEW p \in Processes,
             \/ Done(p)
             \/ \E l : Begin(p, l) /\ (l.at \in {"save", "generate"} => l.version = NextVersion)
      PROVE  CountedInRange'
  <2>1. ASSUME NEW q \in Processes, dictionary', process'[q].at \in {"save", "generate"}
        PROVE  process'[q].version <= Cardinality(Rows) + 1
    <3>1. CASE q # p
      BY <1>0, <1>b, <2>1, <3>1 DEF Done, Begin, TypeOK, CountedInRange
    <3>2. CASE q = p
      BY <1>0, <1>b, <2>1, <3>2, RowsFinite DEF Done, Begin, Idle, TypeOK, NextVersion
    <3> QED
      BY <3>1, <3>2
  <2> QED
    BY <1>b, <2>1, RowsUnchanged DEF CountedInRange
<1>1. CASE UNCHANGED vars
  BY <1>0, <1>1, <1>a, RowsUnchanged DEF vars, CountedInRange
<1>2. ASSUME NEW p \in Processes, Abandon(p) PROVE (VersionsDense /\ Owned /\ CountedInRange)'
  BY <1>2, <1>a, <1>b DEF Abandon
<1>3. ASSUME NEW p \in Processes, AppendCommit(p)
      PROVE  (VersionsDense /\ Owned /\ CountedInRange)'
  <2>1. PICK i \in Ids \ Rows, s \in {"ready", "failed"} :
          /\ version' = [version EXCEPT ![i] = Cardinality(Rows) + 1]
          /\ Rows' = Rows \union {i}
          /\ Cardinality(Rows') = Cardinality(Rows) + 1
    BY <1>3, Appended
  <2>2. \A j \in Rows : version'[j] = version[j] /\ version[j] \in 1..Cardinality(Rows)
    BY <1>0, <2>1 DEF TypeOK, VersionsDense, Rows
  <2>3. version'[i] = Cardinality(Rows) + 1
    BY <1>0, <2>1 DEF TypeOK
  <2>4. \A j, k \in Rows' : version'[j] = version'[k] => j = k
    BY <1>0, <2>1, <2>2, <2>3, RowsFinite DEF VersionsDense
  <2>5. {version'[j] : j \in Rows'} = {version[j] : j \in Rows} \union {Cardinality(Rows) + 1}
    BY <2>1, <2>2, <2>3
  <2>6. {version'[j] : j \in Rows'} = 1..Cardinality(Rows')
    <3>1. 1..(Cardinality(Rows) + 1) = (1..Cardinality(Rows)) \union {Cardinality(Rows) + 1}
      BY RowsFinite
    <3> QED
      BY <1>0, <2>1, <2>5, <3>1 DEF VersionsDense
  <2>7. CountedInRange'
    <3>1. ASSUME NEW q \in Processes, process'[q].at \in {"save", "generate"}
          PROVE  process'[q].version <= Cardinality(Rows) + 1 /\ process'[q].version \in Nat
      <4>1. q # p /\ process'[q] = process[q]
        BY <1>0, <1>3, <3>1 DEF AppendCommit, Done, Idle, TypeOK
      <4> QED
        BY <1>0, <1>3, <3>1, <4>1, ProcessKinds, RowsFinite
           DEF AppendCommit, Accepted, CountedInRange, Append
    <3> QED
      BY <2>1, <3>1, RowsFinite DEF CountedInRange
  <2> QED
    BY <1>3, <2>4, <2>6, <2>7 DEF VersionsDense, Owned, AppendCommit, Accepted
<1>4. ASSUME NEW e \in Editors, SaveLoad(e) PROVE (VersionsDense /\ Owned /\ CountedInRange)'
  BY <1>4, <1>a, <1>b DEF SaveLoad, Processes
<1>5. ASSUME NEW e \in Editors, ActivateCommit(e)
      PROVE  (VersionsDense /\ Owned /\ CountedInRange)'
  BY <1>5, <1>a, <1>b DEF ActivateCommit, Processes
<1>6. ASSUME NEW e \in Editors, NEW i \in Ids, ActivateLoad(e, i)
      PROVE  (VersionsDense /\ Owned /\ CountedInRange)'
  <2>1. \E l : Begin(e, l) /\ (l.at \in {"save", "generate"} => l.version = NextVersion)
    BY <1>6 DEF ActivateLoad
  <2> QED
    BY <1>6, <2>1, <1>a, <1>b DEF ActivateLoad, Processes
<1>7. ASSUME NEW w \in Workers, GenerateLoad(w) PROVE (VersionsDense /\ Owned /\ CountedInRange)'
  BY <1>7, <1>a, <1>b DEF GenerateLoad, Processes
<1>8. CASE DeleteDictionary
  <2>1. Rows' = {}
    BY <1>8 DEF DeleteDictionary, Rows
  <2>2. Cardinality(Rows') = 0
    BY <2>1, FS_EmptySet
  <2> QED
    BY <1>8, <2>1, <2>2 DEF DeleteDictionary, VersionsDense, Owned, CountedInRange
<1> QED
  BY <1>1, <1>2, <1>3, <1>4, <1>5, <1>6, <1>7, <1>8 DEF Next
--------------------------------------------------------------------------------
(***************************************************************************)
(* The activations.  A step that leaves the stored rows, what is active and *)
(* who activates alone leaves all of it true.                               *)
(***************************************************************************)
Activations == ActiveIsReady /\ OneActive /\ LoadedIsReady /\ FoundAll

LEMMA OtherStep ==
  ASSUME IInv, NEW p \in Processes,
         UNCHANGED <<dictionary, active, overlapped>>,
         \A i \in Rows : i \in Rows' /\ status'[i] = status[i],
         ~Activating(p)', \A q \in Processes : q # p => process'[q] = process[q]
  PROVE  Activations'
<1>1. \A q \in Processes : Activating(q)' => Activating(q) /\ process'[q] = process[q]
  BY DEF Activating
<1>2. ActiveIsReady'
  BY DEF IInv, ActiveIsReady
<1>3. LoadedIsReady'
  BY <1>1 DEF IInv, LoadedIsReady, Activating
<1>4. FoundAll'
  BY <1>1 DEF IInv, FoundAll, Activating, Processes
<1> QED
  BY <1>2, <1>3, <1>4 DEF IInv, OneActive, Activations

LEMMA ActivationsStep == IInv /\ [Next]_vars => Activations'
<1> SUFFICES ASSUME IInv, [Next]_vars PROVE Activations'
  OBVIOUS
<1>0. TypeOK /\ Activations /\ Owned
  BY DEF IInv, Activations
<1> USE DEF Processes
<1>1. CASE UNCHANGED vars
  BY <1>0, <1>1 DEF vars, Activations, ActiveIsReady, OneActive, LoadedIsReady, FoundAll,
     Activating, Rows
<1>2. ASSUME NEW p \in Processes, Abandon(p) PROVE Activations'
  <2>1. ~Activating(p)' /\ \A q \in Processes : q # p => process'[q] = process[q]
    BY <1>0, <1>2 DEF Abandon, Done, Idle, TypeOK, Activating
  <2> QED
    BY <1>2, <2>1, OtherStep, RowsUnchanged DEF Abandon
<1>3. ASSUME NEW p \in Processes, AppendCommit(p) PROVE Activations'
  <2>1. ~Activating(p)' /\ \A q \in Processes : q # p => process'[q] = process[q]
    BY <1>0, <1>3 DEF AppendCommit, Done, Idle, TypeOK, Activating
  <2>2. PICK i \in Ids \ Rows, s \in {"ready", "failed"} :
          status' = [status EXCEPT ![i] = s] /\ Rows' = Rows \union {i}
    BY <1>3, Appended
  <2>3. \A j \in Rows : j \in Rows' /\ status'[j] = status[j]
    BY <1>0, <2>2 DEF TypeOK, Rows
  <2> QED
    BY <1>3, <2>1, <2>3, OtherStep DEF AppendCommit
<1>4. ASSUME NEW e \in Editors, SaveLoad(e) PROVE Activations'
  <2>1. ~Activating(e)' /\ \A q \in Processes : q # e => process'[q] = process[q]
    BY <1>0, <1>4 DEF SaveLoad, Begin, TypeOK, Activating
  <2> QED
    BY <1>4, <2>1, OtherStep, RowsUnchanged DEF SaveLoad
<1>5. ASSUME NEW e \in Editors, ActivateCommit(e) PROVE Activations'
  <2> DEFINE q == process[e]
  <2>1. q \in Activation /\ q.to \in Rows
    BY <1>0, <1>5, ProcessKinds DEF ActivateCommit
  <2>2. dictionary
    BY <1>0, <2>1 DEF Owned
  <2>3. status[q.to] = "ready"
    BY <1>0, <1>5, <2>2 DEF ActivateCommit, Activations, LoadedIsReady
  <2>4. active' = (active \ q.found) \union {q.to} /\ UNCHANGED <<Rows, status, dictionary, overlapped>>
    BY <1>5, RowsUnchanged DEF ActivateCommit, Activated
  <2>5. ActiveIsReady'
    BY <1>0, <2>1, <2>3, <2>4 DEF Activations, ActiveIsReady
  <2>6. \A p \in Processes : Activating(p)' => p # e /\ Activating(p) /\ process'[p] = process[p]
    BY <1>0, <1>5 DEF ActivateCommit, Done, Idle, TypeOK, Activating
  <2>7. LoadedIsReady'
    BY <1>0, <2>4, <2>6 DEF Activations, LoadedIsReady
  <2>8. ~overlapped => active' = {q.to} /\ \A p \in Editors : ~Activating(p)'
    BY <1>0, <1>5, <2>2, <2>4, <2>6 DEF Activations, FoundAll, ActivateCommit
  <2> QED
    BY <2>4, <2>5, <2>7, <2>8 DEF Activations, OneActive, FoundAll
<1>6. ASSUME NEW e \in Editors, NEW i \in Ids, ActivateLoad(e, i) PROVE Activations'
  <2>1. PICK found \in Newest : Begin(e, [at |-> "activate", to |-> i, found |-> found])
    BY <1>6 DEF ActivateLoad
  <2>2. process'[e].to = i /\ process'[e].found = found
    BY <1>0, <2>1 DEF Begin, TypeOK
  <2>3. \A p \in Processes : p # e => process'[p] = process[p]
    BY <1>0, <2>1 DEF Begin, TypeOK
  <2>4. UNCHANGED <<Rows, status, dictionary, active>>
    BY <1>6, RowsUnchanged DEF ActivateLoad
  <2>5. ActiveIsReady' /\ OneActive'
    BY <1>0, <1>6, <2>4 DEF Activations, ActiveIsReady, OneActive, ActivateLoad
  <2>6. LoadedIsReady'
    BY <1>0, <1>6, <2>2, <2>3, <2>4 DEF Activations, LoadedIsReady, ActivateLoad, Activating
  <2>7. FoundAll'
    <3> SUFFICES ASSUME ~overlapped', dictionary
                 PROVE  \A p \in Editors : Activating(p)' => p = e /\ process'[p].found = active
      BY <2>4 DEF FoundAll
    <3>1. ~overlapped /\ \A p \in Editors : ~Activating(p)
      BY <1>6 DEF ActivateLoad
    <3>2. found = active
      BY <1>0, <2>1, <3>1 DEF Newest, Activations, OneActive
    <3> QED
      BY <2>2, <2>3, <3>1, <3>2 DEF Activating
  <2> QED
    BY <2>5, <2>6, <2>7 DEF Activations
<1>7. ASSUME NEW w \in Workers, GenerateLoad(w) PROVE Activations'
  <2>1. ~Activating(w)' /\ \A q \in Processes : q # w => process'[q] = process[q]
    BY <1>0, <1>7 DEF GenerateLoad, Begin, TypeOK, Activating
  <2> QED
    BY <1>7, <2>1, OtherStep, RowsUnchanged DEF GenerateLoad
<1>8. CASE DeleteDictionary
  BY <1>8 DEF DeleteDictionary, Activations, ActiveIsReady, OneActive, LoadedIsReady, FoundAll
<1> QED
  BY <1>1, <1>2, <1>3, <1>4, <1>5, <1>6, <1>7, <1>8 DEF Next
--------------------------------------------------------------------------------
LEMMA Initial == Init => IInv
<1> SUFFICES ASSUME Init PROVE IInv
  OBVIOUS
<1>1. Rows = {} /\ Cardinality(Rows) = 0
  BY FS_EmptySet DEF Init, Rows
<1>2. TypeOK
  BY NoVersions DEF Init, TypeOK
<1> QED
  BY <1>1, <1>2 DEF Init, IInv, VersionsDense, ActiveIsReady, OneActive, Owned, CountedInRange,
     LoadedIsReady, FoundAll, Activating, Idle, Processes

LEMMA Invariance == Spec => []IInv
<1>1. IInv /\ [Next]_vars => IInv'
  BY TypeStep, VersionsStep, ActivationsStep DEF IInv, Activations
<1> QED
  BY Initial, <1>1, PTL DEF Spec

(* No request or worker leaves a column or its own record outside its type. *)
THEOREM TypeCorrect == Spec => []TypeOK
<1>1. IInv => TypeOK
  BY DEF IInv
<1> QED
  BY Invariance, <1>1, PTL

(* Saves, generations and deletions in any order number the versions of a   *)
(* dictionary 1, 2, 3 ... without a gap or a repetition.                     *)
THEOREM Numbering == Spec => []VersionsDense
<1>1. IInv => VersionsDense
  BY DEF IInv
<1> QED
  BY Invariance, <1>1, PTL

(* What get_active_article_schema returns is a stored version that is ready. *)
THEOREM ActiveUsable == Spec => []ActiveIsReady
<1>1. IInv => ActiveIsReady
  BY DEF IInv
<1> QED
  BY Invariance, <1>1, PTL

(* Activations that do not overlap leave at most one version active. *)
THEOREM SingleActive == Spec => []OneActive
<1>1. IInv => OneActive
  BY DEF IInv
<1> QED
  BY Invariance, <1>1, PTL

(* A stored version is never changed, and goes only with its dictionary. *)
THEOREM History == Spec => HistoryKept
<1> DEFINE Kept == \A i \in Rows : \/ version'[i] = version[i] /\ status'[i] = status[i]
                                   \/ dictionary /\ ~dictionary'
<1>1. IInv /\ [Next]_vars => [Kept]_vars
  <2> SUFFICES ASSUME IInv, Next PROVE Kept
    BY DEF vars
  <2>1. ASSUME NEW p \in Processes, AppendCommit(p) PROVE Kept
    <3>1. PICK i \in Ids \ Rows, s \in {"ready", "failed"} :
            /\ version' = [version EXCEPT ![i] = Cardinality(Rows) + 1]
            /\ status' = [status EXCEPT ![i] = s]
      BY <2>1, Appended
    <3> QED
      BY <3>1 DEF IInv, TypeOK, Rows
  <2>2. ASSUME UNCHANGED <<version, status>> PROVE Kept
    BY <2>2
  <2>3. CASE DeleteDictionary
    BY <2>3 DEF DeleteDictionary
  <2> QED
    BY <2>1, <2>2, <2>3 DEF Next, Abandon, SaveLoad, ActivateCommit, ActivateLoad, GenerateLoad
<1> QED
  BY Invariance, <1>1, PTL DEF Spec, HistoryKept

(* Extraction never loses its schema to an interleaving of activations. *)
THEOREM SchemaStays == Spec => StaysActive
<1> DEFINE Kept == active # {} => active' # {} \/ ~dictionary'
<1>1. [Next]_vars => [Kept]_vars
  <2> SUFFICES ASSUME Next PROVE Kept
    BY DEF vars
  <2>1. ASSUME NEW e \in Editors, ActivateCommit(e) PROVE Kept
    BY <2>1 DEF ActivateCommit, Activated
  <2>2. ASSUME UNCHANGED active PROVE Kept
    BY <2>2
  <2>3. CASE DeleteDictionary
    BY <2>3 DEF DeleteDictionary
  <2> QED
    BY <2>1, <2>2, <2>3 DEF Next, Abandon, SaveLoad, AppendCommit, ActivateLoad, GenerateLoad
<1> QED
  BY <1>1, PTL DEF Spec, StaysActive
================================================================================
