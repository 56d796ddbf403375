----------------------------- MODULE ArticleSchemas -----------------------------
(***************************************************************************)
(* The versions of one dictionary's article schema: SaveArticleSchemaService *)
(* and ActivateArticleSchemaService in the API, and the Celery task          *)
(* generate_article_schema, which holds its unit of work open while it waits *)
(* for the language model.                                                   *)
(*                                                                           *)
(* Each reads in one step and commits in another, others in between.         *)
(***************************************************************************)
EXTENDS Naturals, FiniteSets

CONSTANTS
  Editors,  \* slots for the API requests that save or activate a version
  Workers,  \* worker processes that generate one
  Ids       \* bound: the rows article_schemas can hold

ASSUME SchemasAssumption == IsFiniteSet(Ids) /\ Editors \intersect Workers = {}

VARIABLES
  dictionary,  \* the dictionary's row exists
  version,     \* article_schemas.version, 0 for a row that does not exist
  status,      \* article_schemas.status
  active,      \* the rows whose activated_at is set
  process,     \* what each request and worker has loaded and goes on to do
  overlapped   \* history: two activations were under way at once

vars == <<dictionary, version, status, active, process, overlapped>>

Processes == Editors \union Workers

Idle == [at |-> "idle"]

Append == [at : {"save", "generate"}, version : 1..(Cardinality(Ids) + 1)]

(* The version to activate and the one found active, if any.                *)
Activation == [at : {"activate"}, to : Ids, found : SUBSET Ids]

Rows == {i \in Ids : version[i] # 0}

Init ==
  /\ dictionary = TRUE
  /\ version = [i \in Ids |-> 0]
  /\ status = [i \in Ids |-> "ready"]
  /\ active = {}
  /\ process = [p \in Processes |-> Idle]
  /\ overlapped = FALSE

Begin(p, loaded) ==
  /\ process[p] = Idle
  /\ process' = [process EXCEPT ![p] = loaded]

Done(p) == process' = [process EXCEPT ![p] = Idle]

(* The request is refused, the model call raises or runs into the task's    *)
(* time limit, or the process dies: nothing was committed.                  *)
Abandon(p) ==
  /\ process[p] # Idle
  /\ Done(p)
  /\ UNCHANGED <<dictionary, version, status, active, overlapped>>

--------------------------------------------------------------------------------
(* A new version. *)

NextVersion == Cardinality(Rows) + 1

SaveLoad(e) ==
  /\ dictionary
  /\ Begin(e, [at |-> "save", version |-> NextVersion])
  /\ UNCHANGED <<dictionary, version, status, active, overlapped>>

(* The model is asked after this. *)
GenerateLoad(w) ==
  /\ dictionary
  /\ Begin(w, [at |-> "generate", version |-> NextVersion])
  /\ UNCHANGED <<dictionary, version, status, active, overlapped>>

AcceptedTwice(v) == dictionary

(* The foreign key to the dictionary and the unique (dictionary_id, version). *)
Accepted(v) == dictionary /\ \A i \in Rows : version[i] # v

(* A generated version is "failed" when the provider reported an error.  A  *)
(* constraint that does not hold ends the process with nothing stored.      *)
AppendCommit(p) ==
  /\ process[p].at \in {"save", "generate"}
  /\ Accepted(process[p].version)
  /\ \E i \in Ids \ Rows, s \in {"ready", "failed"} :
       /\ process[p].at = "save" => s = "ready"
       /\ version' = [version EXCEPT ![i] = process[p].version]
       /\ status' = [status EXCEPT ![i] = s]
  /\ Done(p)
  /\ UNCHANGED <<dictionary, active, overlapped>>

--------------------------------------------------------------------------------
(* ActivateArticleSchemaService.activate *)

Activating(p) == process[p].at = "activate"

(* get_active_article_schema takes the newest activated_at.  The times are  *)
(* those of the processes before their transactions, so where overlapping   *)
(* activations left several versions active it may take any of them.        *)
Newest == IF active = {} THEN {{}} ELSE {{i} : i \in active}

ActivateLoad(e, i) ==
  /\ i \in Rows
  /\ status[i] = "ready"
  /\ \E found \in Newest :
       Begin(e, [at |-> "activate", to |-> i, found |-> found])
  /\ overlapped' = (overlapped \/ \E p \in Editors : Activating(p))
  /\ UNCHANGED <<dictionary, version, status, active>>

ActivatedBesideOthers(q) == active \union {q.to}

ClearedLast(q) == (active \union {q.to}) \ q.found

(* What was found active is cleared unless it is the version to activate. *)
Activated(q) == (active \ q.found) \union {q.to}

(* The UPDATE of a row that is gone fails and changes nothing. *)
ActivateCommit(e) ==
  /\ Activating(e)
  /\ process[e].to \in Rows
  /\ active' = Activated(process[e])
  /\ Done(e)
  /\ UNCHANGED <<dictionary, version, status, overlapped>>

--------------------------------------------------------------------------------
(* The foreign key takes the versions along. *)
DeleteDictionary ==
  /\ dictionary
  /\ dictionary' = FALSE
  /\ version' = [i \in Ids |-> 0]
  /\ active' = {}
  /\ UNCHANGED <<status, process, overlapped>>

Next ==
  \/ \E p \in Processes : Abandon(p) \/ AppendCommit(p)
  \/ \E e \in Editors : SaveLoad(e) \/ ActivateCommit(e)
  \/ \E e \in Editors, i \in Ids : ActivateLoad(e, i)
  \/ \E w \in Workers : GenerateLoad(w)
  \/ DeleteDictionary

Spec == Init /\ [][Next]_vars

--------------------------------------------------------------------------------
TypeOK ==
  /\ dictionary \in BOOLEAN
  /\ version \in [Ids -> 0..(Cardinality(Ids) + 1)]
  /\ status \in [Ids -> {"ready", "failed"}]
  /\ active \subseteq Ids
  /\ process \in [Processes -> {Idle} \union Append \union Activation]
  /\ overlapped \in BOOLEAN

(* The versions are numbered 1, 2, 3 ... without a gap or a repetition,     *)
(* although each number was counted before others committed theirs and the  *)
(* model may have been asked for minutes in between.                        *)
VersionsDense ==
  /\ \A i, j \in Rows : version[i] = version[j] => i = j
  /\ {version[i] : i \in Rows} = 1..Cardinality(Rows)

(* What is active can be used: a row of the dictionary that is "ready".      *)
ActiveIsReady == \A i \in active : i \in Rows /\ status[i] = "ready"

(* At most one version is ever active -- as long as no two activations were *)
(* under way at once: each clears only the version it found.                *)
OneActive == ~overlapped => \A i, j \in active : i = j

(* A version once stored is history: no save, generation or activation      *)
(* changes or removes it, only the deletion of the dictionary does.         *)
HistoryKept ==
  [][\A i \in Rows :
       \/ version'[i] = version[i] /\ status'[i] = status[i]
       \/ dictionary /\ ~dictionary']_vars

(* A dictionary that has an active version keeps one: no interleaving of    *)
(* activations, saves and generations leaves extraction without a schema.   *)
StaysActive == [][active # {} => active' # {} \/ ~dictionary']_vars
================================================================================
