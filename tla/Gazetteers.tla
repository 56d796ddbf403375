------------------------------- MODULE Gazetteers ------------------------------
(***************************************************************************)
(* The local copy of the administrative units of decentralization.ua, as the   *)
(* command that synchronises it leaves it, and the mappings of a dictionary's  *)
(* geographic labels to its settlements, which editors create, edit, confirm   *)
(* and import meanwhile.  A settlement is identified by its community and       *)
(* title, which is all that tells the villages of one community apart.          *)
(***************************************************************************)
EXTENDS Naturals

CONSTANTS
  AreaFeeds, RegionFeeds, CommunityFeeds,  \* the lists the service may answer with
  Mappings,     \* identifiers of mappings, each used once
  Labels,       \* historical labels
  Districts,    \* short forms of districts
  Editors,      \* requests in flight
  MaxSyncs,     \* bound on the runs of the command
  MaxRequests,  \* bound on the requests of editors
  None, Gone    \* NULL, or a mapping that is not there yet; one that was deleted

VARIABLES
  areas,        \* external identifiers of the areas
  regions,      \* region -> area
  communities,  \* community -> [area, region, name]
  settlements,  \* <<community, title>>
  phase,        \* what the command synchronises now
  runs,         \* entity type -> status of its SyncRun, in the newest synchronisation
  fetched,      \* communities as the service listed them last
  syncs,
  rows,         \* mapping -> its row
  request,      \* editor -> the request it waits for
  received,     \* requests so far
  crossed       \* mappings some request wrote over a change it had not read

cache == <<areas, regions, communities, settlements, phase, runs, fetched, syncs>>
mappings == <<rows, request, received, crossed>>
vars == <<areas, regions, communities, settlements, phase, runs, fetched, syncs,
          rows, request, received, crossed>>

EntityType == {"area", "region", "community"}

(* What the lists name: identifiers, and the titles of communities and villages.   *)
Listed == UNION CommunityFeeds

AreaIds == {a.id : a \in UNION AreaFeeds}

RegionIds == {r.id : r \in UNION RegionFeeds}

CommunityIds == {c.id : c \in Listed}

CommunityNames == {c.name : c \in Listed}

Settlements == CommunityIds \X UNION {c.villages : c \in Listed}

Snapshot == [community : CommunityIds, name : CommunityNames]

(* An identifier stands for one community of a list, and NULL for no snapshot.     *)
FeedAssumption ==
  /\ \A listed \in CommunityFeeds : \A c, d \in listed : c.id = d.id => c = d
  /\ None \notin Snapshot

IsRow(row) == row \notin {None, Gone}

Init ==
  /\ areas = {} /\ settlements = {} /\ fetched = {}
  /\ regions = <<>> /\ communities = <<>>
  /\ phase = "idle" /\ runs = [t \in EntityType |-> "none"] /\ syncs = 0
  /\ rows = [m \in Mappings |-> None]
  /\ request = [e \in Editors |-> None] /\ received = 0
  /\ crossed = {}

--------------------------------------------------------------------------------
(* A bug: the records that were skipped do not count.                             *)
OutcomeLenient(listed, synced) ==
  IF synced = {} /\ listed # {} THEN "failed" ELSE "succeeded"

(* The status of a run that got only some of the listed records through.        *)
Outcome(listed, synced) ==
  CASE synced = listed -> "succeeded"
    [] synced # listed /\ synced # {} -> "partial"
    [] synced # listed /\ synced = {} -> "failed"

(* The list, or None: the service failed, or answered with something else.        *)
Answers(feeds) == feeds \union {None}

(* What gets through of a list: an area needs a title, a region an area that is     *)
(* stored, a community both.                                                    *)
ParsedAreas(listed) == {a \in listed : a.titled}

ParsedRegions(listed) == {r \in listed : r.area \in areas /\ r.titled}

ParsedCommunities(listed) ==
  {c \in listed : c.area \in areas /\ c.region \in DOMAIN regions /\ c.titled}

Recorded(type, status) == runs' = [runs EXCEPT ![type] = status]

(* The run is recorded as failed, and the level keeps what it had.                *)
RecordFailedRun(type) == Recorded(type, "failed")

(* The rows of a table, with those brought up to date or added.                   *)
Upserted(stored, new) ==
  [i \in DOMAIN stored \union DOMAIN new |-> IF i \in DOMAIN new THEN new[i] ELSE stored[i]]

StartSync ==
  /\ phase = "idle" /\ syncs < MaxSyncs
  /\ phase' = "area" /\ syncs' = syncs + 1
  /\ runs' = [t \in EntityType |-> "none"]
  /\ UNCHANGED <<areas, regions, communities, settlements, fetched, mappings>>

SyncAreas ==
  /\ phase = "area" /\ phase' = "region"
  /\ \E listed \in Answers(AreaFeeds) :
       IF listed = None
       THEN RecordFailedRun("area") /\ UNCHANGED areas
       ELSE LET parsed == ParsedAreas(listed)
            IN  /\ areas' = areas \union {a.id : a \in parsed}
                /\ Recorded("area", Outcome(listed, parsed))
  /\ UNCHANGED <<regions, communities, settlements, fetched, syncs, mappings>>

SyncRegions ==
  /\ phase = "region" /\ phase' = "community"
  /\ \E listed \in Answers(RegionFeeds) :
       IF listed = None
       THEN RecordFailedRun("region") /\ UNCHANGED regions
       ELSE LET parsed == ParsedRegions(listed)
                upserted == [i \in {r.id : r \in parsed} |->
                               (CHOOSE r \in parsed : r.id = i).area]
            IN  /\ regions' = Upserted(regions, upserted)
                /\ Recorded("region", Outcome(listed, parsed))
  /\ UNCHANGED <<areas, communities, settlements, fetched, syncs, mappings>>

(* The columns of a community that a synchronisation brings up to date.          *)
CommunityRow(c) == [area |-> c.area, region |-> c.region, name |-> c.name]

(* Each village of a community that got through.                                  *)
Villages(parsed) == UNION {{<<c.id, v>> : v \in c.villages} : c \in parsed}

(* A bug: the villages are deleted and inserted again.                            *)
StaleSettlementsAll(parsed) == {s \in settlements : \E c \in parsed : c.id = s[1]}

(* Villages that are stored and no longer listed.                                *)
StaleSettlements(parsed) ==
  {s \in settlements : \E c \in parsed : c.id = s[1] /\ s[2] \notin c.villages}

(* What the foreign keys of the mappings do when settlements are deleted.         *)
SetNull(deleted) ==
  rows' = [m \in Mappings |->
             IF IsRow(rows[m]) /\ rows[m].settlement \in deleted
             THEN [rows[m] EXCEPT !.settlement = None] ELSE rows[m]]

(* A new village of a community that is stored already is added with the         *)
(* identifier that the parser drew for the community, which no row has: the      *)
(* insert fails, and its error is none that _sync_communities catches.             *)
Unplaceable(parsed) == \E s \in Villages(parsed) \ settlements : s[1] \in DOMAIN communities

SyncCommunities ==
  /\ phase = "community" /\ phase' = "idle"
  /\ \E listed \in Answers(CommunityFeeds) :
       IF listed = None
       THEN /\ RecordFailedRun("community")
            /\ UNCHANGED <<communities, settlements, fetched, rows>>
       ELSE LET parsed == ParsedCommunities(listed)
                upserted == [i \in {c.id : c \in parsed} |->
                               CommunityRow(CHOOSE c \in parsed : c.id = i)]
            IN  \/ /\ Unplaceable(parsed)
                   /\ UNCHANGED <<runs, communities, settlements, fetched, rows>>
                \/ /\ ~ Unplaceable(parsed)
                   /\ communities' = Upserted(communities, upserted)
                   /\ settlements' = (settlements \ StaleSettlements(parsed))
                                       \union Villages(parsed)
                   /\ SetNull(StaleSettlements(parsed))
                   /\ fetched' = listed
                   /\ Recorded("community", Outcome(listed, parsed))
  /\ UNCHANGED <<areas, regions, syncs, request, received, crossed>>

--------------------------------------------------------------------------------
(* What a form may hold: a settlement is chosen from the results of a search.     *)
Form == [label : Labels, settlement : settlements \union {None},
         district : Districts \union {None}]

(* The status that the routes give to what a form says.                         *)
StatusOf(form) == IF form.settlement = None THEN "unresolved" ELSE "suggested"

(* The community of the chosen settlement, looked up before the transaction.      *)
Place(settlement) == IF settlement = None THEN None ELSE settlement[1]

Duplicate(label, settlement, others) ==
  \E m \in others :
    /\ IsRow(rows[m]) /\ rows[m].label = label
    /\ settlement = None \/ rows[m].settlement \in {None, settlement}

Storable(settlement) == settlement \in settlements \union {None}

Wait(e, step) == request' = [request EXCEPT ![e] = step]

Answered(e) == Wait(e, None) /\ UNCHANGED received

(* A request arrives, and does its first step.                                    *)
Received(e, step) ==
  /\ request[e] = None /\ received < MaxRequests
  /\ Wait(e, step) /\ received' = received + 1

(* create and update look the settlement up in a transaction of its own.          *)
Submit(e, m, form) ==
  /\ Received(e, [step |-> "resolved", mapping |-> m, form |-> form,
                  place |-> Place(form.settlement)])
  /\ UNCHANGED <<rows, crossed, cache>>

NewRow(form, place) ==
  [label |-> form.label, status |-> StatusOf(form), settlement |-> form.settlement,
   community |-> place, district |-> form.district, confirmed |-> FALSE,
   snapshot |-> None]

(* A bug: a confirmed mapping that is edited stays confirmed.                      *)
EditedRowStaysConfirmed(row, form, place) ==
  [NewRow(form, place) EXCEPT
     !.confirmed = row.confirmed, !.snapshot = row.snapshot,
     !.status = IF row.status = "confirmed" THEN "confirmed" ELSE @]

(* An edit takes a confirmed mapping back, and leaves who confirmed it and the      *)
(* snapshot where they are.                                                     *)
EditedRow(row, form, place) ==
  [NewRow(form, place) EXCEPT !.confirmed = row.confirmed, !.snapshot = row.snapshot]

Create(e) ==
  /\ request[e] # None /\ request[e].step = "resolved" /\ request[e].mapping = None
  /\ LET form == request[e].form
     IN  \/ /\ Duplicate(form.label, form.settlement, Mappings) \/ ~ Storable(form.settlement)
            /\ UNCHANGED rows
         \/ /\ ~ Duplicate(form.label, form.settlement, Mappings) /\ Storable(form.settlement)
            /\ \E m \in Mappings :
                 /\ rows[m] = None
                 /\ rows' = [rows EXCEPT ![m] = NewRow(form, request[e].place)]
  /\ Answered(e)
  /\ UNCHANGED <<crossed, cache>>

(* The rows that a request has loaded and will write, and what it makes of them.    *)
Writing(seen, new) == [step |-> "writing", seen |-> seen, new |-> new]

WritingOne(m, seen, new) == Writing([l \in {m} |-> seen], [l \in {m} |-> new])

Update(e) ==
  /\ request[e] # None /\ request[e].step = "resolved" /\ request[e].mapping # None
  /\ LET m == request[e].mapping
         form == request[e].form
     IN  IF ~ IsRow(rows[m]) \/ Duplicate(form.label, form.settlement, Mappings \ {m})
         THEN Answered(e)
         ELSE /\ Wait(e, WritingOne(m, rows[m], EditedRow(rows[m], form, request[e].place)))
              /\ UNCHANGED received
  /\ UNCHANGED <<rows, crossed, cache>>

Unconfirm(e, m) ==
  /\ IsRow(rows[m])
  /\ Received(e, WritingOne(m, rows[m],
                            [rows[m] EXCEPT !.status = "unresolved", !.confirmed = FALSE]))
  /\ UNCHANGED <<rows, crossed, cache>>

SetDistrictForCommunity(e, c, district) ==
  LET changed == {m \in Mappings : /\ IsRow(rows[m]) /\ rows[m].community = c
                                   /\ rows[m].district # district}
  IN  /\ changed # {}
      /\ Received(e, Writing([m \in changed |-> rows[m]],
                             [m \in changed |-> [rows[m] EXCEPT !.district = district]]))
      /\ UNCHANGED <<rows, crossed, cache>>

(* Only a mapping with a settlement can be confirmed.                             *)
Confirm(e, m) ==
  /\ IsRow(rows[m]) /\ rows[m].settlement # None
  /\ Received(e, [step |-> "confirming", mapping |-> m, seen |-> rows[m]])
  /\ UNCHANGED <<rows, crossed, cache>>

ConfirmedRow(row, c) ==
  [row EXCEPT !.status = "confirmed", !.confirmed = TRUE, !.community = c,
              !.snapshot = [community |-> c, name |-> communities[c].name]]

(* The hierarchy is read anew; a settlement that is gone refuses the confirmation. *)
ReadHierarchy(e) ==
  /\ request[e] # None /\ request[e].step = "confirming"
  /\ LET m == request[e].mapping
         seen == request[e].seen
     IN  IF seen.settlement \notin settlements THEN Answered(e)
         ELSE /\ Wait(e, WritingOne(m, seen, ConfirmedRow(seen, seen.settlement[1])))
              /\ UNCHANGED received
  /\ UNCHANGED <<rows, crossed, cache>>

(* An UPDATE names the columns whose value differs from the one that was loaded.    *)
Merged(now, seen, new) ==
  [column \in DOMAIN now |-> IF new[column] = seen[column] THEN now[column] ELSE new[column]]

(* The commit fails as a whole when a row has been deleted or a settlement is gone. *)
Commit(e) ==
  /\ request[e] # None /\ request[e].step = "writing"
  /\ LET seen == request[e].seen
         new == request[e].new
         loaded == DOMAIN seen
         written(m) == Merged(rows[m], seen[m], new[m])
     IN  IF \A m \in loaded : IsRow(rows[m]) /\ Storable(written(m).settlement)
         THEN /\ rows' = [m \in Mappings |-> IF m \in loaded THEN written(m) ELSE rows[m]]
              /\ crossed' = crossed \union
                   {m \in loaded : rows[m] \notin {seen[m], [seen[m] EXCEPT !.settlement = None]}}
         ELSE UNCHANGED <<rows, crossed>>
  /\ Answered(e)
  /\ UNCHANGED cache

(* A request that is one transaction.                                           *)
Served ==
  /\ received < MaxRequests /\ received' = received + 1
  /\ UNCHANGED <<request, crossed, cache>>

Delete(m) ==
  /\ IsRow(rows[m])
  /\ rows' = [rows EXCEPT ![m] = Gone]
  /\ Served

(* An imported label never has a settlement; labels that are there are skipped.    *)
Import(imported) ==
  LET new == {l \in imported : ~ Duplicate(l, None, Mappings)}
  IN  /\ new # {}
      /\ \E id \in [new -> {m \in Mappings : rows[m] = None}] :
           /\ \A l1, l2 \in new : id[l1] = id[l2] => l1 = l2
           /\ \E district \in Districts \union {None} :
                rows' = [m \in Mappings |->
                           IF \E l \in new : id[l] = m
                           THEN NewRow([label |-> CHOOSE l \in new : id[l] = m,
                                        settlement |-> None, district |-> district], None)
                           ELSE rows[m]]
      /\ Served

Next ==
  \/ StartSync \/ SyncAreas \/ SyncRegions \/ SyncCommunities
  \/ \E e \in Editors :
       \/ \E m \in Mappings \union {None}, form \in Form : Submit(e, m, form)
       \/ Create(e) \/ Update(e) \/ ReadHierarchy(e) \/ Commit(e)
       \/ \E m \in Mappings : Unconfirm(e, m) \/ Confirm(e, m)
       \/ \E c \in DOMAIN communities, d \in Districts \union {None} :
            SetDistrictForCommunity(e, c, d)
  \/ \E m \in Mappings : Delete(m)
  \/ \E imported \in SUBSET Labels : Import(imported)

Spec == Init /\ [][Next]_vars

--------------------------------------------------------------------------------
(* A row of dictionary_settlement_mappings. *)
Mapping ==
  [label : Labels, status : {"unresolved", "suggested", "confirmed"},
   settlement : Settlements \union {None}, community : CommunityIds \union {None},
   district : Districts \union {None}, confirmed : BOOLEAN, snapshot : Snapshot \union {None}]

(* A request that has resolved its settlement, that has read the mapping it         *)
(* confirms, and that is about to write.                                        *)
Resolved ==
  [step : {"resolved"}, mapping : Mappings \union {None},
   form : [label : Labels, settlement : Settlements \union {None},
           district : Districts \union {None}],
   place : CommunityIds \union {None}]

Confirming == [step : {"confirming"}, mapping : Mappings, seen : Mapping]

Write(loaded) == [step : {"writing"}, seen : [loaded -> Mapping], new : [loaded -> Mapping]]

Holds(q) ==
  q \in Resolved \union Confirming \/ \E loaded \in SUBSET Mappings : q \in Write(loaded)

TypeOK ==
  /\ areas \subseteq AreaIds
  /\ DOMAIN regions \subseteq RegionIds
  /\ DOMAIN communities \subseteq CommunityIds
  /\ \A c \in DOMAIN communities : communities[c].name \in CommunityNames
  /\ settlements \subseteq Settlements
  /\ phase \in {"idle"} \union EntityType
  /\ runs \in [EntityType -> {"none", "succeeded", "partial", "failed"}]
  /\ fetched = {} \/ fetched \in CommunityFeeds
  /\ rows \in [Mappings -> Mapping \union {None, Gone}]
  /\ DOMAIN request = Editors
  /\ \A e \in Editors : request[e] # None => Holds(request[e])
  /\ syncs \in Nat /\ received \in Nat
  /\ crossed \subseteq Mappings

(* A synchronisation takes the settlement away from a mapping only when the        *)
(* service no longer lists the village: the rows of the others keep their           *)
(* identifiers ("so a dictionary_settlement_mappings.settlement_id FK survives a     *)
(* routine resync").                                                             *)
MappingsSurviveResync ==
  [][\A m \in Mappings :
       /\ phase' # phase
       /\ IsRow(rows[m]) /\ rows[m].settlement # None
       /\ rows'[m].settlement = None
       => \A c \in fetched' :
            c.id = rows[m].settlement[1] => rows[m].settlement[2] \notin c.villages]_vars

(* What a confirmed row says of itself. *)
Explained(row) ==
  row.status = "confirmed" =>
    /\ row.confirmed
    /\ row.snapshot # None
    /\ row.community = row.snapshot.community
    /\ row.settlement # None => row.settlement[1] = row.community

(* A confirmed mapping carries the snapshot of the community of its own            *)
(* settlement, and who confirmed it, whatever is edited, taken back and            *)
(* synchronised around it; the settlement itself may have been withdrawn since.      *)
(* Only a request that overwrote a change it had not read escapes: nothing locks a   *)
(* mapping between its look-up and its update.                                   *)
ConfirmedExplained ==
  \A m \in Mappings \ crossed : IsRow(rows[m]) => Explained(rows[m])

(* What makes it inductive: a request that is about to write has rows that explain  *)
(* themselves, and a settlement's community is stored beside it.                  *)
Intends(q) ==
  q.step = "writing" => \A m \in DOMAIN q.new \ crossed : Explained(q.new[m])

WritesExplained == \A e \in Editors : request[e] # None => Intends(request[e])

Placed == \A s \in settlements : s[1] \in DOMAIN communities

(* A run of the communities that reports success left the copy as the service        *)
(* listed it, whatever became of the areas and regions it rests on.                *)
SucceededMeansCached ==
  runs["community"] = "succeeded" =>
    \A c \in fetched :
      /\ c.id \in DOMAIN communities /\ communities[c.id] = CommunityRow(c)
      /\ {s \in settlements : s[1] = c.id} = {<<c.id, v>> : v \in c.villages}

(* When the command has ended, each entity type has its SyncRun ("A failure         *)
(* syncing one entity type is caught, logged, and recorded as a SyncRun").           *)
FailuresRecorded ==
  phase = "idle" /\ syncs > 0 => \A t \in EntityType : runs[t] # "none"

IInv == TypeOK /\ Placed /\ ConfirmedExplained /\ WritesExplained /\ SucceededMeansCached
================================================================================
