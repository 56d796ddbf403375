------------------------------ MODULE ReferenceData ------------------------------
(***************************************************************************)
(* What dictionaries refer to: the lexicon, the gazetteers with the mappings     *)
(* to them, and the abbreviations.  The three keep tables of their own, and a    *)
(* step of one leaves the others alone.  Beside them the definitions of all the   *)
(* tables, which the migrations change and no step of the three does.            *)
(***************************************************************************)
EXTENDS ReferenceLexicon

CONSTANTS
  AreaFeeds, RegionFeeds, CommunityFeeds, Mappings, Labels, Districts, Editors,
  MaxSyncs, MaxRequests, None, Gone,     \* of the gazetteers
  MaxIds, Forms, Files, Languages, MaxEdits, \* of the abbreviations
  Facts, MaxFacts                            \* of the tables

VARIABLES
  areas, regions, communities, settlements, phase, runs, fetched, syncs, rows, request,
  received, crossed,
  abbreviations, variants, browser, requests, commits, overlaid,
  applied, db

Gazetteer == INSTANCE Gazetteers

Glossary == INSTANCE Abbreviations WITH MaxRequests <- MaxEdits

Schema == INSTANCE Migrations

ASSUME FeedsAndForms == Gazetteer!FeedAssumption /\ Glossary!FormAssumption

(* Of the scripts as they are written, whatever the constants.                   *)
ASSUME Scripts == Schema!ScriptsAssumption

gazetteer == <<areas, regions, communities, settlements, phase, runs, fetched, syncs, rows,
               request, received, crossed>>

glossary == <<abbreviations, variants, browser, requests, commits, overlaid>>

schema == <<applied, db>>

LexiconStep == Next /\ UNCHANGED <<gazetteer, glossary, schema>>

GazetteerStep == Gazetteer!Next /\ UNCHANGED <<vars, glossary, schema>>

GlossaryStep == Glossary!Next /\ UNCHANGED <<vars, gazetteer, schema>>

SchemaStep == Schema!Next /\ UNCHANGED <<vars, gazetteer, glossary>>

ReferencesInit == Init /\ Gazetteer!Init /\ Glossary!Init /\ Schema!Init

ReferencesNext == LexiconStep \/ GazetteerStep \/ GlossaryStep \/ SchemaStep

References == ReferencesInit /\ [][ReferencesNext]_<<vars, gazetteer, glossary, schema>>

(* A synchronisation leaves the mappings of the villages that are still listed  *)
(* alone.                                                                  *)
MappingsSurviveResync == Gazetteer!MappingsSurviveResync

(* A confirmed mapping carries the snapshot of its settlement's community.      *)
ConfirmedExplained == Gazetteer!ConfirmedExplained

(* A run that reports success left the copy as the service listed it.           *)
SucceededMeansCached == Gazetteer!SucceededMeansCached

(* Each entity type has its SyncRun when the command has ended.                 *)
FailuresRecorded == Gazetteer!FailuresRecorded

(* Two abbreviations with one key are the work of requests that overlapped.       *)
DuplicatesExplained == Glossary!DuplicatesExplained

(* The stored spellings are those of the last edit, unless edits overlapped.      *)
VariantsOfLastEdit == Glossary!VariantsOfLastEdit

(* The schema depends on the applied revisions alone.                          *)
SchemaFollowsRevisions == Schema!SchemaFollowsRevisions

(* No upgrade is refused by the rows there are, or loses one of them.           *)
MigrationsRun == Schema!MigrationsRun

(* The head has what the program's tables and enumerations need.               *)
HeadServesProgram == Schema!HeadServesProgram

================================================================================
