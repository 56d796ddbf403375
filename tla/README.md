# A TLA+ verification of Cadmus Dictionary Studio

Cadmus turns scanned dictionaries into structured lexicographic data. A PDF is
uploaded, inspected and split into page images by a worker; editors configure
the dictionary, select lexemes on its pages, promote them to entries, have the
fields of an entry extracted by OCR and a language model, review the entries,
link them to a reference lexicon, and release the dictionary. The program is a
Python modular monolith (`packages/backend/src/cadmus`), a FastAPI application
(`apps/api`), a Celery worker (`apps/worker`) and a React client (`apps/web`),
over PostgreSQL, MinIO and Redis.

This directory holds TLA+ modules translated from that code, TLC configurations
that check them on small instances, and proofs of their main properties for
every value of the constants. Paths below are relative to
`packages/backend/src/cadmus` unless they begin with `apps/` or `docs/`.

Contents: [the system](#1-the-system-and-its-hard-behaviours),
[how it is modelled](#2-how-the-code-is-modelled),
[the modules](#3-the-modules), [the runs](#4-the-runs),
[the proofs](#5-the-proofs), [where code and documentation
disagree](#6-where-the-code-and-its-documentation-disagree),
[what is not modelled](#7-what-is-not-modelled), [the plan](#8-plan).

## 1. The system and its hard behaviours

Every use case is a method of an application service. It opens one or several
*units of work*; each is a fresh SQLAlchemy session, hence a transaction at
READ COMMITTED. Apart from three token look-ups of the identity module no row
is locked, and an UPDATE names the row by its key and writes the columns whose
value changed since they were loaded. Requests run concurrently and the worker
runs beside them, so what a use case checked may be gone when it commits. The
database, the object store, the queue and the model providers share no
transaction.

| Component | State | Operations | What makes it hard | What makes it correct |
|---|---|---|---|---|
| Dictionary lifecycle (`sources`, `lexicography`) | status, metadata, languages, page ranges and the viewer's ordinals, source inspection, `STATUS_CHANGED` rows; counts of lexemes and entries | save metadata, save ranges, confirm, finish scanning, automatic progress sync, release | the decision and the write are in different units of work, the check of a lexeme in a third | each stage is earned by the one before it; a configured dictionary is ready |
| Source intake (`sources`, `apps/worker/.../tasks.py`, `backfill_pages.py`) | dictionary and file rows, PDF and page images in the object store, page rows, queue messages | upload, inspect, split, backfill, delete | three stores without a common transaction, crashes, redelivery, a deletion while a split runs | rows, objects and images agree at every moment; pages come in the end |
| Entry review (`lexicography`, `review`, `entry_extraction_tasks.py`) | lexeme, entry, fields with their origin, parent, link and value, review events | edit, delete, promote, extract, tag, link labels, edit fields, validate, complete, submit, approve, send back | an extraction is four units of work over minutes, and works on what it loaded; validation and status are two units of work | no entry under review without a schema, no row without its parent, an entry completed only while valid |
| Article schemas (`lexicography`, `article_schema_tasks.py`) | versions, status, activation | save, generate, activate, delete with the dictionary | a version number counted before a call of a minute; two activations at once | dense numbering, one usable active version, immutable history |
| Task registry (`processing`, `celery_app.py`, `processing_recording.py`) | registry rows, Celery messages | record, prune, retry, worker signals | a message before its row, twice or never; a prune that sees neither the row it makes room for nor those of others | a status tells what happened; the newest rows stay and the others are bounded |
| Reference lexicon (`reference_lexicon`, `import_vesum.py`, `lexicography/reference_link_application.py`) | lemmas, word forms, the lexicon's release, links of entries | import, search, link | one transaction of minutes that takes table locks; searches of two statements; parse errors late in the file | the lexicon is one release; a search sees one release; links are justified |
| Page scan (`lexicography`, `bulk_scan_tasks.py`) | boxes of lexemes on the pages, the events of lexemes | create, move, delete, scan a whole dictionary, replace the pages | overlap is checked against rows others are inserting; what to scan is decided an hour before it is scanned; the pages may be replaced meanwhile | boxes overlap for a reason; a scan fills what was empty and doubles nothing; a deletion is final and has its event |
| Identity (`identity`, `infrastructure/identity.py`, `apps/api/.../routes/auth.py`, `google_oauth.py`) | users, sessions, the three kinds of one-time links, Google identities | register, confirm, log in and out, reset, change address and password, sign in with Google | two transactions per sign-in with a password check between them; two clicks on one link; an address taken meanwhile; a mail that is sent and not committed | a session ends with the credentials that opened it; a link works once; an active address is proven; a pending account can be activated |
| Gazetteers (`geography`, `sync_geography.py`) | areas, regions, communities, settlements, `SyncRun` rows | synchronise, search | three levels that fail one by one and refer to each other | a run tells what it copied; references survive a run |
| Settlement mappings (`sources`, `settlement_io.py`) | a dictionary's labels and the settlements they mean | create, edit, confirm, withdraw, set a district, delete, import | edited over rows read earlier, beside a synchronisation that deletes settlements | a confirmed mapping carries the snapshot that was confirmed |
| Abbreviations (`sources`, `abbreviation_io.py`) | abbreviations and their variants | create, edit, delete, preview and import a file | uniqueness is a look-up; variants are deleted and inserted again | duplicates and mixed variants come from overlapping requests only |
| Schema migrations (`migrations`) | the schema, `alembic_version`, the rows the revisions touch | 36 upgrades and downgrades over two merged branches | branches in either order, rows of newer and older versions of the program | the schema is a function of the applied revisions and what the program needs; no upgrade loses a row |
| Access (`access`) | memberships | add, change, remove | the role is compared by identity | a user sees the dictionaries of their memberships |
| Rendering, notifications, providers, plumbing, routes, web client | none of their own, or that of the components above | | | see [section 7](#7-what-is-not-modelled) |

How they interact: routes call services; a service enqueues Celery tasks (and
`record_enqueued_task` notes them in the registry); tasks run services of the
same package in their own units of work and enqueue further tasks; Celery
signals update the registry; foreign keys with ON DELETE CASCADE or SET NULL
carry a deletion from the dictionary to its files, pages, lexemes, entries,
fields, links, schemas and registry rows.

`PROJECT.json` lists every component with its status and, under "hazards",
each place where such a behaviour bites and the properties that guard it.

## 2. How the code is modelled

**Units of work.** A use case that reads and writes in one unit of work is two
steps, *load* and *commit*: the load evaluates the guards of the code and
remembers what later statements use, the commit writes what SQLAlchemy writes.
Two units of work are at least two steps. Steps of others come between. Where a
flush takes the row lock before later reads (`SaveDictionaryMetadataService`),
those reads belong to the commit, and the comment of the action says so.
What is a statement with a snapshot of its own, and matters, is a step of its
own (`CountLexemes`/`CountEntries`, `SavePageRangesReplace`/`Commit`,
`Prune`/`CommitRow`, `RecordLoad`/`RecordCommit`, `SearchLemmas`/`SearchForms`,
`SavePageRanges`/`ReplacePageRanges`, `ReplaceVariants`/`CommitUpdate`).

**Row locks.** A DELETE waits for the transaction that deleted the same row
first, and then does not see what that one inserted. Where rows are replaced by a
DELETE and INSERTs (`PageRanges`, `Abbreviations`) the second save waits for the
first, and the rows of both stay. In `Identity` the three look-ups of a token
take the row's lock (`Locked`), and an uncommitted INSERT holds its address in the
unique index (`Reserved`).

**Lost updates.** A commit writes only the columns that differ from what was
loaded: `Written` and `Mixed` keep the stored value of an unchanged column. An
UPDATE of a row that has gone fails and rolls back; a DELETE of one does not.

**When a statement runs.** The session flushes what was added to it before an ORM
statement and at the commit, not before a DELETE of a Core table: the statements are
in the order in which they reach the database (`Prune` before the new row is there).
What another transaction deletes between a load and a commit is stopped by foreign
keys alone, so the commits carry the test and the loads do not excuse it
(`RecordCommit`, `TagCommit`, `CommitRow`).

**Order of audit rows.** `dictionary_events` and `lexeme_events` have no order but
`occurred_at`, which a request reads when it begins. Of two requests that overlap the
later row need not be the later commit, and nothing in the repository reads the rows in
order. `DictionaryLifecycle` and `PageScan` therefore keep *which* events were recorded
(`events`, `trail`) and not in which order.

**Identity of enum members.** All status columns but the ones of `users` are
`String`, so a loaded status is a `str` that equals the `StrEnum` member and is
not the member: `status is not EntryStatus.READY_TO_REVIEW` is true of every row
PostgreSQL returns, and false of the objects the in-memory repositories of the
unit tests hand out. The roles of fields are strings too. The constant `LoadsMembers` chooses between
the two and `IsMember` is the comparison. In `ProcessingRegistry` the strings only take
actions away (no retry, no "running"), so the runs and theorems with `TRUE` cover both.
In `EntryReview` they take the review path and the linking of labels away and open
another one, that a complete entry is submitted again: the theorems are proved for both
values, `undisturbed` runs with `FALSE`, as the program does, and `review_concurrent`
with `TRUE`, so that every action is taken. `EntryWorkflow` has the same constant: it is
the workflow that each way of loading leaves. In `SourceIntake` and
`DictionaryLifecycle`, where PostgreSQL is the only repository a worker uses, the tests
never hold.

**Failures.** A request that is refused, raises or loses its process leaves what
its commits left: `Abandon`, `UploadDies`, `TaskDies`, `WorkerDies`,
`ImportDies`, `RecordFails`, `RecordFailedRun`. In `SourceIntake` failures are counted by
`MaxFaults`, so that liveness can be stated for a run without any.

**Messages.** Celery acknowledges early (its default, which `celery_app.py`
leaves): a message is gone when its task starts. Redis hands an unacknowledged
message out again after the visibility timeout, so a delivery may come twice
(`Redeliver`, `Deliver`).

**Data.** Texts, page ranges, forms, schemas and morphology appear as what the
guards tell apart: present or not, the submitted one or the stored one, fitting
or not, standard or not. Identifiers are model values.

## 3. The modules

Each component has a specification `X`, the instances `MCX` for TLC, and, where
there are theorems, `XProofs`. Three modules compose components that share no state,
with a step of one leaving the others alone: `OneAtATime` (lifecycle, review and
intake with one request and no failure), `DictionaryPages` (`PageScan` and
`PageRanges`) and `ReferenceData` (`ReferenceLexicon`, `Gazetteers`,
`Abbreviations` and `Migrations`). Their instances are `MCUndisturbed`, `MCPageScan`
and `MCReferenceData`. There a behaviour runs one
component while the others wait in their initial states: the states TLC visits are the
union of the instances' states, and each question is asked of the component it
names. The theorems `SideBySide`, `PagesSideBySide` and `EachAsSpecified` say that a
behaviour of a composition is a behaviour of each of its components, in whatever
order they step; so what is proved of a component holds of the composition.

### DictionaryLifecycle, StatusMachine

The status of one dictionary. `Requests` are slots; a record of `request` is a
use case in flight and what it loaded. `SaveMetadataLoad/Commit`,
`SavePageRangesLoad/Replace/Commit`, `ConfirmLoad/Commit`, `FinishCheck`,
`FinishHasLexeme`, `MarkScannedLoad/Commit`, `CountLexemes`, `CountEntries`,
`AdvanceLoad/Commit` and `PublishLoad/Commit` are the units of work, or
statements, of the services of `sources/application.py` and of
`FinishScanningService` and `ScanProgressService` in
`lexicography/application.py`. `Ready`, `Demotes` and `NextProcessingStatus` are
the pure rules of `sources/domain.py`. Lexemes and entries appear by their
status, their use cases as single steps; `EntryReview` models them in full.
The PDF's inspection is one step, `InspectionCompletes`, and may be repeated: a message
can be delivered again, and a later failure replaces a verified result, since the test in
`mark_failed` that should prevent it never holds. The page count stays (`counted`).
`SourceIntake` models the inspection in full. `events` is the set of statuses that
`STATUS_CHANGED` rows name. `Metadata` keeps of the form what readiness asks for: the
title and the legal status as one presence, and that of the languages.

`StatusMachine` is the abstract promise: which status may follow which. It is
the promise the code keeps and not the straight line of the `DictionaryStatus`
docstring, since `confirm_configured` and `finish` accept any other status.

### PageRanges

The rows of `dictionary_page_ranges` and the pages that the viewer numbers after
them. `SavePageRanges` validates the submitted ranges, merges them
and deletes the rows it sees; `ReplacePageRanges` inserts and commits.
`NormalizePageRanges` goes through the ranges in ascending order as the loop of the
code does: `Merging` is what is left of the submission and what is merged after each
turn, and `First` the next range of the sorted list. `ExpandPageRanges`
(`Expanding`, `FirstRow`) and `ViewablePage` turn rows into ordinals in the same way. The reference the
merging and expanding are compared with is the set of pages that the submission
names (`Named`). `mixed` is a history variable: a save did not see all the rows
that were there when it committed.

### SourceIntake

Uploads of one PDF by one owner, each with its own dictionary and storage keys.
`CheckUpload`, `StoreUpload`, `RecheckUpload`, `CommitUpload` and
`EnqueueInspection` are `UploadDictionaryService.upload`;
`TakeInspection`, `Inspect`, `CompleteInspection` and `EnqueueSplit` the task
`inspect_dictionary_source`; `TakeSplit`, `Download`, `RenderPage`,
`RecordLoad`, `RecordCommit` and `RecordFailure` the task `split_dictionary_pages`;
`BackfillList` and `BackfillEnqueue` the command; `DeleteRow` and `CleanUp`
`DeleteDictionaryService`. `work` stands for the lexemes and entries that hang
on the pages and go with them. `RecordLoad` reads the dictionary and `RecordCommit`
replaces its page rows; between the two it may be deleted, and then only the foreign key
stops the commit. A task may still store images after `CleanUp` (section 6), which is why
`NothingAfterDelete` speaks of rows.

### EntryReview, EntryWorkflow

One lexeme, its entry and the entry's fields. A lexeme is open or complete, all that its
use cases tell apart. A field has its origin (`manual`, `model`, or `rule` for what the
tagging pass adds), its parent, which is the field itself for one at the top, whether it
is a geographic label and linked, and whether its value breaks the typed constraint of
its node (`unfit`); the schema has one required node, and a field fills it. Texts and
headwords are left out. `CreateField`, `UpdateField` and `DeleteField` are the editors'
services; `Remove` of a `Subtree` is the cascade along `parent_field_id`. An extraction is
four units of work: `ExtractLoad`/`ExtractCommit` add the model's fields,
`TagLoad`/`TagCommit` the children that `tag_abbreviations_and_geography` finds in
whatever fields there are by then, and `ResolveLoad`/`ResolveCommit` are
`resolve_geographic_labels`, which writes the link and a normalized text into fields of
any origin, manual ones too. `CompleteValidate/Commit`, `SubmitLoad/Validate/Commit`,
`ReviewLoad/Refuse/Accept`, `DecideCommit` and `RecordDecision` are the services of the
status. `EntryWorkflow` is what is left of the workflow that the docstrings of
`EntryStatus` and `ReviewService` describe: with members loaded it is that workflow, with
strings no reviewer decides and a complete entry can be submitted again.

### ArticleSchemas

The versions of one dictionary's schema. `SaveLoad` and `GenerateLoad` count the
rows, `AppendCommit` inserts under the unique `(dictionary_id, version)`,
`ActivateLoad/Commit` clear what they found active. `overlapped` is a history
variable: whether two activations were ever under way at once.

### ProcessingRegistry

The registry rows of one dictionary beside the queue. `Enqueue`/`Retry` send the
message, `Clock` reads `created_at`, `Prune` and `CommitRow` are the
unit of work that records and prunes: the DELETE of `prune_dictionary` runs before the new
row is flushed and does not count it, and a retry whose original it takes fails on the
foreign key and stays without a row. `Prerun`, `MarkRunning`, `Postrun` and
`MarkEnded` are the signal handlers. `did` is the history of what each run of a
job achieved.

### ReferenceLexicon

The lexicon and the links of one entry. A release is a sequence of rows;
`ReadRecord` parses one row, carries the current lemma along, and upserts a full
batch; `FinishImport` upserts the rest and commits. `BeginImport` locks the
lexicon's row, `QueueForIndexes` waits for PostgreSQL's exclusive locks that
`DROP INDEX` takes, `DropIndexes` gets them when no reader holds the tables.
The definition `StoredIsRelease` compares with (`LemmasUpTo`, `StandardUpTo`,
`FormsUpTo`) reads the release as a whole and knows nothing of batches: it is
the reference the incremental load is checked and proved against.

### PageScan

The boxes of the lexemes on all pages of one dictionary. `CreateLoad/Commit`,
`UpdateLoad/Commit` and `DeleteLoad/Commit` are the three services of
`lexicography/application.py`; `ListPages`, `ListProcessed`, `SkipPage`,
`RecognizeNothing`, `LoadPage`, `CommitPage`, `ScanEnds` and `ScanHalts` the task
`scan_dictionary_pages`; `ReplacePages` is the repository's `replace_pages`, whose
foreign keys take the lexemes along. `Overlaps` is the rule of 60 per cent
without the division, and `Mixed` what the stored box becomes when an UPDATE
writes the columns that differ from an older one. Four history variables say
why a state may look as it does: which boxes were `moved`, which were `raced` by
two edits, which overlaps are `excused` (confirmed, or inserted by transactions
that did not see each other), which pages of the last split were `touched`. `trail` has the types of the events
of each lexeme. The second box of a lexeme (`x2` to `height2`, the rest of a hyphenated
word), which no overlap is computed from, and its text are left out; its status is in
`EntryReview`.

### Identity

Accounts, links, sessions and Google identities. A record of `request` is a
handler of `routes/auth.py` or `routes/google_oauth.py` between what it read and
what it commits: `Register`, `Mail`, `CommitRegister`; `VerifyEmail`,
`CommitActivate`; `Login`, `IssueSession`; `ForgotPassword`, `ChangeEmail`,
`CommitLink`; `ResetPassword`, `CommitReset`; `ChangePassword`, `CommitChange`;
`ConfirmEmailChange`, `CommitConfirmEmail`; `GoogleCallback`, `CommitGoogle`.
A request of somebody signed in resolves the cookie in a transaction of its own
(`CurrentIdentity`). Links expire at any moment (`Expire`) and requests die at any
moment (`Abandon`). `raced`, in the row of a session, says that the credentials
were replaced between its password check and its insertion; it is the only escape
`SessionsVouched` leaves.

### Gazetteers

`StartSync`, `SyncAreas`, `SyncRegions` and `SyncCommunities` are
`SyncGeographyService.sync_all` and the repository's upserts: each level is one
transaction and answers with a list or fails. Records that name an area or region
that is not stored are skipped. `StaleSettlements`, `SetNull` and `Unplaceable`
are what `_replace_settlements` does with villages that left, the mappings that
referred to them, and villages that came. The other half are the mappings:
`Submit` is what an editor sends, `Create`, `Update`, `Unconfirm`, `Confirm`,
`ReadHierarchy`, `Commit`, `SetDistrictForCommunity`, `Delete` and `Import` are
the services of `sources/application.py` and `settlement_io.py`. `crossed` holds
the mappings that some request wrote over a change it had not read.

### Abbreviations

`Create`, `Update`, `Delete`, `PreviewImport` and `CommitImport`/`ImportRow` with
the transactions they end in. `Duplicates` is `find_abbreviation_duplicate`, which
sees committed rows and those of its own import; the preview's answer may be
stale when the import is committed. A row of `variants` names the edit that
stored it. `overlaid` holds the abbreviations last written by a request that another
one overlapped.

### DatabaseSchema, Revisions, MappedTables, Migrations

`Revisions` has the upgrade and the downgrade of each of the 36 scripts of
`migrations/versions` as sequences of statements; `DatabaseSchema` says what
PostgreSQL does with a statement. `Executed` is what a script has done after each of
its statements; `Run` is the end of it, and the database as it was if one was refused,
since `migrations/env.py` runs a revision in one transaction. A database is its tables
with required and optional columns, keys with their ON DELETE, unique sets, checks
and indexes, beside *facts*, "some row of this table has this value in this
column", for the values that some revision admits and an older one does not.
`MappedTables` is what the program takes the tables and the enumerations to be.
`Migrations` upgrades and downgrades in every order the graph of revisions
allows, with the program writing and deleting rows in between. `SchemaOf` is the
schema that upgrades alone give an empty database. `ScriptsAssumption` collects what
the 36 scripts are counted on for, a closed formula without constants or variables;
`ReferenceData` assumes it, so that TLC evaluates it at the start of both runs of the
module (section 5 says what it is for). Types of columns are left out.

## 4. The runs

| Run | Instance | What it shows |
|---|---|---|
| `lifecycle_concurrent` | 2 requests, 1 lexeme, the complete form | under every interleaving of two use cases and repeated inspections no stage is recorded without the one before it: a release follows processing, processing scanning, scanning a lexeme, and configuration or page ranges an inspection that counted the pages |
| `intake_faults` | 2 uploads, 2 workers, 2 pages, 1 message of a kind, 1 failure | rows, objects, page images and statuses agree whatever fails or is repeated |
| `review_concurrent` | 2 requests, 2 fields, one of which may be below the other; members loaded, so that reviewers decide and labels are linked | under every interleaving of two use cases, each unit of work of an extraction among them: schema before review, and every row has its parent |
| `undisturbed` | lifecycle, review: 1 request, 2 lexemes, all forms, 2 fields, strings loaded; intake: 2 uploads, 1 worker, 1 page, no failure; fair | one use case at a time refines `StatusMachine` and `EntryWorkflow`, a configured dictionary stays ready, an entry is completed only when valid; an accepted upload gets its pages or is deleted |
| `schemas` | 2 editors, 2 workers, 4 rows | numbering; one usable version stays active unless activations overlap |
| `registry` | 2 requests, 2 workers, 4 jobs, 1 row kept, 2 deliveries | statuses are true, retries follow failures, at most one row above the limit for each request that may overlap, the newest rows stay |
| `reference_data` | *lexicon*: 2 words, 4 releases, 2 importers, 1 reader, batches of 2, 3 imports; *gazetteers*: 2 areas, 2 regions, 2 communities, 2 villages, 2 synchronisations, 2 editors, 2 mappings, 3 requests; *abbreviations*: 3 identifiers, 2 editors, 3 requests, 5 forms, 2 files; *migrations*: all revisions, 2 facts at once of 15; fair imports and readers | the lexicon is its newest release, searches and links are consistent, imports end; a synchronisation that reports success copied everything and takes no mapping's settlement away while it is listed, confirmed mappings carry their snapshot; duplicate keys and mixed variants are explained; the schema is that of the applied revisions, upgrades lose nothing, the head serves the program |
| `page_scan` | 2 editors, 1 scan, 2 lexemes, 2 pages, 2 splits; *page ranges*: 3 pages, submissions of up to 3 ranges, 3 saves by 2 editors | the viewer shows each page of the newest submission once and in order; overlaps are explained, lexemes are on pages that exist, deletions are final and have their event, the scan fills the gaps |
| `identity` | 2 accounts, 2 addresses, 2 passwords, 2 links, 2 sessions, 1 Google account, 2 requests | sessions are vouched for, links work once, active addresses are proven, pending accounts have their link |
| `sync_over_release`, `review_refused`, `resync_recorded` | one property each, refuted | see [section 6](#6-where-the-code-and-its-documentation-disagree) |

**Bounds, and why they are enough.** The actors of a component touch each other
only through the rows, and a race needs the load of one use case and the commits
of others between it and its own commit. Two slots give every pair of use cases
in every order, and since a slot is used again, any sequence of use cases runs in
one slot while the other is held. Two uploads are the duplicate race; two
workers run the same or different tasks at once. Two pages let a split stop
between pages; one queued copy of a message already lets a second follow the
one being worked on. One failure is placed at every step of every behaviour: the
invariants say what a single failure may leave. Four schema rows allow two saves
and two generations to overlap. `Keep = 1` with four jobs lets two recordings
prune at once, over rows that are there and with rows left to be pruned by mistake, and
reaches the bound of `HistoryBounded`. Two fields are a parent and its child, and one
that is deleted beside one that stays. The releases of the lexicon
have what the parser and the batches can confuse: a lemma that comes twice,
standard and not; a form under a lemma of an earlier batch; a lemma that is only
a form in the next release; a blank row; and two files that must be refused,
early and late. In `page_scan` the boxes are a whole line and its end, so that
two edits that change different columns make a box that leaves the page; the
reading has a word, one that covers it, and one off the page. A second scan adds
nothing an editor does not: both insert beside rows they did not load.

In `identity` two accounts, two addresses and a request each are the races for one
address and for one link; a second password tells a session that was opened with
the old one. The feeds of the gazetteers differ in what a resync can meet: a
record without a title, records whose parent was skipped or failed, a renamed
community, a village that left and one that came; two
synchronisations are a first copy and a resync, and three requests on two mappings
let two overlap on a row a third created. Three saves of page ranges are a first
state and two that overlap over it; three pages and three ranges are enough to be
adjacent, overlapping, nested, equal and out of order. Three requests on
abbreviations are one that creates and two that overlap. The graph of revisions is
finite and is explored in full; one fact is enough to stop a revision, a second one
shows that rewriting the first leaves it alone.

Except for the two liveness properties, every property of the passing runs is also
proved without bounds: `HeadServesProgram` up to one comparison of two constants, and
`CompleteWhenValid`, which the run checks for one request at a time, for any number of
them as long as no field goes and no value stops fitting while a completion is decided
(section 5). Type correctness and two properties that only restate what the
inductive ones need (`ActiveIsReady`, `HistoryKept`) are proved and not run.

Symmetry is used where requests, workers, files, jobs or rows are
interchangeable and no liveness is checked. `CHECK_DEADLOCK FALSE` stands where
the system may stop: fresh identifiers run out by a bound, or a deleted
dictionary leaves nothing to do. `lifecycle_concurrent` checks deadlock.

**Fairness.** `Undisturbed`, the specification of `MCUndisturbed`: a request that was accepted runs to its
end and a worker process takes messages and runs tasks (weak fairness of
`UploadStep` once begun, `Take`, `TaskStep`). Nobody has to upload, delete or
run the backfill, and the queue loses nothing when there are no failures.
The specification of `MCReferenceData`: the import command and the requests being served
run on (`ImportStep`, `ReadStep`). Weak fairness is enough for `DropIndexes`
because from `QueueForIndexes` on no new reader gets the tables, as in
PostgreSQL's lock queue; the step is then enabled for good once the readers that
held them have answered.

Every property of a passing run is paired in `PROJECT.json` with a mutant of a
modelled definition, a plausible slip in that code, under which the same run
refutes it. The mutated forms stand before the originals, under names of their
own.

## 5. The proofs

All theorems are checked by TLAPS for every value of the constants under the
named assumptions of each module (`InputsAssumption`, `IntakeAssumption`,
`LoadsAssumption`, `SchemasAssumption`, `RegistryAssumption`,
`LexiconAssumption`, `ScanAssumption`, `IdentityAssumption`, `FeedsAndForms`,
`SubmittedRanges`), which TLC evaluates for the instances. They say what kind of value a
constant is: a feed is a list of records, a form has the columns of its row, a
submission is a sequence of pairs of integers, valid or not. `Scripts` is of another
kind: it restricts no constant, it is a statement about the scripts as they are written,
which TLC's evaluation settles.

*DictionaryLifecycleProofs.* `IInv` adds to the parts of `StagesEarned` what a
use case in flight carries across its own gap: a request about to mark a
dictionary scanned has seen a lexeme, one about to release has seen
"processed" recorded, one about to advance has seen "scanned" recorded, one about to
confirm or to store ranges has seen the page count (`InFlight`). That is inductive
because what it mentions never becomes false again: recorded statuses stay recorded,
born lexemes stay born, a page count stays, although the inspection that found it may
fail later (`VerifiedCounted`: only an inspection that counted verifies). The check a
request passed may be stale; that it was once passed is not. `NextIInv` goes through the
actions; most are `QuietStep`. For
`SerialRefinement` and `SerialReadiness` there is one slot, and `SerialInv` says
that what the only request has loaded is still what is stored (`Fresh`); under
it each commit is a step of `StatusMachine` or a stutter. The module extends
`OneAtATime`, whose instance of `EntryReviewProofs`, with `LoadsMembers` replaced by
`FALSE`, brings the theorems of the review with it: `UndisturbedWorkflow` and
`UndisturbedCompletion` carry the refinement of `EntryWorkflow` and the completeness of
entries over to the composition that TLC runs, the second for any number of requests.

*SourceIntakeProofs.* An upload past the object store owns its PDF (`UploadOwns`)
and a task between rendering and recording has the images of all pages before
the next one (`TaskOwns`), unless the dictionary was deleted. The row goes
before the objects, so a row proves its objects. That a dictionary existed when
`RecordLoad` read it is *not* an invariant of the task that goes on to `RecordCommit`;
`DeletedStaysEmpty` therefore rests on the foreign key that the commit meets.

*EntryReviewProofs.* `ValidatedSchema`: a request that has validated an entry, or
extracted into it, and is about to move it knows the entry has a schema. It
stays true because no use case takes a schema away from an entry, although
fields, status and everything else it validated may change. `ParentsExist` needs that
what the cascade takes is closed under children (`SubtreeClosed`, for trees of any
depth), and that every insert finds its parents at its commit (`InsertKeeps`), whatever
had been there when they were found. `CompletionSerialized` says exactly what may come
between validation and completion. `DecidedValid`, that a request about to complete an
entry would still find it valid, is kept by every step, of any number of requests, that
deletes no field and makes no value unfit (`FieldsRest`): new fields, schemas, statuses
and reviews do not matter. Without the condition TLC finds an entry completed that has
lost its only field. For `SerialWorkflow` there is one request and either value of
`LoadsMembers`; `SerialInv` says that what it loaded is still stored (`Current`) and that
a lexeme with an entry is complete, hence neither edited nor deleted (`Promoted`).

*ArticleSchemasProofs.* `CountedInRange`: a number counted earlier is at most one
more than the number of rows now. With the unique key an insert then either
takes exactly the next number or fails, hence `VersionsDense` for any number of
editors and workers. `FoundAll`: without overlap an activation has found
whatever is active.

*ProcessingRegistryProofs.* `WorkersTold`: a worker on its way to mark a job has
the ending in `did`; `RetriesFailed`: a request that retries a job has seen it
fail. `NewestKept` needs arithmetic on sets of rows, collected in `Ordered`: `Apart` (each
request records a job of its own), `VictimsOld` (what a request will prune was
outnumbered when it looked, by rows that were there without its own), `PrunedOld`, and
`StaysOutnumbered`, that more rows never make a row newer. `HistoryBounded` is about all
recordings under way together: `Limited` says that whichever of those that have pruned
commit, the rows there will then be (`After`) are within
`Keep + Cardinality(Requests)`. A prune spares at most `Keep` of the rows it sees, since
clock readings differ (`Ranked`, `SparesKeep`); what it does not see is its own row and
one for each other request; and a commit turns what would be there into what is.

*ReferenceDataProofs.* The lexicon: `Staged`: what an import has upserted together with its
batch is what the rows read so far say; `Parsed`: the parser's current lemma is
that of the last head. `OneMoreRow` and the lemmas before it say what one more
row adds to the reading of the whole release. `Alone` (one import at a time past
the lexicon's lock) and `Apart` (no reader between its statements while an
import loads) give `SearchesOneRelease`; `ActiveKnown`, `Searching`, `Answered`
and `Linking` carry what readers saw over later imports.
The gazetteers: `Placed` (a settlement's community is stored beside it) and
`WritesExplained` (what a request is about to write explains itself) make
`ConfirmedExplained` inductive. A commit writes the columns that differ from the row the
request had read: over that row the result is the one it intended, over any other it is
marked `crossed`, and a synchronisation in between only sets a settlement to NULL, of
which the snapshot does not speak. `MappingsSurvive` is an action property: of all
steps, only `_replace_settlements` changes mappings without a request, and only for
villages that left the list.
The abbreviations: a request that has looked for duplicates is right until somebody
else commits. `AddsNewKeys` and `KnowsItsRow` say so under the condition that the
number of commits is still the one the request began with; `Claims` and `Apart` say that
new identifiers belong to one request, and that what it will insert carries its stamp.
When the condition fails, the commit marks its rows `overlaid`, which is the escape
`DuplicatesExplained` and `VariantsOfLastEdit` leave.

The migrations: 36 scripts are data, and one finite question about them is left to TLC;
that it decides the matter for every set of rows, every order of the commands and every
interleaving with the program is proved. The question is `ScriptsAssumption`: over the
39 sets of revisions the commands can reach, each script takes the bare schema of its
stage to the schema of the next one; an upgrade drops no table and no column, and what it
asks of rows (a CHECK, a NOT NULL) the tables it starts from ask already, or no row there
can have the column; what a downgrade asks of rows the older tables ask. The proof
goes from statements to scripts to steps. `RowsApart`: what a
statement needs of the tables and makes of them does not depend on the rows.
`StatementKeepsRowsFit`: no statement, of the twelve kinds, leaves a row that its table
cannot hold (`Fit`). `ScriptTurns` is the loop invariant of a script: until a row refuses
a statement, the tables are those of the run over the bare schema; by `HarmlessToRows`
no row refuses one of an upgrade, and by `RefusedForOlder` a row that refuses one of a
downgrade is a row the older tables could not hold. So `IInv` (a reachable stage, its
schema, rows that fit) is kept by every command and every write (`RowsFit`), and
`SchemaFollows` and `NoRowInTheWay` follow. `Fit` is why the invariant says more than
`SchemaFollowsRevisions`: a new CHECK that the old one implies is harmless only if the
old one holds of what is stored. A change of a script that breaks one of these facts
stops TLC at the assumption; the mutants of the two properties are therefore in the
commands, which without the transaction would leave half a script behind.
`HeadServes`: at the head the tables serve the program in every state if `SchemaOf` of all
the revisions does. That hypothesis compares what the scripts write with what the
program writes, both constants; the run meets the head and finds that it holds.

*PageScanProofs.* `Evolves` is what every step grants to the use cases in
flight: no lexeme is born twice, one that is neither gone nor moved has the box
it had, and the splits go on. From it `EditorKnows` and `WorkerKnows` survive:
the boxes a request or a scan is about to insert are `Clear` of the lexemes it
loaded, except those that left or moved, and the pages a scan has passed are
`Filled`. `OverlapsSym` is the geometry they need, proved from the arithmetic of
intervals. `Claims` says that fresh identifiers are not shared. `DeletionsFinal` has two
parts: `DeletedHasEvent` relates the row of a lexeme to its events in every state, and
`GoneStaysGone`, a conjunct of `Evolves`, says of every step that it neither brings a
lexeme back nor records an edit of one that is gone.
The page ranges: the state invariant is short (`RangesInv`: what a save is about to
store, and what is stored unless it is `mixed`, are the rows of one valid
submission), and the work is in what the two loops compute for every submission.
`MergingTurns` and `ExpandingTurns` show that the recursive functions exist and
satisfy their equations, turn by turn; `KeptByTurns` is induction over the turns, in
the form that a least counterexample does not exist. `MergedSoFar` is the loop
invariant of the merge: the merged ranges are disjoint and ascending (`Spread`), none
begins after a range that is left, and they cover the pages of the ranges already
taken; a turn keeps it (`OneMerged`, `MergeTurn`) because the next range is the least.
`ExpandedSoFar` is that of the numbering. Hence `NormalizedRanges` and
`ExpandedPages`, and `ViewerShowsPages` for any number of ranges, editors and saves.

*IdentityProofs.* `Evolves(R)` is what every step grants to the requests outside
`R`: accounts are not taken back, links are used once, locked links and reserved
addresses are left alone. `OthersKept` shows once that what a request has read is
then still sound, so that each action shows only `Evolves` and what it does itself.
`Apart` says that two requests never hold one link or insert one address.
`Covered` is the strengthening for sessions: a request that is about to replace an
account's credentials has every live session of the account on its list, except
the one it keeps and those that were stored under its hands (`raced`). With it `SessionsVouched`,
`AddressesProven` and `PendingHasLink` are inductive (`Invariance`), for any number
of accounts, links and requests.

Model-checked only: the liveness properties `ImportEnds` and `EventuallySplit`, since
liveness under fairness is outside what TLAPS proves here; and the two facts about the
fixed text of the scripts, `ScriptsAssumption` and the hypothesis of `HeadServes`: TLC
evaluates them outright, and a proof would repeat the same cases one by one. The
proofs stop at the properties in the three refuted runs, which are false.

## 6. Where the code and its documentation disagree

Three disagreements are kept as runs whose property TLC refutes.

- `sync_over_release`: `advance()` decides on the status it loaded and writes its target
  over a release, or a confirmation, committed meanwhile (`sources/application.py:934`);
  its docstring says it "cannot undo ``configured`` or ``published``" (`:899-900`).
  `ImplementsStatusMachine` holds for one request at a time only.
- `review_refused`: on PostgreSQL every approval and every return is refused,
  because a loaded status is never the enum member (`review/application.py:118`
  against `review/domain.py:71`).
- `resync_recorded`: a community that is stored and gains a village ends the
  synchronisation with an `IntegrityError` and without a `SyncRun`
  (`infrastructure/geography.py:217` adds it under the identifier that
  `geography/domain.py:251` drew for this parse); `geography/application.py:5`
  says every failure of an entity type is caught and recorded.

Others were met while modelling and are stated here without a run of their own.

- `save()` computes the readiness blockers while `dictionary.languages` still holds the
  old list (`sources/application.py:459` against `:481`), so an editor who clears the
  languages keeps a configured dictionary; `sources/domain.py:596-597` says it is
  demoted.
- A confirmation checks the page ranges and writes "configured" after a save has removed
  them, or the save loads a dictionary that is not configured yet and demotes nothing:
  a configured dictionary without ranges (`sources/application.py:818`).
- Two uploads of one PDF that overlap are both accepted
  (`sources/application.py:181`, no unique constraint on the checksum; the
  repository's README, lines 300-302).
- Finishing the scanning stage is accepted from draft, processed and published
  (`sources/application.py:874` against `:839`).
- A release checks only the stored "processed", which later edits make stale
  (`sources/application.py:962`).
- Two overlapping saves of page ranges may leave the rows of both
  (`infrastructure/sources.py:521`), and two overlapping edits may leave a configured dictionary unready
  (`sources/domain.py:596`).
- A second inspection, or split, that fails turns "verified" into "failed" and
  "completed" into "failed" (`sources/domain.py:423-424`, `:435-436`): the
  identity test meets a `str`.
- The backfill is called safe to re-run (`backfill_pages.py:3`); a second split
  replaces the page rows and by cascade deletes the lexemes made on them.
- Page images uploaded after the deletion's `delete_prefix` stay in the store
  (`apps/worker/src/cadmus_worker/tasks.py:216`).
- An inspection whose message was lost is never asked for again
  (`sources/application.py:215`; the repository's README, lines 291-292).
- On PostgreSQL a complete entry can be submitted again
  (`lexicography/application.py:1191-1196`), where the docstring has it rejected; the
  refinement of `EntryWorkflow` has the step `Submit` from "complete" for that reason.
- On PostgreSQL no geographic label is ever linked: the test of the role skips every
  field (`lexicography/application.py:1068-1114`).
- An extraction sets ready-to-review without validating and, having loaded a draft
  minutes ago, over whatever status was decided meanwhile
  (`entry_extraction_tasks.py:331`).
- Two overlapping use cases can complete an entry that is no longer valid, a field having
  been deleted after the validation (`lexicography/application.py:1154`), or edit a lexeme
  that is complete.
- Overlapping activations leave two active schemas
  (`lexicography/application.py:730`).
- A generation task that loses the race for a version number raises
  `IntegrityError`, where its docstring promises never to crash.
- The prune leaves `Keep` rows and the new one comes after, so each recording leaves
  `Keep + 1` and overlapping ones more (`processing/application.py:73`), where
  `processing/ports.py:36` has all but the `keep` newest deleted; it takes queued and
  running rows, where `processing/application.py:20-21` speaks of completed runs; a retry
  whose original it takes runs without a row; a row whose signals came first stays queued; on
  PostgreSQL a retry is always refused and no job is shown running
  (`processing/domain.py:66`, `processing/application.py:142`).
- `list()` answers 404 for all links of an entry once one linked lemma is
  inactive (`lexicography/reference_link_application.py:84`;
  `docs/decisions/0009-vesum-reference-lexicon.md:82-83` has mappings survive).
- The page scan says it never raises (`bulk_scan_tasks.py:114`), but a page
  replaced under it fails its commit.
- Two selections of one word that overlap in time are both inserted, so is a
  selection beside the scan, without the confirmation
  `lexicography/application.py:178` asks for; moving a box onto another asks for
  none either. Two edits of one box may leave a box that neither submitted and
  that leaves its page. `PageScan` has these as `excused`, `moved` and `raced`.

- Lexemes are drawn under the viewer's ordinal (`lexicography/application.py:99`).
  Page images are cached by the browser for a day
  (`apps/api/src/cadmus_api/routes/pages.py:136`) and ordinals move with the page
  ranges, so after a save a lexeme may be stored on another page than the one the
  editor sees.
- A choice of a settlement that is gone is said to fall back to what the caller
  sent (`sources/application.py:1580-1584`); the identifier is stored nevertheless,
  and the foreign key refuses it.
- Editing a confirmed mapping sets its status back and leaves who confirmed it and
  the snapshot (`:1469`), which a withdrawal clears (`:1525`).
- The exports of settlement mappings and of abbreviations read `.value` of a loaded
  status or category, which is a `str` (`sources/settlement_io.py:326`, `:358`;
  `sources/abbreviation_io.py:362`, `:383`).
- `docs/decisions/0007-*.md:15` has the synchronisation upsert with `INSERT ... ON
  CONFLICT`; the code selects and then adds (`infrastructure/geography.py:151`).
- Neither labels nor abbreviation keys have a unique constraint: overlapping
  requests, and a preview followed by an edit, are refused by look-ups only, and two
  edits of one abbreviation that overlap leave the variants of both
  (`infrastructure/sources.py:649`).
- A sign-in whose password was checked before a reset stores its session after it
  (`identity/application.py:149`); it lives on with the old credentials. `Identity`
  has it as `raced`.
- A pending account whose link has expired keeps its address for ever: nothing sends
  another link, and registration refuses the address
  (`identity/application.py:252`).

## 7. What is not modelled

- *Access*: the modules take an authorised caller for granted, and the table of
  permissions is a table of constants. That a loaded role is a `str`
  (`access/application.py:85`) is the hazard `LoadsMembers` describes.
- *OCR suggestions*: a task whose result only the queue's result store keeps.
- *Rendering of entries, the content of schemas, morphology, the matching of
  extracted values to nodes*: pure data that no modelled property depends on.
- *Exports, geometries of communities, the display name of a profile and the list of
  one's sessions*: reads, or columns nothing else depends on. *Formats and lengths of
  inputs*: inputs appear as valid or not, as far as a guard tells.
- *Language-model, OCR and e-mail providers*: external; a model sees an answer
  or a failure.
- *Routes*: they translate requests and exceptions and check permissions; the
  models assume an authorised caller. *Web client*: whatever it sends is a
  request the modules already allow. *Operations scripts* copy a database for
  development.
- Within the modelled components: `EntryReview` has one lexeme and one entry,
  `DictionaryLifecycle` takes their use cases as single steps, and no module
  models the clock beyond the order of readings.

## 8. Plan

Done in this order, the most important behaviour first: `DictionaryLifecycle`
with `StatusMachine`, `SourceIntake`, `EntryReview` with `EntryWorkflow`,
`ArticleSchemas`, `ProcessingRegistry`, `ReferenceLexicon`, `PageScan`, `Identity`,
`Gazetteers`, `Abbreviations`, `PageRanges` and `Migrations`, each with its theorems,
and the compositions.

Next:

1. Pure algorithms against reference definitions over bounded inputs: the tree of an
   entry's fields against its schema, the matching of extracted values to nodes,
   joining hyphenated lines.
2. Memberships: adding, changing and removing them beside the requests they
   authorise.
