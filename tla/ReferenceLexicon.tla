---------------------------- MODULE ReferenceLexicon ----------------------------
(***************************************************************************)
(* The reference lexicon (VESUM) and the links of one dictionary entry to   *)
(* its lemmas: VesumImportService with its parser and its bulk load,        *)
(* ReferenceLexiconQueryService, and ManageEntryReferenceLinksService.      *)
(*                                                                          *)
(* An import is one transaction that lasts for minutes.  Nobody sees what   *)
(* it wrote before it commits, but it holds the lexicon's row, and from the *)
(* drop of the look-up indexes on both tables, which every reader needs.    *)
(* A word stands for the texts and tags that make up a lemma's identity.    *)
(***************************************************************************)
EXTENDS Naturals, Sequences

CONSTANTS
  Words,       \* what a row of a release can name
  Releases,    \* the release files an operator can import
  Importers,   \* runs of the import command
  Readers,     \* API requests and extraction tasks being served
  BatchSize,   \* batch_size
  MaxImports   \* bound: imports that commit

(* A row of a release: a lemma ("head"), a word form of the lemma above it, *)
(* a blank or comment row, or one that has no morphology.                   *)
Line == [kind : {"head", "form", "blank", "malformed"}, word : Words,
         standard : BOOLEAN]

ASSUME LexiconAssumption ==
  /\ \A f \in Releases : f \in Seq(Line)
  /\ BatchSize \in Nat \ {0}
  /\ MaxImports \in Nat

VARIABLES
  stored,    \* the committed rows of reference_lemmas and reference_word_forms
  imported,  \* the releases reference_lexicons has named, the newest last
  entry,     \* the dictionary entry exists
  links,     \* its entry_reference_links: lemma and relation
  importer,  \* the transaction of each run of the command
  reader     \* what each request has read and goes on to do

vars == <<stored, imported, entry, links, importer, reader>>

Relation == {"standard_equivalent", "related"}

(* A row that a release no longer has stays in the table, inactive: "known" *)
(* are the lemma rows there are, "active" and "standard" those so flagged,  *)
(* "forms" the active rows of word forms.                                   *)
WordForm == [lemma : Words, word : Words, standard : BOOLEAN]

Content == [known : SUBSET Words, active : SUBSET Words, standard : SUBSET Words,
            forms : SUBSET WordForm]

Empty == [known |-> {}, active |-> {}, standard |-> {}, forms |-> {}]

(* A VesumRecord: the lemma and whether its row is standard, and the form.  *)
Record == [lemma : Words, lemmaStandard : BOOLEAN, word : Words, standard : BOOLEAN]

(* The rows read so far and those of them not upserted yet; "current" is    *)
(* the lemma the parser is at, if any.                                      *)
Import == [at : {"idle", "begun", "queued", "loading"}, release : Seq(Line),
           next : Nat \ {0}, current : SUBSET [word : Words, standard : BOOLEAN],
           batch : Seq(Record), staged : Content]

NoImport == [at |-> "idle", release |-> <<>>, next |-> 1, current |-> {},
             batch |-> <<>>, staged |-> Empty]

(* Asked for: standard lemmas only, or a link to a lemma.  Found so far.    *)
Request == [at : {"idle", "search", "forms", "answered", "link"}, only : BOOLEAN,
            found : SUBSET Words, lemma : SUBSET Words, relation : Relation]

NoRequest == [at |-> "idle", only |-> FALSE, found |-> {}, lemma |-> {},
              relation |-> "related"]

Init ==
  /\ stored = Empty
  /\ imported = <<>>
  /\ entry = TRUE
  /\ links = {}
  /\ importer = [i \in Importers |-> NoImport]
  /\ reader = [r \in Readers |-> NoRequest]

Elements(s) == {s[n] : n \in DOMAIN s}

--------------------------------------------------------------------------------
(* VesumImportService.import_visual_lines *)

(* deactivate_content *)
Deactivated(c) == [known |-> c.known, active |-> {}, standard |-> {}, forms |-> {}]

UpsertedOverwriting(c, batch) ==
  LET rows == Elements(batch) IN
  [known |-> c.known \union {b.lemma : b \in rows},
   active |-> c.active \union {b.lemma : b \in rows},
   standard |-> (c.standard \ {b.lemma : b \in rows})
                  \union {b.lemma : b \in {x \in rows : x.lemmaStandard}},
   forms |-> c.forms \union
     {[lemma |-> b.lemma, word |-> b.word, standard |-> b.standard] : b \in rows}]

(* upsert_records: a lemma is standard when any row of it was, in this batch *)
(* or in an earlier one.                                                     *)
Upserted(c, batch) ==
  LET rows == Elements(batch) IN
  [known |-> c.known \union {b.lemma : b \in rows},
   active |-> c.active \union {b.lemma : b \in rows},
   standard |-> c.standard \union {b.lemma : b \in {x \in rows : x.lemmaStandard}},
   forms |-> c.forms \union
     {[lemma |-> b.lemma, word |-> b.word, standard |-> b.standard] : b \in rows}]

(* An upsert of the lexicon waits for the row of another import.            *)
BeginImport(i, f) ==
  /\ \A j \in Importers : importer[j].at = "idle"
  /\ Len(imported) < MaxImports
  /\ importer' = [importer EXCEPT ![i] =
       [at |-> "begun", release |-> f, next |-> 1, current |-> {}, batch |-> <<>>,
        staged |-> Deactivated(stored)]]
  /\ UNCHANGED <<stored, imported, entry, links, reader>>

AtImporter(i, place) == importer' = [importer EXCEPT ![i] = [@ EXCEPT !.at = place]]

(* begin_bulk_load: DROP INDEX queues for the exclusive lock on the tables, *)
(* ahead of every reader that comes later ...                               *)
QueueForIndexes(i) ==
  /\ importer[i].at = "begun"
  /\ AtImporter(i, "queued")
  /\ UNCHANGED <<stored, imported, entry, links, reader>>

DropIndexesAtOnce(i) ==
  /\ importer[i].at = "queued"
  /\ AtImporter(i, "loading")
  /\ UNCHANGED <<stored, imported, entry, links, reader>>

(* ... and gets it when those that were reading have ended.                 *)
DropIndexes(i) ==
  /\ importer[i].at = "queued"
  /\ \A r \in Readers : reader[r].at # "forms"
  /\ AtImporter(i, "loading")
  /\ UNCHANGED <<stored, imported, entry, links, reader>>

Reading(i) == importer[i].at = "loading" /\ importer[i].next <= Len(importer[i].release)

NextLine(i) == importer[i].release[importer[i].next]

(* VesumVisualParser.parse_line raises: the transaction is rolled back.     *)
Unreadable(i) ==
  \/ NextLine(i).kind = "malformed"
  \/ NextLine(i).kind = "form" /\ importer[i].current = {}

RefuseLine(i) ==
  /\ Reading(i)
  /\ Unreadable(i)
  /\ importer' = [importer EXCEPT ![i] = NoImport]
  /\ UNCHANGED <<stored, imported, entry, links, reader>>

SkipBlank(i) ==
  /\ Reading(i)
  /\ NextLine(i).kind = "blank"
  /\ importer' = [importer EXCEPT ![i] = [importer[i] EXCEPT !.next = importer[i].next + 1]]
  /\ UNCHANGED <<stored, imported, entry, links, reader>>

(* The lemma a row belongs to: its own, or the one of the last head.        *)
Current(i) ==
  IF NextLine(i).kind = "head"
    THEN {[word |-> NextLine(i).word, standard |-> NextLine(i).standard]}
    ELSE importer[i].current

ReadRecord(i) ==
  /\ Reading(i)
  /\ NextLine(i).kind \in {"head", "form"}
  /\ \E c \in Current(i) :
       LET q == importer[i]
           line == NextLine(i)
           batch == Append(q.batch, [lemma |-> c.word, lemmaStandard |-> c.standard,
                                     word |-> line.word, standard |-> line.standard])
           full == Len(batch) >= BatchSize
       IN importer' = [importer EXCEPT ![i] =
            [at |-> "loading", release |-> q.release, next |-> q.next + 1, current |-> {c},
             batch |-> IF full THEN <<>> ELSE batch,
             staged |-> IF full THEN Upserted(q.staged, batch) ELSE q.staged]]
  /\ UNCHANGED <<stored, imported, entry, links, reader>>

(* The rest of the rows, finish_bulk_load, and the commit.                  *)
FinishImport(i) ==
  /\ importer[i].at = "loading"
  /\ importer[i].next > Len(importer[i].release)
  /\ stored' = Upserted(importer[i].staged, importer[i].batch)
  /\ imported' = Append(imported, importer[i].release)
  /\ importer' = [importer EXCEPT ![i] = NoImport]
  /\ UNCHANGED <<entry, links, reader>>

(* The command is stopped or the database fails: nothing of it stays.       *)
ImportDies(i) ==
  /\ importer[i].at # "idle"
  /\ importer' = [importer EXCEPT ![i] = NoImport]
  /\ UNCHANGED <<stored, imported, entry, links, reader>>

--------------------------------------------------------------------------------
(* ReferenceLexiconQueryService.search *)

Locked == \E i \in Importers : importer[i].at \in {"queued", "loading"}

AtReader(r, place) == reader' = [reader EXCEPT ![r] = [@ EXCEPT !.at = place]]

Leave(r) == reader' = [reader EXCEPT ![r] = NoRequest]

(* get_lexicon, in a unit of work of its own.                               *)
SearchBegin(r) ==
  /\ reader[r].at = "idle"
  /\ imported # <<>>
  /\ \E only \in BOOLEAN :
       reader' = [reader EXCEPT ![r] =
         [at |-> "search", only |-> only, found |-> {}, lemma |-> {}, relation |-> "related"]]
  /\ UNCHANGED <<stored, imported, entry, links, importer>>

(* What the two statements of search_lemmas can return.                     *)
LemmaHits(only) == IF only THEN stored.active \intersect stored.standard ELSE stored.active

FormHits(only) ==
  {f.lemma : f \in {g \in stored.forms : g.lemma \in LemmaHits(only) /\ (only => g.standard)}}

(* The lock on the lemmas is held until the unit of work ends.              *)
SearchLemmas(r) ==
  /\ reader[r].at = "search"
  /\ ~Locked
  /\ \E hits \in SUBSET LemmaHits(reader[r].only), place \in {"forms", "answered"} :
       reader' = [reader EXCEPT ![r] =
         [at |-> place, only |-> @.only, found |-> hits, lemma |-> {}, relation |-> "related"]]
  /\ UNCHANGED <<stored, imported, entry, links, importer>>

SearchFormsQueued(r) ==
  /\ reader[r].at = "forms"
  /\ ~Locked
  /\ \E hits \in SUBSET FormHits(reader[r].only) :
       reader' = [reader EXCEPT ![r] =
         [at |-> "answered", only |-> @.only, found |-> @.found \union hits, lemma |-> {},
          relation |-> "related"]]
  /\ UNCHANGED <<stored, imported, entry, links, importer>>

SearchForms(r) ==
  /\ reader[r].at = "forms"
  /\ \E hits \in SUBSET FormHits(reader[r].only) :
       reader' = [reader EXCEPT ![r] =
         [at |-> "answered", only |-> @.only, found |-> @.found \union hits, lemma |-> {},
          relation |-> "related"]]
  /\ UNCHANGED <<stored, imported, entry, links, importer>>

Answer(r) ==
  /\ reader[r].at = "answered"
  /\ Leave(r)
  /\ UNCHANGED <<stored, imported, entry, links, importer>>

--------------------------------------------------------------------------------
(* ManageEntryReferenceLinksService *)

LinkCheckAnyLemma(r, w, relation) ==
  /\ reader[r].at = "idle"
  /\ entry
  /\ ~Locked
  /\ w \in stored.active
  /\ reader' = [reader EXCEPT ![r] =
       [at |-> "link", only |-> FALSE, found |-> {}, lemma |-> {w}, relation |-> relation]]
  /\ UNCHANGED <<stored, imported, entry, links, importer>>

(* get_lemma and the check of the relation, in units of work of their own.  *)
LinkCheck(r, w, relation) ==
  /\ reader[r].at = "idle"
  /\ entry
  /\ ~Locked
  /\ w \in stored.active
  /\ relation = "standard_equivalent" => w \in stored.standard
  /\ reader' = [reader EXCEPT ![r] =
       [at |-> "link", only |-> FALSE, found |-> {}, lemma |-> {w}, relation |-> relation]]
  /\ UNCHANGED <<stored, imported, entry, links, importer>>

(* A link that is there already is returned; the foreign keys keep one out  *)
(* whose entry is gone, and wait for the tables.                            *)
LinkCommit(r) ==
  /\ reader[r].at = "link"
  /\ Locked => \E w \in reader[r].lemma : <<w, reader[r].relation>> \in links
  /\ links' = IF entry THEN links \union {<<w, reader[r].relation>> : w \in reader[r].lemma}
                       ELSE links
  /\ Leave(r)
  /\ UNCHANGED <<stored, imported, entry, importer>>

DeleteLink ==
  /\ \E l \in links : links' = links \ {l}
  /\ UNCHANGED <<stored, imported, entry, importer, reader>>

DeleteEntry ==
  /\ entry
  /\ entry' = FALSE
  /\ links' = {}
  /\ UNCHANGED <<stored, imported, importer, reader>>

--------------------------------------------------------------------------------
ImportStep(i) ==
  \/ QueueForIndexes(i) \/ DropIndexes(i)
  \/ RefuseLine(i) \/ SkipBlank(i) \/ ReadRecord(i) \/ FinishImport(i)

ReadStep(r) == SearchLemmas(r) \/ SearchForms(r) \/ Answer(r) \/ LinkCommit(r)

Next ==
  \/ \E i \in Importers : ImportStep(i) \/ ImportDies(i)
  \/ \E i \in Importers, f \in Releases : BeginImport(i, f)
  \/ \E r \in Readers : ReadStep(r) \/ SearchBegin(r)
  \/ \E r \in Readers, w \in Words, relation \in Relation : LinkCheck(r, w, relation)
  \/ DeleteLink
  \/ DeleteEntry

Spec == Init /\ [][Next]_vars

(* The command and the requests being served run on; PostgreSQL's queue     *)
(* lets nobody overtake the import.                                         *)
FairSpec ==
  /\ Spec
  /\ \A i \in Importers : WF_vars(ImportStep(i))
  /\ \A r \in Readers : WF_vars(ReadStep(r))

--------------------------------------------------------------------------------
(* What a release says, row by row, whatever batches it is loaded in.       *)

(* Row n belongs to the lemma of row h, the last head up to it.             *)
Governs(f, h, n) ==
  /\ h <= n
  /\ f[h].kind = "head"
  /\ f[n].kind \in {"head", "form"}
  /\ \A k \in (h + 1)..n : f[k].kind # "head"

LemmasUpTo(f, m) == {f[h].word : h \in {k \in 1..m : f[k].kind = "head"}}

StandardUpTo(f, m) == {f[h].word : h \in {k \in 1..m : f[k].kind = "head" /\ f[k].standard}}

FormsUpTo(f, m) ==
  {[lemma |-> f[p[1]].word, word |-> f[p[2]].word, standard |-> f[p[2]].standard] :
     p \in {q \in (1..m) \X (1..m) : Governs(f, q[1], q[2])}}

Readable(f) ==
  \A n \in 1..Len(f) :
    /\ f[n].kind # "malformed"
    /\ f[n].kind = "form" => \E h \in 1..n : f[h].kind = "head"

Latest == imported[Len(imported)]

TypeOK ==
  /\ stored \in Content
  /\ imported \in Seq(Releases)
  /\ entry \in BOOLEAN
  /\ links \subseteq Words \X Relation
  /\ importer \in [Importers -> Import]
  /\ \A i \in Importers : importer[i].at # "idle" =>
       importer[i].release \in Releases /\ importer[i].next <= Len(importer[i].release) + 1
  /\ reader \in [Readers -> Request]

(* Whatever releases were imported before, however a release was cut into   *)
(* batches and whichever imports failed half-way: what the lexicon holds is *)
(* exactly what the newest release says, and nothing of an older one.       *)
StoredIsRelease ==
  IF imported = <<>> THEN stored = Empty
  ELSE /\ Readable(Latest)
       /\ stored.active = LemmasUpTo(Latest, Len(Latest))
       /\ stored.standard = StandardUpTo(Latest, Len(Latest))
       /\ stored.forms = FormsUpTo(Latest, Len(Latest))

(* The answer to a search is taken from one release, although the search    *)
(* runs two statements and an import may commit at any time: the lock that  *)
(* the first takes on the lemmas keeps the import waiting before its load.  *)
SearchesOneRelease ==
  \A r \in Readers : reader[r].at = "answered" =>
    \E n \in 1..Len(imported) :
      reader[r].found \subseteq
        (IF reader[r].only THEN StandardUpTo(imported[n], Len(imported[n]))
                           ELSE LemmasUpTo(imported[n], Len(imported[n])))

(* A link keeps its entry and its lemma's row through every later import,   *)
(* and was justified when it was confirmed: some release that was imported  *)
(* had the lemma, as a standard one for a standard equivalent.              *)
LinksJustified ==
  \A l \in links :
    /\ entry
    /\ l[1] \in stored.known
    /\ \E n \in 1..Len(imported) :
         l[1] \in (IF l[2] = "standard_equivalent"
                     THEN StandardUpTo(imported[n], Len(imported[n]))
                     ELSE LemmasUpTo(imported[n], Len(imported[n])))

(* An import that began ends: readers and the import never wait for each    *)
(* other in a circle.                                                       *)
ImportEnds == \A i \in Importers : importer[i].at # "idle" ~> importer[i].at = "idle"
================================================================================
