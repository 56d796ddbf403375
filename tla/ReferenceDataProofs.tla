--------------------------- MODULE ReferenceDataProofs ---------------------------
(***************************************************************************)
(* What dictionaries refer to, for any words, releases, imports, readers,       *)
(* lists of the service, mappings, editors, abbreviations and files.            *)
(*                                                                          *)
(* The lexicon first: what is stored is the newest release, a search answers    *)
(* from one release, and a link was justified by one.  The invariant of an      *)
(* import under way is that its upserts and the rows of its batch add up to     *)
(* the rows read so far (Staged); that readers and the load exclude each other  *)
(* is Apart.  The gazetteers next, whose invariant says what a run knows of the *)
(* list it read and what an editor's request has read; then the abbreviations,  *)
(* whose transactions know the stored rows until another one commits.  Last the  *)
(* migrations, for any rows: a script meets a row only where the tables at one   *)
(* end of it do.  A step of one leaves the others alone, which puts them together. *)
(***************************************************************************)
EXTENDS ReferenceData, TLAPS, NaturalsInduction, WellFoundedInduction


--------------------------------------------------------------------------------
(* The upsert, a row at a time. *)

LEMMA ElementsOfAppend ==
  ASSUME NEW S, NEW s \in Seq(S), NEW e \in S
  PROVE  Elements(Append(s, e)) = Elements(s) \union {e}
<1>1. DOMAIN Append(s, e) = DOMAIN s \union {Len(s) + 1}
  OBVIOUS
<1>2. Append(s, e)[Len(s) + 1] = e /\ \A n \in DOMAIN s : Append(s, e)[n] = s[n]
  OBVIOUS
<1> QED
  BY <1>1, <1>2 DEF Elements

LEMMA ElementsOfEmpty == Elements(<<>>) = {}
  BY DEF Elements

(* A row more in the batch is a row more upserted. *)
LEMMA UpsertOfAppend ==
  ASSUME NEW c \in Content, NEW b \in Seq(Record), NEW e \in Record
  PROVE  /\ Upserted(c, Append(b, e)).known = Upserted(c, b).known \union {e.lemma}
         /\ Upserted(c, Append(b, e)).active = Upserted(c, b).active \union {e.lemma}
         /\ Upserted(c, Append(b, e)).standard =
              Upserted(c, b).standard \union (IF e.lemmaStandard THEN {e.lemma} ELSE {})
         /\ Upserted(c, Append(b, e)).forms = Upserted(c, b).forms \union
              {[lemma |-> e.lemma, word |-> e.word, standard |-> e.standard]}
<1>1. Elements(Append(b, e)) = Elements(b) \union {e}
  BY ElementsOfAppend
<1> HIDE DEF Elements
<1>2. {x \in Elements(b) \union {e} : x.lemmaStandard} =
        {x \in Elements(b) : x.lemmaStandard} \union (IF e.lemmaStandard THEN {e} ELSE {})
  OBVIOUS
<1> QED
  BY <1>1, <1>2 DEF Upserted

(* An empty batch adds nothing. *)
LEMMA UpsertOfEmpty ==
  ASSUME NEW c \in Content
  PROVE  Upserted(c, <<>>) = c
<1>1. /\ Upserted(c, <<>>).known = c.known
      /\ Upserted(c, <<>>).active = c.active
      /\ Upserted(c, <<>>).standard = c.standard
      /\ Upserted(c, <<>>).forms = c.forms
  BY ElementsOfEmpty DEF Upserted
<1>2. Upserted(c, <<>>) = [known |-> c.known, active |-> c.active,
                          standard |-> c.standard, forms |-> c.forms]
  BY <1>1 DEF Upserted
<1> QED
  BY <1>2 DEF Content

LEMMA UpsertType ==
  ASSUME NEW c \in Content, NEW b \in Seq(Record)
  PROVE  Upserted(c, b) \in Content
<1>1. Elements(b) \subseteq Record
  BY DEF Elements
<1>2. {[lemma |-> x.lemma, word |-> x.word, standard |-> x.standard] : x \in Elements(b)}
        \subseteq WordForm
  BY <1>1 DEF Record, WordForm
<1>3. {x.lemma : x \in Elements(b)} \subseteq Words
      /\ {x.lemma : x \in {y \in Elements(b) : y.lemmaStandard}} \subseteq Words
  BY <1>1 DEF Record
<1> QED
  BY <1>2, <1>3 DEF Upserted, Content

--------------------------------------------------------------------------------
(* What a release says, a row at a time. *)

LEMMA OneMore ==
  ASSUME NEW m \in Nat
  PROVE  1..(m + 1) = (1..m) \union {m + 1}
  OBVIOUS

LEMMA UpToZero ==
  ASSUME NEW f
  PROVE  LemmasUpTo(f, 0) = {} /\ StandardUpTo(f, 0) = {} /\ FormsUpTo(f, 0) = {}
<1>1. 1..0 = {}
  OBVIOUS
<1> QED
  BY <1>1 DEF LemmasUpTo, StandardUpTo, FormsUpTo

LEMMA LemmasOfOneMore ==
  ASSUME NEW f, NEW m \in Nat
  PROVE  /\ LemmasUpTo(f, m + 1) =
              LemmasUpTo(f, m) \union (IF f[m + 1].kind = "head" THEN {f[m + 1].word} ELSE {})
         /\ StandardUpTo(f, m + 1) =
              StandardUpTo(f, m) \union
                (IF f[m + 1].kind = "head" /\ f[m + 1].standard THEN {f[m + 1].word} ELSE {})
  BY OneMore DEF LemmasUpTo, StandardUpTo

(* A row of another kind belongs to no lemma, one of a lemma to the last.   *)
LEMMA FormsOfOneMore ==
  ASSUME NEW f, NEW m \in Nat
  PROVE  FormsUpTo(f, m + 1) = FormsUpTo(f, m) \union
           {[lemma |-> f[h].word, word |-> f[m + 1].word, standard |-> f[m + 1].standard] :
              h \in {k \in 1..(m + 1) : Governs(f, k, m + 1)}}
<1> DEFINE P(k) == {q \in (1..k) \X (1..k) : Governs(f, q[1], q[2])}
           G == {k \in 1..(m + 1) : Governs(f, k, m + 1)}
           Rec(p) == [lemma |-> f[p[1]].word, word |-> f[p[2]].word, standard |-> f[p[2]].standard]
<1>1. ASSUME NEW p \in P(m + 1)
      PROVE  p \in P(m) \/ \E h \in G : p = <<h, m + 1>>
  <2>1. p[1] \in 1..(m + 1) /\ p[2] \in 1..(m + 1) /\ p = <<p[1], p[2]>> /\ p[1] <= p[2]
    BY DEF Governs
  <2>2. CASE p[2] = m + 1
    BY <2>1, <2>2
  <2>3. CASE p[2] # m + 1
    <3>1. p[2] \in 1..m /\ p[1] \in 1..m
      BY <2>1, <2>3
    <3> QED
      BY <2>1, <3>1
  <2> QED
    BY <2>2, <2>3
<1>2. ASSUME NEW p \in P(m)
      PROVE  p \in P(m + 1)
  BY OneMore
<1>3. ASSUME NEW h \in G
      PROVE  <<h, m + 1>> \in P(m + 1)
  <2>1. m + 1 \in 1..(m + 1)
    OBVIOUS
  <2> QED
    BY <2>1
<1>4. FormsUpTo(f, m + 1) = {Rec(p) : p \in P(m + 1)} /\ FormsUpTo(f, m) = {Rec(p) : p \in P(m)}
  BY DEF FormsUpTo
<1>5. P(m + 1) = P(m) \union {<<h, m + 1>> : h \in G}
  <2> HIDE DEF P, G
  <2> QED
    BY <1>1, <1>2, <1>3
<1>6. {Rec(p) : p \in P(m) \union {<<h, m + 1>> : h \in G}} =
        {Rec(p) : p \in P(m)} \union {Rec(<<h, m + 1>>) : h \in G}
  <2> HIDE DEF P, G, Rec
  <2> QED
    OBVIOUS
<1> QED
  BY <1>4, <1>5, <1>6

--------------------------------------------------------------------------------
(* The type invariant. *)

LEMMA EmptyIsContent == Empty \in Content
  BY DEF Empty, Content

LEMMA NoImportType == NoImport \in Import
  BY EmptyIsContent DEF NoImport, Import

LEMMA NoRequestType == NoRequest \in Request
  BY DEF NoRequest, Request, Relation

LEMMA DeactivatedType ==
  ASSUME NEW c \in Content
  PROVE  Deactivated(c) \in Content
  BY DEF Deactivated, Content

(* One importer moves to a well-formed state and the rest stays.            *)
LEMMA ImporterType ==
  ASSUME TypeOK, NEW i \in Importers, NEW q \in Import,
         q.at # "idle" => q.release \in Releases /\ q.next <= Len(q.release) + 1,
         importer' = [importer EXCEPT ![i] = q],
         UNCHANGED <<stored, imported, entry, links, reader>>
  PROVE  TypeOK'
<1>1. \A j \in Importers : importer'[j] = IF j = i THEN q ELSE importer[j]
  BY DEF TypeOK
<1>2. importer' \in [Importers -> Import]
  BY DEF TypeOK
<1> QED
  BY <1>1, <1>2 DEF TypeOK

LEMMA ReaderType ==
  ASSUME TypeOK, NEW r \in Readers, NEW q \in Request,
         reader' = [reader EXCEPT ![r] = q],
         UNCHANGED <<stored, imported, entry, importer>>,
         links' \subseteq Words \X Relation
  PROVE  TypeOK'
<1>1. reader' \in [Readers -> Request]
  BY DEF TypeOK
<1> QED
  BY <1>1 DEF TypeOK

(* ReadRecord keeps the rows and the batch well-formed.                     *)
LEMMA ReadRecordType ==
  ASSUME TypeOK, LexiconAssumption, NEW i \in Importers, ReadRecord(i)
  PROVE  TypeOK'
<1> DEFINE q == importer[i]
           line == NextLine(i)
<1>1. q \in Import /\ q.release \in Releases /\ q.next \in 1..Len(q.release)
  BY DEF TypeOK, ReadRecord, Reading, Import
<1>2. line \in Line
  BY <1>1 DEF NextLine, Import
<1>3. Current(i) \subseteq [word : Words, standard : BOOLEAN]
  BY <1>1, <1>2 DEF Current, Line, Import
<1>4. PICK c \in Current(i) :
        LET batch == Append(q.batch, [lemma |-> c.word, lemmaStandard |-> c.standard,
                                      word |-> line.word, standard |-> line.standard])
            full == Len(batch) >= BatchSize
        IN importer' = [importer EXCEPT ![i] =
             [at |-> "loading", release |-> q.release, next |-> q.next + 1, current |-> {c},
              batch |-> IF full THEN <<>> ELSE batch,
              staged |-> IF full THEN Upserted(q.staged, batch) ELSE q.staged]]
  BY DEF ReadRecord
<1> DEFINE e == [lemma |-> c.word, lemmaStandard |-> c.standard,
                 word |-> line.word, standard |-> line.standard]
           batch == Append(q.batch, e)
           full == Len(batch) >= BatchSize
           new == [at |-> "loading", release |-> q.release, next |-> q.next + 1, current |-> {c},
                   batch |-> IF full THEN <<>> ELSE batch,
                   staged |-> IF full THEN Upserted(q.staged, batch) ELSE q.staged]
<1>5. e \in Record
  BY <1>2, <1>3 DEF Record, Line
<1>6. batch \in Seq(Record)
  BY <1>1, <1>5 DEF Import
<1>7. Upserted(q.staged, batch) \in Content
  BY <1>1, <1>6, UpsertType DEF Import
<1>8. new \in Import
  <2> HIDE DEF batch, full
  <2>1. (IF full THEN <<>> ELSE batch) \in Seq(Record)
    BY <1>6
  <2>2. (IF full THEN Upserted(q.staged, batch) ELSE q.staged) \in Content
    BY <1>1, <1>7 DEF Import
  <2>3. {c} \subseteq [word : Words, standard : BOOLEAN]
    BY <1>3
  <2> QED
    BY <1>1, <2>1, <2>2, <2>3 DEF Import
<1>9. new.release = q.release /\ new.next = q.next + 1
  BY <1>1 DEF Import
<1>10. importer' = [importer EXCEPT ![i] = new] /\ UNCHANGED <<stored, imported, entry, links, reader>>
  BY <1>4 DEF ReadRecord
<1>11. new.release \in Releases /\ new.next <= Len(new.release) + 1
  BY <1>1, <1>9
<1> HIDE DEF new
<1> QED
  BY <1>8, <1>10, <1>11, ImporterType

LEMMA TypeInit ==
  ASSUME Init, LexiconAssumption
  PROVE  TypeOK
<1>1. importer \in [Importers -> Import] /\ reader \in [Readers -> Request]
  BY NoImportType, NoRequestType DEF Init
<1>2. ASSUME NEW i \in Importers
      PROVE  importer[i].at = "idle"
  BY DEF Init, NoImport
<1>3. imported \in Seq(Releases)
  BY DEF Init
<1> QED
  BY <1>1, <1>2, <1>3, EmptyIsContent DEF Init, TypeOK

LEMMA TypeStep ==
  ASSUME TypeOK, LexiconAssumption, [Next]_vars
  PROVE  TypeOK'
<1>1. CASE UNCHANGED vars
  BY <1>1 DEF vars, TypeOK
<1>2. ASSUME NEW i \in Importers, NEW f \in Releases, BeginImport(i, f)
      PROVE  TypeOK'
  <2> DEFINE q == [at |-> "begun", release |-> f, next |-> 1, current |-> {}, batch |-> <<>>,
                   staged |-> Deactivated(stored)]
  <2>1. f \in Seq(Line) /\ Deactivated(stored) \in Content
    BY DeactivatedType DEF LexiconAssumption, TypeOK
  <2>2. q \in Import
    BY <2>1 DEF Import
  <2>3. q.release \in Releases /\ q.next <= Len(q.release) + 1
    BY <2>1
  <2>4. importer' = [importer EXCEPT ![i] = q] /\ UNCHANGED <<stored, imported, entry, links, reader>>
    BY <1>2 DEF BeginImport
  <2> HIDE DEF q
  <2> QED
    BY <2>2, <2>3, <2>4, ImporterType
<1>3. ASSUME NEW i \in Importers, QueueForIndexes(i) \/ DropIndexes(i)
      PROVE  TypeOK'
  <2>1. PICK place \in {"queued", "loading"} : AtImporter(i, place)
    BY <1>3 DEF QueueForIndexes, DropIndexes
  <2> DEFINE q == [importer[i] EXCEPT !.at = place]
  <2>2. q \in Import /\ q.release = importer[i].release /\ q.next = importer[i].next
    BY DEF TypeOK, Import
  <2>3. importer' = [importer EXCEPT ![i] = q] /\ UNCHANGED <<stored, imported, entry, links, reader>>
    BY <1>3, <2>1 DEF QueueForIndexes, DropIndexes, AtImporter
  <2>4. q.release \in Releases /\ q.next <= Len(q.release) + 1
    BY <1>3, <2>2 DEF TypeOK, QueueForIndexes, DropIndexes
  <2> HIDE DEF q
  <2> QED
    BY <2>2, <2>3, <2>4, ImporterType
<1>4. ASSUME NEW i \in Importers, RefuseLine(i) \/ ImportDies(i)
      PROVE  TypeOK'
  <2>1. NoImport.at = "idle"
    BY DEF NoImport
  <2> QED
    BY <1>4, <2>1, NoImportType, ImporterType DEF RefuseLine, ImportDies
<1>5. ASSUME NEW i \in Importers, SkipBlank(i)
      PROVE  TypeOK'
  <2> DEFINE q == [importer[i] EXCEPT !.next = importer[i].next + 1]
  <2>1. importer[i] \in Import /\ importer[i].next <= Len(importer[i].release)
    BY <1>5 DEF SkipBlank, Reading, TypeOK
  <2>2. q \in Import /\ q.release = importer[i].release /\ q.next = importer[i].next + 1
    BY <2>1 DEF Import
  <2>3. importer' = [importer EXCEPT ![i] = q] /\ UNCHANGED <<stored, imported, entry, links, reader>>
    BY <1>5 DEF SkipBlank
  <2>4. importer[i].release \in Releases
    BY <1>5 DEF TypeOK, SkipBlank, Reading
  <2> HIDE DEF q
  <2>5. q.release \in Releases /\ q.next <= Len(q.release) + 1
    BY <2>1, <2>2, <2>4 DEF Import
  <2> QED
    BY <2>2, <2>3, <2>5, ImporterType
<1>6. ASSUME NEW i \in Importers, ReadRecord(i)
      PROVE  TypeOK'
  BY <1>6, ReadRecordType
<1>7. ASSUME NEW i \in Importers, FinishImport(i)
      PROVE  TypeOK'
  <2>1. importer[i] \in Import /\ importer[i].release \in Releases
    BY <1>7 DEF TypeOK, FinishImport
  <2>2. stored' \in Content
    BY <1>7, <2>1, UpsertType DEF FinishImport, Import
  <2>3. imported' \in Seq(Releases)
    BY <1>7, <2>1 DEF FinishImport, TypeOK
  <2>4. importer' \in [Importers -> Import]
    BY <1>7, NoImportType DEF FinishImport, TypeOK
  <2>5. \A j \in Importers : importer'[j] = IF j = i THEN NoImport ELSE importer[j]
    BY <1>7 DEF FinishImport, TypeOK
  <2>6. NoImport.at = "idle"
    BY DEF NoImport
  <2> QED
    BY <1>7, <2>2, <2>3, <2>4, <2>5, <2>6 DEF FinishImport, TypeOK
<1>8. ASSUME NEW r \in Readers, SearchBegin(r)
      PROVE  TypeOK'
  <2>1. PICK only \in BOOLEAN : reader' = [reader EXCEPT ![r] =
          [at |-> "search", only |-> only, found |-> {}, lemma |-> {}, relation |-> "related"]]
    BY <1>8 DEF SearchBegin
  <2>2. [at |-> "search", only |-> only, found |-> {}, lemma |-> {}, relation |-> "related"]
          \in Request
    BY DEF Request, Relation
  <2> QED
    BY <1>8, <2>1, <2>2, ReaderType DEF SearchBegin, TypeOK
<1>9. ASSUME NEW r \in Readers, SearchLemmas(r)
      PROVE  TypeOK'
  <2>1. PICK hits \in SUBSET LemmaHits(reader[r].only), place \in {"forms", "answered"} :
          reader' = [reader EXCEPT ![r] = [at |-> place, only |-> reader[r].only, found |-> hits,
                                           lemma |-> {}, relation |-> "related"]]
    BY <1>9 DEF SearchLemmas
  <2>2. hits \subseteq Words /\ reader[r].only \in BOOLEAN
    BY DEF TypeOK, Content, LemmaHits, Request
  <2>3. [at |-> place, only |-> reader[r].only, found |-> hits, lemma |-> {},
         relation |-> "related"] \in Request
    BY <2>2 DEF Request, Relation
  <2> QED
    BY <1>9, <2>1, <2>3, ReaderType DEF SearchLemmas, TypeOK
<1>10. ASSUME NEW r \in Readers, SearchForms(r)
       PROVE  TypeOK'
  <2>1. PICK hits \in SUBSET FormHits(reader[r].only) :
          reader' = [reader EXCEPT ![r] =
            [at |-> "answered", only |-> reader[r].only, found |-> reader[r].found \union hits,
             lemma |-> {}, relation |-> "related"]]
    BY <1>10 DEF SearchForms
  <2>2. hits \subseteq Words /\ reader[r].only \in BOOLEAN /\ reader[r].found \subseteq Words
    BY DEF TypeOK, Content, LemmaHits, FormHits, Request
  <2>3. [at |-> "answered", only |-> reader[r].only, found |-> reader[r].found \union hits,
         lemma |-> {}, relation |-> "related"] \in Request
    BY <2>2 DEF Request, Relation
  <2> QED
    BY <1>10, <2>1, <2>3, ReaderType DEF SearchForms, TypeOK
<1>11. ASSUME NEW r \in Readers, Answer(r)
       PROVE  TypeOK'
  BY <1>11, NoRequestType, ReaderType DEF Answer, Leave, TypeOK
<1>12. ASSUME NEW r \in Readers, LinkCommit(r)
       PROVE  TypeOK'
  <2>1. reader[r].lemma \subseteq Words /\ reader[r].relation \in Relation
    BY DEF TypeOK, Request
  <2>2. {<<w, reader[r].relation>> : w \in reader[r].lemma} \subseteq Words \X Relation
    BY <2>1
  <2>3. links' \subseteq Words \X Relation
    BY <1>12, <2>2 DEF LinkCommit, TypeOK
  <2> QED
    BY <1>12, <2>3, NoRequestType, ReaderType DEF LinkCommit, Leave
<1>13. ASSUME NEW r \in Readers, NEW w \in Words, NEW relation \in Relation,
              LinkCheck(r, w, relation)
       PROVE  TypeOK'
  <2>1. [at |-> "link", only |-> FALSE, found |-> {}, lemma |-> {w}, relation |-> relation]
          \in Request
    BY DEF Request
  <2> QED
    BY <1>13, <2>1, ReaderType DEF LinkCheck, TypeOK
<1>14. CASE DeleteLink \/ DeleteEntry
  <2>1. links' \subseteq Words \X Relation
    BY <1>14 DEF DeleteLink, DeleteEntry, TypeOK
  <2>2. entry' \in BOOLEAN
    BY <1>14 DEF DeleteLink, DeleteEntry, TypeOK
  <2>3. UNCHANGED <<stored, imported, importer, reader>>
    BY <1>14 DEF DeleteLink, DeleteEntry
  <2> QED
    BY <2>1, <2>2, <2>3 DEF TypeOK
<1> QED
  BY <1>1, <1>2, <1>3, <1>4, <1>5, <1>6, <1>7, <1>8, <1>9, <1>10, <1>11, <1>12, <1>13, <1>14
  DEF Next, ImportStep, ReadStep

(* Every row, every import and every request keeps its type.                *)
THEOREM TypeCorrect == Spec => []TypeOK
<1>1. Init => TypeOK
  BY TypeInit, LexiconAssumption
<1>2. TypeOK /\ [Next]_vars => TypeOK'
  BY TypeStep, LexiconAssumption
<1> QED
  BY <1>1, <1>2, PTL DEF Spec

--------------------------------------------------------------------------------
(* The inductive invariant. *)

(* The rows an import has read say what its upserts and its batch hold.     *)
Staged(q) ==
  LET f == q.release
      m == q.next - 1
      sum == Upserted(q.staged, q.batch)
  IN /\ sum.active = LemmasUpTo(f, m)
     /\ sum.standard = StandardUpTo(f, m)
     /\ sum.forms = FormsUpTo(f, m)
     /\ stored.known \subseteq sum.known
     /\ sum.active \subseteq sum.known

(* None of the rows read so far was malformed, and the parser's lemma is    *)
(* the last head of them.                                                   *)
LastHead(f, m, h) == f[h].kind = "head" /\ \A k \in (h + 1)..m : f[k].kind # "head"

Parsed(q) ==
  LET f == q.release
      m == q.next - 1
  IN /\ \A n \in 1..m :
          /\ f[n].kind # "malformed"
          /\ f[n].kind = "form" => \E h \in 1..n : f[h].kind = "head"
     /\ \A c \in q.current : \E h \in 1..m :
          LastHead(f, m, h) /\ f[h].word = c.word /\ f[h].standard = c.standard

UnderWay(q) == q.at # "idle" => Staged(q) /\ Parsed(q)

Alone ==
  \A i, j \in Importers : importer[i].at # "idle" /\ importer[j].at # "idle" => i = j

Apart ==
  \A i \in Importers, r \in Readers : importer[i].at = "loading" => reader[r].at # "forms"

ActiveKnown == stored.active \subseteq stored.known

(* What release n says of lemmas, or of standard ones.                      *)
Said(n, standard) ==
  IF standard THEN StandardUpTo(imported[n], Len(imported[n]))
              ELSE LemmasUpTo(imported[n], Len(imported[n]))

Searching(q) ==
  /\ q.at \in {"search", "forms"} => imported # <<>>
  /\ q.at = "forms" => q.found \subseteq LemmaHits(q.only)

Answered(q) == q.at = "answered" => \E n \in 1..Len(imported) : q.found \subseteq Said(n, q.only)

Justified(w, relation) ==
  /\ w \in stored.known
  /\ \E n \in 1..Len(imported) : w \in Said(n, relation = "standard_equivalent")

Linking(q) == q.at = "link" => \A w \in q.lemma : Justified(w, q.relation)

IInv ==
  /\ TypeOK
  /\ StoredIsRelease
  /\ ActiveKnown
  /\ Alone
  /\ Apart
  /\ \A i \in Importers : UnderWay(importer[i])
  /\ \A r \in Readers : Searching(reader[r]) /\ Answered(reader[r]) /\ Linking(reader[r])
  /\ \A l \in links : entry /\ Justified(l[1], l[2])

(* A row of a lemma belongs to the last head.                               *)
LEMMA GovernedByLast ==
  ASSUME NEW f, NEW m \in Nat, NEW h \in 1..m, LastHead(f, m, h), f[m + 1].kind = "form"
  PROVE  {k \in 1..(m + 1) : Governs(f, k, m + 1)} = {h}
<1>1. Governs(f, h, m + 1)
  <2>1. \A k \in (h + 1)..(m + 1) : k = m + 1 \/ k \in (h + 1)..m
    OBVIOUS
  <2> QED
    BY <2>1 DEF Governs, LastHead
<1>2. ASSUME NEW k \in 1..(m + 1), Governs(f, k, m + 1)
      PROVE  k = h
  <2>1. k # m + 1 /\ f[k].kind = "head"
    BY <1>2 DEF Governs
  <2>2. ~(h < k)
    <3>1. h < k => k \in (h + 1)..m
      BY <2>1
    <3> QED
      BY <2>1, <3>1 DEF LastHead
  <2>3. ~(k < h)
    <3>1. k < h => h \in (k + 1)..(m + 1)
      OBVIOUS
    <3> QED
      BY <1>2, <3>1 DEF LastHead, Governs
  <2> QED
    BY <2>2, <2>3
<1> QED
  BY <1>1, <1>2

(* A head belongs to itself, and another kind of row to nothing.            *)
LEMMA GovernedByItself ==
  ASSUME NEW f, NEW m \in Nat
  PROVE  /\ f[m + 1].kind = "head" => {k \in 1..(m + 1) : Governs(f, k, m + 1)} = {m + 1}
         /\ f[m + 1].kind = "blank" => {k \in 1..(m + 1) : Governs(f, k, m + 1)} = {}
<1>1. ASSUME f[m + 1].kind = "head"
      PROVE  {k \in 1..(m + 1) : Governs(f, k, m + 1)} = {m + 1}
  <2>1. ASSUME NEW k \in 1..(m + 1), Governs(f, k, m + 1)
        PROVE  k = m + 1
    <3>1. k # m + 1 => m + 1 \in (k + 1)..(m + 1)
      OBVIOUS
    <3> QED
      BY <1>1, <2>1, <3>1 DEF Governs
  <2>2. Governs(f, m + 1, m + 1)
    <3>1. (m + 1 + 1)..(m + 1) = {}
      OBVIOUS
    <3> QED
      BY <1>1, <3>1 DEF Governs
  <2>3. m + 1 \in 1..(m + 1)
    OBVIOUS
  <2> QED
    BY <2>1, <2>2, <2>3
<1>2. f[m + 1].kind = "blank" => {k \in 1..(m + 1) : Governs(f, k, m + 1)} = {}
  BY DEF Governs
<1> QED
  BY <1>1, <1>2

--------------------------------------------------------------------------------
(* One importer moves: the others are idle, the rest of the state stays.    *)
LEMMA ImporterStep ==
  ASSUME IInv, TypeOK', NEW i \in Importers, NEW q,
         importer' = [importer EXCEPT ![i] = q],
         UNCHANGED <<stored, imported, entry, links, reader>>,
         UnderWay(q),
         q.at # "idle" => \A j \in Importers : j # i => importer[j].at = "idle",
         q.at = "loading" => \A r \in Readers : reader[r].at # "forms"
  PROVE  IInv'
<1>1. \A j \in Importers : importer'[j] = IF j = i THEN q ELSE importer[j]
  BY DEF IInv, TypeOK
<1>2. Alone'
  BY <1>1 DEF IInv, Alone
<1>3. Apart'
  BY <1>1 DEF IInv, Apart
<1>4. \A j \in Importers : UnderWay(importer[j])'
  <2>1. \A j \in Importers : UnderWay(importer[j])' <=> UnderWay(importer'[j])
    BY DEF UnderWay, Staged, Parsed
  <2> QED
    BY <1>1, <2>1 DEF IInv
<1>5. StoredIsRelease' /\ ActiveKnown'
  BY DEF IInv, StoredIsRelease, Latest, ActiveKnown
<1>6. \A r \in Readers : (Searching(reader[r]) /\ Answered(reader[r]) /\ Linking(reader[r]))'
  BY DEF IInv, Searching, Answered, Linking, LemmaHits, Said, Justified
<1>7. (\A l \in links : entry /\ Justified(l[1], l[2]))'
  BY DEF IInv, Justified, Said
<1> QED
  BY <1>2, <1>3, <1>4, <1>5, <1>6, <1>7 DEF IInv

(* Nothing read, nothing upserted.                                          *)
LEMMA BeginReady ==
  ASSUME IInv, LexiconAssumption, NEW f \in Releases
  PROVE  UnderWay([at |-> "begun", release |-> f, next |-> 1, current |-> {}, batch |-> <<>>,
                   staged |-> Deactivated(stored)])
<1> DEFINE q == [at |-> "begun", release |-> f, next |-> 1, current |-> {}, batch |-> <<>>,
                 staged |-> Deactivated(stored)]
<1>1. Deactivated(stored) \in Content
  BY DeactivatedType DEF IInv, TypeOK
<1>2. Upserted(q.staged, q.batch) = Deactivated(stored)
  BY <1>1, UpsertOfEmpty
<1>3. q.next - 1 = 0 /\ q.release = f /\ q.current = {}
  OBVIOUS
<1>4. LemmasUpTo(f, 0) = {} /\ StandardUpTo(f, 0) = {} /\ FormsUpTo(f, 0) = {}
  BY UpToZero
<1> HIDE DEF q
<1>5. Staged(q)
  BY <1>2, <1>3, <1>4 DEF Staged, Deactivated
<1>6. Parsed(q)
  <2>1. 1..0 = {}
    OBVIOUS
  <2> QED
    BY <1>3, <2>1 DEF Parsed
<1> QED
  BY <1>5, <1>6 DEF UnderWay, q

(* What one row of the lemma at row h adds to what a release says.          *)
LEMMA OneMoreRow ==
  ASSUME NEW f, NEW m \in Nat, NEW h \in 1..(m + 1), LastHead(f, m + 1, h),
         f[m + 1].kind \in {"head", "form"}
  PROVE  /\ LemmasUpTo(f, m + 1) = LemmasUpTo(f, m) \union {f[h].word}
         /\ StandardUpTo(f, m + 1) =
              StandardUpTo(f, m) \union (IF f[h].standard THEN {f[h].word} ELSE {})
         /\ FormsUpTo(f, m + 1) = FormsUpTo(f, m) \union
              {[lemma |-> f[h].word, word |-> f[m + 1].word, standard |-> f[m + 1].standard]}
<1>1. {k \in 1..(m + 1) : Governs(f, k, m + 1)} = {h}
  <2>1. CASE f[m + 1].kind = "head"
    <3>1. h # m + 1 => m + 1 \in (h + 1)..(m + 1)
      OBVIOUS
    <3>2. h = m + 1
      BY <2>1, <3>1 DEF LastHead
    <3> QED
      BY <2>1, <3>2, GovernedByItself
  <2>2. CASE f[m + 1].kind = "form"
    <3>1. h \in 1..m
      BY <2>2 DEF LastHead
    <3>2. (h + 1)..m \subseteq (h + 1)..(m + 1)
      OBVIOUS
    <3>3. LastHead(f, m, h)
      BY <3>2 DEF LastHead
    <3> QED
      BY <2>2, <3>1, <3>3, GovernedByLast
  <2> QED
    BY <2>1, <2>2
<1>2. FormsUpTo(f, m + 1) = FormsUpTo(f, m) \union
        {[lemma |-> f[h].word, word |-> f[m + 1].word, standard |-> f[m + 1].standard]}
  <2>1. FormsUpTo(f, m + 1) = FormsUpTo(f, m) \union
          {[lemma |-> f[k].word, word |-> f[m + 1].word, standard |-> f[m + 1].standard] :
             k \in {h}}
    BY <1>1, FormsOfOneMore
  <2> QED
    BY <2>1
<1>3. CASE f[m + 1].kind = "head"
  <2>1. h # m + 1 => m + 1 \in (h + 1)..(m + 1)
    OBVIOUS
  <2>2. h = m + 1
    BY <1>3, <2>1 DEF LastHead
  <2> QED
    BY <1>2, <1>3, <2>2, LemmasOfOneMore
<1>4. CASE f[m + 1].kind = "form"
  <2>1. h \in 1..m /\ f[h].kind = "head"
    BY <1>4 DEF LastHead
  <2>2. f[h].word \in LemmasUpTo(f, m) /\ (f[h].standard => f[h].word \in StandardUpTo(f, m))
    BY <2>1 DEF LemmasUpTo, StandardUpTo
  <2>3. /\ LemmasUpTo(f, m + 1) = LemmasUpTo(f, m) \union {}
        /\ StandardUpTo(f, m + 1) = StandardUpTo(f, m) \union {}
    BY <1>4, LemmasOfOneMore
  <2> QED
    BY <1>2, <2>2, <2>3
<1> QED
  BY <1>3, <1>4

(* A row more of the release, and the same row more in the sums, whether    *)
(* the importer upserted its batch at it or not.                            *)
LEMMA RowStaged ==
  ASSUME NEW q \in Import, Staged(q), NEW m \in Nat, q.next = m + 1,
         NEW f, f = q.release, NEW h \in 1..(m + 1), LastHead(f, m + 1, h),
         f[m + 1].kind \in {"head", "form"},
         NEW e \in Record, e.lemma = f[h].word, e.lemmaStandard = f[h].standard,
         e.word = f[m + 1].word, e.standard = f[m + 1].standard,
         NEW new, new.release = f, new.next = m + 2,
         Upserted(new.staged, new.batch) = Upserted(q.staged, Append(q.batch, e))
  PROVE  Staged(new)
<1> DEFINE before == Upserted(q.staged, q.batch)
           after == Upserted(new.staged, new.batch)
<1>1. q.next - 1 = m /\ new.next - 1 = m + 1
  OBVIOUS
<1>2. q.staged \in Content /\ q.batch \in Seq(Record)
  BY DEF Import
<1>3. /\ after.known = before.known \union {f[h].word}
      /\ after.active = before.active \union {f[h].word}
      /\ after.standard = before.standard \union (IF f[h].standard THEN {f[h].word} ELSE {})
      /\ after.forms = before.forms \union
           {[lemma |-> f[h].word, word |-> f[m + 1].word, standard |-> f[m + 1].standard]}
  BY <1>2, UpsertOfAppend
<1>4. /\ before.active = LemmasUpTo(f, m)
      /\ before.standard = StandardUpTo(f, m)
      /\ before.forms = FormsUpTo(f, m)
      /\ stored.known \subseteq before.known
      /\ before.active \subseteq before.known
  BY <1>1 DEF Staged
<1> HIDE DEF before
<1>5. /\ after.active = LemmasUpTo(f, m + 1)
      /\ after.standard = StandardUpTo(f, m + 1)
      /\ after.forms = FormsUpTo(f, m + 1)
  <2>1. /\ LemmasUpTo(f, m + 1) = LemmasUpTo(f, m) \union {f[h].word}
        /\ StandardUpTo(f, m + 1) =
             StandardUpTo(f, m) \union (IF f[h].standard THEN {f[h].word} ELSE {})
        /\ FormsUpTo(f, m + 1) = FormsUpTo(f, m) \union
             {[lemma |-> f[h].word, word |-> f[m + 1].word, standard |-> f[m + 1].standard]}
    BY ONLY OneMoreRow, m \in Nat, h \in 1..(m + 1), LastHead(f, m + 1, h),
            f[m + 1].kind \in {"head", "form"}
  <2> HIDE DEF after
  <2>2. after.active = LemmasUpTo(f, m + 1)
    BY <1>3, <1>4, <2>1
  <2>3. after.standard = StandardUpTo(f, m + 1)
    BY <1>3, <1>4, <2>1
  <2>4. after.forms = FormsUpTo(f, m + 1)
    BY <1>3, <1>4, <2>1
  <2> QED
    BY <2>2, <2>3, <2>4
<1>6. stored.known \subseteq after.known /\ after.active \subseteq after.known
  <2> HIDE DEF after
  <2> QED
    BY <1>3, <1>4
<1> QED
  BY <1>1, <1>5, <1>6 DEF Staged

LEMMA RowParsed ==
  ASSUME NEW q, Parsed(q), NEW m \in Nat, q.next = m + 1,
         NEW f, f = q.release, NEW h \in 1..(m + 1), LastHead(f, m + 1, h),
         f[m + 1].kind \in {"head", "form"},
         NEW new, new.release = f, new.next = m + 2,
         \A c \in new.current : c.word = f[h].word /\ c.standard = f[h].standard
  PROVE  Parsed(new)
<1>1. q.next - 1 = m /\ new.next - 1 = m + 1
  OBVIOUS
<1>2. \A n \in 1..(m + 1) :
        f[n].kind # "malformed" /\ (f[n].kind = "form" => \E k \in 1..n : f[k].kind = "head")
  <2>1. \A n \in 1..m :
          f[n].kind # "malformed" /\ (f[n].kind = "form" => \E k \in 1..n : f[k].kind = "head")
    BY <1>1 DEF Parsed
  <2>2. f[m + 1].kind # "malformed" /\ \E k \in 1..(m + 1) : f[k].kind = "head"
    BY DEF LastHead
  <2>3. \A n \in 1..(m + 1) : n \in 1..m \/ n = m + 1
    OBVIOUS
  <2> QED
    BY <2>1, <2>2, <2>3
<1>3. \A c \in new.current : \E k \in 1..(m + 1) :
        LastHead(f, m + 1, k) /\ f[k].word = c.word /\ f[k].standard = c.standard
  OBVIOUS
<1> QED
  BY <1>1, <1>2, <1>3 DEF Parsed

--------------------------------------------------------------------------------
(* The steps of an import. *)

LEMMA SkipBlankReady ==
  ASSUME NEW q \in Import, Staged(q), Parsed(q), q.next <= Len(q.release),
         q.release[q.next].kind = "blank",
         NEW new, new.release = q.release, new.next = q.next + 1, new.current = q.current,
         new.batch = q.batch, new.staged = q.staged
  PROVE  Staged(new) /\ Parsed(new)
<1> DEFINE f == q.release
           m == q.next - 1
<1>1. m \in Nat /\ q.next = m + 1 /\ new.next - 1 = m + 1
  BY DEF Import
<1>2. f[m + 1].kind = "blank"
  BY <1>1
<1> HIDE DEF m
<1>3. LemmasUpTo(f, m + 1) = LemmasUpTo(f, m) /\ StandardUpTo(f, m + 1) = StandardUpTo(f, m)
  <2>1. /\ LemmasUpTo(f, m + 1) = LemmasUpTo(f, m) \union {}
        /\ StandardUpTo(f, m + 1) = StandardUpTo(f, m) \union {}
    BY <1>1, <1>2, LemmasOfOneMore
  <2> QED
    BY <2>1
<1>4. FormsUpTo(f, m + 1) = FormsUpTo(f, m)
  <2>1. {k \in 1..(m + 1) : Governs(f, k, m + 1)} = {}
    BY <1>1, <1>2, GovernedByItself
  <2>2. FormsUpTo(f, m + 1) = FormsUpTo(f, m) \union
          {[lemma |-> f[h].word, word |-> f[m + 1].word, standard |-> f[m + 1].standard] :
             h \in {k \in 1..(m + 1) : Governs(f, k, m + 1)}}
    BY <1>1, FormsOfOneMore
  <2> QED
    BY <2>1, <2>2
<1>5. Staged(new)
  BY <1>1, <1>3, <1>4 DEF Staged, m
<1>6. Parsed(new)
  <2>1. \A n \in 1..(m + 1) : n \in 1..m \/ n = m + 1
    BY <1>1
  <2>2. ASSUME NEW h \in 1..m, LastHead(f, m, h)
        PROVE  h \in 1..(m + 1) /\ LastHead(f, m + 1, h)
    <3>1. \A k \in (h + 1)..(m + 1) : k \in (h + 1)..m \/ k = m + 1
      BY <1>1
    <3>2. h \in 1..(m + 1)
      BY <1>1
    <3> QED
      BY <1>2, <2>2, <3>1, <3>2 DEF LastHead
  <2>3. \A n \in 1..(m + 1) :
          f[n].kind # "malformed" /\ (f[n].kind = "form" => \E h \in 1..n : f[h].kind = "head")
    <3>1. \A n \in 1..m :
            f[n].kind # "malformed" /\ (f[n].kind = "form" => \E h \in 1..n : f[h].kind = "head")
      BY DEF Parsed, m
    <3> QED
      BY <1>2, <2>1, <3>1
  <2>4. \A c \in q.current : \E h \in 1..m :
          LastHead(f, m, h) /\ f[h].word = c.word /\ f[h].standard = c.standard
    BY DEF Parsed, m
  <2>5. \A c \in new.current : \E h \in 1..(m + 1) :
          LastHead(f, m + 1, h) /\ f[h].word = c.word /\ f[h].standard = c.standard
    BY <2>2, <2>4
  <2> QED
    BY <1>1, <2>3, <2>5 DEF Parsed
<1> QED
  BY <1>5, <1>6

(* The head a record belongs to is the one of the parser's lemma.           *)
LEMMA ReadRecordReady ==
  ASSUME IInv, TypeOK', LexiconAssumption, NEW i \in Importers, ReadRecord(i)
  PROVE  IInv'
<1> DEFINE q == importer[i]
           f == q.release
           m == q.next - 1
           line == NextLine(i)
<1>1. q \in Import /\ q.at = "loading" /\ q.next \in 1..Len(q.release)
  BY DEF ReadRecord, Reading, IInv, TypeOK, Import
<1>2. m \in Nat /\ q.next = m + 1 /\ line = f[m + 1] /\ q.next + 1 = m + 2
  <2>1. m \in Nat /\ q.next = m + 1 /\ q.next + 1 = m + 2
    BY <1>1
  <2> HIDE DEF m
  <2> QED
    BY <2>1 DEF NextLine
<1>3. Staged(q) /\ Parsed(q)
  BY <1>1 DEF IInv, UnderWay
<1>4. PICK c \in Current(i) :
        LET batch == Append(q.batch, [lemma |-> c.word, lemmaStandard |-> c.standard,
                                      word |-> line.word, standard |-> line.standard])
            full == Len(batch) >= BatchSize
        IN importer' = [importer EXCEPT ![i] =
             [at |-> "loading", release |-> q.release, next |-> q.next + 1, current |-> {c},
              batch |-> IF full THEN <<>> ELSE batch,
              staged |-> IF full THEN Upserted(q.staged, batch) ELSE q.staged]]
  BY DEF ReadRecord
<1> DEFINE e == [lemma |-> c.word, lemmaStandard |-> c.standard,
                 word |-> line.word, standard |-> line.standard]
           batch == Append(q.batch, e)
           full == Len(batch) >= BatchSize
           new == [at |-> "loading", release |-> q.release, next |-> q.next + 1, current |-> {c},
                   batch |-> IF full THEN <<>> ELSE batch,
                   staged |-> IF full THEN Upserted(q.staged, batch) ELSE q.staged]
<1>5. line \in Line /\ line.kind \in {"head", "form"}
  BY <1>1 DEF NextLine, Import, ReadRecord
<1>6. Current(i) \subseteq [word : Words, standard : BOOLEAN]
  BY <1>1, <1>5 DEF Current, Line, Import
<1>7. PICK h \in 1..(m + 1) :
        LastHead(f, m + 1, h) /\ f[h].word = c.word /\ f[h].standard = c.standard
  <2>1. CASE line.kind = "head"
    <3>1. c.word = f[m + 1].word /\ c.standard = f[m + 1].standard
      BY <1>2, <2>1 DEF Current
    <3>2. m + 1 \in 1..(m + 1) /\ (m + 1 + 1)..(m + 1) = {}
      BY <1>2
    <3>3. LastHead(f, m + 1, m + 1)
      BY <1>2, <2>1, <3>2 DEF LastHead
    <3> QED
      BY <3>1, <3>2, <3>3
  <2>2. CASE line.kind = "form"
    <3>1. c \in q.current
      BY <2>2 DEF Current
    <3>2. PICK h \in 1..m : LastHead(f, m, h) /\ f[h].word = c.word /\ f[h].standard = c.standard
      BY <1>3, <3>1 DEF Parsed
    <3>3. \A k \in (h + 1)..(m + 1) : k \in (h + 1)..m \/ k = m + 1
      BY <1>2
    <3>4. h \in 1..(m + 1)
      BY <1>2
    <3> HIDE DEF m
    <3>5. LastHead(f, m + 1, h)
      BY <1>2, <2>2, <3>2, <3>3 DEF LastHead
    <3> QED
      BY <3>2, <3>4, <3>5
  <2> QED
    BY <1>5, <2>1, <2>2
<1>8. e \in Record /\ e.lemma = f[h].word /\ e.lemmaStandard = f[h].standard
      /\ e.word = f[m + 1].word /\ e.standard = f[m + 1].standard
  BY <1>2, <1>5, <1>6, <1>7 DEF Record, Line
<1>9. Upserted(new.staged, new.batch) = Upserted(q.staged, Append(q.batch, e))
  <2>1. Upserted(q.staged, batch) \in Content
    <3>1. batch \in Seq(Record)
      BY <1>1, <1>8 DEF Import
    <3> QED
      BY <1>1, <3>1, UpsertType DEF Import
  <2>2. CASE full
    <3>1. new.staged = Upserted(q.staged, batch) /\ new.batch = <<>>
      BY <2>2
    <3> HIDE DEF new
    <3> QED
      BY <2>1, <3>1, UpsertOfEmpty
  <2>3. CASE ~full
    <3>1. new.staged = q.staged /\ new.batch = batch
      BY <2>3
    <3> HIDE DEF new
    <3> QED
      BY <3>1
  <2> QED
    BY <2>2, <2>3
<1>10. new.at = "loading" /\ new.release = f /\ new.next = m + 2 /\ new.current = {c}
  BY <1>2
<1>11. importer' = [importer EXCEPT ![i] = new] /\ UNCHANGED <<stored, imported, entry, links, reader>>
  BY <1>4 DEF ReadRecord
<1>12. f[m + 1].kind \in {"head", "form"}
  BY <1>2, <1>5
<1> HIDE DEF new, e, m
<1>13. Staged(new)
  BY <1>1, <1>2, <1>3, <1>7, <1>8, <1>9, <1>10, <1>12, RowStaged
<1>14. Parsed(new)
  <2>1. \A d \in new.current : d.word = f[h].word /\ d.standard = f[h].standard
    BY <1>7, <1>10
  <2> QED
    BY <1>2, <1>3, <1>7, <1>10, <1>12, <2>1, RowParsed
<1>15. \A j \in Importers : j # i => importer[j].at = "idle"
  BY <1>1 DEF IInv, Alone
<1>16. \A r \in Readers : reader[r].at # "forms"
  BY <1>1 DEF IInv, Apart
<1>17. UnderWay(new)
  BY <1>13, <1>14 DEF UnderWay
<1> QED
  BY <1>11, <1>15, <1>16, <1>17, ImporterStep

(* A commit makes the sums of the import the lexicon.                       *)
LEMMA FinishImportReady ==
  ASSUME IInv, TypeOK', NEW i \in Importers, FinishImport(i)
  PROVE  IInv'
<1> DEFINE q == importer[i]
           f == q.release
           last == Len(imported) + 1
<1>1. q \in Import /\ q.at = "loading" /\ q.next = Len(f) + 1 /\ f \in Seq(Line)
  BY DEF FinishImport, IInv, TypeOK, Import
<1>2. Staged(q) /\ Parsed(q)
  BY <1>1 DEF IInv, UnderWay
<1>3. stored' = Upserted(q.staged, q.batch) /\ q.next - 1 = Len(f) /\ Len(f) \in Nat
  BY <1>1 DEF FinishImport
<1>4. imported \in Seq(Releases) /\ f \in Releases /\ imported' = Append(imported, f)
  BY <1>1 DEF FinishImport, IInv, TypeOK
<1>5. /\ Len(imported') = last /\ last \in Nat \ {0} /\ imported'[last] = f
      /\ \A n \in 1..Len(imported) : n \in 1..last /\ imported'[n] = imported[n]
  BY <1>4
<1>6. stored.known \subseteq stored'.known /\ stored'.active \subseteq stored'.known
  BY <1>2, <1>3 DEF Staged
<1>7. StoredIsRelease'
  <2>1. imported' # <<>> /\ Latest' = f
    BY <1>5 DEF Latest
  <2>2. Readable(f)
    BY <1>2, <1>3 DEF Parsed, Readable
  <2>3. /\ stored'.active = LemmasUpTo(f, Len(f))
        /\ stored'.standard = StandardUpTo(f, Len(f))
        /\ stored'.forms = FormsUpTo(f, Len(f))
    BY <1>2, <1>3 DEF Staged
  <2> QED
    BY <2>1, <2>2, <2>3 DEF StoredIsRelease
<1>8. \A j \in Importers : importer'[j].at = "idle"
  BY <1>1 DEF FinishImport, IInv, TypeOK, Alone, NoImport
<1>9. Alone' /\ Apart' /\ \A j \in Importers : UnderWay(importer[j])'
  BY <1>8 DEF Alone, Apart, UnderWay
<1>10. UNCHANGED <<entry, links, reader>>
  BY DEF FinishImport
<1>11. ASSUME NEW n \in 1..Len(imported), NEW standard
       PROVE  Said(n, standard)' = Said(n, standard) /\ n \in 1..Len(imported')
  BY <1>5 DEF Said
<1>12. ASSUME NEW r \in Readers
       PROVE  (Searching(reader[r]) /\ Answered(reader[r]) /\ Linking(reader[r]))'
  <2>1. reader[r].at # "forms"
    BY <1>1 DEF IInv, Apart
  <2>2. Searching(reader[r])'
    BY <1>5, <1>10, <2>1 DEF Searching
  <2>3. Answered(reader[r])'
    BY <1>10, <1>11 DEF IInv, Answered
  <2>4. Linking(reader[r])'
    BY <1>6, <1>10, <1>11 DEF IInv, Linking, Justified
  <2> QED
    BY <2>2, <2>3, <2>4
<1>13. (\A l \in links : entry /\ Justified(l[1], l[2]))'
  BY <1>6, <1>10, <1>11 DEF IInv, Justified
<1> QED
  BY <1>6, <1>7, <1>9, <1>12, <1>13 DEF IInv, ActiveKnown

LEMMA ImportStepReady ==
  ASSUME IInv, TypeOK', LexiconAssumption, NEW i \in Importers,
         ImportStep(i) \/ ImportDies(i) \/ \E f \in Releases : BeginImport(i, f)
  PROVE  IInv'
<1>1. ASSUME NEW f \in Releases, BeginImport(i, f)
      PROVE  IInv'
  <2> DEFINE q == [at |-> "begun", release |-> f, next |-> 1, current |-> {}, batch |-> <<>>,
                   staged |-> Deactivated(stored)]
  <2>1. importer' = [importer EXCEPT ![i] = q] /\ UNCHANGED <<stored, imported, entry, links, reader>>
    BY <1>1 DEF BeginImport
  <2>2. UnderWay(q)
    BY BeginReady
  <2>3. q.at = "begun"
    OBVIOUS
  <2>4. \A j \in Importers : importer[j].at = "idle"
    BY <1>1 DEF BeginImport
  <2> HIDE DEF q
  <2> QED
    BY <2>1, <2>2, <2>3, <2>4, ImporterStep
<1>2. ASSUME importer[i].at # "idle"
      PROVE  \A j \in Importers : j # i => importer[j].at = "idle"
  BY <1>2 DEF IInv, Alone
<1>3. CASE QueueForIndexes(i) \/ DropIndexes(i)
  <2>1. PICK place \in {"queued", "loading"} :
          /\ AtImporter(i, place)
          /\ place = "loading" => \A r \in Readers : reader[r].at # "forms"
    BY <1>3 DEF QueueForIndexes, DropIndexes
  <2> DEFINE q == [importer[i] EXCEPT !.at = place]
  <2>2. importer[i].at # "idle" /\ importer[i] \in Import
    BY <1>3 DEF QueueForIndexes, DropIndexes, IInv, TypeOK
  <2>3. /\ q.at = place /\ q.release = importer[i].release /\ q.next = importer[i].next
        /\ q.current = importer[i].current /\ q.batch = importer[i].batch
        /\ q.staged = importer[i].staged
    BY <2>2 DEF Import
  <2>4. importer' = [importer EXCEPT ![i] = q] /\ UNCHANGED <<stored, imported, entry, links, reader>>
    BY <1>3, <2>1 DEF QueueForIndexes, DropIndexes, AtImporter
  <2> HIDE DEF q
  <2>5. UnderWay(q)
    BY <2>2, <2>3 DEF IInv, UnderWay, Staged, Parsed
  <2> QED
    BY <1>2, <2>1, <2>2, <2>3, <2>4, <2>5, ImporterStep
<1>4. CASE RefuseLine(i) \/ ImportDies(i)
  <2>1. NoImport.at = "idle"
    BY DEF NoImport
  <2>2. importer' = [importer EXCEPT ![i] = NoImport]
        /\ UNCHANGED <<stored, imported, entry, links, reader>>
    BY <1>4 DEF RefuseLine, ImportDies
  <2>3. UnderWay(NoImport)
    BY <2>1 DEF UnderWay
  <2> QED
    BY <2>1, <2>2, <2>3, ImporterStep
<1>5. CASE SkipBlank(i)
  <2> DEFINE q == [importer[i] EXCEPT !.next = importer[i].next + 1]
  <2>1. importer[i] \in Import /\ importer[i].next <= Len(importer[i].release)
        /\ importer[i].at = "loading"
    BY <1>5 DEF SkipBlank, Reading, IInv, TypeOK
  <2>2. /\ q.at = "loading" /\ q.release = importer[i].release /\ q.next = importer[i].next + 1
        /\ q.current = importer[i].current /\ q.batch = importer[i].batch
        /\ q.staged = importer[i].staged
    BY <2>1 DEF Import
  <2>3. importer' = [importer EXCEPT ![i] = q] /\ UNCHANGED <<stored, imported, entry, links, reader>>
    BY <1>5 DEF SkipBlank
  <2>4. Staged(importer[i]) /\ Parsed(importer[i])
    BY <2>1 DEF IInv, UnderWay
  <2>5. importer[i].release[importer[i].next].kind = "blank"
    BY <1>5 DEF SkipBlank, NextLine
  <2> HIDE DEF q
  <2>6. UnderWay(q)
    BY <2>1, <2>2, <2>4, <2>5, SkipBlankReady DEF UnderWay
  <2>7. \A r \in Readers : reader[r].at # "forms"
    BY <2>1 DEF IInv, Apart
  <2> QED
    BY <1>2, <2>1, <2>3, <2>6, <2>7, ImporterStep
<1>6. CASE ReadRecord(i)
  BY <1>6, ReadRecordReady
<1>7. CASE FinishImport(i)
  BY <1>7, FinishImportReady
<1> QED
  BY <1>1, <1>3, <1>4, <1>5, <1>6, <1>7 DEF ImportStep

--------------------------------------------------------------------------------
(* The steps of a reader. *)

(* What a search finds is in the newest release.                            *)
LEMMA HitsAreSaid ==
  ASSUME IInv, imported # <<>>, NEW only \in BOOLEAN
  PROVE  /\ Len(imported) \in 1..Len(imported)
         /\ LemmaHits(only) \subseteq Said(Len(imported), only)
         /\ LemmaHits(only) \subseteq Said(Len(imported), FALSE)
         /\ FormHits(only) \subseteq LemmaHits(only)
<1>1. Len(imported) \in 1..Len(imported)
  BY DEF IInv, TypeOK
<1>2. /\ stored.active = LemmasUpTo(Latest, Len(Latest))
      /\ stored.standard = StandardUpTo(Latest, Len(Latest))
  BY DEF IInv, StoredIsRelease
<1> QED
  BY <1>1, <1>2 DEF LemmaHits, FormHits, Said, Latest

(* One request moves and nothing else does.                                 *)
LEMMA ReaderStep ==
  ASSUME IInv, TypeOK', NEW r \in Readers, NEW q,
         reader' = [reader EXCEPT ![r] = q],
         UNCHANGED <<stored, imported, entry, links, importer>>,
         Searching(q), Answered(q), Linking(q),
         q.at = "forms" => \A i \in Importers : importer[i].at # "loading"
  PROVE  IInv'
<1>1. \A s \in Readers : reader'[s] = IF s = r THEN q ELSE reader[s]
  BY DEF IInv, TypeOK
<1>2. Apart'
  BY <1>1 DEF IInv, Apart
<1>3. \A s \in Readers : (Searching(reader[s]) /\ Answered(reader[s]) /\ Linking(reader[s]))'
  <2>1. \A s \in Readers :
          (Searching(reader[s]) /\ Answered(reader[s]) /\ Linking(reader[s]))' <=>
            Searching(reader'[s]) /\ Answered(reader'[s]) /\ Linking(reader'[s])
    BY DEF Searching, Answered, Linking, LemmaHits, Said, Justified
  <2> QED
    BY <1>1, <2>1 DEF IInv
<1>4. StoredIsRelease' /\ ActiveKnown' /\ Alone'
  BY DEF IInv, StoredIsRelease, Latest, ActiveKnown, Alone
<1>5. \A i \in Importers : UnderWay(importer[i])'
  BY DEF IInv, UnderWay, Staged, Parsed
<1>6. (\A l \in links : entry /\ Justified(l[1], l[2]))'
  BY DEF IInv, Justified, Said
<1> QED
  BY <1>2, <1>3, <1>4, <1>5, <1>6 DEF IInv

LEMMA SearchReady ==
  ASSUME IInv, TypeOK', NEW r \in Readers,
         SearchBegin(r) \/ SearchLemmas(r) \/ SearchForms(r) \/ Answer(r)
  PROVE  IInv'
<1>0. reader[r].only \in BOOLEAN
  BY DEF IInv, TypeOK, Request
<1>1. CASE SearchBegin(r)
  <2>1. PICK only \in BOOLEAN : reader' = [reader EXCEPT ![r] =
          [at |-> "search", only |-> only, found |-> {}, lemma |-> {}, relation |-> "related"]]
    BY <1>1 DEF SearchBegin
  <2> DEFINE q == [at |-> "search", only |-> only, found |-> {}, lemma |-> {},
                   relation |-> "related"]
  <2>2. q.at = "search" /\ imported # <<>> /\ UNCHANGED <<stored, imported, entry, links, importer>>
    BY <1>1 DEF SearchBegin
  <2> HIDE DEF q
  <2>3. Searching(q) /\ Answered(q) /\ Linking(q)
    BY <2>2 DEF Searching, Answered, Linking
  <2> QED
    BY <2>1, <2>2, <2>3, ReaderStep DEF q
<1>2. CASE SearchLemmas(r)
  <2>1. PICK hits \in SUBSET LemmaHits(reader[r].only), place \in {"forms", "answered"} :
          reader' = [reader EXCEPT ![r] = [at |-> place, only |-> reader[r].only, found |-> hits,
                                           lemma |-> {}, relation |-> "related"]]
    BY <1>2 DEF SearchLemmas
  <2> DEFINE q == [at |-> place, only |-> reader[r].only, found |-> hits,
                   lemma |-> {}, relation |-> "related"]
  <2>2. q.at = place /\ q.only = reader[r].only /\ q.found = hits
        /\ reader' = [reader EXCEPT ![r] = q]
    BY <2>1
  <2>3. imported # <<>> /\ UNCHANGED <<stored, imported, entry, links, importer>>
        /\ \A i \in Importers : importer[i].at # "loading"
    BY <1>2 DEF SearchLemmas, IInv, Searching, Locked
  <2> HIDE DEF q
  <2>4. Searching(q) /\ Answered(q) /\ Linking(q)
    BY <1>0, <2>2, <2>3, HitsAreSaid DEF Searching, Answered, Linking
  <2> QED
    BY <2>2, <2>3, <2>4, ReaderStep
<1>3. CASE SearchForms(r)
  <2>1. PICK hits \in SUBSET FormHits(reader[r].only) :
          reader' = [reader EXCEPT ![r] =
            [at |-> "answered", only |-> reader[r].only, found |-> reader[r].found \union hits,
             lemma |-> {}, relation |-> "related"]]
    BY <1>3 DEF SearchForms
  <2> DEFINE q == [at |-> "answered", only |-> reader[r].only,
                   found |-> reader[r].found \union hits, lemma |-> {}, relation |-> "related"]
  <2>2. q.at = "answered" /\ q.only = reader[r].only /\ q.found = reader[r].found \union hits
        /\ reader' = [reader EXCEPT ![r] = q]
    BY <2>1
  <2>3. imported # <<>> /\ UNCHANGED <<stored, imported, entry, links, importer>>
        /\ reader[r].found \subseteq LemmaHits(reader[r].only)
    BY <1>3 DEF SearchForms, IInv, Searching
  <2> HIDE DEF q
  <2>4. q.found \subseteq Said(Len(imported), q.only) /\ Len(imported) \in 1..Len(imported)
    BY <1>0, <2>2, <2>3, HitsAreSaid
  <2>5. Searching(q) /\ Answered(q) /\ Linking(q)
    BY <2>2, <2>4 DEF Searching, Answered, Linking
  <2> QED
    BY <2>2, <2>3, <2>5, ReaderStep
<1>4. CASE Answer(r)
  <2>1. NoRequest.at = "idle"
    BY DEF NoRequest
  <2>2. Searching(NoRequest) /\ Answered(NoRequest) /\ Linking(NoRequest)
    BY <2>1 DEF Searching, Answered, Linking
  <2>3. reader' = [reader EXCEPT ![r] = NoRequest]
        /\ UNCHANGED <<stored, imported, entry, links, importer>>
    BY <1>4 DEF Answer, Leave
  <2> QED
    BY <2>1, <2>2, <2>3, ReaderStep
<1> QED
  BY <1>1, <1>2, <1>3, <1>4

(* A lemma that is active is one the newest release has.                    *)
LEMMA LinkCheckReady ==
  ASSUME IInv, TypeOK', NEW r \in Readers, NEW w \in Words, NEW relation \in Relation,
         LinkCheck(r, w, relation)
  PROVE  IInv'
<1> DEFINE q == [at |-> "link", only |-> FALSE, found |-> {}, lemma |-> {w}, relation |-> relation]
<1>1. q.at = "link" /\ q.lemma = {w} /\ q.relation = relation
      /\ reader' = [reader EXCEPT ![r] = q]
      /\ UNCHANGED <<stored, imported, entry, links, importer>>
  BY DEF LinkCheck
<1>2. w \in stored.known /\ w \in LemmaHits(relation = "standard_equivalent")
  BY DEF LinkCheck, IInv, ActiveKnown, LemmaHits
<1>3. imported # <<>>
  BY DEF LinkCheck, IInv, StoredIsRelease, Empty
<1>4. (relation = "standard_equivalent") \in BOOLEAN
  OBVIOUS
<1>5. Justified(w, relation)
  BY <1>2, <1>3, <1>4, HitsAreSaid DEF Justified
<1> HIDE DEF q
<1>6. Searching(q) /\ Answered(q) /\ Linking(q)
  BY <1>1, <1>5 DEF Searching, Answered, Linking
<1> QED
  BY <1>1, <1>6, ReaderStep

(* A link is written, one is deleted, or all are with their entry.          *)
LEMMA LinkWriteReady ==
  ASSUME IInv, TypeOK', (\E r \in Readers : LinkCommit(r)) \/ DeleteLink \/ DeleteEntry
  PROVE  IInv'
<1>1. UNCHANGED <<stored, imported, importer>>
  BY DEF LinkCommit, DeleteLink, DeleteEntry
<1>2. \A r \in Readers : reader'[r] = reader[r] \/ reader'[r].at = "idle"
  <2>1. NoRequest.at = "idle"
    BY DEF NoRequest
  <2> QED
    BY <2>1 DEF LinkCommit, DeleteLink, DeleteEntry, Leave, IInv, TypeOK
<1>3. \A l \in links' : entry' /\ Justified(l[1], l[2])
  <2>1. ASSUME NEW r \in Readers, LinkCommit(r), entry, NEW l \in links'
        PROVE  entry' /\ Justified(l[1], l[2])
    <3>1. l \in links \/ \E w \in reader[r].lemma : l = <<w, reader[r].relation>>
      BY <2>1 DEF LinkCommit
    <3>2. \A w \in reader[r].lemma : Justified(w, reader[r].relation)
      BY <2>1 DEF LinkCommit, IInv, Linking
    <3>3. entry' = entry
      BY <2>1 DEF LinkCommit
    <3> QED
      BY <2>1, <3>1, <3>2, <3>3 DEF IInv
  <2>2. ASSUME NEW r \in Readers, LinkCommit(r), ~entry, NEW l \in links'
        PROVE  entry' /\ Justified(l[1], l[2])
    BY <2>2 DEF LinkCommit, IInv
  <2>3. CASE DeleteLink
    BY <2>3 DEF DeleteLink, IInv
  <2>4. CASE DeleteEntry
    BY <2>4 DEF DeleteEntry
  <2> QED
    BY <2>1, <2>2, <2>3, <2>4
<1>4. StoredIsRelease' /\ ActiveKnown' /\ Alone'
  BY <1>1 DEF IInv, StoredIsRelease, Latest, ActiveKnown, Alone
<1>5. Apart'
  BY <1>1, <1>2 DEF IInv, Apart
<1>6. \A i \in Importers : UnderWay(importer[i])'
  BY <1>1 DEF IInv, UnderWay, Staged, Parsed
<1>7. \A r \in Readers : (Searching(reader[r]) /\ Answered(reader[r]) /\ Linking(reader[r]))'
  BY <1>1, <1>2 DEF IInv, Searching, Answered, Linking, LemmaHits, Said, Justified
<1>8. (\A l \in links : entry /\ Justified(l[1], l[2]))'
  BY <1>1, <1>3 DEF Justified, Said
<1> QED
  BY <1>4, <1>5, <1>6, <1>7, <1>8 DEF IInv

--------------------------------------------------------------------------------
LEMMA InvInit ==
  ASSUME Init, LexiconAssumption
  PROVE  IInv
<1>1. TypeOK
  BY TypeInit
<1>2. \A i \in Importers : importer[i].at = "idle"
  BY DEF Init, NoImport
<1>3. \A r \in Readers : reader[r].at = "idle"
  BY DEF Init, NoRequest
<1>4. StoredIsRelease /\ ActiveKnown
  BY DEF Init, StoredIsRelease, ActiveKnown, Empty
<1>5. links = {}
  BY DEF Init
<1> QED
  BY <1>1, <1>2, <1>3, <1>4, <1>5
  DEF IInv, Alone, Apart, UnderWay, Searching, Answered, Linking

LEMMA InvStep ==
  ASSUME IInv, LexiconAssumption, [Next]_vars
  PROVE  IInv'
<1>0. TypeOK'
  BY TypeStep DEF IInv
<1>1. CASE UNCHANGED vars
  <2>1. StoredIsRelease' /\ ActiveKnown' /\ Alone' /\ Apart'
    BY <1>1 DEF vars, IInv, StoredIsRelease, Latest, ActiveKnown, Alone, Apart
  <2>2. \A i \in Importers : UnderWay(importer[i])'
    BY <1>1 DEF vars, IInv, UnderWay, Staged, Parsed
  <2>3. \A r \in Readers : (Searching(reader[r]) /\ Answered(reader[r]) /\ Linking(reader[r]))'
    BY <1>1 DEF vars, IInv, Searching, Answered, Linking, LemmaHits, Said, Justified
  <2>4. (\A l \in links : entry /\ Justified(l[1], l[2]))'
    BY <1>1 DEF vars, IInv, Said, Justified
  <2> QED
    BY <1>0, <2>1, <2>2, <2>3, <2>4 DEF IInv
<1>2. ASSUME NEW i \in Importers,
             ImportStep(i) \/ ImportDies(i) \/ \E f \in Releases : BeginImport(i, f)
      PROVE  IInv'
  BY <1>0, <1>2, ImportStepReady
<1>3. ASSUME NEW r \in Readers, SearchBegin(r) \/ SearchLemmas(r) \/ SearchForms(r) \/ Answer(r)
      PROVE  IInv'
  BY <1>0, <1>3, SearchReady
<1>4. ASSUME NEW r \in Readers, NEW w \in Words, NEW relation \in Relation,
             LinkCheck(r, w, relation)
      PROVE  IInv'
  BY <1>0, <1>4, LinkCheckReady
<1>5. CASE (\E r \in Readers : LinkCommit(r)) \/ DeleteLink \/ DeleteEntry
  BY <1>0, <1>5, LinkWriteReady
<1> QED
  BY <1>1, <1>2, <1>3, <1>4, <1>5 DEF Next, ReadStep

LEMMA Invariance == Spec => []IInv
<1>1. Init => IInv
  BY InvInit, LexiconAssumption
<1>2. IInv /\ [Next]_vars => IInv'
  BY InvStep, LexiconAssumption
<1> QED
  BY <1>1, <1>2, PTL DEF Spec

(* The lexicon is what its newest release says, whatever was imported and   *)
(* however the rows were cut into batches.                                  *)
THEOREM ReleaseTrue == Spec => []StoredIsRelease
<1>1. IInv => StoredIsRelease
  BY DEF IInv
<1> QED
  BY <1>1, Invariance, PTL

(* A search answers from one release.                                       *)
THEOREM OneRelease == Spec => []SearchesOneRelease
<1>1. IInv => SearchesOneRelease
  BY DEF IInv, Answered, Said, SearchesOneRelease
<1> QED
  BY <1>1, Invariance, PTL

(* A link was justified by a release, and its entry and lemma are there.    *)
THEOREM LinkJustification == Spec => []LinksJustified
<1>1. IInv => LinksJustified
  BY DEF IInv, Justified, Said, LinksJustified
<1> QED
  BY <1>1, Invariance, PTL

--------------------------------------------------------------------------------
(* Lists and rows. *)

LEMMA ListedParts ==
  ASSUME NEW feed \in CommunityFeeds, NEW c \in feed
  PROVE  /\ c.id \in Gazetteer!CommunityIds /\ c.name \in Gazetteer!CommunityNames
         /\ \A v \in c.villages : <<c.id, v>> \in Gazetteer!Settlements
<1>1. c \in Gazetteer!Listed
  BY DEF Gazetteer!Listed
<1>2. c.villages \subseteq UNION {d.villages : d \in Gazetteer!Listed}
  BY <1>1
<1>3. c.id \in Gazetteer!CommunityIds
  BY <1>1 DEF Gazetteer!CommunityIds
<1> QED
  BY <1>1, <1>2, <1>3 DEF Gazetteer!CommunityNames, Gazetteer!Settlements

LEMMA PlaceOfSettlement ==
  ASSUME NEW s \in Gazetteer!Settlements \union {None}
  PROVE  Gazetteer!Place(s) \in Gazetteer!CommunityIds \union {None}
BY DEF Gazetteer!Place, Gazetteer!Settlements

(* An edit or a new row is a mapping that nobody has confirmed. *)
LEMMA FormRow ==
  ASSUME NEW form \in [label : Labels, settlement : Gazetteer!Settlements \union {None},
                       district : Districts \union {None}],
         NEW place \in Gazetteer!CommunityIds \union {None}
  PROVE  /\ Gazetteer!NewRow(form, place) \in Gazetteer!Mapping
         /\ Gazetteer!NewRow(form, place).status # "confirmed"
         /\ \A row \in Gazetteer!Mapping :
              /\ Gazetteer!EditedRow(row, form, place) \in Gazetteer!Mapping
              /\ Gazetteer!EditedRow(row, form, place).status # "confirmed"
<1> DEFINE status == Gazetteer!StatusOf(form)
<1>1. status \in {"unresolved", "suggested"}
  BY DEF Gazetteer!StatusOf
<1>2. Gazetteer!NewRow(form, place) =
        [label |-> form.label, status |-> status, settlement |-> form.settlement,
         community |-> place, district |-> form.district, confirmed |-> FALSE,
         snapshot |-> None]
  BY DEF Gazetteer!NewRow
<1> HIDE DEF status
<1>3. Gazetteer!NewRow(form, place) \in Gazetteer!Mapping
      /\ Gazetteer!NewRow(form, place).status # "confirmed"
  BY <1>1, <1>2 DEF Gazetteer!Mapping
<1>4. ASSUME NEW row \in Gazetteer!Mapping
      PROVE  /\ Gazetteer!EditedRow(row, form, place) \in Gazetteer!Mapping
             /\ Gazetteer!EditedRow(row, form, place).status # "confirmed"
  <2> DEFINE new == Gazetteer!NewRow(form, place)
  <2>1. row.confirmed \in BOOLEAN /\ row.snapshot \in Gazetteer!Snapshot \union {None}
    BY DEF Gazetteer!Mapping
  <2>2. new \in Gazetteer!Mapping /\ new.status # "confirmed"
    BY <1>3
  <2> HIDE DEF new
  <2>3. Gazetteer!EditedRow(row, form, place) =
          [new EXCEPT !.confirmed = row.confirmed, !.snapshot = row.snapshot]
    BY DEF Gazetteer!EditedRow, new
  <2> QED
    BY <2>1, <2>2, <2>3 DEF Gazetteer!Mapping
<1> QED
  BY <1>3, <1>4

(* A settlement that is taken away leaves a row that explains itself as it is. *)
LEMMA WithdrawnRow ==
  ASSUME NEW row \in Gazetteer!Mapping
  PROVE  /\ [row EXCEPT !.settlement = None] \in Gazetteer!Mapping
         /\ Gazetteer!Explained(row) => Gazetteer!Explained([row EXCEPT !.settlement = None])
BY DEF Gazetteer!Mapping, Gazetteer!Explained

(* What an UPDATE makes of the row that was read, or of it without its settlement. *)
LEMMA MergedRow ==
  ASSUME NEW now \in Gazetteer!Mapping, NEW seen \in Gazetteer!Mapping,
         NEW new \in Gazetteer!Mapping
  PROVE  /\ Gazetteer!Merged(now, seen, new) \in Gazetteer!Mapping
         /\ now \in {seen, [seen EXCEPT !.settlement = None]} /\ Gazetteer!Explained(new) =>
              Gazetteer!Explained(Gazetteer!Merged(now, seen, new))
<1> DEFINE merged == Gazetteer!Merged(now, seen, new)
<1>1. merged \in Gazetteer!Mapping
  BY DEF Gazetteer!Merged, Gazetteer!Mapping
<1>2. ASSUME now = seen
      PROVE  merged = new
  BY <1>2 DEF Gazetteer!Merged, Gazetteer!Mapping
<1>3. ASSUME now = [seen EXCEPT !.settlement = None]
      PROVE  merged \in {new, [new EXCEPT !.settlement = None]}
  BY <1>3 DEF Gazetteer!Merged, Gazetteer!Mapping
<1> QED
  BY <1>1, <1>2, <1>3, WithdrawnRow

--------------------------------------------------------------------------------
(* What a step leaves alone. *)

(* The copy of the gazetteers stays. *)
LEMMA CacheKept ==
  ASSUME Gazetteer!IInv, UNCHANGED Gazetteer!cache
  PROVE  /\ Gazetteer!Placed' /\ Gazetteer!SucceededMeansCached'
         /\ (rows \in [Mappings -> Gazetteer!Mapping \union {None, Gone}])' /\ (received \in Nat)'
            /\ (crossed \subseteq Mappings)' /\ (DOMAIN request = Editors)'
            /\ (\A e \in Editors : request[e] # None => Gazetteer!Holds(request[e]))'
            => Gazetteer!TypeOK'
BY DEF Gazetteer!IInv, Gazetteer!cache, Gazetteer!Placed, Gazetteer!SucceededMeansCached,
       Gazetteer!TypeOK

(* A request takes its next step, or ends, without writing. *)
LEMMA RequestGoesOn ==
  ASSUME Gazetteer!IInv, NEW e \in Editors, NEW q, Gazetteer!Wait(e, q),
         q # None => Gazetteer!Holds(q) /\ Gazetteer!Intends(q),
         UNCHANGED <<rows, crossed, Gazetteer!cache>>,
         received' \in Nat
  PROVE  Gazetteer!IInv'
<1>1. DOMAIN request' = Editors /\ \A f \in Editors : request'[f] = IF f = e THEN q ELSE request[f]
  BY DEF Gazetteer!Wait, Gazetteer!IInv, Gazetteer!TypeOK
<1>2. \A f \in Editors : request'[f] # None => Gazetteer!Holds(request'[f]) /\ Gazetteer!Intends(request'[f])
  BY <1>1 DEF Gazetteer!IInv, Gazetteer!TypeOK, Gazetteer!WritesExplained
<1>3. Gazetteer!TypeOK' /\ Gazetteer!Placed' /\ Gazetteer!SucceededMeansCached'
  <2>1. (\A f \in Editors : request[f] # None => Gazetteer!Holds(request[f]))'
    BY <1>2 DEF Gazetteer!Holds
  <2> QED
    BY <1>1, <2>1, CacheKept DEF Gazetteer!IInv, Gazetteer!TypeOK
<1>4. Gazetteer!WritesExplained'
  BY <1>2 DEF Gazetteer!WritesExplained, Gazetteer!Intends, Gazetteer!Explained
<1>5. Gazetteer!ConfirmedExplained'
  BY DEF Gazetteer!IInv, Gazetteer!ConfirmedExplained, Gazetteer!Explained, Gazetteer!IsRow
<1> QED
  BY <1>3, <1>4, <1>5 DEF Gazetteer!IInv


--------------------------------------------------------------------------------
(* The requests of editors. *)

LEMMA EndsUnwritten ==
  ASSUME Gazetteer!IInv, NEW e \in Editors, Gazetteer!Answered(e),
         UNCHANGED <<rows, crossed, Gazetteer!cache>>
  PROVE  Gazetteer!IInv'
<1>1. Gazetteer!Wait(e, None) /\ received' \in Nat
  BY DEF Gazetteer!Answered, Gazetteer!IInv, Gazetteer!TypeOK
<1> QED
  BY <1>1, RequestGoesOn

LEMMA SubmitStep ==
  ASSUME Gazetteer!IInv, NEW e \in Editors, NEW m \in Mappings \union {None},
         NEW form \in Gazetteer!Form, Gazetteer!Submit(e, m, form)
  PROVE  Gazetteer!IInv'
<1> DEFINE q == [step |-> "resolved", mapping |-> m, form |-> form,
                 place |-> Gazetteer!Place(form.settlement)]
<1>1. form \in [label : Labels, settlement : Gazetteer!Settlements \union {None},
                district : Districts \union {None}]
  BY DEF Gazetteer!Form, Gazetteer!IInv, Gazetteer!TypeOK
<1>2. Gazetteer!Place(form.settlement) \in Gazetteer!CommunityIds \union {None}
  BY <1>1, PlaceOfSettlement
<1>3. Gazetteer!Holds(q) /\ Gazetteer!Intends(q)
  BY <1>1, <1>2 DEF Gazetteer!Holds, Gazetteer!Resolved, Gazetteer!Intends
<1>4. Gazetteer!Wait(e, q) /\ received' \in Nat /\ UNCHANGED <<rows, crossed, Gazetteer!cache>>
  BY DEF Gazetteer!Submit, Gazetteer!Received, Gazetteer!IInv, Gazetteer!TypeOK
<1> QED
  BY <1>3, <1>4, RequestGoesOn

(* A request with rows to write: typed, and explained as far as they are to be. *)
LEMMA ReadyToWrite ==
  ASSUME NEW loaded \in SUBSET Mappings, NEW seen \in [loaded -> Gazetteer!Mapping],
         NEW new \in [loaded -> Gazetteer!Mapping],
         \A m \in loaded \ crossed : Gazetteer!Explained(new[m])
  PROVE  /\ Gazetteer!Holds(Gazetteer!Writing(seen, new))
         /\ Gazetteer!Intends(Gazetteer!Writing(seen, new))
BY DEF Gazetteer!Holds, Gazetteer!Write, Gazetteer!Writing, Gazetteer!Intends

LEMMA ReadyToWriteOne ==
  ASSUME NEW m \in Mappings, NEW seen \in Gazetteer!Mapping, NEW new \in Gazetteer!Mapping,
         m \notin crossed => Gazetteer!Explained(new)
  PROVE  /\ Gazetteer!Holds(Gazetteer!WritingOne(m, seen, new))
         /\ Gazetteer!Intends(Gazetteer!WritingOne(m, seen, new))
<1>1. {m} \in SUBSET Mappings
  OBVIOUS
<1>2. /\ [l \in {m} |-> seen] \in [{m} -> Gazetteer!Mapping]
      /\ [l \in {m} |-> new] \in [{m} -> Gazetteer!Mapping]
  OBVIOUS
<1>3. \A l \in {m} \ crossed : Gazetteer!Explained([k \in {m} |-> new][l])
  OBVIOUS
<1> QED
  BY <1>1, <1>2, <1>3, ReadyToWrite DEF Gazetteer!WritingOne

LEMMA StoredMapping ==
  ASSUME Gazetteer!IInv, NEW m \in Mappings, Gazetteer!IsRow(rows[m])
  PROVE  rows[m] \in Gazetteer!Mapping /\ (m \notin crossed => Gazetteer!Explained(rows[m]))
BY DEF Gazetteer!IInv, Gazetteer!TypeOK, Gazetteer!IsRow, Gazetteer!ConfirmedExplained

LEMMA UpdateMappingStep ==
  ASSUME Gazetteer!IInv, NEW e \in Editors, Gazetteer!Update(e)
  PROVE  Gazetteer!IInv'
<1> DEFINE q == request[e]
           m == q.mapping
           new == Gazetteer!EditedRow(rows[m], q.form, q.place)
<1>1. CASE Gazetteer!Answered(e)
  BY <1>1, EndsUnwritten DEF Gazetteer!Update
<1>2. CASE ~ Gazetteer!Answered(e)
  <2>1. /\ Gazetteer!IsRow(rows[m])
        /\ Gazetteer!Wait(e, Gazetteer!WritingOne(m, rows[m], new))
        /\ received' = received
    BY <1>2 DEF Gazetteer!Update
  <2>2. q \in Gazetteer!Resolved /\ m \in Mappings
    BY DEF Gazetteer!Update, Gazetteer!IInv, Gazetteer!TypeOK, Gazetteer!Holds,
           Gazetteer!Resolved, Gazetteer!Confirming, Gazetteer!Write
  <2>3. rows[m] \in Gazetteer!Mapping
    BY <2>1, <2>2, StoredMapping
  <2>4. new \in Gazetteer!Mapping /\ new.status # "confirmed"
    BY <2>2, <2>3, FormRow DEF Gazetteer!Resolved
  <2>5. /\ Gazetteer!Holds(Gazetteer!WritingOne(m, rows[m], new))
        /\ Gazetteer!Intends(Gazetteer!WritingOne(m, rows[m], new))
    BY <2>2, <2>3, <2>4, ReadyToWriteOne DEF Gazetteer!Explained
  <2>6. received' \in Nat /\ UNCHANGED <<rows, crossed, Gazetteer!cache>>
    BY <2>1 DEF Gazetteer!Update, Gazetteer!IInv, Gazetteer!TypeOK
  <2> QED
    BY <2>1, <2>5, <2>6, RequestGoesOn
<1> QED
  BY <1>1, <1>2

LEMMA UnconfirmStep ==
  ASSUME Gazetteer!IInv, NEW e \in Editors, NEW m \in Mappings, Gazetteer!Unconfirm(e, m)
  PROVE  Gazetteer!IInv'
<1> DEFINE new == [rows[m] EXCEPT !.status = "unresolved", !.confirmed = FALSE]
<1>1. rows[m] \in Gazetteer!Mapping
  BY StoredMapping DEF Gazetteer!Unconfirm
<1>2. new \in Gazetteer!Mapping /\ Gazetteer!Explained(new)
  BY <1>1 DEF Gazetteer!Mapping, Gazetteer!Explained
<1>3. /\ Gazetteer!Holds(Gazetteer!WritingOne(m, rows[m], new))
      /\ Gazetteer!Intends(Gazetteer!WritingOne(m, rows[m], new))
  BY <1>1, <1>2, ReadyToWriteOne
<1>4. /\ Gazetteer!Wait(e, Gazetteer!WritingOne(m, rows[m], new))
      /\ received' \in Nat /\ UNCHANGED <<rows, crossed, Gazetteer!cache>>
  BY DEF Gazetteer!Unconfirm, Gazetteer!Received, Gazetteer!IInv, Gazetteer!TypeOK
<1> QED
  BY <1>3, <1>4, RequestGoesOn

(* The community's mappings change their district and nothing else. *)
LEMMA SetDistrictStep ==
  ASSUME Gazetteer!IInv, NEW e \in Editors, NEW c \in DOMAIN communities,
         NEW d \in Districts \union {None}, Gazetteer!SetDistrictForCommunity(e, c, d)
  PROVE  Gazetteer!IInv'
<1> DEFINE loaded == {m \in Mappings : /\ Gazetteer!IsRow(rows[m]) /\ rows[m].community = c
                                       /\ rows[m].district # d}
           seen == [m \in loaded |-> rows[m]]
           new == [m \in loaded |-> [rows[m] EXCEPT !.district = d]]
<1>1. ASSUME NEW m \in loaded
      PROVE  /\ rows[m] \in Gazetteer!Mapping /\ new[m] \in Gazetteer!Mapping
             /\ m \notin crossed => Gazetteer!Explained(new[m])
  <2>1. rows[m] \in Gazetteer!Mapping /\ (m \notin crossed => Gazetteer!Explained(rows[m]))
    BY StoredMapping
  <2> QED
    BY <2>1 DEF Gazetteer!Mapping, Gazetteer!Explained
<1>2. seen \in [loaded -> Gazetteer!Mapping] /\ new \in [loaded -> Gazetteer!Mapping]
  BY <1>1
<1>3. /\ Gazetteer!Wait(e, Gazetteer!Writing(seen, new))
      /\ received' \in Nat /\ UNCHANGED <<rows, crossed, Gazetteer!cache>>
  BY DEF Gazetteer!SetDistrictForCommunity, Gazetteer!Received, Gazetteer!IInv, Gazetteer!TypeOK
<1>4. loaded \in SUBSET Mappings
  OBVIOUS
<1>5. \A m \in loaded \ crossed : Gazetteer!Explained(new[m])
  BY <1>1
<1> HIDE DEF loaded, seen, new
<1>6. Gazetteer!Holds(Gazetteer!Writing(seen, new)) /\ Gazetteer!Intends(Gazetteer!Writing(seen, new))
  BY <1>2, <1>4, <1>5, ReadyToWrite
<1> QED
  BY <1>3, <1>6, RequestGoesOn

LEMMA ConfirmStep ==
  ASSUME Gazetteer!IInv, NEW e \in Editors, NEW m \in Mappings, Gazetteer!Confirm(e, m)
  PROVE  Gazetteer!IInv'
<1> DEFINE q == [step |-> "confirming", mapping |-> m, seen |-> rows[m]]
<1>1. rows[m] \in Gazetteer!Mapping
  BY StoredMapping DEF Gazetteer!Confirm
<1>2. Gazetteer!Holds(q) /\ Gazetteer!Intends(q)
  BY <1>1 DEF Gazetteer!Holds, Gazetteer!Confirming, Gazetteer!Intends
<1>3. Gazetteer!Wait(e, q) /\ received' \in Nat /\ UNCHANGED <<rows, crossed, Gazetteer!cache>>
  BY DEF Gazetteer!Confirm, Gazetteer!Received, Gazetteer!IInv, Gazetteer!TypeOK
<1> QED
  BY <1>2, <1>3, RequestGoesOn

(* The hierarchy that is read is the one of the settlement that was read. *)
LEMMA ConfirmedRowExplained ==
  ASSUME Gazetteer!IInv, NEW seen \in Gazetteer!Mapping, seen.settlement \in settlements
  PROVE  /\ Gazetteer!ConfirmedRow(seen, seen.settlement[1]) \in Gazetteer!Mapping
         /\ Gazetteer!Explained(Gazetteer!ConfirmedRow(seen, seen.settlement[1]))
<1> DEFINE c == seen.settlement[1]
           taken == [community |-> c, name |-> communities[c].name]
<1>1. c \in DOMAIN communities /\ c \in Gazetteer!CommunityIds
  BY DEF Gazetteer!IInv, Gazetteer!Placed, Gazetteer!TypeOK, Gazetteer!Settlements
<1>2. taken \in Gazetteer!Snapshot
  BY <1>1 DEF Gazetteer!IInv, Gazetteer!TypeOK, Gazetteer!Snapshot
<1>3. taken # None
  BY <1>2, FeedsAndForms DEF Gazetteer!FeedAssumption
<1> QED
  BY <1>1, <1>2, <1>3 DEF Gazetteer!ConfirmedRow, Gazetteer!Mapping, Gazetteer!Explained

LEMMA ReadHierarchyStep ==
  ASSUME Gazetteer!IInv, NEW e \in Editors, Gazetteer!ReadHierarchy(e)
  PROVE  Gazetteer!IInv'
<1> DEFINE q == request[e]
           new == Gazetteer!ConfirmedRow(q.seen, q.seen.settlement[1])
<1>1. CASE Gazetteer!Answered(e)
  BY <1>1, EndsUnwritten DEF Gazetteer!ReadHierarchy
<1>2. CASE ~ Gazetteer!Answered(e)
  <2>1. /\ q.seen.settlement \in settlements
        /\ Gazetteer!Wait(e, Gazetteer!WritingOne(q.mapping, q.seen, new))
        /\ received' = received
    BY <1>2 DEF Gazetteer!ReadHierarchy
  <2>2. q \in Gazetteer!Confirming
    BY DEF Gazetteer!ReadHierarchy, Gazetteer!IInv, Gazetteer!TypeOK, Gazetteer!Holds,
           Gazetteer!Resolved, Gazetteer!Confirming, Gazetteer!Write
  <2>3. q.mapping \in Mappings /\ q.seen \in Gazetteer!Mapping
    BY <2>2 DEF Gazetteer!Confirming
  <2>4. new \in Gazetteer!Mapping /\ Gazetteer!Explained(new)
    BY <2>1, <2>3, ConfirmedRowExplained
  <2>5. /\ Gazetteer!Holds(Gazetteer!WritingOne(q.mapping, q.seen, new))
        /\ Gazetteer!Intends(Gazetteer!WritingOne(q.mapping, q.seen, new))
    BY <2>3, <2>4, ReadyToWriteOne
  <2>6. received' \in Nat /\ UNCHANGED <<rows, crossed, Gazetteer!cache>>
    BY <2>1 DEF Gazetteer!ReadHierarchy, Gazetteer!IInv, Gazetteer!TypeOK
  <2> QED
    BY <2>1, <2>5, <2>6, RequestGoesOn
<1> QED
  BY <1>1, <1>2


--------------------------------------------------------------------------------
(* The writes of editors. *)

(* Rows change while no request takes on anything new. *)
LEMMA RowsChange ==
  ASSUME Gazetteer!IInv, UNCHANGED Gazetteer!cache, received' \in Nat,
         rows' \in [Mappings -> Gazetteer!Mapping \union {None, Gone}],
         crossed \subseteq crossed', crossed' \subseteq Mappings,
         DOMAIN request' = Editors,
         \A e \in Editors : request'[e] \in {None, request[e]},
         \A m \in Mappings \ crossed' : Gazetteer!IsRow(rows'[m]) => Gazetteer!Explained(rows'[m])
  PROVE  Gazetteer!IInv'
<1>1. \A e \in Editors : request'[e] # None =>
        Gazetteer!Holds(request'[e]) /\ Gazetteer!Intends(request'[e])
  BY DEF Gazetteer!IInv, Gazetteer!TypeOK, Gazetteer!WritesExplained
<1>2. \A e \in Editors : request'[e] # None => Gazetteer!Holds(request[e])'
  BY <1>1 DEF Gazetteer!Holds
<1>3. \A e \in Editors : request'[e] # None => Gazetteer!Intends(request[e])'
  BY <1>1 DEF Gazetteer!Intends, Gazetteer!Explained
<1>4. Gazetteer!TypeOK' /\ Gazetteer!Placed' /\ Gazetteer!SucceededMeansCached'
  BY <1>2, CacheKept
<1>5. Gazetteer!WritesExplained'
  BY <1>3 DEF Gazetteer!WritesExplained
<1>6. Gazetteer!ConfirmedExplained'
  BY DEF Gazetteer!ConfirmedExplained, Gazetteer!Explained, Gazetteer!IsRow
<1> QED
  BY <1>4, <1>5, <1>6 DEF Gazetteer!IInv

LEMMA Ended ==
  ASSUME Gazetteer!IInv, NEW e \in Editors, Gazetteer!Answered(e)
  PROVE  /\ received' \in Nat /\ DOMAIN request' = Editors
         /\ \A f \in Editors : request'[f] \in {None, request[f]}
BY DEF Gazetteer!Answered, Gazetteer!Wait, Gazetteer!IInv, Gazetteer!TypeOK

LEMMA CreateMappingStep ==
  ASSUME Gazetteer!IInv, NEW e \in Editors, Gazetteer!Create(e)
  PROVE  Gazetteer!IInv'
<1> DEFINE q == request[e]
           new == Gazetteer!NewRow(q.form, q.place)
<1>1. q \in Gazetteer!Resolved
  BY DEF Gazetteer!Create, Gazetteer!IInv, Gazetteer!TypeOK, Gazetteer!Holds,
         Gazetteer!Resolved, Gazetteer!Confirming, Gazetteer!Write
<1>2. new \in Gazetteer!Mapping /\ new.status # "confirmed"
  BY <1>1, FormRow DEF Gazetteer!Resolved
<1>3. CASE UNCHANGED rows
  BY <1>3, EndsUnwritten DEF Gazetteer!Create
<1>4. ASSUME NEW m \in Mappings, rows' = [rows EXCEPT ![m] = new]
      PROVE  Gazetteer!IInv'
  <2>1. rows' \in [Mappings -> Gazetteer!Mapping \union {None, Gone}]
    BY <1>2, <1>4 DEF Gazetteer!IInv, Gazetteer!TypeOK
  <2>2. \A l \in Mappings \ crossed : Gazetteer!IsRow(rows'[l]) => Gazetteer!Explained(rows'[l])
    BY <1>2, <1>4 DEF Gazetteer!IInv, Gazetteer!TypeOK, Gazetteer!ConfirmedExplained,
                      Gazetteer!Explained
  <2>3. Gazetteer!Answered(e) /\ UNCHANGED <<crossed, Gazetteer!cache>>
    BY DEF Gazetteer!Create
  <2> QED
    BY <2>1, <2>2, <2>3, Ended, RowsChange DEF Gazetteer!IInv, Gazetteer!TypeOK
<1> QED
  BY <1>3, <1>4 DEF Gazetteer!Create

(* What a request wrote is explained unless it overwrote what it had not read, and   *)
(* then the mapping counts as crossed.                                           *)
LEMMA CommitStep ==
  ASSUME Gazetteer!IInv, NEW e \in Editors, Gazetteer!Commit(e)
  PROVE  Gazetteer!IInv'
<1> DEFINE seen == request[e].seen
           new == request[e].new
           loaded == DOMAIN seen
           written(m) == Gazetteer!Merged(rows[m], seen[m], new[m])
           overwritten == {m \in loaded : rows[m] \notin {seen[m], [seen[m] EXCEPT !.settlement = None]}}
<1>1. Gazetteer!Answered(e) /\ UNCHANGED Gazetteer!cache
  BY DEF Gazetteer!Commit
<1>2. CASE UNCHANGED <<rows, crossed>>
  BY <1>1, <1>2, EndsUnwritten
<1>3. CASE /\ \A m \in loaded : Gazetteer!IsRow(rows[m])
           /\ rows' = [m \in Mappings |-> IF m \in loaded THEN written(m) ELSE rows[m]]
           /\ crossed' = crossed \union overwritten
  <2>1. PICK L \in SUBSET Mappings : request[e] \in Gazetteer!Write(L)
    BY DEF Gazetteer!Commit, Gazetteer!IInv, Gazetteer!TypeOK, Gazetteer!Holds,
           Gazetteer!Resolved, Gazetteer!Confirming
  <2>2. loaded = L /\ DOMAIN new = L /\ \A m \in L : seen[m] \in Gazetteer!Mapping /\ new[m] \in Gazetteer!Mapping
    BY <2>1 DEF Gazetteer!Write
  <2>3. \A m \in L \ crossed : Gazetteer!Explained(new[m])
    BY <2>2 DEF Gazetteer!Commit, Gazetteer!IInv, Gazetteer!WritesExplained, Gazetteer!Intends
  <2>4. ASSUME NEW m \in Mappings
        PROVE  /\ rows'[m] \in Gazetteer!Mapping \union {None, Gone}
               /\ m \notin crossed' /\ Gazetteer!IsRow(rows'[m]) => Gazetteer!Explained(rows'[m])
    <3>1. CASE m \notin loaded
      BY <1>3, <3>1 DEF Gazetteer!IInv, Gazetteer!TypeOK, Gazetteer!ConfirmedExplained
    <3>2. CASE m \in loaded
      <4>1. rows[m] \in Gazetteer!Mapping
        BY <1>3, <3>2, StoredMapping
      <4>2. rows'[m] = written(m)
        BY <1>3, <3>2
      <4>3. m \notin crossed' =>
              rows[m] \in {seen[m], [seen[m] EXCEPT !.settlement = None]} /\ Gazetteer!Explained(new[m])
        BY <1>3, <2>2, <2>3, <3>2
      <4>4. seen[m] \in Gazetteer!Mapping /\ new[m] \in Gazetteer!Mapping
        BY <2>2, <3>2
      <4> QED
        BY <4>1, <4>2, <4>3, <4>4, MergedRow
    <3> QED
      BY <3>1, <3>2
  <2>5. rows' \in [Mappings -> Gazetteer!Mapping \union {None, Gone}]
    BY <1>3, <2>4
  <2>6. crossed \subseteq crossed' /\ crossed' \subseteq Mappings
    BY <1>3, <2>2 DEF Gazetteer!IInv, Gazetteer!TypeOK
  <2> QED
    BY <1>1, <2>4, <2>5, <2>6, Ended, RowsChange
<1> QED
  BY <1>2, <1>3 DEF Gazetteer!Commit

LEMMA DeleteMappingStep ==
  ASSUME Gazetteer!IInv, NEW m \in Mappings, Gazetteer!Delete(m)
  PROVE  Gazetteer!IInv'
<1>1. rows' = [rows EXCEPT ![m] = Gone] /\ received' \in Nat
      /\ UNCHANGED <<request, crossed, Gazetteer!cache>>
  BY DEF Gazetteer!Delete, Gazetteer!Served, Gazetteer!IInv, Gazetteer!TypeOK
<1>2. rows' \in [Mappings -> Gazetteer!Mapping \union {None, Gone}]
  BY <1>1 DEF Gazetteer!IInv, Gazetteer!TypeOK
<1>3. \A l \in Mappings \ crossed : Gazetteer!IsRow(rows'[l]) => Gazetteer!Explained(rows'[l])
  BY <1>1 DEF Gazetteer!IInv, Gazetteer!TypeOK, Gazetteer!ConfirmedExplained, Gazetteer!IsRow
<1> QED
  BY <1>1, <1>2, <1>3, RowsChange DEF Gazetteer!IInv, Gazetteer!TypeOK

LEMMA ImportLabelsStep ==
  ASSUME Gazetteer!IInv, NEW labels \in SUBSET Labels, Gazetteer!Import(labels)
  PROVE  Gazetteer!IInv'
<1> DEFINE new == {l \in labels : ~ Gazetteer!Duplicate(l, None, Mappings)}
           form(id, m, d) == [label |-> CHOOSE l \in new : id[l] = m, settlement |-> None,
                              district |-> d]
<1>1. PICK id \in [new -> {m \in Mappings : rows[m] = None}], d \in Districts \union {None} :
        rows' = [m \in Mappings |-> IF \E l \in new : id[l] = m
                                    THEN Gazetteer!NewRow(form(id, m, d), None) ELSE rows[m]]
  BY DEF Gazetteer!Import
<1>2. received' \in Nat /\ UNCHANGED <<request, crossed, Gazetteer!cache>>
  BY DEF Gazetteer!Import, Gazetteer!Served, Gazetteer!IInv, Gazetteer!TypeOK
<1>3. ASSUME NEW m \in Mappings
      PROVE  /\ rows'[m] \in Gazetteer!Mapping \union {None, Gone}
             /\ m \notin crossed /\ Gazetteer!IsRow(rows'[m]) => Gazetteer!Explained(rows'[m])
  <2>1. CASE ~ \E l \in new : id[l] = m
    BY <1>1, <2>1 DEF Gazetteer!IInv, Gazetteer!TypeOK, Gazetteer!ConfirmedExplained
  <2>2. CASE \E l \in new : id[l] = m
    <3>1. (CHOOSE l \in new : id[l] = m) \in Labels
      BY <2>2
    <3>2. form(id, m, d) \in [label : Labels, settlement : Gazetteer!Settlements \union {None},
                              district : Districts \union {None}]
      BY <3>1
    <3>3. rows'[m] = Gazetteer!NewRow(form(id, m, d), None)
      BY <1>1, <2>2
    <3> HIDE DEF form
    <3>4. rows'[m] \in Gazetteer!Mapping /\ rows'[m].status # "confirmed"
      BY <3>2, <3>3, FormRow
    <3> QED
      BY <3>4 DEF Gazetteer!Explained
  <2> QED
    BY <2>1, <2>2
<1>4. rows' \in [Mappings -> Gazetteer!Mapping \union {None, Gone}]
  BY <1>1, <1>3
<1> QED
  BY <1>2, <1>3, <1>4, RowsChange DEF Gazetteer!IInv, Gazetteer!TypeOK


--------------------------------------------------------------------------------
(* The synchronisation. *)

LEMMA OutcomeTyped ==
  ASSUME NEW listed, NEW synced
  PROVE  Gazetteer!Outcome(listed, synced) \in {"succeeded", "partial", "failed"}
BY DEF Gazetteer!Outcome

(* All it touches is its own phase, its runs, areas and regions. *)
LEMMA UpperLevels ==
  ASSUME Gazetteer!IInv,
         UNCHANGED <<communities, settlements, fetched, rows, request, received, crossed>>,
         areas' \subseteq Gazetteer!AreaIds, DOMAIN regions' \subseteq Gazetteer!RegionIds,
         phase' \in {"idle"} \union Gazetteer!EntityType, syncs' \in Nat,
         runs' \in [Gazetteer!EntityType -> {"none", "succeeded", "partial", "failed"}],
         runs'["community"] \in {"none", "failed", runs["community"]}
  PROVE  Gazetteer!IInv'
<1>1. Gazetteer!TypeOK'
  BY DEF Gazetteer!IInv, Gazetteer!TypeOK, Gazetteer!Holds
<1>2. Gazetteer!Placed' /\ Gazetteer!SucceededMeansCached'
  BY DEF Gazetteer!IInv, Gazetteer!Placed, Gazetteer!SucceededMeansCached
<1>3. Gazetteer!ConfirmedExplained' /\ Gazetteer!WritesExplained'
  BY DEF Gazetteer!IInv, Gazetteer!ConfirmedExplained, Gazetteer!WritesExplained,
         Gazetteer!Intends, Gazetteer!Explained, Gazetteer!IsRow
<1> QED
  BY <1>1, <1>2, <1>3 DEF Gazetteer!IInv

LEMMA StartSyncStep ==
  ASSUME Gazetteer!IInv, Gazetteer!StartSync
  PROVE  Gazetteer!IInv'
<1>1. /\ runs' = [t \in Gazetteer!EntityType |-> "none"] /\ phase' = "area" /\ syncs' = syncs + 1
      /\ UNCHANGED <<areas, regions, communities, settlements, fetched, rows, request,
                     received, crossed>>
  BY DEF Gazetteer!StartSync, Gazetteer!mappings
<1> QED
  BY <1>1, UpperLevels DEF Gazetteer!IInv, Gazetteer!TypeOK, Gazetteer!EntityType

LEMMA RecordedRun ==
  ASSUME Gazetteer!IInv, NEW type \in Gazetteer!EntityType,
         NEW status \in {"succeeded", "partial", "failed"}, Gazetteer!Recorded(type, status)
  PROVE  /\ runs' \in [Gazetteer!EntityType -> {"none", "succeeded", "partial", "failed"}]
         /\ runs'[type] = status
         /\ type # "community" => runs'["community"] = runs["community"]
BY DEF Gazetteer!Recorded, Gazetteer!IInv, Gazetteer!TypeOK, Gazetteer!EntityType

LEMMA SyncAreasStep ==
  ASSUME Gazetteer!IInv, Gazetteer!SyncAreas
  PROVE  Gazetteer!IInv'
<1>1. PICK listed \in Gazetteer!Answers(AreaFeeds) :
        IF listed = None
        THEN Gazetteer!RecordFailedRun("area") /\ UNCHANGED areas
        ELSE /\ areas' = areas \union {a.id : a \in Gazetteer!ParsedAreas(listed)}
             /\ Gazetteer!Recorded("area", Gazetteer!Outcome(listed, Gazetteer!ParsedAreas(listed)))
  BY DEF Gazetteer!SyncAreas
<1>2. phase' = "region" /\ UNCHANGED <<regions, communities, settlements, fetched, syncs,
                                       rows, request, received, crossed>>
  BY DEF Gazetteer!SyncAreas, Gazetteer!mappings
<1>3. areas' \subseteq Gazetteer!AreaIds
  BY <1>1 DEF Gazetteer!Answers, Gazetteer!ParsedAreas, Gazetteer!AreaIds, Gazetteer!IInv,
              Gazetteer!TypeOK
<1>4. \E status \in {"succeeded", "partial", "failed"} : Gazetteer!Recorded("area", status)
  BY <1>1, OutcomeTyped DEF Gazetteer!RecordFailedRun
<1>5. /\ runs' \in [Gazetteer!EntityType -> {"none", "succeeded", "partial", "failed"}]
      /\ runs'["community"] = runs["community"]
  BY <1>4, RecordedRun DEF Gazetteer!EntityType
<1> QED
  BY <1>2, <1>3, <1>5, UpperLevels DEF Gazetteer!IInv, Gazetteer!TypeOK, Gazetteer!EntityType

LEMMA SyncRegionsStep ==
  ASSUME Gazetteer!IInv, Gazetteer!SyncRegions
  PROVE  Gazetteer!IInv'
<1> DEFINE parsed(listed) == Gazetteer!ParsedRegions(listed)
           upserted(listed) == [i \in {r.id : r \in parsed(listed)} |->
                                  (CHOOSE r \in parsed(listed) : r.id = i).area]
<1>1. PICK listed \in Gazetteer!Answers(RegionFeeds) :
        IF listed = None
        THEN Gazetteer!RecordFailedRun("region") /\ UNCHANGED regions
        ELSE /\ regions' = Gazetteer!Upserted(regions, upserted(listed))
             /\ Gazetteer!Recorded("region", Gazetteer!Outcome(listed, parsed(listed)))
  BY DEF Gazetteer!SyncRegions
<1>2. phase' = "community" /\ UNCHANGED <<areas, communities, settlements, fetched, syncs,
                                          rows, request, received, crossed>>
  BY DEF Gazetteer!SyncRegions, Gazetteer!mappings
<1>3. DOMAIN regions' \subseteq Gazetteer!RegionIds
  <2>1. CASE listed = None
    BY <1>1, <2>1 DEF Gazetteer!IInv, Gazetteer!TypeOK
  <2>2. CASE listed # None
    <3>1. DOMAIN regions' = DOMAIN regions \union {r.id : r \in parsed(listed)}
      BY <1>1, <2>2 DEF Gazetteer!Upserted
    <3>2. {r.id : r \in parsed(listed)} \subseteq Gazetteer!RegionIds
      BY <2>2 DEF Gazetteer!Answers, Gazetteer!ParsedRegions, Gazetteer!RegionIds
    <3> QED
      BY <3>1, <3>2 DEF Gazetteer!IInv, Gazetteer!TypeOK
  <2> QED
    BY <2>1, <2>2
<1>4. \E status \in {"succeeded", "partial", "failed"} : Gazetteer!Recorded("region", status)
  BY <1>1, OutcomeTyped DEF Gazetteer!RecordFailedRun
<1>5. /\ runs' \in [Gazetteer!EntityType -> {"none", "succeeded", "partial", "failed"}]
      /\ runs'["community"] = runs["community"]
  BY <1>4, RecordedRun DEF Gazetteer!EntityType
<1> QED
  BY <1>2, <1>3, <1>5, UpperLevels DEF Gazetteer!IInv, Gazetteer!TypeOK, Gazetteer!EntityType

(* The communities of a list that gets through: their rows and villages are those of  *)
(* the list, and what is stale belongs to one of them.                             *)
LEMMA ListStored ==
  ASSUME Gazetteer!IInv, NEW listed \in CommunityFeeds, NEW parsed \in SUBSET listed,
         communities' = Gazetteer!Upserted(communities,
           [i \in {c.id : c \in parsed} |->
              Gazetteer!CommunityRow(CHOOSE c \in parsed : c.id = i)]),
         settlements' = (settlements \ Gazetteer!StaleSettlements(parsed))
                          \union Gazetteer!Villages(parsed)
  PROVE  /\ DOMAIN communities' \subseteq Gazetteer!CommunityIds
         /\ \A c \in DOMAIN communities' : communities'[c].name \in Gazetteer!CommunityNames
         /\ settlements' \subseteq Gazetteer!Settlements /\ Gazetteer!Placed'
         /\ \A c \in parsed :
              /\ c.id \in DOMAIN communities' /\ communities'[c.id] = Gazetteer!CommunityRow(c)
              /\ {s \in settlements' : s[1] = c.id} = {<<c.id, v>> : v \in c.villages}
<1> DEFINE chosen(i) == CHOOSE c \in parsed : c.id = i
           new == [i \in {c.id : c \in parsed} |-> Gazetteer!CommunityRow(chosen(i))]
<1>1. \A c \in parsed : chosen(c.id) = c
  <2>1. \A c, d \in parsed : c.id = d.id => c = d
    BY FeedsAndForms DEF Gazetteer!FeedAssumption
  <2> QED
    BY <2>1
<1> HIDE DEF chosen
<1>2. /\ DOMAIN communities' = DOMAIN communities \union {c.id : c \in parsed}
      /\ \A c \in parsed : communities'[c.id] = Gazetteer!CommunityRow(c)
      /\ \A i \in DOMAIN communities \ {c.id : c \in parsed} : communities'[i] = communities[i]
  BY <1>1 DEF Gazetteer!Upserted, chosen
<1>3. \A c \in parsed : c.id \in Gazetteer!CommunityIds /\ c.name \in Gazetteer!CommunityNames
  BY ListedParts
<1>4. Gazetteer!Villages(parsed) \subseteq Gazetteer!Settlements
  BY ListedParts DEF Gazetteer!Villages
<1>5. \A i \in DOMAIN communities' : communities'[i].name \in Gazetteer!CommunityNames
  <2>1. ASSUME NEW c \in parsed
        PROVE  communities'[c.id].name \in Gazetteer!CommunityNames
    <3>1. communities'[c.id] = Gazetteer!CommunityRow(c)
      BY <1>2
    <3>2. Gazetteer!CommunityRow(c).name = c.name
      BY DEF Gazetteer!CommunityRow
    <3> QED
      BY <1>3, <3>1, <3>2
  <2>2. ASSUME NEW i \in DOMAIN communities \ {c.id : c \in parsed}
        PROVE  communities'[i].name \in Gazetteer!CommunityNames
    BY <1>2 DEF Gazetteer!IInv, Gazetteer!TypeOK
  <2> QED
    BY <1>2, <2>1, <2>2
<1>6. Gazetteer!Placed'
  <2>1. \A s \in Gazetteer!Villages(parsed) : s[1] \in {c.id : c \in parsed}
    BY DEF Gazetteer!Villages
  <2> QED
    BY <1>2, <2>1 DEF Gazetteer!Placed, Gazetteer!IInv
<1>7. ASSUME NEW c \in parsed
      PROVE  {s \in settlements' : s[1] = c.id} = {<<c.id, v>> : v \in c.villages}
  <2>1. ASSUME NEW s \in settlements', s[1] = c.id
        PROVE  s \in {<<c.id, v>> : v \in c.villages}
    <3>1. s \in Gazetteer!Settlements
      BY <1>4 DEF Gazetteer!IInv, Gazetteer!TypeOK
    <3>2. s = <<c.id, s[2]>>
      BY <2>1, <3>1 DEF Gazetteer!Settlements
    <3>3. CASE s \in settlements \ Gazetteer!StaleSettlements(parsed)
      <4>1. s[2] \in c.villages
        BY <2>1, <3>3 DEF Gazetteer!StaleSettlements
      <4> QED
        BY <3>2, <4>1
    <3>4. CASE s \in Gazetteer!Villages(parsed)
      <4>1. PICK d \in parsed : \E v \in d.villages : s = <<d.id, v>>
        BY <3>4 DEF Gazetteer!Villages
      <4>2. d = c
        BY <1>1, <2>1, <4>1
      <4> QED
        BY <4>1, <4>2
    <3> QED
      BY <3>3, <3>4
  <2>2. ASSUME NEW v \in c.villages
        PROVE  <<c.id, v>> \in settlements'
    BY DEF Gazetteer!Villages
  <2> QED
    BY <2>1, <2>2
<1> QED
  BY <1>2, <1>3, <1>4, <1>5, <1>6, <1>7 DEF Gazetteer!IInv, Gazetteer!TypeOK

LEMMA WithdrawnRows ==
  ASSUME Gazetteer!IInv, NEW deleted, Gazetteer!SetNull(deleted), UNCHANGED crossed
  PROVE  /\ rows' \in [Mappings -> Gazetteer!Mapping \union {None, Gone}]
         /\ Gazetteer!ConfirmedExplained'
<1>1. ASSUME NEW m \in Mappings
      PROVE  \/ rows'[m] = rows[m]
             \/ Gazetteer!IsRow(rows[m]) /\ rows'[m] = [rows[m] EXCEPT !.settlement = None]
  BY DEF Gazetteer!SetNull
<1>2. ASSUME NEW m \in Mappings
      PROVE  /\ rows'[m] \in Gazetteer!Mapping \union {None, Gone}
             /\ m \notin crossed /\ Gazetteer!IsRow(rows'[m]) => Gazetteer!Explained(rows'[m])
  <2>1. CASE rows'[m] = rows[m]
    BY <2>1 DEF Gazetteer!IInv, Gazetteer!TypeOK, Gazetteer!ConfirmedExplained
  <2>2. CASE Gazetteer!IsRow(rows[m]) /\ rows'[m] = [rows[m] EXCEPT !.settlement = None]
    BY <2>2, StoredMapping, WithdrawnRow
  <2> QED
    BY <1>1, <2>1, <2>2
<1>3. rows' \in [Mappings -> Gazetteer!Mapping \union {None, Gone}]
  BY <1>2 DEF Gazetteer!SetNull
<1> QED
  BY <1>2, <1>3 DEF Gazetteer!ConfirmedExplained, Gazetteer!Explained, Gazetteer!IsRow

LEMMA SyncCommunitiesStep ==
  ASSUME Gazetteer!IInv, Gazetteer!SyncCommunities
  PROVE  Gazetteer!IInv'
<1> DEFINE Synced(listed, parsed) ==
      /\ communities' = Gazetteer!Upserted(communities,
           [i \in {c.id : c \in parsed} |->
              Gazetteer!CommunityRow(CHOOSE c \in parsed : c.id = i)])
      /\ settlements' = (settlements \ Gazetteer!StaleSettlements(parsed))
                          \union Gazetteer!Villages(parsed)
      /\ Gazetteer!SetNull(Gazetteer!StaleSettlements(parsed))
      /\ fetched' = listed
      /\ Gazetteer!Recorded("community", Gazetteer!Outcome(listed, parsed))
<1>1. phase' = "idle" /\ UNCHANGED <<areas, regions, syncs, request, received, crossed>>
  BY DEF Gazetteer!SyncCommunities
<1>2. \/ /\ Gazetteer!RecordFailedRun("community") \/ UNCHANGED runs
         /\ UNCHANGED <<communities, settlements, fetched, rows>>
      \/ \E listed \in CommunityFeeds : Synced(listed, Gazetteer!ParsedCommunities(listed))
  BY DEF Gazetteer!SyncCommunities, Gazetteer!Answers
<1>3. ASSUME Gazetteer!RecordFailedRun("community") \/ UNCHANGED runs,
             UNCHANGED <<communities, settlements, fetched, rows>>
      PROVE  Gazetteer!IInv'
  <2>1. /\ runs' \in [Gazetteer!EntityType -> {"none", "succeeded", "partial", "failed"}]
        /\ runs'["community"] \in {"failed", runs["community"]}
    BY <1>3, RecordedRun DEF Gazetteer!RecordFailedRun, Gazetteer!EntityType, Gazetteer!IInv,
                             Gazetteer!TypeOK
  <2> QED
    BY <1>1, <1>3, <2>1, UpperLevels DEF Gazetteer!IInv, Gazetteer!TypeOK
<1>4. ASSUME NEW listed \in CommunityFeeds, Synced(listed, Gazetteer!ParsedCommunities(listed))
      PROVE  Gazetteer!IInv'
  <2> DEFINE parsed == Gazetteer!ParsedCommunities(listed)
  <2>1. parsed \in SUBSET listed
    BY DEF Gazetteer!ParsedCommunities
  <2>2. /\ DOMAIN communities' \subseteq Gazetteer!CommunityIds
        /\ \A c \in DOMAIN communities' : communities'[c].name \in Gazetteer!CommunityNames
        /\ settlements' \subseteq Gazetteer!Settlements /\ Gazetteer!Placed'
        /\ \A c \in parsed :
             /\ c.id \in DOMAIN communities' /\ communities'[c.id] = Gazetteer!CommunityRow(c)
             /\ {s \in settlements' : s[1] = c.id} = {<<c.id, v>> : v \in c.villages}
    BY <1>4, <2>1, ListStored
  <2>3. /\ rows' \in [Mappings -> Gazetteer!Mapping \union {None, Gone}]
        /\ Gazetteer!ConfirmedExplained'
    BY <1>1, <1>4, WithdrawnRows
  <2>4. /\ runs' \in [Gazetteer!EntityType -> {"none", "succeeded", "partial", "failed"}]
        /\ runs'["community"] = Gazetteer!Outcome(listed, parsed)
    BY <1>4, OutcomeTyped, RecordedRun DEF Gazetteer!EntityType
  <2>5. Gazetteer!TypeOK'
    <3>1. (\A e \in Editors : request[e] # None => Gazetteer!Holds(request[e]))'
      BY <1>1 DEF Gazetteer!Holds, Gazetteer!IInv, Gazetteer!TypeOK
    <3>2. fetched' = listed
      BY <1>4
    <3> QED
      BY <1>1, <2>2, <2>3, <2>4, <3>1, <3>2 DEF Gazetteer!IInv, Gazetteer!TypeOK
  <2>6. Gazetteer!WritesExplained'
    BY <1>1 DEF Gazetteer!IInv, Gazetteer!WritesExplained, Gazetteer!Intends, Gazetteer!Explained
  <2>7. Gazetteer!SucceededMeansCached'
    <3>1. runs'["community"] = "succeeded" => parsed = listed
      BY <2>4 DEF Gazetteer!Outcome
    <3>2. fetched' = listed
      BY <1>4
    <3> HIDE DEF parsed
    <3> QED
      BY <2>2, <3>1, <3>2 DEF Gazetteer!SucceededMeansCached, Gazetteer!CommunityRow
  <2> QED
    BY <2>2, <2>3, <2>5, <2>6, <2>7 DEF Gazetteer!IInv
<1> QED
  BY <1>2, <1>3, <1>4


--------------------------------------------------------------------------------
LEMMA GazetteerInit ==
  ASSUME Gazetteer!Init
  PROVE  Gazetteer!IInv
<1>1. Gazetteer!TypeOK
  BY DEF Gazetteer!Init, Gazetteer!TypeOK, Gazetteer!EntityType
<1>2. Gazetteer!Placed /\ Gazetteer!SucceededMeansCached
  BY DEF Gazetteer!Init, Gazetteer!Placed, Gazetteer!SucceededMeansCached
<1>3. Gazetteer!ConfirmedExplained /\ Gazetteer!WritesExplained
  BY DEF Gazetteer!Init, Gazetteer!ConfirmedExplained, Gazetteer!WritesExplained,
         Gazetteer!IsRow
<1> QED
  BY <1>1, <1>2, <1>3 DEF Gazetteer!IInv

LEMMA GazetteerNext ==
  ASSUME Gazetteer!IInv, [Gazetteer!Next]_Gazetteer!vars
  PROVE  Gazetteer!IInv'
<1>1. CASE UNCHANGED Gazetteer!vars
  BY <1>1, UpperLevels DEF Gazetteer!vars, Gazetteer!IInv, Gazetteer!TypeOK
<1>2. CASE \/ Gazetteer!StartSync \/ Gazetteer!SyncAreas \/ Gazetteer!SyncRegions
           \/ Gazetteer!SyncCommunities
  BY <1>2, StartSyncStep, SyncAreasStep, SyncRegionsStep, SyncCommunitiesStep
<1>3. ASSUME NEW e \in Editors,
             \/ \E m \in Mappings \union {None}, form \in Gazetteer!Form : Gazetteer!Submit(e, m, form)
             \/ Gazetteer!Create(e) \/ Gazetteer!Update(e) \/ Gazetteer!ReadHierarchy(e)
             \/ Gazetteer!Commit(e)
      PROVE  Gazetteer!IInv'
  BY <1>3, SubmitStep, CreateMappingStep, UpdateMappingStep, ReadHierarchyStep, CommitStep
<1>4. ASSUME NEW e \in Editors,
             \/ \E m \in Mappings : Gazetteer!Unconfirm(e, m) \/ Gazetteer!Confirm(e, m)
             \/ \E c \in DOMAIN communities, d \in Districts \union {None} :
                  Gazetteer!SetDistrictForCommunity(e, c, d)
      PROVE  Gazetteer!IInv'
  BY <1>4, UnconfirmStep, ConfirmStep, SetDistrictStep
<1>5. CASE \/ \E m \in Mappings : Gazetteer!Delete(m)
           \/ \E labels \in SUBSET Labels : Gazetteer!Import(labels)
  BY <1>5, DeleteMappingStep, ImportLabelsStep
<1> QED
  BY <1>1, <1>2, <1>3, <1>4, <1>5 DEF Gazetteer!Next

(* Whatever lists the service answers with, however the command and the requests of  *)
(* editors interleave, the rows, lists and requests keep their types, and the          *)
(* invariant behind the results below holds.                                      *)
THEOREM GazetteerInvariance == Gazetteer!Spec => []Gazetteer!IInv
<1>1. Gazetteer!Init => Gazetteer!IInv
  BY GazetteerInit
<1>2. Gazetteer!IInv /\ [Gazetteer!Next]_Gazetteer!vars => Gazetteer!IInv'
  BY GazetteerNext
<1> QED
  BY <1>1, <1>2, PTL DEF Gazetteer!Spec

(* A confirmed mapping carries the snapshot of its settlement's community, for any    *)
(* number of mappings, editors and villages.                                      *)
THEOREM ConfirmationsExplained == Gazetteer!Spec => []ConfirmedExplained
<1>1. Gazetteer!IInv => ConfirmedExplained
  BY DEF Gazetteer!IInv, ConfirmedExplained
<1> QED
  BY <1>1, GazetteerInvariance, PTL

(* A run that reports success left the copy of the communities as they were listed.   *)
THEOREM SuccessMeansCached == Gazetteer!Spec => []SucceededMeansCached
<1>1. Gazetteer!IInv => SucceededMeansCached
  BY DEF Gazetteer!IInv, SucceededMeansCached
<1> QED
  BY <1>1, GazetteerInvariance, PTL

(* A synchronisation takes a settlement away from a mapping only when the service      *)
(* does not list the village any more.                                            *)
THEOREM MappingsSurvive == Gazetteer!Spec => MappingsSurviveResync
<1> DEFINE Kept ==
      \A m \in Mappings :
        /\ phase' # phase
        /\ Gazetteer!IsRow(rows[m]) /\ rows[m].settlement # None
        /\ rows'[m].settlement = None
        => \A c \in fetched' :
             c.id = rows[m].settlement[1] => rows[m].settlement[2] \notin c.villages
<1>1. ASSUME Gazetteer!IInv, Gazetteer!Next
      PROVE  Kept
  <2> SUFFICES ASSUME NEW m \in Mappings, phase' # phase,
                      rows[m].settlement # None, rows'[m].settlement = None,
                      NEW c \in fetched', c.id = rows[m].settlement[1]
               PROVE  rows[m].settlement[2] \notin c.villages
    OBVIOUS
  <2>1. rows' # rows
    OBVIOUS
  <2>2. Gazetteer!SyncCommunities
    BY <1>1, <2>1
    DEF Gazetteer!Next, Gazetteer!StartSync, Gazetteer!SyncAreas, Gazetteer!SyncRegions,
        Gazetteer!Submit, Gazetteer!Create, Gazetteer!Update, Gazetteer!ReadHierarchy,
        Gazetteer!Commit, Gazetteer!Unconfirm, Gazetteer!Confirm,
        Gazetteer!SetDistrictForCommunity, Gazetteer!Delete, Gazetteer!Import,
        Gazetteer!Served, Gazetteer!cache, Gazetteer!mappings
  <2>3. PICK listed \in CommunityFeeds :
          /\ Gazetteer!SetNull(Gazetteer!StaleSettlements(Gazetteer!ParsedCommunities(listed)))
          /\ fetched' = listed
    BY <2>1, <2>2 DEF Gazetteer!SyncCommunities, Gazetteer!Answers
  <2>4. PICK d \in Gazetteer!ParsedCommunities(listed) :
          d.id = rows[m].settlement[1] /\ rows[m].settlement[2] \notin d.villages
    BY <2>3 DEF Gazetteer!SetNull, Gazetteer!StaleSettlements
  <2>5. d = c
    BY <2>3, <2>4, FeedsAndForms DEF Gazetteer!ParsedCommunities, Gazetteer!FeedAssumption
  <2> QED
    BY <2>4, <2>5
<1>2. ASSUME Gazetteer!IInv, [Gazetteer!Next]_Gazetteer!vars
      PROVE  [Kept]_Gazetteer!vars
  BY <1>1, <1>2
<1> QED
  BY <1>2, GazetteerInvariance, PTL DEF Gazetteer!Spec, MappingsSurviveResync, Gazetteer!MappingsSurviveResync


--------------------------------------------------------------------------------
(* Abbreviations and their rows. *)

LEMMA ColumnsRow ==
  ASSUME NEW form \in Glossary!Form, NEW edit \in Nat
  PROVE  /\ Glossary!Columns(form, edit) \in Glossary!Row
         /\ Glossary!Columns(form, edit).edit = edit
         /\ Glossary!Key(Glossary!Columns(form, edit)) = Glossary!Key(form)
BY DEF Glossary!Columns, Glossary!Form, Glossary!Row, Glossary!Key

LEMMA VariantRows ==
  ASSUME NEW a \in Glossary!Ids, NEW form \in Glossary!Form, NEW edit \in Nat
  PROVE  /\ Glossary!Variants(a, form, edit) \subseteq Glossary!Spelling
         /\ \A v \in Glossary!Variants(a, form, edit) : v.of = a /\ v.edit = edit
BY DEF Glossary!Variants, Glossary!Form, Glossary!Spelling

LEMMA RowsAreRows ==
  ASSUME NEW row
  PROVE  /\ row \in Glossary!Row => Glossary!IsRow(row)
         /\ Glossary!IsRow(row) => row # None /\ row # Gone
BY FeedsAndForms DEF Glossary!IsRow, Glossary!FormAssumption

(* The row that was read becomes the new one; any other stays a row.                *)
LEMMA MergedColumns ==
  ASSUME NEW now \in Glossary!Row, NEW loaded \in Glossary!Row, NEW new \in Glossary!Row
  PROVE  /\ Glossary!Merged(now, loaded, new) \in Glossary!Row
         /\ now = loaded => Glossary!Merged(now, loaded, new) = new
<1>1. Glossary!Merged(now, loaded, new) \in Glossary!Row
  BY DEF Glossary!Merged, Glossary!Row
<1>2. now = loaded => Glossary!Merged(now, loaded, new) = new
  BY DEF Glossary!Merged, Glossary!Row
<1> QED
  BY <1>1, <1>2

(* An unused identifier is that of no row and of no other transaction.               *)
LEMMA UnusedIds ==
  ASSUME NEW a \in Glossary!Unused
  PROVE  /\ a \in Glossary!Ids /\ abbreviations[a] = None
         /\ \A e \in Editors : Glossary!At(e, "adding") => a \notin DOMAIN browser[e].added
BY DEF Glossary!Unused

--------------------------------------------------------------------------------
(* A request takes its next step and writes nothing that others see. *)
LEMMA BrowserGoesOn ==
  ASSUME Glossary!IInv, NEW e \in Editors, NEW q, Glossary!Waits(e, q),
         UNCHANGED <<abbreviations, variants, commits, overlaid>>, requests' \in Nat,
         q # None => /\ Glossary!Holds(q) /\ Glossary!Claims(q) /\ Glossary!AddsNewKeys(q)
                     /\ Glossary!KnowsItsRow(q),
         q # None /\ q.step = "adding" =>
           \A f \in Editors \ {e} : Glossary!At(f, "adding") =>
             DOMAIN q.added \cap DOMAIN browser[f].added = {}
  PROVE  Glossary!IInv'
<1>1. DOMAIN browser' = Editors /\ \A f \in Editors : browser'[f] = IF f = e THEN q ELSE browser[f]
  BY DEF Glossary!Waits, Glossary!IInv, Glossary!TypeOK
<1>2. \A f \in Editors : browser'[f] # None =>
        /\ Glossary!Holds(browser'[f]) /\ Glossary!Claims(browser'[f])
        /\ Glossary!AddsNewKeys(browser'[f]) /\ Glossary!KnowsItsRow(browser'[f])
  BY <1>1 DEF Glossary!IInv, Glossary!TypeOK
<1>3. (\A f \in Editors : browser[f] # None => Glossary!Holds(browser[f]))'
  BY <1>2 DEF Glossary!Holds
<1>4. (\A f \in Editors : browser[f] # None => Glossary!Claims(browser[f]))'
  BY <1>2 DEF Glossary!Claims
<1>5. (\A f \in Editors : browser[f] # None => Glossary!AddsNewKeys(browser[f]))'
  BY <1>2 DEF Glossary!AddsNewKeys
<1>6. (\A f \in Editors : browser[f] # None => Glossary!KnowsItsRow(browser[f]))'
  BY <1>2 DEF Glossary!KnowsItsRow, Glossary!StoredVariants
<1>7. Glossary!TypeOK'
  BY <1>1, <1>3 DEF Glossary!IInv, Glossary!TypeOK
<1>8. Glossary!DuplicatesExplained' /\ Glossary!VariantsOfLastEdit'
  BY DEF Glossary!IInv, Glossary!DuplicatesExplained, Glossary!VariantsOfLastEdit
<1>9. Glossary!Apart'
  BY <1>1 DEF Glossary!IInv, Glossary!Apart, Glossary!At
<1> QED
  BY <1>4, <1>5, <1>6, <1>7, <1>8, <1>9 DEF Glossary!IInv

LEMMA RequestEnds ==
  ASSUME Glossary!IInv, NEW e \in Editors, Glossary!Waits(e, None),
         UNCHANGED <<abbreviations, variants, requests, commits, overlaid>>
  PROVE  Glossary!IInv'
<1>1. requests' \in Nat
  BY DEF Glossary!IInv, Glossary!TypeOK
<1> QED
  BY <1>1, BrowserGoesOn

(* A row without a duplicate has a key of its own. *)
LEMMA NoDuplicate ==
  ASSUME NEW form, NEW added, NEW except, Glossary!Duplicates(form, added, except) = {}
  PROVE  \A b \in Glossary!Ids \ {except} :
           /\ Glossary!IsRow(abbreviations[b]) => Glossary!Key(abbreviations[b]) # Glossary!Key(form)
           /\ b \in DOMAIN added => Glossary!Key(added[b]) # Glossary!Key(form)
BY DEF Glossary!Duplicates

(* One more row is added, with the key of a form that has no duplicate. *)
LEMMA AddsOneMore ==
  ASSUME Glossary!IInv, NEW e \in Editors, NEW r, NEW rest, NEW form \in Glossary!Form,
         NEW a \in Glossary!Unused,
         r.edit \in Nat, r.since \in 0 .. commits,
         \A i \in DOMAIN rest : rest[i] \in Glossary!Form,
         \A b \in DOMAIN r.added : b \in Glossary!Ids /\ r.added[b] \in Glossary!Row,
         r.spellings \subseteq Glossary!Spelling,
         r.step = "adding", Glossary!Claims(r), Glossary!AddsNewKeys(r),
         \A f \in Editors \ {e} : Glossary!At(f, "adding") =>
           DOMAIN r.added \cap DOMAIN browser[f].added = {},
         a \notin DOMAIN r.added,
         Glossary!Duplicates(form, r.added, None) = {},
         Glossary!Waits(e, Glossary!Adding(r.edit, r.since, rest,
                             Glossary!With(r.added, a, Glossary!Columns(form, r.edit)),
                             Glossary!Variants(a, form, r.edit) \union r.spellings)),
         UNCHANGED <<abbreviations, variants, commits, overlaid>>, requests' \in Nat
  PROVE  Glossary!IInv'
<1> DEFINE row == Glossary!Columns(form, r.edit)
           added == Glossary!With(r.added, a, row)
           spellings == Glossary!Variants(a, form, r.edit) \union r.spellings
           q == Glossary!Adding(r.edit, r.since, rest, added, spellings)
<1>1. /\ row \in Glossary!Row /\ row.edit = r.edit
      /\ Glossary!Key(row) = Glossary!Key(form)
  BY ColumnsRow
<1>2. /\ a \in Glossary!Ids /\ abbreviations[a] = None
      /\ \A f \in Editors : Glossary!At(f, "adding") => a \notin DOMAIN browser[f].added
  BY UnusedIds
<1>3. /\ DOMAIN added = DOMAIN r.added \union {a} /\ added[a] = row
      /\ \A b \in DOMAIN r.added : added[b] = r.added[b]
  BY DEF Glossary!With
<1>4. /\ spellings \subseteq Glossary!Spelling
      /\ \A v \in spellings : v \in r.spellings \/ (v.of = a /\ v.edit = r.edit)
  BY <1>2, VariantRows
<1>5. /\ q.step = "adding" /\ q.edit = r.edit /\ q.since = r.since /\ q.left = rest
      /\ q.added = added /\ q.spellings = spellings
  BY DEF Glossary!Adding
<1>6. None \notin Glossary!Ids
  BY FeedsAndForms DEF Glossary!FormAssumption
<1>7. \A b \in Glossary!Ids :
        /\ Glossary!IsRow(abbreviations[b]) => Glossary!Key(abbreviations[b]) # Glossary!Key(form)
        /\ b \in DOMAIN r.added => Glossary!Key(r.added[b]) # Glossary!Key(form)
  BY <1>6, NoDuplicate
<1>8. Glossary!Waits(e, q)
  OBVIOUS
<1> HIDE DEF row, added, spellings, q
<1>9. Glossary!Holds(q)
  <2>1. \A b \in DOMAIN added : b \in Glossary!Ids /\ added[b] \in Glossary!Row
    BY <1>1, <1>2, <1>3
  <2> QED
    BY <1>4, <1>5, <2>1 DEF Glossary!Holds
<1>10. Glossary!Claims(q)
  BY <1>1, <1>2, <1>3, <1>4, <1>5 DEF Glossary!Claims
<1>11. Glossary!AddsNewKeys(q)
  <2> SUFFICES ASSUME r.since = commits, NEW c \in DOMAIN added, NEW b \in Glossary!Ids \ {c}
               PROVE  /\ Glossary!IsRow(abbreviations[b]) =>
                           Glossary!Key(abbreviations[b]) # Glossary!Key(added[c])
                      /\ b \in DOMAIN added => Glossary!Key(added[b]) # Glossary!Key(added[c])
    BY <1>5 DEF Glossary!AddsNewKeys
  <2>1. CASE c = a
    BY <1>1, <1>3, <1>7, <2>1
  <2>2. CASE c # a /\ b = a
    BY <1>1, <1>2, <1>3, <1>7, <2>2, RowsAreRows
  <2>3. CASE c # a /\ b # a
    BY <1>3, <2>3 DEF Glossary!AddsNewKeys
  <2> QED
    BY <2>1, <2>2, <2>3
<1>12. Glossary!KnowsItsRow(q)
  BY <1>5 DEF Glossary!KnowsItsRow
<1>13. \A f \in Editors \ {e} : Glossary!At(f, "adding") =>
         DOMAIN q.added \cap DOMAIN browser[f].added = {}
  BY <1>2, <1>3, <1>5
<1> QED
  BY <1>8, <1>9, <1>10, <1>11, <1>12, <1>13, BrowserGoesOn


(* A row of a file that has no duplicate is a form. *)
LEMMA InputIsForm ==
  ASSUME NEW row \in Glossary!Form \union {None}, Glossary!RowToInput(row) # None
  PROVE  Glossary!RowToInput(row) \in Glossary!Form
<1> DEFINE form == [row EXCEPT !.variants = @ \ {""}]
<1>1. row # None /\ Glossary!RowToInput(row) = form
  BY DEF Glossary!RowToInput
<1>2. form \in Glossary!Form
  BY <1>1 DEF Glossary!Form
<1> QED
  BY <1>1, <1>2

LEMMA PreviewedForms ==
  ASSUME NEW file \in Seq(Glossary!Form \union {None}),
         NEW i \in DOMAIN Glossary!Previewed(file), Glossary!Previewed(file)[i] # None
  PROVE  Glossary!Previewed(file)[i] \in Glossary!Form
<1>1. i \in DOMAIN file /\ Glossary!Previewed(file)[i] = Glossary!RowToInput(file[i])
  BY DEF Glossary!Previewed
<1>2. file[i] \in Glossary!Form \union {None}
  BY <1>1
<1> QED
  BY <1>1, <1>2, InputIsForm

--------------------------------------------------------------------------------
(* The requests that read. *)

LEMMA CreateAbbreviationStep ==
  ASSUME Glossary!IInv, NEW e \in Editors, NEW form \in Forms, Glossary!Create(e, form)
  PROVE  Glossary!IInv'
<1> DEFINE edit == requests + 1
           r == Glossary!Adding(edit, commits, <<>>, <<>>, {})
<1>1. PICK a \in Glossary!Unused :
        Glossary!Received(e, Glossary!Adding(edit, commits, <<>>,
                               Glossary!With(<<>>, a, Glossary!Columns(form, edit)),
                               Glossary!Variants(a, form, edit)))
  BY DEF Glossary!Create
<1>2. /\ form \in Glossary!Form
      /\ Glossary!Duplicates(form, <<>>, None) = {}
      /\ UNCHANGED <<abbreviations, variants, commits, overlaid>>
  BY FeedsAndForms DEF Glossary!Create, Glossary!FormAssumption
<1>3. edit \in Nat /\ commits \in Nat
  BY DEF Glossary!IInv, Glossary!TypeOK
<1>4. /\ r.step = "adding" /\ r.edit = edit /\ r.since = commits /\ r.left = <<>>
      /\ r.added = <<>> /\ r.spellings = {}
  BY DEF Glossary!Adding
<1>5. DOMAIN r.added = {} /\ DOMAIN r.left = {}
  BY <1>4
<1>6. requests' \in Nat
      /\ Glossary!Waits(e, Glossary!Adding(r.edit, r.since, r.left,
                             Glossary!With(r.added, a, Glossary!Columns(form, r.edit)),
                             Glossary!Variants(a, form, r.edit) \union r.spellings))
  BY <1>1, <1>3, <1>4 DEF Glossary!Received
<1>7. Glossary!Duplicates(form, r.added, None) = {}
  BY <1>2, <1>4
<1> HIDE DEF r, edit
<1>8. Glossary!Claims(r) /\ Glossary!AddsNewKeys(r)
  BY <1>4, <1>5 DEF Glossary!Claims, Glossary!AddsNewKeys
<1>9. r.edit \in Nat /\ r.since \in 0 .. commits /\ r.spellings \subseteq Glossary!Spelling
  BY <1>3, <1>4
<1> QED
  BY <1>2, <1>4, <1>5, <1>6, <1>7, <1>8, <1>9, AddsOneMore

LEMMA UpdateAbbreviationStep ==
  ASSUME Glossary!IInv, NEW e \in Editors, NEW a \in Glossary!Ids, NEW form \in Forms,
         Glossary!Update(e, a, form)
  PROVE  Glossary!IInv'
<1> DEFINE q == [step |-> "editing", edit |-> requests + 1, since |-> commits, of |-> a,
                 form |-> form, loaded |-> abbreviations[a]]
<1>1. /\ Glossary!IsRow(abbreviations[a]) /\ Glossary!Duplicates(form, <<>>, a) = {}
      /\ requests' = requests + 1 /\ Glossary!Waits(e, q)
      /\ UNCHANGED <<abbreviations, variants, commits, overlaid>>
  BY DEF Glossary!Update, Glossary!Received
<1>2. /\ requests \in Nat /\ commits \in Nat
      /\ abbreviations[a] \in Glossary!Row \union {None, Gone}
  BY DEF Glossary!IInv, Glossary!TypeOK
<1>3. abbreviations[a] \in Glossary!Row /\ form \in Glossary!Form
  BY <1>1, <1>2, RowsAreRows, FeedsAndForms DEF Glossary!FormAssumption
<1>4. /\ q.step = "editing" /\ q.edit = requests + 1 /\ q.since = commits /\ q.of = a
      /\ q.form = form /\ q.loaded = abbreviations[a]
  OBVIOUS
<1> HIDE DEF q
<1>5. Glossary!Holds(q)
  BY <1>2, <1>3, <1>4 DEF Glossary!Holds
<1>6. Glossary!Claims(q) /\ Glossary!AddsNewKeys(q)
  BY <1>4 DEF Glossary!Claims, Glossary!AddsNewKeys
<1>7. Glossary!KnowsItsRow(q)
  BY <1>1, <1>4, NoDuplicate DEF Glossary!KnowsItsRow
<1> QED
  BY <1>1, <1>2, <1>4, <1>5, <1>6, <1>7, BrowserGoesOn

LEMMA ReplaceVariantsStep ==
  ASSUME Glossary!IInv, NEW e \in Editors, Glossary!ReplaceVariants(e)
  PROVE  Glossary!IInv'
<1> DEFINE r == browser[e]
           deleted == Glossary!StoredVariants(r.of)
           q == [step |-> "replacing", edit |-> r.edit, since |-> r.since, of |-> r.of,
                 form |-> r.form, loaded |-> r.loaded, deleted |-> deleted,
                 holds |-> Glossary!Holder(e, deleted) = {}]
<1>1. /\ r # None /\ r.step = "editing" /\ Glossary!Waits(e, q)
      /\ UNCHANGED <<abbreviations, variants, requests, commits, overlaid>>
  BY DEF Glossary!ReplaceVariants, Glossary!At
<1>2. Glossary!Holds(r) /\ Glossary!KnowsItsRow(r)
  BY <1>1 DEF Glossary!IInv, Glossary!TypeOK
<1>3. /\ q.step = "replacing" /\ q.edit = r.edit /\ q.since = r.since /\ q.of = r.of
      /\ q.form = r.form /\ q.loaded = r.loaded /\ q.deleted = deleted
  OBVIOUS
<1>4. deleted \subseteq Glossary!Spelling /\ requests' \in Nat
  BY <1>1 DEF Glossary!IInv, Glossary!TypeOK, Glossary!StoredVariants
<1> HIDE DEF q, r
<1>5. Glossary!Holds(q)
  BY <1>1, <1>2, <1>3, <1>4 DEF Glossary!Holds
<1>6. Glossary!Claims(q) /\ Glossary!AddsNewKeys(q)
  BY <1>3 DEF Glossary!Claims, Glossary!AddsNewKeys
<1>7. Glossary!KnowsItsRow(q)
  BY <1>1, <1>2, <1>3 DEF Glossary!KnowsItsRow
<1> QED
  BY <1>1, <1>3, <1>4, <1>5, <1>6, <1>7, BrowserGoesOn

LEMMA PreviewImportStep ==
  ASSUME Glossary!IInv, NEW e \in Editors, NEW file \in Files, Glossary!PreviewImport(e, file)
  PROVE  Glossary!IInv'
<1> DEFINE preview == Glossary!Previewed(file)
           kept == {i \in DOMAIN preview : preview[i] # None}
           q == [step |-> "previewed", kept |-> Glossary!Restrict(preview, kept)]
<1>1. /\ requests' = requests + 1 /\ Glossary!Waits(e, q)
      /\ UNCHANGED <<abbreviations, variants, commits, overlaid>>
  BY DEF Glossary!PreviewImport, Glossary!Received
<1>2. \A i \in kept : preview[i] \in Glossary!Form
  BY FeedsAndForms, PreviewedForms DEF Glossary!FormAssumption
<1>3. q.step = "previewed" /\ DOMAIN q.kept = kept /\ \A i \in kept : q.kept[i] = preview[i]
  BY DEF Glossary!Restrict
<1>4. requests' \in Nat
  BY <1>1 DEF Glossary!IInv, Glossary!TypeOK
<1> HIDE DEF q, kept, preview
<1>5. Glossary!Holds(q)
  BY <1>2, <1>3 DEF Glossary!Holds
<1>6. Glossary!Claims(q) /\ Glossary!AddsNewKeys(q) /\ Glossary!KnowsItsRow(q)
  BY <1>3 DEF Glossary!Claims, Glossary!AddsNewKeys, Glossary!KnowsItsRow
<1> QED
  BY <1>1, <1>3, <1>4, <1>5, <1>6, BrowserGoesOn

LEMMA CommitImportStep ==
  ASSUME Glossary!IInv, NEW e \in Editors, Glossary!CommitImport(e)
  PROVE  Glossary!IInv'
<1> DEFINE q == Glossary!Adding(requests + 1, commits, browser[e].kept, <<>>, {})
<1>1. /\ browser[e] # None /\ browser[e].step = "previewed"
      /\ requests' = requests + 1 /\ Glossary!Waits(e, q)
      /\ UNCHANGED <<abbreviations, variants, commits, overlaid>>
  BY DEF Glossary!CommitImport, Glossary!Received, Glossary!At
<1>2. requests \in Nat /\ commits \in Nat /\ Glossary!Holds(browser[e])
  BY <1>1 DEF Glossary!IInv, Glossary!TypeOK
<1>3. /\ q.step = "adding" /\ q.edit = requests + 1 /\ q.since = commits
      /\ q.left = browser[e].kept /\ q.added = <<>> /\ q.spellings = {}
  BY DEF Glossary!Adding
<1>4. DOMAIN q.added = {}
  BY <1>3
<1> HIDE DEF q
<1>5. Glossary!Holds(q)
  BY <1>1, <1>2, <1>3, <1>4 DEF Glossary!Holds
<1>6. Glossary!Claims(q) /\ Glossary!AddsNewKeys(q) /\ Glossary!KnowsItsRow(q)
  BY <1>3, <1>4 DEF Glossary!Claims, Glossary!AddsNewKeys, Glossary!KnowsItsRow
<1> QED
  BY <1>1, <1>2, <1>4, <1>5, <1>6, BrowserGoesOn

LEMMA ImportRowStep ==
  ASSUME Glossary!IInv, NEW e \in Editors, Glossary!ImportRow(e)
  PROVE  Glossary!IInv'
<1> DEFINE r == browser[e]
<1>1. /\ r # None /\ r.step = "adding"
      /\ UNCHANGED <<abbreviations, variants, requests, commits, overlaid>>
  BY DEF Glossary!ImportRow, Glossary!At
<1>2. /\ Glossary!Holds(r) /\ Glossary!Claims(r) /\ Glossary!AddsNewKeys(r)
      /\ requests' \in Nat
  BY <1>1 DEF Glossary!IInv, Glossary!TypeOK
<1>3. \A f \in Editors \ {e} : Glossary!At(f, "adding") =>
        DOMAIN r.added \cap DOMAIN browser[f].added = {}
  BY <1>1 DEF Glossary!IInv, Glossary!Apart, Glossary!At
<1>4. PICK i \in Glossary!NextLine(r.left) :
        LET form == r.left[i]
            rest == Glossary!Restrict(r.left, DOMAIN r.left \ {i})
        IN  IF ~ Glossary!ValidFields(form) \/ Glossary!Duplicates(form, r.added, None) # {}
            THEN Glossary!Waits(e, Glossary!Adding(r.edit, r.since, rest, r.added, r.spellings))
            ELSE \E a \in Glossary!Unused :
                   Glossary!Waits(e, Glossary!Adding(r.edit, r.since, rest,
                                       Glossary!With(r.added, a, Glossary!Columns(form, r.edit)),
                                       Glossary!Variants(a, form, r.edit) \union r.spellings))
  BY DEF Glossary!ImportRow
<1> DEFINE form == r.left[i]
           rest == Glossary!Restrict(r.left, DOMAIN r.left \ {i})
<1>5. /\ form \in Glossary!Form
      /\ \A j \in DOMAIN rest : rest[j] \in Glossary!Form
  BY <1>1, <1>2 DEF Glossary!NextLine, Glossary!Restrict, Glossary!Holds
<1>6. /\ r.edit \in Nat /\ r.since \in 0 .. commits
      /\ \A b \in DOMAIN r.added : b \in Glossary!Ids /\ r.added[b] \in Glossary!Row
      /\ r.spellings \subseteq Glossary!Spelling
  BY <1>1, <1>2 DEF Glossary!Holds
<1> HIDE DEF form, rest
<1>7. CASE ~ Glossary!ValidFields(form) \/ Glossary!Duplicates(form, r.added, None) # {}
  <2> DEFINE q == Glossary!Adding(r.edit, r.since, rest, r.added, r.spellings)
  <2>1. Glossary!Waits(e, q)
    BY <1>4, <1>7 DEF form, rest
  <2>2. /\ q.step = "adding" /\ q.edit = r.edit /\ q.since = r.since /\ q.left = rest
        /\ q.added = r.added /\ q.spellings = r.spellings
    BY DEF Glossary!Adding
  <2> HIDE DEF q
  <2>3. Glossary!Holds(q)
    BY <1>5, <1>6, <2>2 DEF Glossary!Holds
  <2>4. Glossary!Claims(q)
    BY <1>1, <1>2, <2>2 DEF Glossary!Claims
  <2>5. Glossary!AddsNewKeys(q)
    BY <1>1, <1>2, <2>2 DEF Glossary!AddsNewKeys
  <2>6. Glossary!KnowsItsRow(q)
    BY <2>2 DEF Glossary!KnowsItsRow
  <2> QED
    BY <1>1, <1>2, <1>3, <2>1, <2>2, <2>3, <2>4, <2>5, <2>6, BrowserGoesOn
<1>8. CASE Glossary!ValidFields(form) /\ Glossary!Duplicates(form, r.added, None) = {}
  <2>1. PICK a \in Glossary!Unused :
          Glossary!Waits(e, Glossary!Adding(r.edit, r.since, rest,
                              Glossary!With(r.added, a, Glossary!Columns(form, r.edit)),
                              Glossary!Variants(a, form, r.edit) \union r.spellings))
    BY <1>4, <1>8 DEF form, rest
  <2>2. a \notin DOMAIN r.added
    BY <1>1, UnusedIds DEF Glossary!At
  <2> QED
    BY <1>1, <1>2, <1>3, <1>5, <1>6, <1>8, <2>1, <2>2, AddsOneMore
<1> QED
  BY <1>7, <1>8


--------------------------------------------------------------------------------
(* A transaction commits: what the others know is out of date, what they have for     *)
(* themselves is not.                                                           *)
LEMMA OthersKeepTheirs ==
  ASSUME Glossary!IInv, NEW e \in Editors, Glossary!Waits(e, None), UNCHANGED requests,
         commits' = commits + 1,
         abbreviations' \in [Glossary!Ids -> Glossary!Row \union {None, Gone}],
         variants' \subseteq Glossary!Spelling, overlaid' \subseteq Glossary!Ids,
         \A f \in Editors \ {e} : Glossary!At(f, "adding") =>
           \A a \in DOMAIN browser[f].added : abbreviations'[a] = abbreviations[a],
         Glossary!DuplicatesExplained', Glossary!VariantsOfLastEdit'
  PROVE  Glossary!IInv'
<1>1. /\ DOMAIN browser' = Editors
      /\ \A f \in Editors : browser'[f] = IF f = e THEN None ELSE browser[f]
  BY DEF Glossary!Waits, Glossary!IInv, Glossary!TypeOK
<1>2. commits \in Nat /\ requests \in Nat
  BY DEF Glossary!IInv, Glossary!TypeOK
<1>3. \A f \in Editors : browser'[f] # None =>
        /\ f # e /\ browser[f] # None /\ browser'[f] = browser[f]
        /\ Glossary!Holds(browser[f]) /\ Glossary!Claims(browser[f])
  BY <1>1 DEF Glossary!IInv, Glossary!TypeOK
<1>4. (\A f \in Editors : browser[f] # None => Glossary!Holds(browser[f]))'
  <2>1. 0 .. commits \subseteq 0 .. commits'
    BY <1>2
  <2> QED
    BY <1>3, <2>1 DEF Glossary!Holds
<1>5. (\A f \in Editors : browser[f] # None => Glossary!Claims(browser[f]))'
  BY <1>3 DEF Glossary!Claims, Glossary!At
<1>6. \A f \in Editors : browser'[f] # None /\ browser'[f].step # "previewed" =>
        browser'[f].since # commits'
  BY <1>2, <1>3 DEF Glossary!Holds
<1>7. (\A f \in Editors : browser[f] # None => Glossary!AddsNewKeys(browser[f]))'
  BY <1>6 DEF Glossary!AddsNewKeys
<1>8. (\A f \in Editors : browser[f] # None => Glossary!KnowsItsRow(browser[f]))'
  BY <1>6 DEF Glossary!KnowsItsRow
<1>9. Glossary!TypeOK'
  BY <1>1, <1>2, <1>4 DEF Glossary!TypeOK
<1>10. Glossary!Apart'
  BY <1>1 DEF Glossary!IInv, Glossary!Apart, Glossary!At
<1> QED
  BY <1>5, <1>7, <1>8, <1>9, <1>10 DEF Glossary!IInv

LEMMA CommitAddedStep ==
  ASSUME Glossary!IInv, NEW e \in Editors, Glossary!CommitAdded(e)
  PROVE  Glossary!IInv'
<1> DEFINE r == browser[e]
           added == DOMAIN r.added
<1>1. /\ r # None /\ r.step = "adding"
      /\ abbreviations' = [a \in Glossary!Ids |-> IF a \in added THEN r.added[a]
                                                  ELSE abbreviations[a]]
      /\ variants' = variants \union r.spellings
      /\ commits' = commits + 1
      /\ overlaid' = IF commits = r.since THEN overlaid \ added ELSE overlaid \union added
      /\ Glossary!Waits(e, None) /\ UNCHANGED requests
  BY DEF Glossary!CommitAdded, Glossary!At, Glossary!Wrote
<1>2. /\ Glossary!TypeOK /\ Glossary!Holds(r) /\ Glossary!Claims(r) /\ Glossary!AddsNewKeys(r)
  BY <1>1 DEF Glossary!IInv, Glossary!TypeOK
<1>3. /\ \A a \in added : /\ a \in Glossary!Ids /\ r.added[a] \in Glossary!Row
                          /\ abbreviations[a] = None /\ r.added[a].edit = r.edit
      /\ r.spellings \subseteq Glossary!Spelling
      /\ \A v \in r.spellings : v.of \in added /\ v.edit = r.edit
  BY <1>1, <1>2 DEF Glossary!Holds, Glossary!Claims
<1>4. \A f \in Editors \ {e} : Glossary!At(f, "adding") =>
        DOMAIN browser[f].added \cap added = {}
  BY <1>1 DEF Glossary!IInv, Glossary!Apart, Glossary!At
<1>5. \A f \in Editors \ {e} : Glossary!At(f, "adding") =>
        \A a \in DOMAIN browser[f].added : a \in Glossary!Ids
  BY <1>2 DEF Glossary!TypeOK, Glossary!Holds, Glossary!At
<1> HIDE DEF r, added
<1>6. \A a \in Glossary!Ids :
        abbreviations'[a] = IF a \in added THEN r.added[a] ELSE abbreviations[a]
  BY <1>1
<1>7. /\ abbreviations' \in [Glossary!Ids -> Glossary!Row \union {None, Gone}]
      /\ variants' \subseteq Glossary!Spelling /\ overlaid' \subseteq Glossary!Ids
  BY <1>1, <1>2, <1>3 DEF Glossary!TypeOK
<1>8. \A f \in Editors \ {e} : Glossary!At(f, "adding") =>
        \A a \in DOMAIN browser[f].added : abbreviations'[a] = abbreviations[a]
  BY <1>4, <1>5, <1>6
<1>9. Glossary!DuplicatesExplained'
  <2> SUFFICES ASSUME NEW a \in Glossary!Ids, NEW b \in Glossary!Ids, a # b,
                      Glossary!IsRow(abbreviations'[a]), Glossary!IsRow(abbreviations'[b]),
                      Glossary!Key(abbreviations'[a]) = Glossary!Key(abbreviations'[b])
               PROVE  a \in overlaid' \/ b \in overlaid'
    BY DEF Glossary!DuplicatesExplained
  <2>1. CASE commits # r.since
    <3>1. overlaid' = overlaid \union added
      BY <1>1, <2>1
    <3>2. CASE a \notin added /\ b \notin added
      BY <1>6, <3>1, <3>2 DEF Glossary!IInv, Glossary!DuplicatesExplained
    <3> QED
      BY <3>1, <3>2
  <2>2. CASE commits = r.since
    <3>1. \A c \in added : \A d \in Glossary!Ids \ {c} :
            /\ Glossary!IsRow(abbreviations[d]) =>
                 Glossary!Key(abbreviations[d]) # Glossary!Key(r.added[c])
            /\ d \in added => Glossary!Key(r.added[d]) # Glossary!Key(r.added[c])
      BY <1>1, <1>2, <2>2 DEF Glossary!AddsNewKeys, added, r
    <3>2. a \notin added /\ b \notin added
      BY <1>6, <3>1
    <3> QED
      BY <1>1, <1>6, <2>2, <3>2 DEF Glossary!IInv, Glossary!DuplicatesExplained
  <2> QED
    BY <2>1, <2>2
<1>10. Glossary!VariantsOfLastEdit'
  <2> SUFFICES ASSUME NEW v \in variants'
               PROVE  /\ Glossary!IsRow(abbreviations'[v.of])
                      /\ v.of \notin overlaid' => v.edit = abbreviations'[v.of].edit
    BY DEF Glossary!VariantsOfLastEdit
  <2>1. v.of \in Glossary!Ids
    BY <1>7 DEF Glossary!Spelling
  <2>2. CASE v \in r.spellings
    BY <1>3, <1>6, <2>1, <2>2, RowsAreRows
  <2>3. CASE v \in variants
    <3>1. /\ Glossary!IsRow(abbreviations[v.of])
          /\ v.of \notin overlaid => v.edit = abbreviations[v.of].edit
      BY <2>3 DEF Glossary!IInv, Glossary!VariantsOfLastEdit
    <3>2. v.of \notin added
      BY <1>3, <3>1, RowsAreRows
    <3> QED
      BY <1>1, <1>6, <2>1, <3>1, <3>2
  <2> QED
    BY <1>1, <2>2, <2>3
<1> QED
  BY <1>1, <1>7, <1>8, <1>9, <1>10, OthersKeepTheirs

LEMMA CommitUpdateStep ==
  ASSUME Glossary!IInv, NEW e \in Editors, Glossary!CommitUpdate(e)
  PROVE  Glossary!IInv'
<1> DEFINE r == browser[e]
           now == abbreviations[r.of]
           new == Glossary!Merged(now, r.loaded, Glossary!Columns(r.form, r.edit))
<1>1. /\ r # None /\ r.step = "replacing"
      /\ Glossary!Waits(e, None) /\ UNCHANGED requests
  BY DEF Glossary!CommitUpdate, Glossary!At
<1>2. CASE ~ Glossary!IsRow(now)
  BY <1>1, <1>2, RequestEnds DEF Glossary!CommitUpdate
<1>3. CASE Glossary!IsRow(now)
  <2>1. /\ abbreviations' = [abbreviations EXCEPT ![r.of] = new]
        /\ variants' = (variants \ r.deleted) \union Glossary!Variants(r.of, r.form, r.edit)
        /\ commits' = commits + 1
        /\ overlaid' = IF commits = r.since THEN overlaid \ {r.of} ELSE overlaid \union {r.of}
    BY <1>3 DEF Glossary!CommitUpdate, Glossary!Wrote
  <2>2. Glossary!TypeOK /\ Glossary!Holds(r) /\ Glossary!KnowsItsRow(r)
    BY <1>1 DEF Glossary!IInv, Glossary!TypeOK
  <2>3. /\ r.of \in Glossary!Ids /\ r.form \in Glossary!Form /\ r.loaded \in Glossary!Row
        /\ r.edit \in Nat
    BY <1>1, <2>2 DEF Glossary!Holds
  <2>4. now \in Glossary!Row
    <3>1. now \in Glossary!Row \union {None, Gone}
      BY <2>2, <2>3 DEF Glossary!TypeOK
    <3> QED
      BY <1>3, <3>1, RowsAreRows
  <2>5. /\ Glossary!Columns(r.form, r.edit) \in Glossary!Row
        /\ Glossary!Columns(r.form, r.edit).edit = r.edit
        /\ Glossary!Key(Glossary!Columns(r.form, r.edit)) = Glossary!Key(r.form)
    BY <2>3, ColumnsRow
  <2>6. /\ new \in Glossary!Row /\ Glossary!IsRow(new)
        /\ now = r.loaded => new.edit = r.edit /\ Glossary!Key(new) = Glossary!Key(r.form)
    BY <2>3, <2>4, <2>5, MergedColumns, RowsAreRows
  <2>7. /\ Glossary!Variants(r.of, r.form, r.edit) \subseteq Glossary!Spelling
        /\ \A v \in Glossary!Variants(r.of, r.form, r.edit) : v.of = r.of /\ v.edit = r.edit
    BY <2>3, VariantRows
  <2>8. commits = r.since =>
          /\ now = r.loaded
          /\ \A b \in Glossary!Ids \ {r.of} : Glossary!IsRow(abbreviations[b]) =>
               Glossary!Key(abbreviations[b]) # Glossary!Key(r.form)
          /\ \A v \in variants : v.of = r.of => v \in r.deleted
    BY <1>1, <1>3, <2>2 DEF Glossary!KnowsItsRow, Glossary!StoredVariants
  <2>9. \A f \in Editors \ {e} : Glossary!At(f, "adding") =>
          \A a \in DOMAIN browser[f].added : a # r.of
    <3>1. \A f \in Editors \ {e} : Glossary!At(f, "adding") =>
            \A a \in DOMAIN browser[f].added : abbreviations[a] = None
      BY DEF Glossary!IInv, Glossary!Claims, Glossary!At
    <3> QED
      BY <1>3, <3>1, RowsAreRows
  <2>10. DOMAIN abbreviations = Glossary!Ids
    BY <2>2 DEF Glossary!TypeOK
  <2> HIDE DEF new
  <2>11. \A a : abbreviations'[a] = IF a = r.of THEN new ELSE abbreviations[a]
    BY <2>1, <2>3, <2>10
  <2>12. /\ abbreviations' \in [Glossary!Ids -> Glossary!Row \union {None, Gone}]
         /\ variants' \subseteq Glossary!Spelling /\ overlaid' \subseteq Glossary!Ids
    BY <2>1, <2>2, <2>3, <2>6, <2>7 DEF Glossary!TypeOK
  <2>13. \A f \in Editors \ {e} : Glossary!At(f, "adding") =>
           \A a \in DOMAIN browser[f].added : abbreviations'[a] = abbreviations[a]
    BY <2>9, <2>11
  <2>14. Glossary!DuplicatesExplained'
    <3> SUFFICES ASSUME NEW a \in Glossary!Ids, NEW b \in Glossary!Ids, a # b,
                        Glossary!IsRow(abbreviations'[a]), Glossary!IsRow(abbreviations'[b]),
                        Glossary!Key(abbreviations'[a]) = Glossary!Key(abbreviations'[b])
                 PROVE  a \in overlaid' \/ b \in overlaid'
      BY DEF Glossary!DuplicatesExplained
    <3>1. CASE a # r.of /\ b # r.of
      BY <2>1, <2>11, <3>1 DEF Glossary!IInv, Glossary!DuplicatesExplained
    <3>2. CASE (a = r.of \/ b = r.of) /\ commits # r.since
      BY <2>1, <3>2
    <3>3. ~ ((a = r.of \/ b = r.of) /\ commits = r.since)
      BY <2>6, <2>8, <2>11
    <3> QED
      BY <3>1, <3>2, <3>3
  <2>15. Glossary!VariantsOfLastEdit'
    <3> SUFFICES ASSUME NEW v \in variants'
                 PROVE  /\ Glossary!IsRow(abbreviations'[v.of])
                        /\ v.of \notin overlaid' => v.edit = abbreviations'[v.of].edit
      BY DEF Glossary!VariantsOfLastEdit
    <3>1. CASE v.of # r.of
      <4>1. v \in variants
        BY <2>1, <2>7, <3>1
      <4> QED
        BY <2>1, <2>11, <3>1, <4>1 DEF Glossary!IInv, Glossary!VariantsOfLastEdit
    <3>2. CASE v.of = r.of /\ commits # r.since
      BY <2>1, <2>6, <2>11, <3>2
    <3>3. CASE v.of = r.of /\ commits = r.since
      <4>1. v.edit = r.edit
        BY <2>1, <2>7, <2>8, <3>3
      <4> QED
        BY <2>6, <2>8, <2>11, <3>3, <4>1
    <3> QED
      BY <3>1, <3>2, <3>3
  <2> QED
    BY <1>1, <2>1, <2>12, <2>13, <2>14, <2>15, OthersKeepTheirs
<1> QED
  BY <1>2, <1>3

LEMMA DeleteAbbreviationStep ==
  ASSUME Glossary!IInv, NEW a \in Glossary!Ids, Glossary!Delete(a)
  PROVE  Glossary!IInv'
<1>1. /\ Glossary!IsRow(abbreviations[a]) /\ requests' = requests + 1
      /\ abbreviations' = [abbreviations EXCEPT ![a] = Gone]
      /\ variants' = {v \in variants : v.of # a}
      /\ UNCHANGED <<browser, commits, overlaid>>
  BY DEF Glossary!Delete
<1>2. Glossary!TypeOK
  BY DEF Glossary!IInv
<1>3. \A b : abbreviations'[b] = IF b = a THEN Gone ELSE abbreviations[b]
  BY <1>1, <1>2 DEF Glossary!TypeOK
<1>4. /\ abbreviations[a] # None
      /\ \A b : Glossary!IsRow(abbreviations'[b]) =>
           b # a /\ Glossary!IsRow(abbreviations[b]) /\ abbreviations'[b] = abbreviations[b]
  BY <1>1, <1>3, RowsAreRows
<1>5. Glossary!TypeOK'
  BY <1>1, <1>2 DEF Glossary!TypeOK, Glossary!Holds
<1>6. Glossary!DuplicatesExplained'
  BY <1>1, <1>4 DEF Glossary!IInv, Glossary!DuplicatesExplained
<1>7. Glossary!VariantsOfLastEdit'
  <2>1. \A v \in variants' : v \in variants /\ v.of # a
    BY <1>1
  <2> QED
    BY <1>1, <1>3, <2>1 DEF Glossary!IInv, Glossary!VariantsOfLastEdit
<1>8. Glossary!Apart'
  BY <1>1 DEF Glossary!IInv, Glossary!Apart, Glossary!At
<1>9. ASSUME NEW e \in Editors, browser'[e] # None
      PROVE  (/\ Glossary!Claims(browser[e]) /\ Glossary!AddsNewKeys(browser[e])
              /\ Glossary!KnowsItsRow(browser[e]))'
  <2>1. /\ browser'[e] = browser[e] /\ Glossary!Claims(browser[e])
        /\ Glossary!AddsNewKeys(browser[e]) /\ Glossary!KnowsItsRow(browser[e])
    BY <1>1, <1>9 DEF Glossary!IInv
  <2>2. Glossary!Claims(browser[e])'
    BY <1>3, <1>4, <2>1 DEF Glossary!Claims
  <2>3. Glossary!AddsNewKeys(browser[e])'
    BY <1>1, <1>4, <2>1 DEF Glossary!AddsNewKeys
  <2>4. Glossary!KnowsItsRow(browser[e])'
    BY <1>1, <1>4, <2>1 DEF Glossary!KnowsItsRow, Glossary!StoredVariants
  <2> QED
    BY <2>2, <2>3, <2>4
<1> QED
  BY <1>5, <1>6, <1>7, <1>8, <1>9 DEF Glossary!IInv

--------------------------------------------------------------------------------
LEMMA GlossaryInit == Glossary!Init => Glossary!IInv
<1> SUFFICES ASSUME Glossary!Init PROVE Glossary!IInv
  OBVIOUS
<1>1. \A a \in Glossary!Ids : ~ Glossary!IsRow(abbreviations[a])
  BY DEF Glossary!Init, Glossary!IsRow
<1>2. \A e \in Editors : browser[e] = None
  BY DEF Glossary!Init
<1>3. Glossary!TypeOK
  BY <1>2 DEF Glossary!Init, Glossary!TypeOK
<1> QED
  BY <1>1, <1>2, <1>3
  DEF Glossary!Init, Glossary!IInv, Glossary!DuplicatesExplained,
      Glossary!VariantsOfLastEdit, Glossary!Apart, Glossary!At

LEMMA GlossaryNext == Glossary!IInv /\ [Glossary!Next]_Glossary!vars => Glossary!IInv'
<1> SUFFICES ASSUME Glossary!IInv, [Glossary!Next]_Glossary!vars PROVE Glossary!IInv'
  OBVIOUS
<1>1. CASE UNCHANGED Glossary!vars
  BY <1>1
  DEF Glossary!vars, Glossary!IInv, Glossary!TypeOK, Glossary!Holds,
      Glossary!DuplicatesExplained, Glossary!VariantsOfLastEdit, Glossary!Apart,
      Glossary!At, Glossary!Claims, Glossary!AddsNewKeys, Glossary!KnowsItsRow,
      Glossary!StoredVariants
<1>2. ASSUME NEW e \in Editors, NEW form \in Forms, Glossary!Create(e, form)
      PROVE  Glossary!IInv'
  BY <1>2, CreateAbbreviationStep
<1>3. ASSUME NEW e \in Editors, NEW form \in Forms, NEW a \in Glossary!Ids,
             Glossary!Update(e, a, form)
      PROVE  Glossary!IInv'
  BY <1>3, UpdateAbbreviationStep
<1>4. ASSUME NEW e \in Editors, NEW file \in Files, Glossary!PreviewImport(e, file)
      PROVE  Glossary!IInv'
  BY <1>4, PreviewImportStep
<1>5. ASSUME NEW e \in Editors, Glossary!CommitImport(e) PROVE Glossary!IInv'
  BY <1>5, CommitImportStep
<1>6. ASSUME NEW e \in Editors, Glossary!ImportRow(e) PROVE Glossary!IInv'
  BY <1>6, ImportRowStep
<1>7. ASSUME NEW e \in Editors, Glossary!CommitAdded(e) PROVE Glossary!IInv'
  BY <1>7, CommitAddedStep
<1>8. ASSUME NEW e \in Editors, Glossary!ReplaceVariants(e) PROVE Glossary!IInv'
  BY <1>8, ReplaceVariantsStep
<1>9. ASSUME NEW e \in Editors, Glossary!CommitUpdate(e) PROVE Glossary!IInv'
  BY <1>9, CommitUpdateStep
<1>10. ASSUME NEW a \in Glossary!Ids, Glossary!Delete(a) PROVE Glossary!IInv'
  BY <1>10, DeleteAbbreviationStep
<1> QED
  BY <1>1, <1>2, <1>3, <1>4, <1>5, <1>6, <1>7, <1>8, <1>9, <1>10 DEF Glossary!Next

(* The invariant of the abbreviations: a transaction knows the stored rows until       *)
(* another one commits, and keeps its own identifiers to itself.                     *)
THEOREM GlossaryInvariance == Glossary!Spec => []Glossary!IInv
  BY GlossaryInit, GlossaryNext, PTL DEF Glossary!Spec

(* Create, edit and import all look for the key before they write: two abbreviations   *)
(* with one text, category and language need two requests that overlapped.            *)
THEOREM DuplicatesNeedOverlap == Glossary!Spec => []DuplicatesExplained
<1>1. Glossary!IInv => DuplicatesExplained
  BY DEF Glossary!IInv, DuplicatesExplained
<1> QED
  BY <1>1, GlossaryInvariance, PTL

(* An edit replaces the spellings of the abbreviation: those stored are its last       *)
(* edit's, unless that one overlapped another.                                      *)
THEOREM SpellingsOfLastEdit == Glossary!Spec => []VariantsOfLastEdit
<1>1. Glossary!IInv => VariantsOfLastEdit
  BY DEF Glossary!IInv, VariantsOfLastEdit
<1> QED
  BY <1>1, GlossaryInvariance, PTL

--------------------------------------------------------------------------------
(* The migrations.  What the statements of a script do is a function that they     *)
(* define one by one, and what they keep is shown at the first that would not.     *)
LEMMA LeastNatural ==
  ASSUME NEW S \in SUBSET Nat, S # {}
  PROVE  \E n \in S : \A m \in S : n <= m
<1> DEFINE R == OpToRel(<, Nat)
<1>1. IsWellFoundedOn(R, Nat)
  BY NatLessThanWellFounded
<1>2. \A x, y \in Nat : x < y => <<x, y>> \in R
  BY DEF OpToRel
<1> HIDE DEF R
<1>3. \E x \in S : \A y \in S : ~ (<<y, x>> \in R)
  BY <1>1, WFMin
<1>4. PICK n \in S : \A y \in S : ~ (<<y, n>> \in R)
  BY <1>3
<1>5. \A m \in S : n <= m
  <2> SUFFICES ASSUME NEW m \in S PROVE n <= m
    OBVIOUS
  <2>1. m \in Nat /\ n \in Nat /\ ~ (<<m, n>> \in R)
    BY <1>4
  <2>2. ~ (m < n)
    BY <1>2, <2>1
  <2> QED
    BY <2>1, <2>2
<1> QED
  BY <1>5

(* What holds before the first turn and is kept by every turn holds after all of them. *)
LEMMA KeptByTurns ==
  ASSUME NEW length \in Nat, NEW Kept, 0 \in Kept,
         \A n \in 1 .. length : n - 1 \in Kept => n \in Kept
  PROVE  \A n \in 0 .. length : n \in Kept
<1> DEFINE Lost == {n \in 0 .. length : n \notin Kept}
<1> SUFFICES ASSUME Lost # {} PROVE FALSE
  OBVIOUS
<1>1. PICK n \in Lost : \A m \in Lost : n <= m
  <2>1. Lost \in SUBSET Nat
    OBVIOUS
  <2> HIDE DEF Lost
  <2> QED
    BY <2>1, LeastNatural
<1>2. n \in 1 .. length /\ n \notin Kept
  BY <1>1
<1>3. n - 1 \in 0 .. length /\ ~ (n <= n - 1)
  BY <1>2
<1>4. n - 1 \notin Lost
  <2> HIDE DEF Lost
  <2> QED
    BY <1>1, <1>3
<1> QED
  BY <1>2, <1>3, <1>4

(* A script is executed a statement at a time.                                  *)
IsExecution(base, script, length, done) ==
  done = [n \in 0 .. length |->
           IF n = 0 THEN [ok |-> TRUE, db |-> base]
           ELSE Schema!Execute(base, done[n - 1], script[n])]

LEMMA ExecutedUpTo ==
  ASSUME NEW base, NEW script, NEW length \in Nat
  PROVE  \E done : IsExecution(base, script, length, done)
<1> DEFINE Start == [ok |-> TRUE, db |-> base]
           Turn(q, n) == Schema!Execute(base, q, script[n])
           Goes(f, m) == f = [n \in 0 .. m |-> IF n = 0 THEN Start ELSE Turn(f[n - 1], n)]
           Stuck == {m \in Nat : ~ \E f : Goes(f, m)}
<1> HIDE DEF Start, Turn
<1>1. Stuck = {}
  <2> SUFFICES ASSUME Stuck # {} PROVE FALSE
    OBVIOUS
  <2>1. PICK m \in Stuck : \A l \in Stuck : m <= l
    BY LeastNatural
  <2>2. m # 0
    <3>1. Goes([n \in 0 .. 0 |-> Start], 0)
      OBVIOUS
    <3> QED
      BY <3>1
  <2>3. m - 1 \in Nat /\ m - 1 \notin Stuck
    <3>1. m \in Nat
      BY <2>1
    <3> HIDE DEF Stuck
    <3>2. m - 1 \in Nat /\ ~ (m <= m - 1)
      BY <2>2, <3>1
    <3> QED
      BY <2>1, <3>2
  <2>4. PICK f : Goes(f, m - 1)
    BY <2>3
  <2> DEFINE g == [n \in 0 .. m |-> IF n = m THEN Turn(f[m - 1], m) ELSE f[n]]
  <2>5. \A n \in 0 .. m : g[n] = IF n = 0 THEN Start ELSE Turn(g[n - 1], n)
    <3> SUFFICES ASSUME NEW n \in 0 .. m
                 PROVE  g[n] = IF n = 0 THEN Start ELSE Turn(g[n - 1], n)
      OBVIOUS
    <3>1. m \in Nat /\ m > 0
      BY <2>2
    <3>2. CASE n = m
      <4>1. n - 1 \in 0 .. m /\ n - 1 # m /\ n # 0
        BY <3>1, <3>2
      <4> QED
        BY <3>2, <4>1
    <3>3. CASE n # m
      <4>1. n \in 0 .. m - 1 /\ (n # 0 => n - 1 \in 0 .. m /\ n - 1 # m)
        BY <3>1, <3>3
      <4>2. f[n] = IF n = 0 THEN Start ELSE Turn(f[n - 1], n)
        BY <2>4, <4>1
      <4> QED
        BY <3>3, <4>1, <4>2
    <3> QED
      BY <3>2, <3>3
  <2>6. g = [n \in 0 .. m |-> IF n = 0 THEN Start ELSE Turn(g[n - 1], n)]
    <3> HIDE DEF g
    <3>1. g = [n \in 0 .. m |-> g[n]]
      BY DEF g
    <3> QED
      BY <2>5, <3>1
  <2>7. Goes(g, m)
    BY <2>6
  <2> QED
    BY <2>7
<1>2. \E f : Goes(f, length)
  BY <1>1
<1> QED
  BY <1>2 DEF Start, Turn, IsExecution

LEMMA ExecutedTurns ==
  ASSUME NEW base, NEW script, Len(script) \in Nat
  PROVE  /\ Schema!Executed(base, script)[0] = [ok |-> TRUE, db |-> base]
         /\ \A n \in 1 .. Len(script) :
              Schema!Executed(base, script)[n]
                = Schema!Execute(base, Schema!Executed(base, script)[n - 1], script[n])
<1> DEFINE done == Schema!Executed(base, script)
<1>1. \E f : IsExecution(base, script, Len(script), f)
  BY ExecutedUpTo
<1>2. done = CHOOSE f : IsExecution(base, script, Len(script), f)
  BY DEF Schema!Executed, IsExecution
<1>3. done = [n \in 0 .. Len(script) |->
                IF n = 0 THEN [ok |-> TRUE, db |-> base]
                ELSE Schema!Execute(base, done[n - 1], script[n])]
  BY <1>1, <1>2 DEF IsExecution
<1> HIDE DEF done
<1>4. done[0] = [ok |-> TRUE, db |-> base]
  BY <1>3
<1>5. \A n \in 1 .. Len(script) : done[n] = Schema!Execute(base, done[n - 1], script[n])
  <2> SUFFICES ASSUME NEW n \in 1 .. Len(script)
               PROVE  done[n] = Schema!Execute(base, done[n - 1], script[n])
    OBVIOUS
  <2>1. n \in 0 .. Len(script) /\ n # 0
    OBVIOUS
  <2> QED
    BY <1>3, <2>1
<1> QED
  BY <1>4, <1>5 DEF done

(* What a statement makes of the tables has nothing to do with the rows.          *)
LEMMA RowsApart ==
  ASSUME NEW a, NEW b, Schema!Bare(a) = Schema!Bare(b), NEW s
  PROVE  /\ Schema!WellFormed(a, s) <=> Schema!WellFormed(b, s)
         /\ Schema!Bare(Schema!After(a, s)) = Schema!Bare(Schema!After(b, s))
<1>1. a.tables = b.tables /\ a.namespace = b.namespace
  BY DEF Schema!Bare
<1>2. Schema!WellFormed(a, s) <=> Schema!WellFormed(b, s)
  BY <1>1 DEF Schema!WellFormed, Schema!Exists
<1>3. Schema!Tables(a, s) = Schema!Tables(b, s)
  BY <1>1 DEF Schema!Tables
<1>4. Schema!Bare(Schema!After(a, s)) = Schema!Bare(Schema!After(b, s))
  BY <1>1, <1>3 DEF Schema!Bare, Schema!After
<1> QED
  BY <1>2, <1>4

(* No statement leaves a row that its table cannot hold: what an alteration        *)
(* does to the rows of its table.                                             *)
Holds(t, f) ==
  /\ f.column \in Schema!Columns(t)
  /\ f.value = Schema!NULL => f.column \in t.optional
  /\ \A c \in t.checks : Schema!Admits(c, f)

LEMMA AlteredHolds ==
  ASSUME NEW t, Schema!IsTable(t), NEW s, s.op \in Schema!Alterations
  PROVE  /\ Schema!IsTable(Schema!Altered(t, s))
         /\ \A f : /\ Holds(t, f)
                   /\ s.op = "drop column" => f.column # s.column
                   /\ s.op = "set not null" => f.column # s.column \/ f.value # Schema!NULL
                   /\ s.op = "add check" => Schema!Admits(s.check, f)
                   => Holds(Schema!Altered(t, s), f)
<1> DEFINE u == Schema!Altered(t, s)
<1> USE DEF Schema!IsTable, Schema!Table, Schema!Columns, Holds
<1>1. CASE s.op = "create index"
  <2>1. u = [t EXCEPT !.indexes = @ \union {s.columns}]
    BY <1>1 DEF Schema!Altered
  <2> QED
    BY <2>1, <1>1
<1>2. CASE s.op = "drop index"
  <2>1. u = [t EXCEPT !.indexes = @ \ {s.columns}]
    BY <1>2 DEF Schema!Altered
  <2> QED
    BY <2>1, <1>2
<1>3. CASE s.op = "add column"
  <2>1. u = [t EXCEPT !.required = IF s.required THEN @ \union {s.column} ELSE @,
                      !.optional = IF s.required THEN @ ELSE @ \union {s.column},
                      !.keys = @ \union s.keys]
    BY <1>3 DEF Schema!Altered
  <2> QED
    BY <2>1, <1>3
<1>4. CASE s.op = "drop column"
  <2>1. u = [required |-> t.required \ {s.column},
             optional |-> t.optional \ {s.column},
             keys |-> {k \in t.keys : k.column # s.column},
             unique |-> {c \in t.unique : s.column \notin c},
             checks |-> {c \in t.checks : s.column \notin c.columns},
             indexes |-> {i \in t.indexes : s.column \notin i}]
    BY <1>4 DEF Schema!Altered
  <2>2. /\ u.required = t.required \ {s.column}
        /\ u.optional = t.optional \ {s.column}
        /\ \A c \in u.checks : c \in t.checks
    BY <2>1
  <2>3. Schema!IsTable(u)
    BY <2>1
  <2> HIDE DEF u
  <2>4. ASSUME NEW f, Holds(t, f), f.column # s.column PROVE Holds(u, f)
    BY <2>2, <2>4
  <2> QED
    BY <2>3, <2>4, <1>4 DEF u
<1>5. CASE s.op = "set not null"
  <2>1. u = [t EXCEPT !.required = @ \union {s.column}, !.optional = @ \ {s.column}]
    BY <1>5 DEF Schema!Altered
  <2> QED
    BY <2>1, <1>5
<1>6. CASE s.op = "drop not null"
  <2>1. u = [t EXCEPT !.required = @ \ {s.column}, !.optional = @ \union {s.column}]
    BY <1>6 DEF Schema!Altered
  <2> QED
    BY <2>1, <1>6
<1>7. CASE s.op = "add check"
  <2>1. u = [t EXCEPT !.checks = @ \union {s.check}]
    BY <1>7 DEF Schema!Altered
  <2> QED
    BY <2>1, <1>7
<1>8. CASE s.op = "drop check"
  <2>1. u = [t EXCEPT !.checks = {c \in @ : c.name # s.name}]
    BY <1>8 DEF Schema!Altered
  <2> QED
    BY <2>1, <1>8
<1> QED
  BY <1>1, <1>2, <1>3, <1>4, <1>5, <1>6, <1>7, <1>8 DEF Schema!Alterations

LEMMA StatementKeepsRowsFit ==
  ASSUME NEW base, Schema!Formed(base), Schema!Fit(base), NEW s, Schema!IsStatement(s),
         Schema!WellFormed(base, s), Schema!Satisfied(base, s)
  PROVE  /\ Schema!Formed(Schema!After(base, s))
         /\ Schema!Fit(Schema!After(base, s))
         /\ Schema!After(base, s).rows \subseteq base.rows
<1> DEFINE after == Schema!After(base, s)
<1>1. /\ after = [namespace |-> after.namespace, tables |-> after.tables, rows |-> after.rows]
      /\ after.tables = Schema!Tables(base, s)
      /\ after.rows = {f \in base.rows : ~Schema!Lost(s, f)}
  BY DEF Schema!After
<1>2. \A t \in DOMAIN base.tables : Schema!IsTable(base.tables[t])
  BY DEF Schema!Formed
<1>3. \A f \in base.rows : Schema!Exists(base, f.table) /\ Holds(base.tables[f.table], f)
  BY DEF Schema!Fit, Schema!Storable, Holds
<1> SUFFICES /\ \A t \in DOMAIN after.tables : Schema!IsTable(after.tables[t])
             /\ \A f \in after.rows : f.table \in DOMAIN after.tables
                                        /\ Holds(after.tables[f.table], f)
  <2> QED
    BY <1>1 DEF Schema!Formed, Schema!Fit, Schema!Storable, Schema!Exists, Holds
<1> HIDE DEF after
<1>4. CASE s.op \in {"create schema", "drop schema"}
  <2>1. after.tables = base.tables
    BY <1>1, <1>4 DEF Schema!Tables
  <2> QED
    BY <1>1, <1>2, <1>3, <2>1 DEF Schema!Exists
<1>5. CASE s.op = "create table"
  <2>1. /\ s.table \notin DOMAIN base.tables
        /\ Schema!IsTable(s.as)
    BY <1>5 DEF Schema!WellFormed, Schema!Exists, Schema!IsStatement, Schema!Alterations
  <2>2. after.tables = [t \in DOMAIN base.tables \union {s.table} |->
                          IF t = s.table THEN s.as ELSE base.tables[t]]
    BY <1>1, <1>5 DEF Schema!Tables
  <2> QED
    BY <1>1, <1>2, <1>3, <2>1, <2>2 DEF Schema!Exists
<1>6. CASE s.op = "drop table"
  <2>1. after.tables = [t \in DOMAIN base.tables \ {s.table} |-> base.tables[t]]
    BY <1>1, <1>6 DEF Schema!Tables
  <2> QED
    BY <1>1, <1>2, <1>3, <1>6, <2>1 DEF Schema!Exists, Schema!Lost
<1>7. CASE s.op \in Schema!Alterations
  <2>1. s.table \in DOMAIN base.tables
    BY <1>7 DEF Schema!WellFormed, Schema!Exists, Schema!Alterations
  <2>2. after.tables = [base.tables EXCEPT ![s.table] = Schema!Altered(base.tables[s.table], s)]
    BY <1>1, <1>7 DEF Schema!Tables, Schema!Alterations
  <2> DEFINE t == base.tables[s.table]
  <2>3. /\ Schema!IsTable(Schema!Altered(t, s))
        /\ \A f : /\ Holds(t, f)
                  /\ s.op = "drop column" => f.column # s.column
                  /\ s.op = "set not null" => f.column # s.column \/ f.value # Schema!NULL
                  /\ s.op = "add check" => Schema!Admits(s.check, f)
                  => Holds(Schema!Altered(t, s), f)
    BY <1>2, <1>7, <2>1, AlteredHolds
  <2>4. ASSUME NEW f \in after.rows
        PROVE  f.table \in DOMAIN after.tables /\ Holds(after.tables[f.table], f)
    <3>1. f \in base.rows /\ ~Schema!Lost(s, f)
      BY <1>1
    <3>2. f.table \in DOMAIN base.tables /\ Holds(base.tables[f.table], f)
      BY <1>3, <3>1 DEF Schema!Exists
    <3>3. CASE f.table # s.table
      BY <2>2, <3>2, <3>3
    <3>4. CASE f.table = s.table
      <4>1. s.op = "drop column" => f.column # s.column
        BY <3>1, <3>4 DEF Schema!Lost
      <4>2. s.op = "set not null" => f.column # s.column \/ f.value # Schema!NULL
        BY <3>1, <3>4 DEF Schema!Satisfied
      <4>3. s.op = "add check" => Schema!Admits(s.check, f)
        BY <3>1, <3>4 DEF Schema!Satisfied
      <4> QED
        BY <2>1, <2>2, <2>3, <3>2, <3>4, <4>1, <4>2, <4>3
    <3> QED
      BY <3>3, <3>4
  <2> QED
    BY <1>2, <2>1, <2>2, <2>3, <2>4
<1> QED
  BY <1>4, <1>5, <1>6, <1>7 DEF Schema!IsStatement

(* A script that runs to its end over the bare schema: every statement of it fits    *)
(* the schema, so that only rows can refuse one, and until then the tables are as    *)
(* they would be without rows.                                                 *)
SoFar(base, now, bare) ==
  now.ok => /\ Schema!Bare(now.db) = Schema!Bare(bare.db)
            /\ Schema!Formed(now.db)
            /\ Schema!Fit(now.db)
            /\ now.db.rows \subseteq base.rows

LEMMA Executes ==
  ASSUME NEW base, NEW q, NEW s, NEW r, r = Schema!Execute(base, q, s)
  PROVE  /\ r.ok <=> q.ok /\ Schema!WellFormed(q.db, s) /\ Schema!Satisfied(q.db, s)
         /\ r.ok => r.db = Schema!After(q.db, s)
<1>1. CASE q.ok /\ Schema!WellFormed(q.db, s) /\ Schema!Satisfied(q.db, s)
  <2>1. r = [ok |-> TRUE, db |-> Schema!After(q.db, s)]
    BY <1>1 DEF Schema!Execute
  <2> QED
    BY <1>1, <2>1
<1>2. CASE ~ (q.ok /\ Schema!WellFormed(q.db, s) /\ Schema!Satisfied(q.db, s))
  <2>1. r = [ok |-> FALSE, db |-> base]
    BY <1>2 DEF Schema!Execute
  <2> QED
    BY <1>2, <2>1
<1> QED
  BY <1>1, <1>2

LEMMA BareRunsThrough ==
  ASSUME NEW base, NEW script, Schema!IsScript(script), Schema!Run(base, script).ok
  PROVE  /\ \A n \in 0 .. Len(script) : Schema!Executed(base, script)[n].ok
         /\ \A n \in 1 .. Len(script) :
              Schema!WellFormed(Schema!Executed(base, script)[n - 1].db, script[n])
<1> DEFINE done == Schema!Executed(base, script)
<1>1. Len(script) \in Nat
  BY DEF Schema!IsScript
<1>2. /\ done[0] = [ok |-> TRUE, db |-> base]
      /\ \A n \in 1 .. Len(script) : done[n] = Schema!Execute(base, done[n - 1], script[n])
  BY <1>1, ExecutedTurns
<1>3. done[Len(script)].ok
  BY DEF Schema!Run
<1> HIDE DEF done
<1>4. \A n \in 0 .. Len(script) : done[n].ok
  <2> SUFFICES ASSUME NEW m \in 0 .. Len(script), ~done[m].ok PROVE FALSE
    OBVIOUS
  <2> DEFINE Kept == {n \in 0 .. Len(script) : m <= n => ~done[n].ok}
  <2>1. 0 \in Kept
    <3>1. m <= 0 => m = 0
      OBVIOUS
    <3> QED
      BY <1>1, <3>1
  <2>2. ASSUME NEW n \in 1 .. Len(script), n - 1 \in Kept PROVE n \in Kept
    <3>1. CASE m <= n - 1
      <4>1. ~done[n - 1].ok
        BY <2>2, <3>1
      <4>2. ~done[n].ok
        BY <1>2, <4>1, Executes
      <4> QED
        BY <4>2
    <3>2. CASE ~ (m <= n - 1)
      <4>1. m <= n => m = n
        BY <1>1, <3>2
      <4> QED
        BY <4>1
    <3> QED
      BY <3>1, <3>2
  <2> HIDE DEF Kept
  <2>3. \A n \in 0 .. Len(script) : n \in Kept
    BY <1>1, <2>1, <2>2, KeptByTurns
  <2> QED
    BY <1>1, <1>3, <2>3 DEF Kept
<1>5. \A n \in 1 .. Len(script) : Schema!WellFormed(done[n - 1].db, script[n])
  <2> SUFFICES ASSUME NEW n \in 1 .. Len(script)
               PROVE  Schema!WellFormed(done[n - 1].db, script[n])
    OBVIOUS
  <2>1. n \in 0 .. Len(script)
    OBVIOUS
  <2> QED
    BY <1>2, <1>4, <2>1, Executes
<1> QED
  BY <1>4, <1>5 DEF done

LEMMA ScriptTurns ==
  ASSUME NEW base, Schema!Formed(base), Schema!Fit(base),
         NEW script, Schema!IsScript(script), Schema!Run(Schema!Bare(base), script).ok
  PROVE  \A n \in 0 .. Len(script) :
           SoFar(base, Schema!Executed(base, script)[n],
                 Schema!Executed(Schema!Bare(base), script)[n])
<1> DEFINE done == Schema!Executed(base, script)
           bare == Schema!Executed(Schema!Bare(base), script)
           Kept == {n \in 0 .. Len(script) : SoFar(base, done[n], bare[n])}
<1>1. Len(script) \in Nat /\ \A n \in 1 .. Len(script) : Schema!IsStatement(script[n])
  BY DEF Schema!IsScript
<1>2. /\ done[0] = [ok |-> TRUE, db |-> base]
      /\ \A n \in 1 .. Len(script) : done[n] = Schema!Execute(base, done[n - 1], script[n])
  BY <1>1, ExecutedTurns
<1>3. /\ bare[0] = [ok |-> TRUE, db |-> Schema!Bare(base)]
      /\ \A n \in 1 .. Len(script) :
           bare[n] = Schema!Execute(Schema!Bare(base), bare[n - 1], script[n])
  BY <1>1, ExecutedTurns
<1>4. \A n \in 0 .. Len(script) : bare[n].ok
  BY BareRunsThrough
<1> HIDE DEF done, bare
<1>5. 0 \in Kept
  <2>1. Schema!Bare(base) = Schema!Bare(Schema!Bare(base))
    BY DEF Schema!Bare
  <2>2. SoFar(base, done[0], bare[0])
    BY <1>2, <1>3, <2>1 DEF SoFar
  <2> QED
    BY <1>1, <2>2
<1>6. ASSUME NEW n \in 1 .. Len(script), n - 1 \in Kept PROVE n \in Kept
  <2> DEFINE old == done[n - 1].db
             s == script[n]
  <2>1. SoFar(base, done[n - 1], bare[n - 1])
    BY <1>6
  <2>2. bare[n].ok
    BY <1>1, <1>4
  <2>3. bare[n].db = Schema!After(bare[n - 1].db, s)
    BY <1>3, <2>2, Executes
  <2>4. SUFFICES ASSUME done[n].ok PROVE SoFar(base, done[n], bare[n])
    BY DEF SoFar
  <2>5. /\ done[n - 1].ok
        /\ Schema!WellFormed(old, s) /\ Schema!Satisfied(old, s)
        /\ done[n].db = Schema!After(old, s)
    BY <1>2, <2>4, Executes
  <2>6. /\ Schema!Bare(old) = Schema!Bare(bare[n - 1].db)
        /\ Schema!Formed(old) /\ Schema!Fit(old) /\ old.rows \subseteq base.rows
    BY <2>1, <2>5 DEF SoFar
  <2>7. Schema!Bare(done[n].db) = Schema!Bare(bare[n].db)
    BY <2>3, <2>5, <2>6, RowsApart
  <2>8. Schema!IsStatement(s)
    BY <1>1
  <2>9. /\ Schema!Formed(done[n].db) /\ Schema!Fit(done[n].db)
        /\ done[n].db.rows \subseteq old.rows
    <3> HIDE DEF old, s
    <3> QED
      BY <2>5, <2>6, <2>8, StatementKeepsRowsFit
  <2> QED
    BY <2>6, <2>7, <2>9 DEF SoFar
<1> HIDE DEF Kept
<1>7. \A n \in 0 .. Len(script) : n \in Kept
  BY <1>1, <1>5, <1>6, KeptByTurns
<1> QED
  BY <1>7 DEF Kept, done, bare

LEMMA ScriptEnds ==
  ASSUME NEW base, Schema!Formed(base), Schema!Fit(base),
         NEW script, Schema!IsScript(script), NEW next,
         Schema!Run(Schema!Bare(base), script) = [ok |-> TRUE, db |-> next],
         Schema!Run(base, script).ok
  PROVE  /\ Schema!Bare(Schema!Run(base, script).db) = next
         /\ Schema!Formed(Schema!Run(base, script).db)
         /\ Schema!Fit(Schema!Run(base, script).db)
<1> DEFINE nil == Schema!Bare(base)
<1>1. Len(script) \in 0 .. Len(script)
  BY DEF Schema!IsScript
<1>2. Schema!Formed(nil) /\ Schema!Fit(nil) /\ nil.rows = {} /\ Schema!Bare(nil) = nil
  BY DEF Schema!Formed, Schema!Fit, Schema!Bare
<1>3. Schema!Run(nil, script).ok /\ Schema!Run(nil, script).db = next
  OBVIOUS
<1> HIDE DEF nil
<1>4. SoFar(nil, Schema!Run(nil, script), Schema!Run(nil, script))
  <2>1. Schema!Run(Schema!Bare(nil), script).ok
    BY <1>2, <1>3
  <2> QED
    BY <1>1, <1>2, <2>1, ScriptTurns DEF Schema!Run
<1>5. next.rows = {} /\ Schema!Formed(next)
  BY <1>2, <1>3, <1>4 DEF SoFar
<1>6. Schema!Bare(next) = next
  BY <1>5 DEF Schema!Formed, Schema!Bare
<1>7. SoFar(base, Schema!Run(base, script), Schema!Run(nil, script))
  BY <1>1, <1>3, ScriptTurns DEF Schema!Run, nil
<1> QED
  BY <1>3, <1>6, <1>7 DEF SoFar

(* A harmless statement over rows that the base can hold.                       *)
LEMMA HarmlessToRows ==
  ASSUME NEW base, Schema!Fit(base), NEW s, Schema!Harmless(Schema!Bare(base), s),
         NEW now, now.rows = base.rows
  PROVE  Schema!Satisfied(now, s) /\ Schema!After(now, s).rows = now.rows
<1>1. \A f \in base.rows :
        /\ f.table \in DOMAIN base.tables
        /\ Holds(base.tables[f.table], f)
  BY DEF Schema!Fit, Schema!Storable, Schema!Exists, Holds
<1>2. Schema!Bare(base).tables = base.tables
  BY DEF Schema!Bare
<1>3. \A f : ~Schema!Lost(s, f)
  BY DEF Schema!Harmless, Schema!Lost
<1>4. Schema!After(now, s).rows = now.rows
  BY <1>3 DEF Schema!After
<1>5. CASE s.op = "add check"
  <2>1. Schema!Implied(Schema!Bare(base), s.table, s.check)
    BY <1>5 DEF Schema!Harmless
  <2>2. ASSUME NEW f \in base.rows, f.table = s.table PROVE Schema!Admits(s.check, f)
    <3>1. /\ s.table \in DOMAIN base.tables
          /\ f.column \in Schema!Columns(base.tables[s.table])
          /\ \A c \in base.tables[s.table].checks : Schema!Admits(c, f)
      BY <1>1, <2>2 DEF Holds
    <3>2. \/ s.check.columns \intersect Schema!Columns(base.tables[s.table]) = {}
          \/ s.check.values = {}
          \/ \E c \in base.tables[s.table].checks :
               s.check.columns \subseteq c.columns /\ c.values # {}
                 /\ c.values \subseteq s.check.values
      BY <1>2, <2>1, <3>1 DEF Schema!Implied, Schema!Exists
    <3> QED
      BY <3>1, <3>2 DEF Schema!Admits
  <2> QED
    BY <1>4, <1>5, <2>2 DEF Schema!Satisfied
<1>6. CASE s.op = "set not null"
  <2>1. s.table \in DOMAIN base.tables => s.column \notin base.tables[s.table].optional
    BY <1>2, <1>6 DEF Schema!Harmless, Schema!Exists
  <2>2. \A f \in base.rows : f.table = s.table /\ f.column = s.column => f.value # Schema!NULL
    BY <1>1, <2>1 DEF Holds
  <2> QED
    BY <1>4, <1>6, <2>2 DEF Schema!Satisfied
<1>7. CASE s.op \notin {"add check", "set not null"}
  BY <1>4, <1>7 DEF Schema!Satisfied
<1> QED
  BY <1>5, <1>6, <1>7

(* A statement that some row refuses, where the older tables ask as much.        *)
LEMMA RefusedForOlder ==
  ASSUME NEW now, NEW older, NEW s, Schema!Restores(older, s), ~Schema!Satisfied(now, s)
  PROVE  \E f \in now.rows :
           /\ Schema!Exists(older, f.table)
           /\ f.column \in Schema!Columns(older.tables[f.table])
           /\ ~Schema!Storable(older, f)
<1>1. CASE s.op = "add check"
  <2>1. PICK f \in now.rows : f.table = s.table /\ ~Schema!Admits(s.check, f)
    BY <1>1 DEF Schema!Satisfied
  <2>2. /\ Schema!Exists(older, s.table)
        /\ s.check \in older.tables[s.table].checks
        /\ s.check.columns \subseteq Schema!Columns(older.tables[s.table])
    BY <1>1 DEF Schema!Restores
  <2>3. f.column \in s.check.columns
    BY <2>1 DEF Schema!Admits
  <2> QED
    BY <2>1, <2>2, <2>3 DEF Schema!Storable
<1>2. CASE s.op = "set not null"
  <2>1. PICK f \in now.rows :
          f.table = s.table /\ f.column = s.column /\ f.value = Schema!NULL
    BY <1>2 DEF Schema!Satisfied
  <2>2. /\ Schema!Exists(older, s.table)
        /\ s.column \in Schema!Columns(older.tables[s.table]) \ older.tables[s.table].optional
    BY <1>2 DEF Schema!Restores
  <2> QED
    BY <2>1, <2>2 DEF Schema!Storable
<1> QED
  BY <1>1, <1>2 DEF Schema!Satisfied

(* The next upgrade runs to its end and loses no row.                          *)
LEMMA UpgradeRuns ==
  ASSUME Schema!IInv, NEW r \in Schema!Revision, Schema!Upgradable(r, applied)
  PROVE  LET script == Schema!Revisions[r].upgrade
         IN  Schema!Run(db, script).ok /\ Schema!Run(db, script).db.rows = db.rows
<1> DEFINE script == Schema!Revisions[r].upgrade
           done == Schema!Executed(db, script)
           bare == Schema!Executed(Schema!Bare(db), script)
           Kept == {n \in 0 .. Len(script) : done[n].ok /\ done[n].db.rows = db.rows}
<1>1. /\ Schema!Formed(db) /\ Schema!Fit(db)
      /\ Schema!Bare(db) = Schema!SchemaOf(applied) /\ applied \in Schema!Stages
  BY DEF Schema!IInv, Schema!SchemaFollowsRevisions
<1>2. Schema!UpgradeSound(r, applied)
  BY <1>1, Scripts DEF Schema!ScriptsAssumption
<1>3. /\ Schema!Run(Schema!Bare(db), script).ok
      /\ Schema!IsScript(script)
      /\ \A n \in 1 .. Len(script) : Schema!Harmless(Schema!Bare(db), script[n])
  BY <1>1, <1>2 DEF Schema!UpgradeSound
<1> HIDE DEF script
<1>4. Len(script) \in Nat
  BY <1>3 DEF Schema!IsScript
<1>5. /\ done[0] = [ok |-> TRUE, db |-> db]
      /\ \A n \in 1 .. Len(script) : done[n] = Schema!Execute(db, done[n - 1], script[n])
  BY <1>4, ExecutedTurns
<1>6. \A n \in 1 .. Len(script) : Schema!WellFormed(bare[n - 1].db, script[n])
  BY <1>3, BareRunsThrough
<1>7. \A n \in 0 .. Len(script) : SoFar(db, done[n], bare[n])
  BY <1>1, <1>3, ScriptTurns
<1> HIDE DEF done, bare
<1>8. 0 \in Kept
  BY <1>4, <1>5
<1>9. ASSUME NEW n \in 1 .. Len(script), n - 1 \in Kept PROVE n \in Kept
  <2>1. done[n - 1].ok /\ done[n - 1].db.rows = db.rows
    BY <1>9
  <2>2. Schema!Bare(done[n - 1].db) = Schema!Bare(bare[n - 1].db)
    BY <1>7, <1>9, <2>1 DEF SoFar
  <2>3. Schema!WellFormed(done[n - 1].db, script[n])
    BY <1>6, <2>2, RowsApart
  <2>4. /\ Schema!Satisfied(done[n - 1].db, script[n])
        /\ Schema!After(done[n - 1].db, script[n]).rows = done[n - 1].db.rows
    BY <1>1, <1>3, <2>1, HarmlessToRows
  <2>5. done[n].ok /\ done[n].db.rows = db.rows
    BY <1>5, <2>1, <2>3, <2>4, Executes
  <2> QED
    BY <2>5
<1> HIDE DEF Kept
<1>10. \A n \in 0 .. Len(script) : n \in Kept
  BY <1>4, <1>8, <1>9, KeptByTurns
<1>11. done[Len(script)].ok /\ done[Len(script)].db.rows = db.rows
  BY <1>4, <1>10 DEF Kept
<1> QED
  BY <1>11 DEF Schema!Run, done, script

(* A downgrade that is refused is refused for a row the older tables could not hold. *)
LEMMA DowngradeRefused ==
  ASSUME Schema!IInv, NEW r \in Schema!Revision, Schema!Downgradable(r, applied),
         ~Schema!Run(db, Schema!Revisions[r].downgrade).ok
  PROVE  LET older == Schema!SchemaOf(applied \ {r})
         IN  \E f \in db.rows :
               /\ Schema!Exists(older, f.table)
               /\ f.column \in Schema!Columns(older.tables[f.table])
               /\ ~Schema!Storable(older, f)
<1> DEFINE script == Schema!Revisions[r].downgrade
           done == Schema!Executed(db, script)
           bare == Schema!Executed(Schema!Bare(db), script)
           older == Schema!SchemaOf(applied \ {r})
           Kept == {n \in 0 .. Len(script) : done[n].ok}
<1>1. /\ Schema!Formed(db) /\ Schema!Fit(db)
      /\ Schema!Bare(db) = Schema!SchemaOf(applied) /\ applied \in Schema!Stages
  BY DEF Schema!IInv, Schema!SchemaFollowsRevisions
<1>2. Schema!DowngradeSound(r, applied)
  BY <1>1, Scripts DEF Schema!ScriptsAssumption
<1>3. /\ Schema!Run(Schema!Bare(db), script).ok
      /\ Schema!IsScript(script)
      /\ \A n \in 1 .. Len(script) : Schema!Restores(older, script[n])
  <2>1. /\ Schema!Run(Schema!Bare(db), script) = [ok |-> TRUE, db |-> older]
        /\ Schema!IsScript(script)
        /\ \A n \in 1 .. Len(script) : Schema!Restores(older, script[n])
    BY <1>1, <1>2 DEF Schema!DowngradeSound
  <2> HIDE DEF script, older
  <2> QED
    BY <2>1
<1>4. ~Schema!Run(db, script).ok
  OBVIOUS
<1> HIDE DEF script, older
<1>5. Len(script) \in Nat
  BY <1>3 DEF Schema!IsScript
<1>6. /\ done[0] = [ok |-> TRUE, db |-> db]
      /\ \A n \in 1 .. Len(script) : done[n] = Schema!Execute(db, done[n - 1], script[n])
  BY <1>5, ExecutedTurns
<1>7. \A n \in 1 .. Len(script) : Schema!WellFormed(bare[n - 1].db, script[n])
  BY <1>3, BareRunsThrough
<1>8. \A n \in 0 .. Len(script) : SoFar(db, done[n], bare[n])
  BY <1>1, <1>3, ScriptTurns
<1>9. ~done[Len(script)].ok
  BY <1>4 DEF Schema!Run
<1> HIDE DEF done, bare
<1>10. PICK n \in 1 .. Len(script) : done[n - 1].ok /\ ~done[n].ok
  <2> SUFFICES ASSUME \A n \in 1 .. Len(script) : done[n - 1].ok => done[n].ok PROVE FALSE
    OBVIOUS
  <2>1. 0 \in Kept
    BY <1>5, <1>6
  <2>2. ASSUME NEW n \in 1 .. Len(script), n - 1 \in Kept PROVE n \in Kept
    BY <2>2
  <2> HIDE DEF Kept
  <2>3. \A n \in 0 .. Len(script) : n \in Kept
    BY <1>5, <2>1, <2>2, KeptByTurns
  <2> QED
    BY <1>5, <1>9, <2>3 DEF Kept
<1>11. /\ Schema!Bare(done[n - 1].db) = Schema!Bare(bare[n - 1].db)
       /\ done[n - 1].db.rows \subseteq db.rows
  <2>1. n - 1 \in 0 .. Len(script)
    BY <1>5
  <2> QED
    BY <1>8, <1>10, <2>1 DEF SoFar
<1>12. Schema!WellFormed(done[n - 1].db, script[n])
  BY <1>7, <1>11, RowsApart
<1>13. ~Schema!Satisfied(done[n - 1].db, script[n])
  BY <1>6, <1>10, <1>12, Executes
<1>14. \E f \in done[n - 1].db.rows :
         /\ Schema!Exists(older, f.table)
         /\ f.column \in Schema!Columns(older.tables[f.table])
         /\ ~Schema!Storable(older, f)
  BY <1>3, <1>13, RefusedForOlder
<1> QED
  BY <1>11, <1>14 DEF older

(* The steps.                                                                *)
LEMMA SchemaInit == Schema!Init => Schema!IInv
<1> SUFFICES ASSUME Schema!Init PROVE Schema!IInv
  OBVIOUS
<1>1. applied = {} /\ db = Schema!Empty
  BY DEF Schema!Init
<1>2. /\ db.namespace = FALSE /\ db.rows = {} /\ DOMAIN db.tables = {}
      /\ db = [namespace |-> db.namespace, tables |-> db.tables, rows |-> db.rows]
  BY <1>1 DEF Schema!Empty
<1>3. {} \in Schema!Stages /\ Schema!SchemaOf({}) = Schema!Empty
  BY Scripts DEF Schema!ScriptsAssumption
<1>4. Schema!Bare(db) = db
  BY <1>2 DEF Schema!Bare
<1> QED
  BY <1>1, <1>2, <1>3, <1>4
  DEF Schema!IInv, Schema!Formed, Schema!Fit, Schema!SchemaFollowsRevisions

LEMMA UpgradeStep ==
  ASSUME Schema!IInv, NEW r \in Schema!Revision, Schema!Upgrade(r)
  PROVE  Schema!IInv'
<1> DEFINE script == Schema!Revisions[r].upgrade
           next == Schema!SchemaOf(applied \union {r})
<1>1. /\ Schema!Upgradable(r, applied) /\ Schema!Run(db, script).ok
      /\ applied' = applied \union {r} /\ db' = Schema!Run(db, script).db
  BY DEF Schema!Upgrade
<1>2. /\ Schema!Formed(db) /\ Schema!Fit(db)
      /\ Schema!Bare(db) = Schema!SchemaOf(applied) /\ applied \in Schema!Stages
  BY DEF Schema!IInv, Schema!SchemaFollowsRevisions
<1>3. Schema!UpgradeSound(r, applied)
  BY <1>1, <1>2, Scripts DEF Schema!ScriptsAssumption
<1>4. /\ applied \union {r} \in Schema!Stages /\ Schema!IsScript(script)
      /\ Schema!Run(Schema!Bare(db), script) = [ok |-> TRUE, db |-> next]
  BY <1>2, <1>3 DEF Schema!UpgradeSound
<1> HIDE DEF script, next
<1>5. /\ Schema!Bare(Schema!Run(db, script).db) = next
      /\ Schema!Formed(Schema!Run(db, script).db)
      /\ Schema!Fit(Schema!Run(db, script).db)
  BY <1>1, <1>2, <1>4, ScriptEnds
<1> QED
  BY <1>1, <1>4, <1>5 DEF Schema!IInv, Schema!SchemaFollowsRevisions, next

LEMMA DowngradeStep ==
  ASSUME Schema!IInv, NEW r \in Schema!Revision, Schema!Downgrade(r)
  PROVE  Schema!IInv'
<1> DEFINE script == Schema!Revisions[r].downgrade
           next == Schema!SchemaOf(applied \ {r})
<1>1. /\ Schema!Downgradable(r, applied) /\ Schema!Run(db, script).ok
      /\ applied' = applied \ {r} /\ db' = Schema!Run(db, script).db
  BY DEF Schema!Downgrade
<1>2. /\ Schema!Formed(db) /\ Schema!Fit(db)
      /\ Schema!Bare(db) = Schema!SchemaOf(applied) /\ applied \in Schema!Stages
  BY DEF Schema!IInv, Schema!SchemaFollowsRevisions
<1>3. Schema!DowngradeSound(r, applied)
  BY <1>1, <1>2, Scripts DEF Schema!ScriptsAssumption
<1>4. /\ applied \ {r} \in Schema!Stages /\ Schema!IsScript(script)
      /\ Schema!Run(Schema!Bare(db), script) = [ok |-> TRUE, db |-> next]
  BY <1>2, <1>3 DEF Schema!DowngradeSound
<1> HIDE DEF script, next
<1>5. /\ Schema!Bare(Schema!Run(db, script).db) = next
      /\ Schema!Formed(Schema!Run(db, script).db)
      /\ Schema!Fit(Schema!Run(db, script).db)
  BY <1>1, <1>2, <1>4, ScriptEnds
<1> QED
  BY <1>1, <1>4, <1>5 DEF Schema!IInv, Schema!SchemaFollowsRevisions, next

(* The program and the rows. *)
LEMMA RowsStep ==
  ASSUME Schema!IInv, NEW f, Schema!Write(f) \/ Schema!Erase(f)
  PROVE  Schema!IInv'
<1>1. /\ Schema!Formed(db) /\ Schema!Fit(db)
      /\ Schema!Bare(db) = Schema!SchemaOf(applied) /\ applied \in Schema!Stages
  BY DEF Schema!IInv, Schema!SchemaFollowsRevisions
<1>2. db = [namespace |-> db.namespace, tables |-> db.tables, rows |-> db.rows]
  BY <1>1 DEF Schema!Formed
<1>3. applied' = applied
  BY DEF Schema!Write, Schema!Erase
<1>4. /\ db' = [namespace |-> db.namespace, tables |-> db.tables, rows |-> db'.rows]
      /\ \A g \in db'.rows : g \in db.rows \/ Schema!Storable(db, g)
  <2>1. CASE Schema!Write(f)
    <3>1. db' = [db EXCEPT !.rows = @ \union {f}] /\ Schema!Storable(db, f)
      BY <2>1 DEF Schema!Write
    <3>2. db' = [namespace |-> db.namespace, tables |-> db.tables, rows |-> db.rows \union {f}]
      BY <1>2, <3>1
    <3> QED
      BY <3>1, <3>2
  <2>2. CASE Schema!Erase(f)
    <3>1. db' = [db EXCEPT !.rows = @ \ {f}]
      BY <2>2 DEF Schema!Erase
    <3>2. db' = [namespace |-> db.namespace, tables |-> db.tables, rows |-> db.rows \ {f}]
      BY <1>2, <3>1
    <3> QED
      BY <3>2
  <2> QED
    BY <2>1, <2>2
<1>5. db'.tables = db.tables /\ db'.namespace = db.namespace
  BY <1>4
<1>6. Schema!Formed(db)'
  BY <1>1, <1>4, <1>5 DEF Schema!Formed
<1>7. Schema!Fit(db)'
  <2>1. \A g : Schema!Storable(db, g) => Schema!Storable(db', g)
    BY <1>5 DEF Schema!Storable, Schema!Exists
  <2> QED
    BY <1>1, <1>4, <2>1 DEF Schema!Fit
<1>8. Schema!Bare(db') = Schema!Bare(db)
  BY <1>5 DEF Schema!Bare
<1> QED
  BY <1>1, <1>3, <1>6, <1>7, <1>8 DEF Schema!IInv, Schema!SchemaFollowsRevisions

LEMMA SchemaNext == Schema!IInv /\ [Schema!Next]_Schema!vars => Schema!IInv'
<1> SUFFICES ASSUME Schema!IInv, [Schema!Next]_Schema!vars PROVE Schema!IInv'
  OBVIOUS
<1>1. CASE \E r \in Schema!Revision : Schema!Upgrade(r)
  BY <1>1, UpgradeStep
<1>2. CASE \E r \in Schema!Revision : Schema!Downgrade(r)
  BY <1>2, DowngradeStep
<1>3. CASE \E f \in Facts : Schema!Write(f) \/ Schema!Erase(f)
  BY <1>3, RowsStep
<1>4. CASE UNCHANGED Schema!vars
  <2>1. applied' = applied /\ db' = db
    BY <1>4 DEF Schema!vars
  <2> QED
    BY <2>1 DEF Schema!IInv, Schema!SchemaFollowsRevisions, Schema!Formed, Schema!Fit
<1> QED
  BY <1>1, <1>2, <1>3, <1>4 DEF Schema!Next

(* Wherever the commands have taken the database and whatever the program stored in *)
(* between, it stands at a stage and its tables can hold every row.                *)
THEOREM RowsFit == Schema!Spec => []Schema!IInv
BY SchemaInit, SchemaNext, PTL DEF Schema!Spec

(* The tables are those of the applied revisions.                               *)
THEOREM SchemaFollows == Schema!Spec => []SchemaFollowsRevisions
<1>1. Schema!IInv => SchemaFollowsRevisions
  BY DEF Schema!IInv, SchemaFollowsRevisions
<1> QED
  BY <1>1, RowsFit, PTL

(* No upgrade is refused by the rows there are or loses one; a downgrade is refused   *)
(* only for a row that the older tables could not hold.                         *)
THEOREM NoRowInTheWay == Schema!Spec => []MigrationsRun
<1>1. Schema!IInv => MigrationsRun
  <2> SUFFICES ASSUME Schema!IInv PROVE Schema!MigrationsRun
    BY DEF MigrationsRun
  <2>1. ASSUME NEW r \in Schema!Revision, Schema!Upgradable(r, applied)
        PROVE  /\ Schema!Run(db, Schema!Revisions[r].upgrade).ok
               /\ Schema!Run(db, Schema!Revisions[r].upgrade).db.rows = db.rows
    BY <2>1, UpgradeRuns
  <2>2. ASSUME NEW r \in Schema!Revision, Schema!Downgradable(r, applied),
               ~Schema!Run(db, Schema!Revisions[r].downgrade).ok
        PROVE  \E f \in db.rows :
                 /\ Schema!Exists(Schema!SchemaOf(applied \ {r}), f.table)
                 /\ f.column \in Schema!Columns(Schema!SchemaOf(applied \ {r}).tables[f.table])
                 /\ ~Schema!Storable(Schema!SchemaOf(applied \ {r}), f)
    BY <2>2, DowngradeRefused
  <2> QED
    BY <2>1, <2>2 DEF Schema!MigrationsRun
<1> QED
  BY <1>1, RowsFit, PTL

(* So the head serves the program in every state, whatever way led there, if the     *)
(* schema of all the revisions does: one comparison of what is written in the      *)
(* scripts with what is written in the program, which no row has a part in.       *)
THEOREM HeadServes ==
  Schema!Serves(Schema!SchemaOf(Schema!Revision)) => (Schema!Spec => []HeadServesProgram)
<1> SUFFICES ASSUME Schema!Serves(Schema!SchemaOf(Schema!Revision))
             PROVE  Schema!Spec => []HeadServesProgram
  OBVIOUS
<1>1. Schema!IInv => HeadServesProgram
  <2> SUFFICES ASSUME Schema!IInv, applied = Schema!Revision PROVE Schema!Serves(db)
    BY DEF HeadServesProgram, Schema!HeadServesProgram
  <2>1. Schema!Bare(db) = Schema!SchemaOf(Schema!Revision)
    BY DEF Schema!IInv, Schema!SchemaFollowsRevisions
  <2>2. Schema!SchemaOf(Schema!Revision).tables = db.tables
    BY <2>1 DEF Schema!Bare
  <2> QED
    BY <2>2 DEF Schema!Serves, Schema!Storable, Schema!Exists
<1> QED
  BY <1>1, RowsFit, PTL

--------------------------------------------------------------------------------
(* Side by side: each behaves as its own specification says.                      *)
THEOREM SideBySide ==
  References => Spec /\ Gazetteer!Spec /\ Glossary!Spec /\ Schema!Spec
<1>1. ReferencesInit => Init /\ Gazetteer!Init /\ Glossary!Init /\ Schema!Init
  BY DEF ReferencesInit
<1>2. [ReferencesNext]_<<vars, gazetteer, glossary, schema>> =>
        /\ [Next]_vars /\ [Gazetteer!Next]_Gazetteer!vars
        /\ [Glossary!Next]_Glossary!vars /\ [Schema!Next]_Schema!vars
  BY DEF ReferencesNext, LexiconStep, GazetteerStep, GlossaryStep, SchemaStep, gazetteer,
         glossary, schema, Gazetteer!vars, Glossary!vars, Gazetteer!cache,
         Gazetteer!mappings, Schema!vars
<1> QED
  BY <1>1, <1>2, PTL DEF References, Spec, Gazetteer!Spec, Glossary!Spec, Schema!Spec

(* So what holds of each one holds of all of them together.                      *)
THEOREM ReferencesHold ==
  References =>
    /\ [](StoredIsRelease /\ SearchesOneRelease /\ LinksJustified)
    /\ [](ConfirmedExplained /\ SucceededMeansCached) /\ MappingsSurviveResync
    /\ [](DuplicatesExplained /\ VariantsOfLastEdit)
    /\ [](SchemaFollowsRevisions /\ MigrationsRun)
BY SideBySide, ReleaseTrue, OneRelease, LinkJustification, ConfirmationsExplained,
   SuccessMeansCached, MappingsSurvive, DuplicatesNeedOverlap, SpellingsOfLastEdit, SchemaFollows,
   NoRowInTheWay, PTL
================================================================================
