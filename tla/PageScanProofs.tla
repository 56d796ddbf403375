----------------------------- MODULE PageScanProofs -----------------------------
(***************************************************************************)
(* Theorems about the pages of a dictionary: of PageScan, for every set of    *)
(* editors, workers, lexemes, boxes and readings, and any number of pages and *)
(* splits; and of PageRanges, for every set of editors and submissions and    *)
(* any number of pages and saves.                                           *)
(***************************************************************************)
EXTENDS DictionaryPages, TLAPS, FiniteSetTheorems, WellFoundedInduction

(* A lexeme stored that nobody moved since.                                 *)
Still(j) == lexeme[j].state = "stored" /\ j \notin moved

(* None of the lexemes S, loaded some time ago, is covered by the box unless *)
(* it has left or moved meanwhile.                                          *)
Clear(box, S) ==
  \A j \in S : /\ lexeme[j].state # "unborn"
               /\ Still(j) => ~Overlaps(box, lexeme[j].box)

(* What an editor loaded and still may rely on.                             *)
CreationKnows(q) ==
  /\ lexeme[q.id].state = "unborn"
  /\ Valid(q.box)
  /\ ~q.confirm => Clear(q.box, q.beside)

EditorKnows(e) ==
  /\ editor[e].at = "create" => CreationKnows(editor[e])
  /\ editor[e].at = "update" => Valid(editor[e].box)
  /\ editor[e].at = "delete" => lexeme[editor[e].id].state # "unborn"

(* Two requests never create the same lexeme.                               *)
Claims ==
  \A e, f \in Editors :
    (editor[e].at = "create" /\ editor[f].at = "create" /\ editor[e].id = editor[f].id)
      => e = f

(* The boxes a scan is about to insert.                                     *)
Insertable(q) ==
  /\ \A b \in q.admitted : Valid(b) /\ Clear(b, q.beside)
  /\ \A b, c \in q.admitted : b # c => ~Overlaps(b, c)

(* While its pages are those of the last split, the pages before the next   *)
(* one are accounted for.                                                   *)
Filled(q) ==
  /\ q.already \subseteq touched
  /\ 1..(q.next - 1) \subseteq q.blank \union touched
  /\ (q.at = "loaded" /\ q.admitted = {}) => q.next \in q.blank \union touched

WorkerKnows(w) ==
  worker[w].at # "idle" =>
    /\ worker[w].split <= split
    /\ worker[w].split = split => Filled(worker[w])
    /\ worker[w].at = "loaded" => worker[w].next <= PageCount /\ Insertable(worker[w])

(* The pages that have lexemes had one.                                     *)
StoredTouched == \A i \in Stored : lexeme[i].page[2] \in touched

Tables == OverlapsExplained /\ LexemesOnPages /\ DeletedHasEvent /\ StoredTouched

InFlight ==
  /\ Claims
  /\ \A e \in Editors : EditorKnows(e)
  /\ \A w \in Workers : WorkerKnows(w)

IInv == TypeOK /\ Tables /\ InFlight

(* A commit of the scan: each admitted box becomes a new lexeme.            *)
Inserts(w, new, box) ==
  /\ \A i, j \in new : box[i] = box[j] => i = j
  /\ new # {} => worker[w].split = split
  /\ \A i \in new : lexeme'[i] = Inserted(Here(w), box[i])
  /\ \A i \in Ids \ new : lexeme'[i] = lexeme[i]
  /\ excused' = excused \union Pairs(new, Here(w), worker[w].beside)
  /\ touched' = touched \union {n \in {worker[w].next} : new # {}}

(***************************************************************************)
(* How the tables may change under a use case in flight: no lexeme is born   *)
(* twice, one that is still where it was has the box it had, and the splits  *)
(* only go on.                                                              *)
(***************************************************************************)
Evolves ==
  /\ \A j \in Ids : lexeme[j].state # "unborn" => lexeme'[j].state # "unborn"
  /\ \A j \in Ids :
       lexeme[j].state # "unborn" /\ lexeme'[j].state = "stored" /\ j \notin moved'
         => Still(j) /\ lexeme'[j].box = lexeme[j].box
  /\ split' \in Nat
  /\ split <= split'
  /\ split' = split => touched \subseteq touched'
  /\ GoneStaysGone

--------------------------------------------------------------------------------
(* Geometry: which box is named first makes no difference. *)
LEMMA LeastSym == \A m, n \in Int : Least(m, n) = Least(n, m) /\ Least(m, n) \in Int
BY DEF Least

LEMMA CommonSym ==
  \A a, b, c, d \in Int : Common(a, b, c, d) = Common(c, d, a, b)
BY DEF Common, Least, Greatest

LEMMA OverlapsSym ==
  ASSUME NEW a \in Box, NEW b \in Box
  PROVE  Overlaps(a, b) = Overlaps(b, a)
<1>1. /\ a.x \in Int /\ a.y \in Int /\ a.width \in Int /\ a.height \in Int
      /\ b.x \in Int /\ b.y \in Int /\ b.width \in Int /\ b.height \in Int
  BY DEF Box
<1>2. /\ Common(a.x, a.width, b.x, b.width) = Common(b.x, b.width, a.x, a.width)
      /\ Common(a.y, a.height, b.y, b.height) = Common(b.y, b.height, a.y, a.height)
  BY <1>1, CommonSym
<1>3. a.width * a.height \in Int /\ b.width * b.height \in Int
  BY <1>1
<1>4. Least(a.width * a.height, b.width * b.height)
        = Least(b.width * b.height, a.width * a.height)
  BY <1>3, LeastSym
<1> QED
  BY ONLY <1>2, <1>4 DEF Overlaps

(* The records are well formed. *)
LEMMA EditorTyped ==
  ASSUME TypeOK, NEW e \in Editors
  PROVE  /\ editor[e].at = "create" => editor[e] \in Creation
         /\ editor[e].at = "update" => editor[e] \in Change
         /\ editor[e].at = "delete" => editor[e] \in Removal
BY DEF TypeOK, Idle, Creation, Change, Removal

LEMMA WorkerTyped ==
  ASSUME TypeOK, NEW w \in Workers, worker[w].at # "idle"
  PROVE  worker[w] \in Scan
BY DEF TypeOK, Idle

LEMMA SplitTyped == TypeOK => split \in Nat /\ split \in 0..MaxSplits
BY ScanAssumption DEF TypeOK

LEMMA RowTyped ==
  ASSUME NEW page \in Page, NEW box \in Box
  PROVE  Inserted(page, box) \in Row
BY DEF Inserted, Row

LEMMA GoneTyped == Gone("deleted") \in Row /\ Gone("replaced") \in Row /\ Unborn \in Row
<1>1. <<0, 1>> \in Page
  BY ScanAssumption DEF Page
<1>2. NoBox \in Box
  BY DEF NoBox, Box
<1> QED
  BY <1>1, <1>2 DEF Gone, Unborn, Row

LEMMA MixedTyped ==
  ASSUME NEW was \in Box, NEW new \in Box, NEW stored \in Box
  PROVE  /\ Mixed(was, new, stored) \in Box
         /\ new = was => Mixed(was, new, stored) = stored
         /\ stored = was => Mixed(was, new, stored) = new
BY DEF Mixed, Column, Box

--------------------------------------------------------------------------------
(* Types: one step per action. *)
LEMMA BeginTyped ==
  ASSUME TypeOK, NEW e \in Editors,
         NEW q \in {Idle} \union Creation \union Change \union Removal,
         editor' = [editor EXCEPT ![e] = q],
         UNCHANGED <<tables, worker, history>>
  PROVE  TypeOK'
<1>1. editor' \in [Editors -> {Idle} \union Creation \union Change \union Removal]
  BY DEF TypeOK
<1> QED
  BY <1>1 DEF TypeOK, tables, history

LEMMA DoneTyped ==
  ASSUME TypeOK, NEW e \in Editors, DoneEdit(e)
  PROVE  editor' \in [Editors -> {Idle} \union Creation \union Change \union Removal]
BY DEF TypeOK, DoneEdit

LEMMA AtTyped ==
  ASSUME TypeOK, NEW w \in Workers, worker[w] \in Scan,
         NEW place \in {"listed", "scanning", "loaded"},
         NEW next \in 1..(PageCount + 1), NEW blank \in SUBSET (1..PageCount),
         NEW admitted \in SUBSET Box, NEW beside \in SUBSET Ids,
         At(w, place, next, blank, admitted, beside)
  PROVE  worker' \in [Workers -> {Idle} \union Scan]
<1> DEFINE q == [at |-> place, split |-> worker[w].split, already |-> worker[w].already,
                 blank |-> blank, next |-> next, admitted |-> admitted, beside |-> beside]
<1>1. q \in Scan
  BY DEF Scan
<1>2. worker' = [worker EXCEPT ![w] = q]
  BY DEF At
<1> HIDE DEF q
<1> QED
  BY <1>1, <1>2 DEF TypeOK

LEMMA WorkerStepTyped ==
  ASSUME TypeOK, worker' \in [Workers -> {Idle} \union Scan],
         UNCHANGED <<tables, editor, history>>
  PROVE  TypeOK'
BY DEF TypeOK, tables, history

LEMMA CountTyped == PageCount \in Nat \ {0} /\ MaxSplits \in Nat
BY ScanAssumption

LEMMA CreateLoadTyped ==
  ASSUME TypeOK, NEW e \in Editors, NEW i \in Ids, NEW n \in 1..PageCount,
         NEW box \in Boxes, CreateLoad(e, i, n, box)
  PROVE  TypeOK'
<1>1. PICK confirm \in {FALSE, Covered(box, On(<<split, n>>))} :
        BeginEdit(e, [at |-> "create", id |-> i, page |-> <<split, n>>, box |-> box,
                      confirm |-> confirm, beside |-> On(<<split, n>>)])
  BY DEF CreateLoad
<1> DEFINE q == [at |-> "create", id |-> i, page |-> <<split, n>>, box |-> box,
                 confirm |-> confirm, beside |-> On(<<split, n>>)]
<1>2. confirm \in BOOLEAN
  BY <1>1 DEF Covered
<1>3. On(<<split, n>>) \in SUBSET Ids
  BY DEF On, Stored
<1>4. <<split, n>> \in Page
  BY SplitTyped DEF Page
<1>5. q \in Creation
  BY <1>2, <1>3, <1>4 DEF Creation
<1>6. editor' = [editor EXCEPT ![e] = q]
  BY <1>1 DEF BeginEdit
<1>7. UNCHANGED <<tables, worker, history>>
  BY DEF CreateLoad
<1> HIDE DEF q
<1> QED
  BY <1>5, <1>6, <1>7, BeginTyped

LEMMA UpdateLoadTyped ==
  ASSUME TypeOK, NEW e \in Editors, NEW i \in Ids, NEW box \in Boxes,
         UpdateLoad(e, i, box)
  PROVE  TypeOK'
<1> DEFINE q == [at |-> "update", id |-> i, was |-> lexeme[i].box, box |-> box]
<1>1. lexeme[i].box \in Box
  BY DEF TypeOK, Row
<1>2. q \in Change
  BY <1>1 DEF Change
<1>3. editor' = [editor EXCEPT ![e] = q] /\ UNCHANGED <<tables, worker, history>>
  BY DEF UpdateLoad, BeginEdit
<1> HIDE DEF q
<1> QED
  BY <1>2, <1>3, BeginTyped

LEMMA DeleteLoadTyped ==
  ASSUME TypeOK, NEW e \in Editors, NEW i \in Ids, DeleteLoad(e, i)
  PROVE  TypeOK'
<1> DEFINE q == [at |-> "delete", id |-> i]
<1>1. q \in Removal
  BY DEF Removal
<1>2. editor' = [editor EXCEPT ![e] = q] /\ UNCHANGED <<tables, worker, history>>
  BY DEF DeleteLoad, BeginEdit
<1> HIDE DEF q
<1> QED
  BY <1>1, <1>2, BeginTyped

LEMMA CreateCommitTyped ==
  ASSUME TypeOK, NEW e \in Editors, CreateCommit(e)
  PROVE  TypeOK'
<1>1. editor[e] \in Creation
  BY EditorTyped DEF CreateCommit
<1>2. /\ editor[e].id \in Ids /\ editor[e].page \in Page /\ editor[e].box \in Box
      /\ editor[e].page[2] \in 1..PageCount
  BY <1>1, ScanAssumption DEF Creation, Page
<1>3. Inserted(editor[e].page, editor[e].box) \in Row
  BY <1>2, RowTyped
<1>4. lexeme' \in [Ids -> Row]
  BY <1>2, <1>3 DEF TypeOK, CreateCommit
<1>5. excused' \subseteq SUBSET Ids
  BY <1>2 DEF TypeOK, CreateCommit, Pairs, On, Stored
<1>6. editor' \in [Editors -> {Idle} \union Creation \union Change \union Removal]
  BY DoneTyped DEF CreateCommit
<1>7. touched' \subseteq 1..PageCount
  BY <1>2 DEF TypeOK, CreateCommit
<1> QED
  BY <1>4, <1>5, <1>6, <1>7 DEF TypeOK, CreateCommit

(* An edit leaves the lexeme where it is stored, with a box. *)
LEMMA UpdatedRow ==
  ASSUME TypeOK, NEW e \in Editors, UpdateCommit(e)
  PROVE  /\ editor[e] \in Change /\ editor[e].id \in Stored
         /\ lexeme' \in [Ids -> Row]
         /\ \A j \in Ids : /\ lexeme'[j].state = lexeme[j].state
                           /\ lexeme'[j].page = lexeme[j].page
                           /\ j # editor[e].id => lexeme'[j] = lexeme[j]
         /\ lexeme'[editor[e].id].box
              = Mixed(editor[e].was, editor[e].box, lexeme[editor[e].id].box)
<1> DEFINE q == editor[e]
           i == q.id
           box == Mixed(q.was, q.box, lexeme[i].box)
           row == [state |-> lexeme[i].state, page |-> lexeme[i].page, box |-> box]
<1>1. q \in Change /\ i \in Stored /\ i \in Ids
  BY EditorTyped DEF UpdateCommit, Stored
<1>2. q.was \in Box /\ q.box \in Box /\ lexeme[i] \in Row /\ lexeme[i].box \in Box
  BY <1>1, ScanAssumption DEF Change, TypeOK, Row
<1>3. box \in Box
  BY <1>2, MixedTyped
<1> HIDE DEF box
<1>4. row \in Row
  BY <1>2, <1>3 DEF Row
<1>5. lexeme' = [lexeme EXCEPT ![i] = row]
  BY DEF UpdateCommit, Updated, box
<1>6. row.state = lexeme[i].state /\ row.page = lexeme[i].page /\ row.box = box
  OBVIOUS
<1> HIDE DEF row
<1>7. lexeme \in [Ids -> Row]
  BY DEF TypeOK
<1>8. lexeme' \in [Ids -> Row]
  BY <1>1, <1>4, <1>5, <1>7
<1>9. lexeme'[i] = row /\ \A j \in Ids : j # i => lexeme'[j] = lexeme[j]
  BY <1>1, <1>5, <1>7
<1>10. \A j \in Ids : /\ lexeme'[j].state = lexeme[j].state
                      /\ lexeme'[j].page = lexeme[j].page
                      /\ j # i => lexeme'[j] = lexeme[j]
  BY <1>6, <1>9
<1> QED
  BY <1>1, <1>6, <1>8, <1>9, <1>10 DEF box

LEMMA UpdateCommitTyped ==
  ASSUME TypeOK, NEW e \in Editors, UpdateCommit(e)
  PROVE  TypeOK'
<1>1. editor[e].id \in Ids /\ lexeme' \in [Ids -> Row]
  BY UpdatedRow DEF Stored
<1>2. editor' \in [Editors -> {Idle} \union Creation \union Change \union Removal]
  BY DoneTyped DEF UpdateCommit
<1>3. /\ trail' \in [Ids -> SUBSET {"updated", "deleted"}]
      /\ moved' \subseteq Ids /\ raced' \subseteq Ids
  BY <1>1 DEF TypeOK, UpdateCommit, Updated
<1> QED
  BY <1>1, <1>2, <1>3 DEF TypeOK, UpdateCommit

LEMMA DeleteCommitTyped ==
  ASSUME TypeOK, NEW e \in Editors, DeleteCommit(e)
  PROVE  TypeOK'
<1>1. editor[e].id \in Ids
  BY EditorTyped DEF DeleteCommit, Removal
<1>2. lexeme' \in [Ids -> Row]
  BY <1>1, GoneTyped DEF TypeOK, DeleteCommit
<1>3. editor' \in [Editors -> {Idle} \union Creation \union Change \union Removal]
  BY DoneTyped DEF DeleteCommit
<1> QED
  BY <1>1, <1>2, <1>3 DEF TypeOK, DeleteCommit, Forget

LEMMA ReplacePagesTyped ==
  ASSUME TypeOK, ReplacePages
  PROVE  TypeOK'
<1>1. split' \in 0..MaxSplits
  BY SplitTyped, CountTyped DEF ReplacePages
<1>2. lexeme' \in [Ids -> Row]
  BY GoneTyped DEF TypeOK, ReplacePages
<1> QED
  BY <1>1, <1>2 DEF TypeOK, ReplacePages, Forget

(* What the scan admits are proposals of the recognizer. *)
LEMMA AdmittedBoxes ==
  ASSUME NEW reading \in Readings, NEW K \in SUBSET DOMAIN reading
  PROVE  {reading[n] : n \in K} \in SUBSET Box
<1>1. reading \in Seq(Box)
  BY ScanAssumption
<1>2. \A n \in DOMAIN reading : reading[n] \in Box
  BY <1>1
<1> QED
  BY <1>2

LEMMA ListTyped ==
  ASSUME TypeOK, NEW w \in Workers, ListPages(w) \/ ListProcessed(w)
  PROVE  TypeOK'
<1>1. CASE ListPages(w)
  <2> DEFINE q == [at |-> "listed", split |-> split, already |-> {}, blank |-> {},
                   next |-> 1, admitted |-> {}, beside |-> {}]
  <2>1. q \in Scan
    BY SplitTyped, CountTyped DEF Scan
  <2>2. worker' = [worker EXCEPT ![w] = q] /\ UNCHANGED <<tables, editor, history>>
    BY <1>1 DEF ListPages
  <2> HIDE DEF q
  <2> QED
    BY <2>1, <2>2, WorkerStepTyped DEF TypeOK
<1>2. CASE ListProcessed(w)
  <2> DEFINE already == {n \in 1..PageCount : On(<<worker[w].split, n>>) # {}}
             q == [at |-> "scanning", split |-> worker[w].split, already |-> already,
                   blank |-> {}, next |-> 1, admitted |-> {}, beside |-> {}]
  <2>1. worker[w] \in Scan
    BY <1>2, WorkerTyped DEF ListProcessed
  <2>2. q \in Scan
    BY <2>1, CountTyped DEF Scan
  <2>3. worker' = [worker EXCEPT ![w] = q] /\ UNCHANGED <<tables, editor, history>>
    BY <1>2 DEF ListProcessed
  <2> HIDE DEF q
  <2> QED
    BY <2>2, <2>3, WorkerStepTyped DEF TypeOK
<1> QED
  BY <1>1, <1>2

LEMMA PassTyped ==
  ASSUME TypeOK, NEW w \in Workers, SkipPage(w) \/ RecognizeNothing(w)
  PROVE  TypeOK'
<1>1. worker[w] \in Scan /\ worker[w].next <= PageCount
  BY WorkerTyped DEF SkipPage, RecognizeNothing, Scanning
<1>2. /\ worker[w].next + 1 \in 1..(PageCount + 1)
      /\ worker[w].blank \in SUBSET (1..PageCount)
      /\ worker[w].blank \union {worker[w].next} \in SUBSET (1..PageCount)
  BY <1>1, CountTyped DEF Scan
<1>3. worker' \in [Workers -> {Idle} \union Scan]
  BY <1>1, <1>2, AtTyped DEF SkipPage, RecognizeNothing
<1> QED
  BY <1>3, WorkerStepTyped DEF SkipPage, RecognizeNothing

LEMMA LoadPageTyped ==
  ASSUME TypeOK, NEW w \in Workers, LoadPage(w)
  PROVE  TypeOK'
<1>1. worker[w] \in Scan /\ worker[w].next <= PageCount
  BY WorkerTyped DEF LoadPage, Scanning
<1>2. PICK reading \in Readings : \E K \in SUBSET DOMAIN reading :
        At(w, "loaded", worker[w].next,
           IF Usable(reading) = {} THEN worker[w].blank \union {worker[w].next}
                                   ELSE worker[w].blank,
           {reading[n] : n \in K}, On(Here(w)))
  BY DEF LoadPage
<1>3. PICK K \in SUBSET DOMAIN reading :
        At(w, "loaded", worker[w].next,
           IF Usable(reading) = {} THEN worker[w].blank \union {worker[w].next}
                                   ELSE worker[w].blank,
           {reading[n] : n \in K}, On(Here(w)))
  BY <1>2
<1> DEFINE blank == IF Usable(reading) = {} THEN worker[w].blank \union {worker[w].next}
                                            ELSE worker[w].blank
           admitted == {reading[n] : n \in K}
<1>4. /\ worker[w].next \in 1..(PageCount + 1)
      /\ blank \in SUBSET (1..PageCount)
  BY <1>1, CountTyped DEF Scan
<1>5. admitted \in SUBSET Box
  BY AdmittedBoxes
<1>6. On(Here(w)) \in SUBSET Ids
  BY DEF On, Stored
<1>7. At(w, "loaded", worker[w].next, blank, admitted, On(Here(w)))
  BY <1>3
<1> HIDE DEF blank, admitted
<1>8. worker' \in [Workers -> {Idle} \union Scan]
  BY <1>1, <1>4, <1>5, <1>6, <1>7, AtTyped
<1> QED
  BY <1>8, WorkerStepTyped DEF LoadPage

LEMMA HaltTyped ==
  ASSUME TypeOK, NEW w \in Workers, ScanEnds(w) \/ ScanHalts(w)
  PROVE  TypeOK'
<1>1. worker' \in [Workers -> {Idle} \union Scan]
  BY DEF TypeOK, ScanEnds, ScanHalts
<1> QED
  BY <1>1, WorkerStepTyped DEF ScanEnds, ScanHalts

(* What a commit of the scan inserts, a lexeme at a time. *)
LEMMA CommitPageRows ==
  ASSUME TypeOK, NEW w \in Workers, WorkerKnows(w), CommitPage(w)
  PROVE  /\ worker[w] \in Scan /\ Here(w) \in Page /\ worker[w].next \in 1..PageCount
         /\ lexeme' \in [Ids -> Row]
         /\ \E new \in SUBSET Fresh : \E box \in [new -> worker[w].admitted] :
              Inserts(w, new, box)
<1>1. worker[w] \in Scan /\ worker[w].next \in 1..PageCount
  BY WorkerTyped, CountTyped DEF CommitPage, WorkerKnows, Scan
<1>2. Here(w) \in Page
  BY <1>1 DEF Here, Page, Scan
<1>3. PICK new \in SUBSET Fresh : \E box \in [new -> worker[w].admitted] :
        /\ \A b \in worker[w].admitted : \E i \in new : box[i] = b
        /\ \A i, j \in new : box[i] = box[j] => i = j
        /\ lexeme' = [i \in Ids |->
             IF i \in new THEN Inserted(Here(w), box[i]) ELSE lexeme[i]]
        /\ excused' = excused \union Pairs(new, Here(w), worker[w].beside)
  BY DEF CommitPage
<1>4. PICK box \in [new -> worker[w].admitted] :
        /\ \A b \in worker[w].admitted : \E i \in new : box[i] = b
        /\ \A i, j \in new : box[i] = box[j] => i = j
        /\ lexeme' = [i \in Ids |->
             IF i \in new THEN Inserted(Here(w), box[i]) ELSE lexeme[i]]
        /\ excused' = excused \union Pairs(new, Here(w), worker[w].beside)
  BY <1>3
<1>5. new \subseteq Ids
  BY DEF Fresh
<1>6. \A i \in new : box[i] \in worker[w].admitted /\ box[i] \in Box
  BY <1>1 DEF Scan
<1>7. \A i \in new : Inserted(Here(w), box[i]) \in Row
  BY <1>2, <1>6, RowTyped
<1>8. lexeme' \in [Ids -> Row]
  BY <1>4, <1>5, <1>7 DEF TypeOK
<1>9. new # {} <=> worker[w].admitted # {}
  BY <1>4, <1>6
<1>10. /\ new # {} => worker[w].split = split
       /\ touched' = touched \union {n \in {worker[w].next} : new # {}}
  BY <1>9 DEF CommitPage
<1>11. Inserts(w, new, box)
  BY <1>4, <1>5, <1>10 DEF Inserts
<1> QED
  BY <1>1, <1>2, <1>8, <1>11

LEMMA CommitPageTyped ==
  ASSUME TypeOK, NEW w \in Workers, WorkerKnows(w), CommitPage(w)
  PROVE  TypeOK'
<1>1. /\ worker[w] \in Scan /\ worker[w].next \in 1..PageCount
      /\ lexeme' \in [Ids -> Row]
      /\ \E new \in SUBSET Fresh :
           excused' = excused \union Pairs(new, Here(w), worker[w].beside)
  BY CommitPageRows DEF Inserts
<1>2. excused' \subseteq SUBSET Ids
  BY <1>1 DEF TypeOK, Pairs, On, Stored, Fresh
<1>3. worker[w].next + 1 \in 1..(PageCount + 1) /\ worker[w].blank \in SUBSET (1..PageCount)
  BY <1>1, CountTyped DEF Scan
<1>4. worker' \in [Workers -> {Idle} \union Scan]
  BY <1>1, <1>3, AtTyped DEF CommitPage
<1>5. touched' \subseteq 1..PageCount
  BY <1>1 DEF TypeOK, CommitPage
<1> QED
  BY <1>1, <1>2, <1>4, <1>5 DEF TypeOK, CommitPage

--------------------------------------------------------------------------------
(* The tables: one lemma per commit, and one for every step without. *)
LEMMA QuietTables ==
  ASSUME TypeOK, Tables, UNCHANGED <<tables, history>>
  PROVE  Tables' /\ Evolves
<1>1. Tables'
  BY DEF Tables, OverlapsExplained, LexemesOnPages, DeletedHasEvent, StoredTouched,
         Stored, tables, history
<1>2. Evolves
  BY SplitTyped DEF Evolves, GoneStaysGone, Still, tables, history
<1> QED
  BY <1>1, <1>2

LEMMA CreateCommitTables ==
  ASSUME TypeOK, Tables, NEW e \in Editors, EditorKnows(e), CreateCommit(e)
  PROVE  Tables' /\ Evolves
<1> DEFINE q == editor[e]
           i == q.id
<1>1. /\ q \in Creation /\ i \in Ids /\ q.page[2] \in 1..PageCount /\ q.box \in Box
      /\ q.page[1] = split
  BY EditorTyped, ScanAssumption DEF CreateCommit, Creation, Page
<1>2. lexeme[i].state = "unborn" /\ Valid(q.box) /\ (~q.confirm => Clear(q.box, q.beside))
  BY DEF EditorKnows, CreationKnows, CreateCommit
<1>3. /\ lexeme'[i] = Inserted(q.page, q.box)
      /\ \A j \in Ids : j # i => lexeme'[j] = lexeme[j]
      /\ UNCHANGED <<split, trail, moved, raced>>
      /\ touched' = touched \union {q.page[2]}
      /\ excused' = excused \union Pairs({i}, q.page, IF q.confirm THEN {} ELSE q.beside)
  BY <1>1 DEF CreateCommit, TypeOK
<1>4. /\ lexeme'[i].state = "stored" /\ lexeme'[i].page = q.page
      /\ lexeme'[i].box = q.box
  BY <1>3 DEF Inserted
<1>5. Stored' = Stored \union {i} /\ i \notin Stored
  BY <1>1, <1>2, <1>3, <1>4 DEF Stored
<1>6. ASSUME NEW j \in Stored, lexeme[j].page = q.page, Overlaps(q.box, lexeme[j].box)
      PROVE  j \in moved \/ {i, j} \in excused'
  <2>1. CASE j \in q.beside /\ ~q.confirm
    BY <1>2, <1>6, <2>1 DEF Clear, Still, Stored
  <2>2. CASE ~(j \in q.beside /\ ~q.confirm)
    <3>1. {i, j} \in Pairs({i}, q.page, IF q.confirm THEN {} ELSE q.beside)
      BY <1>6, <2>2 DEF Pairs, On
    <3> QED
      BY <1>3, <3>1
  <2> QED
    BY <2>1, <2>2
<1> HIDE DEF q, i
<1>7. OverlapsExplained'
  <2> SUFFICES ASSUME NEW j \in Stored', NEW k \in Stored', j # k,
                      lexeme'[j].page = lexeme'[k].page,
                      Overlaps(lexeme'[j].box, lexeme'[k].box)
               PROVE  j \in moved \/ k \in moved \/ {j, k} \in excused'
    BY <1>3 DEF OverlapsExplained
  <2>1. CASE j # i /\ k # i
    BY <2>1, <1>3, <1>5 DEF Tables, OverlapsExplained, Stored
  <2>2. CASE j = i
    BY <2>2, <1>3, <1>4, <1>5, <1>6 DEF Stored
  <2>3. CASE k = i
    <3>1. j \in Ids /\ j # i /\ lexeme'[j] = lexeme[j] /\ j \in Stored
      BY <2>3, <1>3, <1>5 DEF Stored
    <3>2. lexeme[j].box \in Box
      BY <3>1 DEF TypeOK, Row
    <3>3. Overlaps(q.box, lexeme[j].box)
      BY <2>3, <3>1, <3>2, <1>1, <1>4, OverlapsSym
    <3>4. j \in moved \/ {i, j} \in excused'
      BY <3>1, <3>3, <2>3, <1>4, <1>6
    <3>5. {i, j} = {j, k}
      BY <2>3
    <3> QED
      BY <3>4, <3>5
  <2> QED
    BY <2>1, <2>2, <2>3
<1>8. LexemesOnPages' /\ StoredTouched'
  BY <1>1, <1>2, <1>3, <1>4, <1>5
     DEF Tables, LexemesOnPages, StoredTouched, Stored, Valid
<1>9. DeletedHasEvent'
  BY <1>2, <1>3, <1>4 DEF Tables, DeletedHasEvent
<1>10. GoneStaysGone
  BY <1>2, <1>3 DEF GoneStaysGone
<1>11. Evolves
  BY <1>1, <1>2, <1>3, <1>4, <1>10, SplitTyped DEF Evolves, Still
<1> QED
  BY <1>7, <1>8, <1>9, <1>11 DEF Tables

LEMMA UpdateCommitTables ==
  ASSUME TypeOK, Tables, NEW e \in Editors, EditorKnows(e), UpdateCommit(e)
  PROVE  Tables' /\ Evolves
<1> DEFINE q == editor[e]
           i == q.id
<1>1. /\ q \in Change /\ i \in Stored /\ i \in Ids /\ Valid(q.box)
      /\ q.was \in Box /\ q.box \in Box
  BY UpdatedRow, ScanAssumption DEF Stored, EditorKnows, UpdateCommit, Change
<1>2. /\ \A j \in Ids : /\ lexeme'[j].state = lexeme[j].state
                        /\ lexeme'[j].page = lexeme[j].page
                        /\ j # i => lexeme'[j] = lexeme[j]
      /\ lexeme'[i].box = Mixed(q.was, q.box, lexeme[i].box)
  BY UpdatedRow
<1>3. lexeme[i].box \in Box
  BY <1>1 DEF TypeOK, Row
<1>4. /\ q.box = q.was => lexeme'[i].box = lexeme[i].box
      /\ lexeme[i].box = q.was => lexeme'[i].box = q.box
  BY <1>1, <1>2, <1>3, MixedTyped
<1>5. /\ UNCHANGED <<split, excused, touched>>
      /\ trail' = [trail EXCEPT ![i] = @ \union {"updated"}]
      /\ moved' = IF q.box = q.was THEN moved ELSE moved \union {i}
      /\ raced' = IF lexeme[i].box = q.was THEN raced ELSE raced \union {i}
  BY DEF UpdateCommit, Updated
<1> HIDE DEF q, i
<1>6. Stored' = Stored
  BY <1>2 DEF Stored
<1>7. \A j \in Ids : j \notin moved' => j \notin moved /\ lexeme'[j].box = lexeme[j].box
  BY <1>2, <1>4, <1>5
<1>8. OverlapsExplained'
  BY <1>2, <1>5, <1>6, <1>7 DEF Tables, OverlapsExplained, Stored
<1>9. LexemesOnPages'
  <2>1. \A j \in Stored : j \notin raced' => Valid(lexeme'[j].box)
    BY <1>1, <1>2, <1>4, <1>5 DEF Tables, LexemesOnPages, Stored
  <2>2. \A j \in Stored : lexeme'[j].page[1] = split'
    BY <1>2, <1>5 DEF Tables, LexemesOnPages, Stored
  <2> QED
    BY <1>6, <2>1, <2>2 DEF LexemesOnPages, Valid
<1>10. StoredTouched' /\ DeletedHasEvent'
  BY <1>1, <1>2, <1>5, <1>6 DEF Tables, StoredTouched, DeletedHasEvent, Stored
<1>11. GoneStaysGone
  <2>1. \A j \in Ids : j # i => trail'[j] = trail[j]
    BY <1>5 DEF TypeOK
  <2> QED
    BY <1>1, <1>2, <2>1 DEF GoneStaysGone, Stored
<1>12. Evolves
  BY <1>2, <1>5, <1>7, <1>11, SplitTyped DEF Evolves, Still
<1> QED
  BY <1>8, <1>9, <1>10, <1>12 DEF Tables

LEMMA DeleteCommitTables ==
  ASSUME TypeOK, Tables, NEW e \in Editors, EditorKnows(e), DeleteCommit(e)
  PROVE  Tables' /\ Evolves
<1> DEFINE i == editor[e].id
<1>1. i \in Ids /\ lexeme[i].state # "unborn"
  BY EditorTyped DEF DeleteCommit, Removal, EditorKnows
<1>2. /\ lexeme'[i].state = IF i \in Stored THEN "deleted" ELSE lexeme[i].state
      /\ \A j \in Ids : j # i => lexeme'[j] = lexeme[j]
      /\ i \notin Stored => lexeme' = lexeme
      /\ trail' = [trail EXCEPT ![i] = @ \union {"deleted"}]
      /\ moved' = moved \ {i} /\ raced' = raced \ {i}
      /\ excused' = {pair \in excused : pair \intersect {i} = {}}
      /\ UNCHANGED <<split, touched>>
  BY <1>1 DEF DeleteCommit, Forget, Gone, TypeOK
<1> HIDE DEF i
<1>3. Stored' = Stored \ {i}
  BY <1>1, <1>2 DEF Stored
<1>4. OverlapsExplained'
  BY <1>2, <1>3 DEF Tables, OverlapsExplained, Stored
<1>5. LexemesOnPages' /\ StoredTouched'
  BY <1>2, <1>3 DEF Tables, LexemesOnPages, StoredTouched, Stored, Valid
<1>6. lexeme[i].state \in {"stored", "deleted", "replaced"}
  BY <1>1 DEF TypeOK, Row
<1>7. DeletedHasEvent'
  BY <1>1, <1>2, <1>6 DEF Tables, DeletedHasEvent, Stored, TypeOK
<1>8. GoneStaysGone
  <2>1. \A j \in Ids : j \notin Stored => lexeme'[j] = lexeme[j]
    BY <1>1, <1>2 DEF Stored
  <2>2. \A j \in Ids : trail'[j] \subseteq trail[j] \union {"deleted"}
    BY <1>2 DEF TypeOK
  <2> QED
    BY <2>1, <2>2 DEF GoneStaysGone, Stored
<1>9. Evolves
  BY <1>1, <1>2, <1>3, <1>8, SplitTyped DEF Evolves, Still, Stored
<1> QED
  BY <1>4, <1>5, <1>7, <1>9 DEF Tables

LEMMA ReplacePagesTables ==
  ASSUME TypeOK, Tables, ReplacePages
  PROVE  Tables' /\ Evolves
<1>1. /\ split' = split + 1 /\ UNCHANGED trail
      /\ \A j \in Ids : lexeme'[j] = IF j \in Stored THEN Gone("replaced") ELSE lexeme[j]
  BY DEF ReplacePages
<1>2. \A j \in Ids : /\ lexeme'[j].state # "stored"
                     /\ lexeme'[j].state = IF j \in Stored THEN "replaced" ELSE lexeme[j].state
  BY <1>1 DEF Gone, Stored
<1>3. Stored' = {}
  BY <1>2 DEF Stored
<1>4. OverlapsExplained' /\ LexemesOnPages' /\ StoredTouched'
  BY <1>3 DEF OverlapsExplained, LexemesOnPages, StoredTouched
<1>5. DeletedHasEvent'
  BY <1>1, <1>2 DEF Tables, DeletedHasEvent, Stored
<1>6. GoneStaysGone
  BY <1>1 DEF GoneStaysGone, Stored
<1>7. Evolves
  BY <1>1, <1>2, <1>6, SplitTyped DEF Evolves, Stored
<1> QED
  BY <1>4, <1>5, <1>7 DEF Tables

LEMMA CommitPageTables ==
  ASSUME TypeOK, Tables, NEW w \in Workers, WorkerKnows(w), CommitPage(w)
  PROVE  Tables' /\ Evolves
<1> DEFINE q == worker[w]
<1>1. /\ q \in Scan /\ Here(w) \in Page /\ q.next \in 1..PageCount
      /\ \E new \in SUBSET Fresh : \E box \in [new -> q.admitted] : Inserts(w, new, box)
  BY CommitPageRows
<1>2. PICK new \in SUBSET Fresh : \E box \in [new -> q.admitted] : Inserts(w, new, box)
  BY <1>1
<1>3. PICK box \in [new -> q.admitted] :
           /\ \A i, j \in new : box[i] = box[j] => i = j
           /\ new # {} => q.split = split
           /\ \A i \in new : lexeme'[i] = Inserted(Here(w), box[i])
           /\ \A i \in Ids \ new : lexeme'[i] = lexeme[i]
           /\ excused' = excused \union Pairs(new, Here(w), q.beside)
           /\ touched' = touched \union {n \in {q.next} : new # {}}
  BY <1>2 DEF Inserts
<1>4. /\ Insertable(q)
      /\ UNCHANGED <<split, trail, moved, raced>>
  BY DEF WorkerKnows, CommitPage
<1>5. \A i \in new : /\ i \in Ids /\ lexeme[i].state = "unborn" /\ i \notin Stored
                     /\ box[i] \in q.admitted /\ box[i] \in Box /\ Valid(box[i])
                     /\ lexeme'[i].state = "stored" /\ lexeme'[i].page = Here(w)
                     /\ lexeme'[i].box = box[i]
  <2> TAKE i \in new
  <2>1. i \in Ids /\ lexeme[i].state = "unborn" /\ i \notin Stored
    BY DEF Fresh, Stored
  <2>2. box[i] \in q.admitted
    OBVIOUS
  <2>3. box[i] \in Box
    BY <2>2, <1>1 DEF Scan
  <2>4. Valid(box[i])
    BY <2>2, <1>4 DEF Insertable
  <2>5. lexeme'[i] = Inserted(Here(w), box[i])
    BY <1>3
  <2> QED
    BY <2>1, <2>2, <2>3, <2>4, <2>5 DEF Inserted
<1>6. Stored' = Stored \union new
  BY <1>3, <1>5 DEF Stored
<1>7. \A i \in new : Here(w)[1] = split /\ Here(w)[2] \in touched'
  BY <1>3, <1>4 DEF Here
<1> HIDE DEF q
<1>8. ASSUME NEW i \in new, NEW j \in Stored, lexeme[j].page = Here(w),
             Overlaps(box[i], lexeme[j].box)
      PROVE  j \in moved \/ {i, j} \in excused'
  <2>1. CASE j \in q.beside
    BY <1>4, <1>5, <1>8, <2>1 DEF Insertable, Clear, Still, Stored
  <2>2. CASE j \notin q.beside
    <3>1. {i, j} \in Pairs(new, Here(w), q.beside)
      BY <1>8, <2>2 DEF Pairs, On
    <3> QED
      BY <1>3, <3>1
  <2> QED
    BY <2>1, <2>2
<1>9. OverlapsExplained'
  <2> SUFFICES ASSUME NEW j \in Stored', NEW k \in Stored', j # k,
                      lexeme'[j].page = lexeme'[k].page,
                      Overlaps(lexeme'[j].box, lexeme'[k].box)
               PROVE  j \in moved \/ k \in moved \/ {j, k} \in excused'
    BY <1>4 DEF OverlapsExplained
  <2>1. CASE j \notin new /\ k \notin new
    BY <2>1, <1>3, <1>6 DEF Tables, OverlapsExplained, Stored
  <2>2. CASE j \in new /\ k \in new
    BY <2>2, <1>3, <1>4, <1>5 DEF Insertable
  <2>3. CASE j \in new /\ k \notin new
    BY <2>3, <1>3, <1>5, <1>6, <1>8 DEF Stored
  <2>4. CASE j \notin new /\ k \in new
    <3>1. j \in Ids /\ lexeme'[j] = lexeme[j] /\ j \in Stored
      BY <2>4, <1>3, <1>6 DEF Stored
    <3>2. lexeme[j].box \in Box
      BY <3>1 DEF TypeOK, Row
    <3>3. Overlaps(box[k], lexeme[j].box)
      BY <2>4, <3>1, <3>2, <1>5, OverlapsSym
    <3>4. j \in moved \/ {k, j} \in excused'
      BY <3>1, <3>3, <2>4, <1>5, <1>8
    <3>5. {k, j} = {j, k}
      OBVIOUS
    <3> QED
      BY <3>4, <3>5
  <2> QED
    BY <2>1, <2>2, <2>3, <2>4
<1>10. LexemesOnPages' /\ StoredTouched'
  BY <1>3, <1>4, <1>5, <1>6, <1>7
     DEF Tables, LexemesOnPages, StoredTouched, Stored, Valid
<1>11. DeletedHasEvent'
  BY <1>3, <1>4, <1>5 DEF Tables, DeletedHasEvent
<1>12. GoneStaysGone
  BY <1>3, <1>4, <1>5 DEF GoneStaysGone
<1>13. Evolves
  BY <1>3, <1>4, <1>5, <1>12, SplitTyped DEF Evolves, Still
<1> QED
  BY <1>9, <1>10, <1>11, <1>13 DEF Tables

--------------------------------------------------------------------------------
(* What a use case in flight relies on survives whatever the tables do.     *)
LEMMA ClearStays ==
  ASSUME NEW box, NEW S \in SUBSET Ids, Clear(box, S), Evolves
  PROVE  \A j \in S : /\ lexeme'[j].state # "unborn"
                      /\ Still(j)' => ~Overlaps(box, lexeme'[j].box)
<1> TAKE j \in S
<1>1. lexeme'[j].state # "unborn"
  BY DEF Evolves, Clear
<1>2. ASSUME Still(j)'
      PROVE  ~Overlaps(box, lexeme'[j].box)
  <2>1. Still(j) /\ lexeme'[j].box = lexeme[j].box
    BY <1>2 DEF Evolves, Still, Clear
  <2> QED
    BY <2>1 DEF Clear
<1> QED
  BY <1>1, <1>2

LEMMA EditorKeeps ==
  ASSUME TypeOK, NEW e \in Editors, EditorKnows(e), Evolves, editor'[e] = editor[e],
         editor[e].at = "create" => lexeme'[editor[e].id].state = "unborn"
  PROVE  EditorKnows(e)'
<1> DEFINE q == editor[e]
<1>1. CASE q.at = "create"
  <2>1. q \in Creation /\ q.beside \in SUBSET Ids
    BY <1>1, EditorTyped DEF Creation
  <2>2. ~q.confirm => \A j \in q.beside : /\ lexeme'[j].state # "unborn"
                                          /\ Still(j)' => ~Overlaps(q.box, lexeme'[j].box)
    BY <1>1, <2>1, ClearStays DEF EditorKnows, CreationKnows
  <2>3. Valid(q.box)
    BY <1>1 DEF EditorKnows, CreationKnows
  <2> QED
    BY <1>1, <2>2, <2>3 DEF EditorKnows, CreationKnows, Clear, Valid
<1>2. CASE q.at = "delete"
  <2>1. q.id \in Ids
    BY <1>2, EditorTyped DEF Removal
  <2> QED
    BY <1>2, <2>1 DEF EditorKnows, Evolves
<1>3. CASE q.at \notin {"create", "delete"}
  BY <1>3 DEF EditorKnows, Valid
<1> QED
  BY <1>1, <1>2, <1>3

LEMMA InsertableStays ==
  ASSUME TypeOK, NEW q \in Scan, Insertable(q), Evolves
  PROVE  Insertable(q)'
<1>1. q.beside \in SUBSET Ids
  BY DEF Scan
<1>2. ASSUME NEW b \in q.admitted
      PROVE  (Valid(b) /\ Clear(b, q.beside))'
  <2>1. Valid(b) /\ Clear(b, q.beside)
    BY DEF Insertable
  <2>2. \A j \in q.beside : /\ lexeme'[j].state # "unborn"
                            /\ Still(j)' => ~Overlaps(b, lexeme'[j].box)
    BY <1>1, <2>1, ClearStays
  <2> QED
    BY <2>1, <2>2 DEF Clear, Valid
<1> QED
  BY <1>2 DEF Insertable

LEMMA WorkerKeeps ==
  ASSUME TypeOK, NEW w \in Workers, WorkerKnows(w), Evolves, worker'[w] = worker[w]
  PROVE  WorkerKnows(w)'
<1> DEFINE q == worker[w]
<1> SUFFICES ASSUME q.at # "idle"
             PROVE  WorkerKnows(w)'
  BY DEF WorkerKnows
<1>1. q \in Scan /\ q.split \in Nat /\ split \in Nat
  BY WorkerTyped, SplitTyped DEF Scan
<1>2. q.split <= split' /\ (q.split = split' => split' = split /\ q.split = split)
  BY <1>1 DEF WorkerKnows, Evolves
<1>3. q.split = split' => Filled(q)'
  BY <1>2 DEF WorkerKnows, Evolves, Filled
<1>4. q.at = "loaded" => q.next <= PageCount /\ Insertable(q)'
  BY <1>1, InsertableStays DEF WorkerKnows
<1> QED
  BY <1>2, <1>3, <1>4 DEF WorkerKnows

(* The lexemes others are about to create are not there yet.                *)
StillUnborn(S) ==
  \A f \in S : editor[f].at = "create" => lexeme'[editor[f].id].state = "unborn"

LEMMA EditEnds ==
  ASSUME TypeOK, InFlight, NEW e \in Editors, DoneEdit(e), UNCHANGED worker, Evolves,
         StillUnborn(Editors \ {e})
  PROVE  InFlight'
<1>1. /\ editor'[e] = Idle
      /\ \A f \in Editors : f # e => editor'[f] = editor[f]
  BY DEF DoneEdit, TypeOK
<1>2. EditorKnows(e)'
  BY <1>1 DEF EditorKnows, Idle
<1>3. \A f \in Editors : f # e => EditorKnows(f)'
  BY <1>1, EditorKeeps DEF InFlight, StillUnborn
<1>4. Claims'
  BY <1>1 DEF InFlight, Claims, Idle
<1>5. \A v \in Workers : WorkerKnows(v)'
  BY WorkerKeeps DEF InFlight
<1> QED
  BY <1>2, <1>3, <1>4, <1>5 DEF InFlight

LEMMA EditBegins ==
  ASSUME TypeOK, InFlight, NEW e \in Editors, NEW q, BeginEdit(e, q),
         UNCHANGED <<tables, worker, history>>, Evolves,
         EditorKnows(e)',
         q.at = "create" => q.id \in Fresh
  PROVE  InFlight'
<1>1. /\ editor'[e] = q
      /\ \A f \in Editors : f # e => editor'[f] = editor[f]
  BY DEF BeginEdit, TypeOK
<1>2. \A f \in Editors : editor[f].at = "create" => lexeme'[editor[f].id].state = "unborn"
  BY DEF InFlight, EditorKnows, CreationKnows, tables
<1>3. \A f \in Editors : f # e => EditorKnows(f)'
  BY <1>1, <1>2, EditorKeeps DEF InFlight
<1>4. Claims'
  <2> SUFFICES ASSUME NEW f \in Editors, NEW g \in Editors, f # g,
                      editor'[f].at = "create", editor'[g].at = "create",
                      editor'[f].id = editor'[g].id
               PROVE  FALSE
    BY DEF Claims
  <2>1. CASE f # e /\ g # e
    BY <2>1, <1>1 DEF InFlight, Claims
  <2>2. CASE f = e
    <3>1. q.id \notin Claimed /\ q.id \in Ids
      BY <1>1, <2>2 DEF Fresh
    <3> QED
      BY <1>1, <2>2, <3>1 DEF Claimed
  <2>3. CASE g = e
    <3>1. q.id \notin Claimed /\ q.id \in Ids
      BY <1>1, <2>3 DEF Fresh
    <3> QED
      BY <1>1, <2>3, <3>1 DEF Claimed
  <2> QED
    BY <2>1, <2>2, <2>3
<1>5. \A v \in Workers : WorkerKnows(v)'
  BY WorkerKeeps DEF InFlight
<1> QED
  BY <1>1, <1>3, <1>4, <1>5 DEF InFlight

LEMMA WorkerMoves ==
  ASSUME TypeOK, InFlight, NEW w \in Workers, UNCHANGED editor, Evolves,
         \A v \in Workers : v # w => worker'[v] = worker[v],
         WorkerKnows(w)', StillUnborn(Editors)
  PROVE  InFlight'
<1>1. \A f \in Editors : EditorKnows(f)'
  BY EditorKeeps DEF InFlight, StillUnborn
<1>2. \A v \in Workers : v # w => WorkerKnows(v)'
  BY WorkerKeeps DEF InFlight
<1>3. Claims'
  BY DEF InFlight, Claims
<1> QED
  BY <1>1, <1>2, <1>3 DEF InFlight

(* Editors: what each step leaves in flight. *)
LEMMA EditorStepInFlight ==
  ASSUME TypeOK, InFlight, NEW e \in Editors, EditorStep(e), Evolves
  PROVE  InFlight'
<1>1. CASE Abandon(e)
  <2>1. StillUnborn(Editors \ {e})
    BY <1>1 DEF StillUnborn, Abandon, tables, InFlight, EditorKnows, CreationKnows
  <2> QED
    BY <1>1, <2>1, EditEnds DEF Abandon
<1>2. ASSUME NEW i \in Fresh, NEW n \in 1..PageCount, NEW box \in Boxes,
             CreateLoad(e, i, n, box)
      PROVE  InFlight'
  <2>1. PICK confirm \in {FALSE, Covered(box, On(<<split, n>>))} :
          /\ Covered(box, On(<<split, n>>)) => confirm
          /\ BeginEdit(e, [at |-> "create", id |-> i, page |-> <<split, n>>, box |-> box,
                           confirm |-> confirm, beside |-> On(<<split, n>>)])
    BY <1>2 DEF CreateLoad
  <2> DEFINE q == [at |-> "create", id |-> i, page |-> <<split, n>>, box |-> box,
                   confirm |-> confirm, beside |-> On(<<split, n>>)]
  <2>2. /\ q.at = "create" /\ q.id = i /\ q.box = box /\ q.confirm = confirm
        /\ q.beside = On(<<split, n>>)
    OBVIOUS
  <2>3. BeginEdit(e, q) /\ UNCHANGED <<tables, worker, history>> /\ Valid(box)
    BY <1>2, <2>1 DEF CreateLoad
  <2> HIDE DEF q
  <2>4. editor'[e] = q
    BY <2>3 DEF BeginEdit, TypeOK
  <2>5. ~confirm => Clear(box, On(<<split, n>>))
    BY <2>1 DEF Clear, Covered, On, Stored, Still
  <2>6. Valid(box)' /\ lexeme'[i].state = "unborn"
    BY <2>3 DEF Valid, Fresh, tables
  <2>7. ~confirm => \A j \in On(<<split, n>>) :
          lexeme'[j].state # "unborn" /\ (Still(j)' => ~Overlaps(box, lexeme'[j].box))
    BY <2>3, <2>5 DEF Clear, Still, tables, history
  <2>8. EditorKnows(e)'
    BY <2>2, <2>4, <2>6, <2>7 DEF EditorKnows, CreationKnows, Clear, Valid
  <2> QED
    BY <2>2, <2>3, <2>8, EditBegins
<1>3. CASE CreateCommit(e)
  <2>1. editor[e].id \in Ids
    BY <1>3, EditorTyped DEF CreateCommit, Creation
  <2>2. \A j \in Ids : j # editor[e].id => lexeme'[j] = lexeme[j]
    BY <1>3, <2>1 DEF CreateCommit, TypeOK
  <2>3. StillUnborn(Editors \ {e})
    <3> SUFFICES ASSUME NEW f \in Editors \ {e}, editor[f].at = "create"
                 PROVE  lexeme'[editor[f].id].state = "unborn"
      BY DEF StillUnborn
    <3>1. editor[f].id \in Ids /\ editor[f].id # editor[e].id
      BY <1>3, EditorTyped DEF CreateCommit, InFlight, Claims, Creation
    <3> QED
      BY <2>2, <3>1 DEF InFlight, EditorKnows, CreationKnows
  <2> QED
    BY <1>3, <2>3, EditEnds DEF CreateCommit
<1>4. ASSUME NEW i \in Ids, NEW box \in Boxes, UpdateLoad(e, i, box)
      PROVE  InFlight'
  <2> DEFINE q == [at |-> "update", id |-> i, was |-> lexeme[i].box, box |-> box]
  <2>1. q.at = "update" /\ q.box = box
    OBVIOUS
  <2>2. BeginEdit(e, q) /\ UNCHANGED <<tables, worker, history>> /\ Valid(box)
    BY <1>4 DEF UpdateLoad
  <2> HIDE DEF q
  <2>3. editor'[e] = q
    BY <2>2 DEF BeginEdit, TypeOK
  <2>4. EditorKnows(e)'
    BY <2>1, <2>2, <2>3 DEF EditorKnows, Valid
  <2> QED
    BY <2>1, <2>2, <2>4, EditBegins
<1>5. CASE UpdateCommit(e)
  <2>1. \A j \in Ids : lexeme'[j].state = lexeme[j].state
    BY <1>5, UpdatedRow
  <2>2. StillUnborn(Editors \ {e})
    BY <2>1, EditorTyped DEF StillUnborn, InFlight, EditorKnows, CreationKnows, Creation
  <2> QED
    BY <1>5, <2>2, EditEnds DEF UpdateCommit
<1>6. ASSUME NEW i \in Ids, DeleteLoad(e, i)
      PROVE  InFlight'
  <2> DEFINE q == [at |-> "delete", id |-> i]
  <2>1. q.at = "delete" /\ q.id = i
    OBVIOUS
  <2>2. BeginEdit(e, q) /\ UNCHANGED <<tables, worker, history>> /\ i \in Stored
    BY <1>6 DEF DeleteLoad
  <2> HIDE DEF q
  <2>3. editor'[e] = q
    BY <2>2 DEF BeginEdit, TypeOK
  <2>4. EditorKnows(e)'
    BY <2>1, <2>2, <2>3 DEF EditorKnows, Stored, tables
  <2> QED
    BY <2>1, <2>2, <2>4, EditBegins
<1>7. CASE DeleteCommit(e)
  <2>1. \A j \in Ids : lexeme[j].state = "unborn" => lexeme'[j].state = "unborn"
    BY <1>7 DEF DeleteCommit, Stored, TypeOK
  <2>2. StillUnborn(Editors \ {e})
    BY <2>1, EditorTyped DEF StillUnborn, InFlight, EditorKnows, CreationKnows, Creation
  <2> QED
    BY <1>7, <2>2, EditEnds DEF DeleteCommit
<1> QED
  BY <1>1, <1>2, <1>3, <1>4, <1>5, <1>6, <1>7 DEF EditorStep

(* Workers: what each step leaves in flight. *)
LEMMA AtMoves ==
  ASSUME TypeOK, NEW w \in Workers,
         NEW place, NEW next, NEW blank, NEW admitted, NEW beside,
         At(w, place, next, blank, admitted, beside)
  PROVE  /\ worker'[w].at = place /\ worker'[w].split = worker[w].split
         /\ worker'[w].already = worker[w].already /\ worker'[w].blank = blank
         /\ worker'[w].next = next /\ worker'[w].admitted = admitted
         /\ worker'[w].beside = beside
         /\ \A v \in Workers : v # w => worker'[v] = worker[v]
BY DEF At, TypeOK

LEMMA ListInFlight ==
  ASSUME TypeOK, Tables, NEW w \in Workers, WorkerKnows(w),
         ListPages(w) \/ ListProcessed(w)
  PROVE  WorkerKnows(w)'
<1>1. CASE ListPages(w)
  <2> DEFINE q == [at |-> "listed", split |-> split, already |-> {}, blank |-> {},
                   next |-> 1, admitted |-> {}, beside |-> {}]
  <2>1. worker'[w] = q /\ split' = split
    BY <1>1 DEF ListPages, TypeOK, tables
  <2>2. /\ q.at = "listed" /\ q.split = split /\ q.already = {} /\ q.blank = {}
        /\ q.next = 1
    OBVIOUS
  <2> HIDE DEF q
  <2> QED
    BY <2>1, <2>2, SplitTyped DEF WorkerKnows, Filled
<1>2. CASE ListProcessed(w)
  <2> DEFINE already == {n \in 1..PageCount : On(<<worker[w].split, n>>) # {}}
             q == [at |-> "scanning", split |-> worker[w].split, already |-> already,
                   blank |-> {}, next |-> 1, admitted |-> {}, beside |-> {}]
  <2>1. worker'[w] = q /\ split' = split /\ touched' = touched
    BY <1>2 DEF ListProcessed, TypeOK, tables, history
  <2>2. /\ q.at = "scanning" /\ q.split = worker[w].split /\ q.already = already
        /\ q.blank = {} /\ q.next = 1
    OBVIOUS
  <2>3. worker[w].split <= split
    BY <1>2 DEF ListProcessed, WorkerKnows
  <2>4. already \subseteq touched
    <3> SUFFICES ASSUME NEW n \in 1..PageCount, NEW j \in On(<<worker[w].split, n>>)
                 PROVE  n \in touched
      OBVIOUS
    <3>1. j \in Stored /\ lexeme[j].page[2] = n
      BY DEF On
    <3> QED
      BY <3>1 DEF Tables, StoredTouched
  <2> HIDE DEF q, already
  <2> QED
    BY <2>1, <2>2, <2>3, <2>4, SplitTyped DEF WorkerKnows, Filled
<1> QED
  BY <1>1, <1>2

(* A page more is accounted for. *)
LEMMA OnePageMore ==
  \A n \in Nat \ {0} : 1..((n + 1) - 1) = (1..(n - 1)) \union {n}
OBVIOUS

LEMMA PassInFlight ==
  ASSUME TypeOK, NEW w \in Workers, WorkerKnows(w), SkipPage(w) \/ RecognizeNothing(w)
  PROVE  WorkerKnows(w)'
<1> DEFINE q == worker[w]
<1>1. /\ q \in Scan /\ q.at = "scanning" /\ q.next \in Nat \ {0}
      /\ q.split <= split /\ (q.split = split => Filled(q))
  BY WorkerTyped, CountTyped DEF SkipPage, RecognizeNothing, Scanning, WorkerKnows, Scan
<1>2. PICK blank \in {q.blank, q.blank \union {q.next}} :
        /\ At(w, "scanning", q.next + 1, blank, {}, {})
        /\ q.next \in q.already \/ q.next \in blank
        /\ UNCHANGED <<tables, history>>
  BY DEF SkipPage, RecognizeNothing
<1>3. /\ worker'[w].at = "scanning" /\ worker'[w].split = q.split
      /\ worker'[w].already = q.already /\ worker'[w].blank = blank
      /\ worker'[w].next = q.next + 1
  BY <1>2, AtMoves
<1>4. split' = split /\ touched' = touched
  BY <1>2 DEF tables, history
<1> HIDE DEF q
<1>5. ASSUME q.split = split
      PROVE  1..((q.next + 1) - 1) \subseteq blank \union touched /\ q.already \subseteq touched
  <2>1. q.already \subseteq touched /\ 1..(q.next - 1) \subseteq q.blank \union touched
    BY <1>1, <1>5 DEF Filled
  <2>2. 1..((q.next + 1) - 1) = (1..(q.next - 1)) \union {q.next}
    BY <1>1, OnePageMore
  <2> QED
    BY <1>2, <2>1, <2>2
<1> QED
  BY <1>1, <1>3, <1>4, <1>5 DEF WorkerKnows, Filled

LEMMA LoadInFlight ==
  ASSUME TypeOK, Tables, NEW w \in Workers, WorkerKnows(w), LoadPage(w)
  PROVE  WorkerKnows(w)'
<1> DEFINE q == worker[w]
<1>1. /\ q \in Scan /\ q.at = "scanning" /\ q.next \in Nat \ {0} /\ q.next <= PageCount
      /\ q.split <= split /\ (q.split = split => Filled(q))
  BY WorkerTyped, CountTyped DEF LoadPage, Scanning, WorkerKnows, Scan
<1>2. PICK reading \in Readings : \E K \in SUBSET DOMAIN reading :
        /\ Admitted(reading, Here(w), K)
        /\ At(w, "loaded", q.next,
              IF Usable(reading) = {} THEN q.blank \union {q.next} ELSE q.blank,
              {reading[n] : n \in K}, On(Here(w)))
  BY DEF LoadPage
<1>3. PICK K \in SUBSET DOMAIN reading :
        /\ Admitted(reading, Here(w), K)
        /\ At(w, "loaded", q.next,
              IF Usable(reading) = {} THEN q.blank \union {q.next} ELSE q.blank,
              {reading[n] : n \in K}, On(Here(w)))
  BY <1>2
<1> DEFINE blank == IF Usable(reading) = {} THEN q.blank \union {q.next} ELSE q.blank
           admitted == {reading[n] : n \in K}
<1>4. /\ worker'[w].at = "loaded" /\ worker'[w].split = q.split
      /\ worker'[w].already = q.already /\ worker'[w].blank = blank
      /\ worker'[w].next = q.next /\ worker'[w].admitted = admitted
      /\ worker'[w].beside = On(Here(w))
  BY <1>3, AtMoves
<1>5. UNCHANGED <<tables, history>>
  BY DEF LoadPage
<1>6. split' = split /\ touched' = touched
  BY <1>5 DEF tables, history
<1>7. reading \in Seq(Box) /\ \A n \in DOMAIN reading : n \in Int /\ reading[n] \in Box
  BY ScanAssumption
<1>8. \A b \in admitted : Valid(b) /\ Clear(b, On(Here(w)))
  <2> TAKE b \in admitted
  <2>1. PICK n \in K : b = reading[n]
    OBVIOUS
  <2>2. Valid(b) /\ ~Covered(b, On(Here(w)))
    BY <1>3, <2>1 DEF Admitted
  <2> QED
    BY <2>2 DEF Covered, Clear, On, Stored
<1>9. \A b, c \in admitted : b # c => ~Overlaps(b, c)
  <2> TAKE b, c \in admitted
  <2>1. PICK m \in K : b = reading[m]
    OBVIOUS
  <2>2. PICK n \in K : c = reading[n]
    OBVIOUS
  <2>3. m \in Int /\ n \in Int /\ b \in Box /\ c \in Box
    BY <1>7, <2>1, <2>2
  <2>4. CASE m < n
    BY <1>3, <2>1, <2>2, <2>3, <2>4, OverlapsSym DEF Admitted
  <2>5. CASE n < m
    BY <1>3, <2>1, <2>2, <2>5 DEF Admitted
  <2>6. CASE m = n
    BY <2>1, <2>2, <2>6
  <2> QED
    BY <2>3, <2>4, <2>5, <2>6
<1>10. ASSUME q.split = split, admitted = {}
       PROVE  q.next \in blank \union touched
  <2>1. CASE Usable(reading) = {}
    BY <2>1
  <2>2. CASE Usable(reading) # {}
    <3>1. PICK n \in DOMAIN reading : Valid(reading[n])
      BY <2>2 DEF Usable
    <3>2. K = {}
      BY <1>10
    <3>3. Covered(reading[n], On(Here(w)))
      BY <1>3, <3>1, <3>2 DEF Admitted
    <3>4. PICK j \in On(Here(w)) : TRUE
      BY <3>3 DEF Covered
    <3>5. j \in Stored /\ lexeme[j].page[2] = q.next
      BY <3>4 DEF On, Here
    <3> QED
      BY <3>5 DEF Tables, StoredTouched
  <2> QED
    BY <2>1, <2>2
<1>11. q.blank \subseteq blank
  OBVIOUS
<1> HIDE DEF q, blank, admitted
<1>12. q.split = split => Filled(worker[w])'
  BY <1>1, <1>4, <1>6, <1>10, <1>11 DEF Filled
<1>13. Insertable(worker[w])'
  <2>1. \A b \in admitted : /\ Valid(b)' 
                            /\ \A j \in On(Here(w)) :
                                 /\ lexeme'[j].state # "unborn"
                                 /\ Still(j)' => ~Overlaps(b, lexeme'[j].box)
    BY <1>5, <1>8 DEF Clear, Still, Valid, tables, history
  <2> QED
    BY <1>4, <1>9, <2>1 DEF Insertable, Clear, Valid
<1> QED
  BY <1>1, <1>4, <1>6, <1>12, <1>13 DEF WorkerKnows

LEMMA CommitInFlight ==
  ASSUME TypeOK, NEW w \in Workers, WorkerKnows(w), CommitPage(w)
  PROVE  WorkerKnows(w)'
<1> DEFINE q == worker[w]
<1>1. /\ q \in Scan /\ q.at = "loaded" /\ q.next \in Nat \ {0} /\ q.next <= PageCount
      /\ q.split <= split /\ (q.split = split => Filled(q))
  BY WorkerTyped, CountTyped DEF CommitPage, WorkerKnows, Scan
<1>2. /\ At(w, "scanning", q.next + 1, q.blank, {}, {})
      /\ split' = split
      /\ touched' = touched \union {n \in {q.next} : q.admitted # {}}
  BY DEF CommitPage
<1>3. /\ worker'[w].at = "scanning" /\ worker'[w].split = q.split
      /\ worker'[w].already = q.already /\ worker'[w].blank = q.blank
      /\ worker'[w].next = q.next + 1
  BY <1>2, AtMoves
<1> HIDE DEF q
<1>4. ASSUME q.split = split
      PROVE  /\ 1..((q.next + 1) - 1) \subseteq q.blank \union touched'
             /\ q.already \subseteq touched'
  <2>1. /\ q.already \subseteq touched /\ 1..(q.next - 1) \subseteq q.blank \union touched
        /\ q.admitted = {} => q.next \in q.blank \union touched
    BY <1>1, <1>4 DEF Filled
  <2>2. 1..((q.next + 1) - 1) = (1..(q.next - 1)) \union {q.next}
    BY <1>1, OnePageMore
  <2> QED
    BY <1>2, <2>1, <2>2
<1> QED
  BY <1>1, <1>2, <1>3, <1>4 DEF WorkerKnows, Filled

LEMMA ScanStepInFlight ==
  ASSUME TypeOK, Tables, InFlight, NEW w \in Workers, ScanStep(w), Evolves
  PROVE  InFlight'
<1>1. WorkerKnows(w)
  BY DEF InFlight
<1>2. CASE ListPages(w) \/ ListProcessed(w)
  <2>1. /\ UNCHANGED <<tables, editor, history>>
        /\ \A v \in Workers : v # w => worker'[v] = worker[v]
    BY <1>2 DEF ListPages, ListProcessed, TypeOK
  <2>2. StillUnborn(Editors)
    BY <2>1 DEF StillUnborn, InFlight, EditorKnows, CreationKnows, tables
  <2> QED
    BY <1>1, <1>2, <2>1, <2>2, ListInFlight, WorkerMoves
<1>3. CASE SkipPage(w) \/ RecognizeNothing(w)
  <2>1. /\ UNCHANGED <<tables, editor, history>>
        /\ \A v \in Workers : v # w => worker'[v] = worker[v]
    BY <1>3 DEF SkipPage, RecognizeNothing, At, TypeOK
  <2>2. StillUnborn(Editors)
    BY <2>1 DEF StillUnborn, InFlight, EditorKnows, CreationKnows, tables
  <2> QED
    BY <1>1, <1>3, <2>1, <2>2, PassInFlight, WorkerMoves
<1>4. CASE LoadPage(w)
  <2>1. /\ UNCHANGED <<tables, editor, history>>
        /\ \A v \in Workers : v # w => worker'[v] = worker[v]
    BY <1>4 DEF LoadPage, At, TypeOK
  <2>2. StillUnborn(Editors)
    BY <2>1 DEF StillUnborn, InFlight, EditorKnows, CreationKnows, tables
  <2> QED
    BY <1>1, <1>4, <2>1, <2>2, LoadInFlight, WorkerMoves
<1>5. CASE CommitPage(w)
  <2>1. /\ UNCHANGED editor
        /\ \A v \in Workers : v # w => worker'[v] = worker[v]
    BY <1>5 DEF CommitPage, At, TypeOK
  <2>2. PICK new \in SUBSET Fresh : \A i \in Ids \ new : lexeme'[i] = lexeme[i]
    BY <1>1, <1>5, CommitPageRows DEF Inserts
  <2>3. StillUnborn(Editors)
    <3> SUFFICES ASSUME NEW f \in Editors, editor[f].at = "create"
                 PROVE  lexeme'[editor[f].id].state = "unborn"
      BY DEF StillUnborn
    <3>1. editor[f].id \in Ids /\ lexeme[editor[f].id].state = "unborn"
      BY EditorTyped DEF Creation, InFlight, EditorKnows, CreationKnows
    <3>2. editor[f].id \in Claimed
      BY <3>1 DEF Claimed
    <3> QED
      BY <2>2, <3>1, <3>2 DEF Fresh
  <2> QED
    BY <1>1, <1>5, <2>1, <2>3, CommitInFlight, WorkerMoves
<1>6. CASE ScanEnds(w) \/ ScanHalts(w)
  <2>1. /\ UNCHANGED <<tables, editor, history>> /\ worker'[w] = Idle
        /\ \A v \in Workers : v # w => worker'[v] = worker[v]
    BY <1>6 DEF ScanEnds, ScanHalts, TypeOK
  <2>2. StillUnborn(Editors)
    BY <2>1 DEF StillUnborn, InFlight, EditorKnows, CreationKnows, tables
  <2>3. WorkerKnows(w)'
    BY <2>1 DEF WorkerKnows, Idle
  <2> QED
    BY <2>1, <2>2, <2>3, WorkerMoves
<1> QED
  BY <1>2, <1>3, <1>4, <1>5, <1>6 DEF ScanStep

LEMMA ReplaceInFlight ==
  ASSUME TypeOK, InFlight, ReplacePages, Evolves
  PROVE  InFlight'
<1>1. UNCHANGED <<editor, worker>>
  BY DEF ReplacePages
<1>2. \A f \in Editors : editor[f].at = "create" => lexeme'[editor[f].id].state = "unborn"
  BY EditorTyped DEF ReplacePages, Stored, InFlight, EditorKnows, CreationKnows, Creation
<1>3. \A f \in Editors : EditorKnows(f)'
  BY <1>1, <1>2, EditorKeeps DEF InFlight
<1>4. \A v \in Workers : WorkerKnows(v)'
  BY <1>1, WorkerKeeps DEF InFlight
<1>5. Claims'
  BY <1>1 DEF InFlight, Claims
<1> QED
  BY <1>3, <1>4, <1>5 DEF InFlight

--------------------------------------------------------------------------------
(* The invariant. *)
LEMMA InitIInv == Init => IInv
<1> SUFFICES ASSUME Init PROVE IInv
  OBVIOUS
<1>1. TypeOK
  BY GoneTyped, CountTyped DEF Init, TypeOK
<1>2. Stored = {}
  BY DEF Init, Stored, Unborn
<1>3. DeletedHasEvent
  BY DEF Init, DeletedHasEvent, Unborn
<1>4. Tables
  BY <1>2, <1>3 DEF Tables, OverlapsExplained, LexemesOnPages, StoredTouched
<1>5. InFlight
  BY DEF Init, InFlight, Claims, EditorKnows, WorkerKnows, Idle
<1> QED
  BY <1>1, <1>4, <1>5 DEF IInv

LEMMA NextIInv == IInv /\ [Next]_vars => IInv' /\ Evolves
<1> SUFFICES ASSUME IInv, [Next]_vars PROVE IInv' /\ Evolves
  OBVIOUS
<1>1. TypeOK /\ Tables /\ InFlight
  BY DEF IInv
<1>2. ASSUME NEW e \in Editors, EditorStep(e)
      PROVE  TypeOK' /\ Tables' /\ InFlight' /\ Evolves
  <2>1. EditorKnows(e)
    BY <1>1 DEF InFlight
  <2>2. TypeOK' /\ Tables' /\ Evolves
    <3>1. CASE Abandon(e)
      <4>1. TypeOK'
        BY <1>1, <3>1, BeginTyped DEF Abandon, DoneEdit
      <4> QED
        BY <1>1, <3>1, <4>1, QuietTables DEF Abandon
    <3>2. ASSUME NEW i \in Fresh, NEW n \in 1..PageCount, NEW box \in Boxes,
                 CreateLoad(e, i, n, box)
          PROVE  TypeOK' /\ Tables' /\ Evolves
      <4>1. i \in Ids
        BY DEF Fresh
      <4> QED
        BY <1>1, <3>2, <4>1, CreateLoadTyped, QuietTables DEF CreateLoad
    <3>3. CASE CreateCommit(e)
      BY <1>1, <2>1, <3>3, CreateCommitTyped, CreateCommitTables
    <3>4. ASSUME NEW i \in Ids, NEW box \in Boxes, UpdateLoad(e, i, box)
          PROVE  TypeOK' /\ Tables' /\ Evolves
      BY <1>1, <3>4, UpdateLoadTyped, QuietTables DEF UpdateLoad
    <3>5. CASE UpdateCommit(e)
      BY <1>1, <2>1, <3>5, UpdateCommitTyped, UpdateCommitTables
    <3>6. ASSUME NEW i \in Ids, DeleteLoad(e, i)
          PROVE  TypeOK' /\ Tables' /\ Evolves
      BY <1>1, <3>6, DeleteLoadTyped, QuietTables DEF DeleteLoad
    <3>7. CASE DeleteCommit(e)
      BY <1>1, <2>1, <3>7, DeleteCommitTyped, DeleteCommitTables
    <3> QED
      BY <1>2, <3>1, <3>2, <3>3, <3>4, <3>5, <3>6, <3>7 DEF EditorStep
  <2> QED
    BY <1>1, <1>2, <2>2, EditorStepInFlight
<1>3. ASSUME NEW w \in Workers, ScanStep(w)
      PROVE  TypeOK' /\ Tables' /\ InFlight' /\ Evolves
  <2>1. WorkerKnows(w)
    BY <1>1 DEF InFlight
  <2>2. TypeOK' /\ Tables' /\ Evolves
    <3>1. CASE ListPages(w) \/ ListProcessed(w)
      BY <1>1, <3>1, ListTyped, QuietTables DEF ListPages, ListProcessed
    <3>2. CASE SkipPage(w) \/ RecognizeNothing(w)
      BY <1>1, <3>2, PassTyped, QuietTables DEF SkipPage, RecognizeNothing
    <3>3. CASE LoadPage(w)
      BY <1>1, <3>3, LoadPageTyped, QuietTables DEF LoadPage
    <3>4. CASE CommitPage(w)
      BY <1>1, <2>1, <3>4, CommitPageTyped, CommitPageTables
    <3>5. CASE ScanEnds(w) \/ ScanHalts(w)
      BY <1>1, <3>5, HaltTyped, QuietTables DEF ScanEnds, ScanHalts
    <3> QED
      BY <1>3, <3>1, <3>2, <3>3, <3>4, <3>5 DEF ScanStep
  <2> QED
    BY <1>1, <1>3, <2>2, ScanStepInFlight
<1>4. CASE ReplacePages
  BY <1>1, <1>4, ReplacePagesTyped, ReplacePagesTables, ReplaceInFlight DEF IInv
<1>5. CASE UNCHANGED vars
  <2>1. UNCHANGED <<tables, history>> /\ UNCHANGED editor /\ UNCHANGED worker
    BY <1>5 DEF vars
  <2>2. TypeOK'
    BY <1>1, <2>1 DEF TypeOK, tables, history
  <2>3. Tables' /\ Evolves
    BY <1>1, <2>1, QuietTables
  <2>4. \A f \in Editors : editor[f].at = "create" => lexeme'[editor[f].id].state = "unborn"
    BY <1>1, <2>1 DEF InFlight, EditorKnows, CreationKnows, tables
  <2>5. \A f \in Editors : EditorKnows(f)'
    BY <1>1, <2>1, <2>3, <2>4, EditorKeeps DEF InFlight
  <2>6. \A v \in Workers : WorkerKnows(v)'
    BY <1>1, <2>1, <2>3, WorkerKeeps DEF InFlight
  <2>7. Claims'
    BY <1>1, <2>1 DEF InFlight, Claims
  <2> QED
    BY <2>2, <2>3, <2>5, <2>6, <2>7 DEF IInv, InFlight
<1>6. CASE Next
  BY <1>2, <1>3, <1>4, <1>6 DEF Next, IInv
<1> QED
  BY <1>5, <1>6

(* The invariant, with what every use case in flight still relies on.       *)
LEMMA ScanInductive == Spec => []IInv
BY InitIInv, NextIInv, PTL DEF Spec

(* Every column, request and scan keeps its type, for any number of them.   *)
THEOREM ScanTypeCorrect == Spec => []TypeOK
BY ScanInductive, PTL DEF IInv

(* Boxes that cover each other on a page have a reason, whatever editors,    *)
(* scans and splits do at once.                                             *)
THEOREM OverlapsHaveReasons == Spec => []OverlapsExplained
<1>1. IInv => OverlapsExplained
  BY DEF IInv, Tables
<1> QED
  BY <1>1, ScanInductive, PTL

(* A lexeme is on a page of the last split, in a box of that page unless    *)
(* two edits were mixed.                                                    *)
THEOREM LexemesStayOnPages == Spec => []LexemesOnPages
<1>1. IInv => LexemesOnPages
  BY DEF IInv, Tables
<1> QED
  BY <1>1, ScanInductive, PTL

(* Rows and events agree on every deletion, and nothing that was loaded      *)
(* before it brings a lexeme back or records an edit of it afterwards.      *)
THEOREM DeletionsFinal == Spec => DeletionIsFinal
<1>1. IInv => DeletedHasEvent
  BY DEF IInv, Tables
<1>2. IInv /\ [Next]_vars => [GoneStaysGone]_vars
  BY NextIInv DEF Evolves
<1> QED
  BY <1>1, <1>2, ScanInductive, PTL DEF Spec, DeletionIsFinal

(* A scan leaves no recognized page of its split empty.                     *)
THEOREM ScansFill == Spec => []ScanLeavesNoGap
<1>1. IInv => ScanLeavesNoGap
  BY DEF IInv, InFlight, WorkerKnows, Filled, ScanLeavesNoGap
<1> QED
  BY <1>1, ScanInductive, PTL

--------------------------------------------------------------------------------
(* The page ranges: what a loop computes is a function that it defines turn by turn, *)
(* and what it keeps is shown at its first turn that would not.                     *)
LEMMA LeastNatural ==
  ASSUME NEW S \in SUBSET Nat, S # {}
  PROVE  \E n \in S : \A m \in S : n <= m
<1> DEFINE R == OpToRel(<, Nat)
<1>1. IsWellFoundedOn(R, Nat)
  BY NatLessThanWellFounded
<1>2. \A x, y \in Nat : x < y => <<x, y>> \in R
  BY DEF OpToRel
<1> HIDE DEF R
<1>3. \E x \in S : \A y \in S : ~ (<<y, x>> \in R)
  BY <1>1, WFMin
<1>4. PICK n \in S : \A y \in S : ~ (<<y, n>> \in R)
  BY <1>3
<1>5. \A m \in S : n <= m
  <2> SUFFICES ASSUME NEW m \in S PROVE n <= m
    OBVIOUS
  <2>1. m \in Nat /\ n \in Nat /\ ~ (<<m, n>> \in R)
    BY <1>4
  <2>2. ~ (m < n)
    BY <1>2, <2>1
  <2> QED
    BY <2>1, <2>2
<1> QED
  BY <1>5

(* The loop of the merge is a function of the turn. *)
LEMMA MergingUpTo ==
  ASSUME NEW input, NEW length \in Nat
  PROVE  \E merging : merging = [n \in 0 .. length |->
           IF n = 0 THEN [left |-> DOMAIN input, merged |-> <<>>]
           ELSE Viewer!MergeFirst(input, merging[n - 1])]
<1> DEFINE Start == [left |-> DOMAIN input, merged |-> <<>>]
           Next1(q) == Viewer!MergeFirst(input, q)
           Goes(f, m) == f = [n \in 0 .. m |-> IF n = 0 THEN Start ELSE Next1(f[n - 1])]
           Stuck == {m \in Nat : ~ \E f : Goes(f, m)}
<1> HIDE DEF Start, Next1
<1>1. Stuck = {}
  <2> SUFFICES ASSUME Stuck # {} PROVE FALSE
    OBVIOUS
  <2>1. PICK m \in Stuck : \A l \in Stuck : m <= l
    BY LeastNatural
  <2>2. m # 0
    <3>1. Goes([n \in 0 .. 0 |-> Start], 0)
      OBVIOUS
    <3> QED
      BY <3>1
  <2>3. m - 1 \in Nat /\ m - 1 \notin Stuck
    <3>1. m \in Nat
      BY <2>1
    <3> HIDE DEF Stuck
    <3>2. m - 1 \in Nat /\ ~ (m <= m - 1)
      BY <2>2, <3>1
    <3> QED
      BY <2>1, <3>2
  <2>4. PICK f : Goes(f, m - 1)
    BY <2>3
  <2> DEFINE g == [n \in 0 .. m |-> IF n = m THEN Next1(f[m - 1]) ELSE f[n]]
  <2>5. \A n \in 0 .. m : g[n] = IF n = 0 THEN Start ELSE Next1(g[n - 1])
    <3> SUFFICES ASSUME NEW n \in 0 .. m
                 PROVE  g[n] = IF n = 0 THEN Start ELSE Next1(g[n - 1])
      OBVIOUS
    <3>1. m \in Nat /\ m > 0
      BY <2>2
    <3>2. CASE n = m
      <4>1. n - 1 \in 0 .. m /\ n - 1 # m /\ n # 0
        BY <3>1, <3>2
      <4> QED
        BY <3>2, <4>1
    <3>3. CASE n # m
      <4>1. n \in 0 .. m - 1 /\ (n # 0 => n - 1 \in 0 .. m /\ n - 1 # m)
        BY <3>1, <3>3
      <4>2. f[n] = IF n = 0 THEN Start ELSE Next1(f[n - 1])
        BY <2>4, <4>1
      <4> QED
        BY <3>3, <4>1, <4>2
    <3> QED
      BY <3>2, <3>3
  <2>6. g = [n \in 0 .. m |-> IF n = 0 THEN Start ELSE Next1(g[n - 1])]
    <3> HIDE DEF g
    <3>1. g = [n \in 0 .. m |-> g[n]]
      BY DEF g
    <3> QED
      BY <2>5, <3>1
  <2>7. Goes(g, m)
    BY <2>6
  <2> QED
    BY <2>7
<1>2. \E f : Goes(f, length)
  BY <1>1
<1> QED
  BY <1>2 DEF Start, Next1

LEMMA MergingTurns ==
  ASSUME NEW input, Len(input) \in Nat
  PROVE  /\ Viewer!Merging(input)[0] = [left |-> DOMAIN input, merged |-> <<>>]
         /\ \A n \in 1 .. Len(input) :
              Viewer!Merging(input)[n] = Viewer!MergeFirst(input, Viewer!Merging(input)[n - 1])
<1> DEFINE Defines(f) == f = [n \in 0 .. Len(input) |->
             IF n = 0 THEN [left |-> DOMAIN input, merged |-> <<>>]
             ELSE Viewer!MergeFirst(input, f[n - 1])]
           merging == Viewer!Merging(input)
<1>1. \E f : Defines(f)
  BY MergingUpTo
<1>2. merging = CHOOSE f : Defines(f)
  BY DEF Viewer!Merging
<1>3. Defines(merging)
  BY <1>1, <1>2
<1> HIDE DEF merging
<1>4. merging[0] = [left |-> DOMAIN input, merged |-> <<>>]
  BY <1>3
<1>5. \A n \in 1 .. Len(input) : merging[n] = Viewer!MergeFirst(input, merging[n - 1])
  BY <1>3
<1> QED
  BY <1>4, <1>5 DEF merging

(* The two modules count with the same operator. *)
LEMMA SameCardinality == \A S : Viewer!Cardinality(S) = Cardinality(S)
  BY DEF Viewer!Cardinality, Cardinality

(* What a list holds. *)
Held(list) == {list[k] : k \in 1 .. Len(list)}

(* What a concatenation holds, and where. *)
Joins(c, a, b) ==
  /\ c \in Seq(Int) /\ Len(c) = Len(a) + Len(b)
  /\ \A k \in 1 .. Len(a) : c[k] = a[k]
  /\ \A k \in 1 .. Len(b) : c[Len(a) + k] = b[k]
  /\ Held(c) = Held(a) \union Held(b)

LEMMA Concatenation ==
  ASSUME NEW a \in Seq(Int), NEW b \in Seq(Int)
  PROVE  Joins(a \o b, a, b)
<1> DEFINE c == a \o b
<1>1. c \in Seq(Int) /\ Len(c) = Len(a) + Len(b)
  OBVIOUS
<1>2. \A k \in 1 .. Len(a) : c[k] = a[k]
  OBVIOUS
<1>3. \A k \in 1 .. Len(b) : c[Len(a) + k] = b[k]
  OBVIOUS
<1>4. Len(a) \in Nat /\ Len(b) \in Nat
  OBVIOUS
<1> DEFINE m == Len(a)
           n == Len(b)
<1>5. /\ m \in Nat /\ n \in Nat /\ Len(c) = m + n
      /\ (\A k \in 1 .. m : c[k] = a[k]) /\ \A k \in 1 .. n : c[m + k] = b[k]
  BY <1>1, <1>2, <1>3, <1>4
<1> HIDE DEF c, m, n
<1>6. \A k \in 1 .. m + n : k \in 1 .. m \/ k - m \in 1 .. n
  BY <1>5
<1>7. Held(c) = Held(a) \union Held(b)
  <2>1. ASSUME NEW page \in Held(c) PROVE page \in Held(a) \union Held(b)
    <3>1. PICK k \in 1 .. m + n : page = c[k]
      BY <1>5, <2>1 DEF Held
    <3>2. CASE k \in 1 .. m
      BY <1>5, <3>1, <3>2 DEF Held, m
    <3>3. CASE k - m \in 1 .. n
      <4>1. m + (k - m) = k
        BY <1>5
      <4>2. page = b[k - m]
        BY <1>5, <3>1, <3>3, <4>1
      <4> QED
        BY <3>3, <4>2 DEF Held, n
    <3> QED
      BY <1>6, <3>2, <3>3
  <2>2. ASSUME NEW page \in Held(a) PROVE page \in Held(c)
    <3>1. PICK k \in 1 .. m : page = a[k]
      BY <2>2 DEF Held, m
    <3>2. k \in 1 .. m + n /\ page = c[k]
      BY <1>5, <3>1
    <3> QED
      BY <1>5, <3>2 DEF Held
  <2>3. ASSUME NEW page \in Held(b) PROVE page \in Held(c)
    <3>1. PICK k \in 1 .. n : page = b[k]
      BY <2>3 DEF Held, n
    <3>2. m + k \in 1 .. m + n /\ page = c[m + k]
      BY <1>5, <3>1
    <3> QED
      BY <1>5, <3>2 DEF Held
  <2> QED
    BY <2>1, <2>2, <2>3
<1> QED
  BY <1>1, <1>5, <1>7 DEF c, m, n, Joins

(* A submission that was validated: its ranges are pages of the PDF, and in order.   *)
Sound(input) ==
  /\ input \in Seq(Viewer!Range)
  /\ \A i \in DOMAIN input :
       1 <= input[i].start /\ input[i].start <= input[i].end /\ input[i].end <= PdfPages

(* Ranges that stand for themselves, one after the other. *)
Spread(list) ==
  /\ list \in Seq(Viewer!Range)
  /\ \A i \in 1 .. Len(list) : 1 <= list[i].start /\ list[i].start <= list[i].end
  /\ \A i, j \in 1 .. Len(list) : i < j => list[i].end < list[j].start

(* The pages of the ranges whose index is in a set. *)
PagesOf(list, indices) == UNION {list[i].start .. list[i].end : i \in indices}

(* There is a first one among the ranges that are left. *)
LEMMA FirstIsLeast ==
  ASSUME NEW input, Sound(input), NEW left \in SUBSET DOMAIN input, left # {}
  PROVE  /\ Viewer!First(input, left) \in left
         /\ \A j \in left : Viewer!Before(input[Viewer!First(input, left)], input[j])
<1>1. \A i \in left : input[i].start \in Nat /\ input[i].end \in Nat
  <2>1. \A i \in left : input[i] \in Viewer!Range
    BY DEF Sound
  <2> QED
    BY <2>1 DEF Sound, Viewer!Range
<1> DEFINE Starts == {input[i].start : i \in left}
<1>2. PICK start \in Starts : \A s \in Starts : start <= s
  <2>1. Starts \in SUBSET Nat /\ Starts # {}
    BY <1>1
  <2> QED
    BY <2>1, LeastNatural
<1> DEFINE tied == {i \in left : input[i].start = start}
           Ends == {input[i].end : i \in tied}
<1>3. PICK end \in Ends : \A e \in Ends : end <= e
  <2>1. Ends \in SUBSET Nat /\ Ends # {}
    BY <1>1, <1>2
  <2> QED
    BY <2>1, LeastNatural
<1>4. PICK i \in left : input[i].start = start /\ input[i].end = end
  BY <1>3
<1>5. \A j \in left : Viewer!Before(input[i], input[j])
  <2> SUFFICES ASSUME NEW j \in left PROVE Viewer!Before(input[i], input[j])
    OBVIOUS
  <2>1. start <= input[j].start
    BY <1>2
  <2>2. input[j].start = start => end <= input[j].end
    BY <1>3
  <2> QED
    BY <1>1, <1>4, <2>1, <2>2 DEF Viewer!Before
<1> QED
  BY <1>4, <1>5 DEF Viewer!First

(* One turn of the merge: the range that comes widens the last one or stands for      *)
(* itself, and the pages are those of both.                                        *)
LEMMA OneMerged ==
  ASSUME NEW list, Spread(list), NEW current \in Viewer!Range,
         1 <= current.start, current.start <= current.end,
         \A i \in 1 .. Len(list) : list[i].start <= current.start
  PROVE  LET new == Viewer!Merged(list, current)
         IN  /\ Spread(new)
             /\ \A i \in 1 .. Len(new) : new[i].start <= current.start
             /\ PagesOf(new, 1 .. Len(new)) =
                  PagesOf(list, 1 .. Len(list)) \union (current.start .. current.end)
<1> DEFINE new == Viewer!Merged(list, current)
           last == Len(list)
<1>1. /\ list \in Seq(Viewer!Range) /\ last \in Nat /\ DOMAIN list = 1 .. last
      /\ list = <<>> <=> last = 0
  BY DEF Spread
<1>7. last \in Nat
  BY <1>1
<1>2. \A i \in 1 .. last : list[i].start \in Int /\ list[i].end \in Int
                         /\ 1 <= list[i].start /\ list[i].start <= list[i].end
  <2>1. \A i \in 1 .. last : list[i] \in Viewer!Range
    BY <1>1
  <2> QED
    BY <2>1 DEF Spread, Viewer!Range
<1>3. current.start \in Int /\ current.end \in Int
  BY DEF Viewer!Range
<1>4. \A i, j \in 1 .. last : i < j => list[i].end < list[j].start
  BY DEF Spread
<1>5. CASE list = <<>> \/ list[last].end < current.start
  <2>1. new = Append(list, current)
    BY <1>5 DEF Viewer!Merged
  <2>2. /\ new \in Seq(Viewer!Range) /\ Len(new) = last + 1 /\ new[last + 1] = current
        /\ \A i \in 1 .. last : new[i] = list[i]
    BY <1>1, <2>1
  <2> HIDE DEF new
  <2>3. \A i \in 1 .. last : list[i].end < current.start
    <3> SUFFICES ASSUME NEW i \in 1 .. last PROVE list[i].end < current.start
      OBVIOUS
    <3>1. last \in 1 .. last /\ list[last].end < current.start
      BY <1>1, <1>5
    <3>2. CASE i = last
      BY <3>1, <3>2
    <3>3. CASE i < last
      <4>1. list[i].end < list[last].start
        BY <3>1, <3>3 DEF Spread
      <4> QED
        BY <1>2, <1>3, <3>1, <4>1
    <3>4. i = last \/ i < last
      <4> HIDE DEF last
      <4> QED
        BY <1>7
    <3> QED
      BY <3>2, <3>3, <3>4
  <2>4. Spread(new)
    <3>1. \A i \in 1 .. Len(new) : 1 <= new[i].start /\ new[i].start <= new[i].end
      BY <1>1, <1>2, <2>2
    <3>2. ASSUME NEW i \in 1 .. Len(new), NEW j \in 1 .. Len(new), i < j
          PROVE  new[i].end < new[j].start
      <4>1. i \in 1 .. last
        BY <1>1, <2>2, <3>2
      <4>2. CASE j = last + 1
        BY <2>2, <2>3, <4>1, <4>2
      <4>3. CASE j \in 1 .. last
        BY <1>4, <2>2, <3>2, <4>1, <4>3
      <4> QED
        BY <1>1, <2>2, <4>2, <4>3
    <3> QED
      BY <2>2, <3>1, <3>2 DEF Spread
  <2>5. \A i \in 1 .. Len(new) : new[i].start <= current.start
    BY <1>1, <1>3, <2>2
  <2>6. PagesOf(new, 1 .. Len(new)) =
          PagesOf(list, 1 .. last) \union (current.start .. current.end)
    <3>1. 1 .. Len(new) = (1 .. last) \union {last + 1}
      BY <1>1, <2>2
    <3> QED
      BY <2>2, <3>1 DEF PagesOf
  <2> QED
    BY <2>4, <2>5, <2>6 DEF new
<1>6. CASE ~ (list = <<>> \/ list[last].end < current.start)
  <2> DEFINE end == IF current.end > list[last].end THEN current.end ELSE list[last].end
  <2>1. new = [list EXCEPT ![last].end = end]
    BY <1>6 DEF Viewer!Merged
  <2>2. /\ last \in 1 .. last /\ current.start <= list[last].end
        /\ list[last].start <= current.start
    BY <1>1, <1>2, <1>3, <1>6
  <2>3. /\ end \in Int /\ list[last].end <= end /\ current.end <= end
        /\ end \in {list[last].end, current.end}
    BY <1>2, <1>3, <2>2
  <2> HIDE DEF end
  <2>4. /\ new \in Seq(Viewer!Range) /\ Len(new) = last
        /\ new[last].start = list[last].start /\ new[last].end = end
        /\ \A i \in 1 .. last : i # last => new[i] = list[i]
    <3>1. list[last] \in Viewer!Range
      BY <1>1, <2>2
    <3>2. [list[last] EXCEPT !.end = end] \in Viewer!Range
      BY <2>3, <3>1 DEF Viewer!Range
    <3>3. new = [list EXCEPT ![last] = [list[last] EXCEPT !.end = end]]
      BY <2>1
    <3>4. /\ [list[last] EXCEPT !.end = end].start = list[last].start
          /\ [list[last] EXCEPT !.end = end].end = end
      BY <3>1 DEF Viewer!Range
    <3> HIDE DEF new
    <3>5. new \in Seq(Viewer!Range) /\ Len(new) = last
      BY <1>1, <2>2, <3>2, <3>3
    <3>6. \A i \in 1 .. last :
            new[i] = IF i = last THEN [list[last] EXCEPT !.end = end] ELSE list[i]
      BY <1>1, <3>3
    <3> QED
      BY <2>2, <3>4, <3>5, <3>6
  <2> HIDE DEF new
  <2>5. Spread(new)
    <3>1. ASSUME NEW i \in 1 .. Len(new)
          PROVE  1 <= new[i].start /\ new[i].start <= new[i].end
      <4>1. i \in 1 .. last
        BY <2>4
      <4>2. /\ list[i].start \in Int /\ list[i].end \in Int
            /\ 1 <= list[i].start /\ list[i].start <= list[i].end
        BY <1>2, <4>1
      <4>3. CASE i = last
        BY <2>3, <2>4, <4>2, <4>3
      <4>4. CASE i # last
        BY <2>4, <4>1, <4>2, <4>4
      <4> QED
        BY <4>3, <4>4
    <3>2. ASSUME NEW i \in 1 .. Len(new), NEW j \in 1 .. Len(new), i < j
          PROVE  new[i].end < new[j].start
      <4>1. i \in 1 .. last /\ j \in 1 .. last
        BY <2>4
      <4>2. list[i].end < list[j].start
        BY <1>4, <3>2, <4>1
      <4>3. i # last
        <5> HIDE DEF last
        <5> QED
          BY <1>7, <3>2, <4>1
      <4>4. new[i] = list[i]
        BY <2>4, <4>1, <4>3
      <4>5. new[j].start = list[j].start
        BY <2>4, <4>1
      <4> QED
        BY <4>2, <4>4, <4>5
    <3> QED
      BY <2>4, <3>1, <3>2 DEF Spread
  <2>6. \A i \in 1 .. Len(new) : new[i].start <= current.start
    BY <2>4
  <2>7. PagesOf(new, 1 .. Len(new)) =
          PagesOf(list, 1 .. last) \union (current.start .. current.end)
    <3>1. new[last].start .. new[last].end =
            (list[last].start .. list[last].end) \union (current.start .. current.end)
      BY <1>2, <1>3, <2>2, <2>3, <2>4
    <3>2. PagesOf(new, 1 .. last) =
            PagesOf(new, (1 .. last) \ {last}) \union (new[last].start .. new[last].end)
      BY <2>2 DEF PagesOf
    <3>3. PagesOf(list, 1 .. last) =
            PagesOf(list, (1 .. last) \ {last}) \union (list[last].start .. list[last].end)
      BY <2>2 DEF PagesOf
    <3>4. PagesOf(new, (1 .. last) \ {last}) = PagesOf(list, (1 .. last) \ {last})
      BY <2>4 DEF PagesOf
    <3> QED
      BY <2>4, <3>1, <3>2, <3>3, <3>4
  <2> QED
    BY <2>5, <2>6, <2>7 DEF new
<1> QED
  BY <1>5, <1>6

(* What holds before the first turn and is kept by every turn holds after all of them. *)
LEMMA KeptByTurns ==
  ASSUME NEW length \in Nat, NEW Kept, 0 \in Kept,
         \A n \in 1 .. length : n - 1 \in Kept => n \in Kept
  PROVE  \A n \in 0 .. length : n \in Kept
<1> DEFINE Lost == {n \in 0 .. length : n \notin Kept}
<1> SUFFICES ASSUME Lost # {} PROVE FALSE
  OBVIOUS
<1>1. PICK n \in Lost : \A m \in Lost : n <= m
  <2>1. Lost \in SUBSET Nat
    OBVIOUS
  <2> HIDE DEF Lost
  <2> QED
    BY <2>1, LeastNatural
<1>2. n \in 1 .. length /\ n \notin Kept
  BY <1>1
<1>3. n - 1 \in 0 .. length /\ ~ (n <= n - 1)
  BY <1>2
<1>4. n - 1 \notin Lost
  <2> HIDE DEF Lost
  <2> QED
    BY <1>1, <1>3
<1> QED
  BY <1>2, <1>3, <1>4

(* After n turns of the merge. *)
MergedSoFar(input, q, n) ==
  /\ q.left \in SUBSET DOMAIN input /\ IsFiniteSet(q.left)
  /\ Cardinality(q.left) = Len(input) - n
  /\ Spread(q.merged)
  /\ \A i \in 1 .. Len(q.merged) : \A j \in q.left : q.merged[i].start <= input[j].start
  /\ PagesOf(q.merged, 1 .. Len(q.merged)) = PagesOf(input, DOMAIN input \ q.left)

LEMMA MergeTurn ==
  ASSUME NEW input, Sound(input), NEW n \in 1 .. Len(input),
         NEW q, MergedSoFar(input, q, n - 1)
  PROVE  MergedSoFar(input, Viewer!MergeFirst(input, q), n)
<1> DEFINE i == Viewer!First(input, q.left)
           new == Viewer!Merged(q.merged, input[i])
           left == q.left \ {i}
<1>1. Viewer!MergeFirst(input, q) = [left |-> left, merged |-> new]
  BY DEF Viewer!MergeFirst
<1>2. Len(input) \in Nat /\ n \in Nat /\ n >= 1 /\ n <= Len(input)
  BY DEF Sound
<1>3. /\ q.left \in SUBSET DOMAIN input /\ IsFiniteSet(q.left)
      /\ Cardinality(q.left) = Len(input) - (n - 1)
  BY DEF MergedSoFar
<1>4. q.left # {}
  BY <1>2, <1>3, FS_EmptySet
<1>5. i \in q.left /\ \A j \in q.left : Viewer!Before(input[i], input[j])
  BY <1>3, <1>4, FirstIsLeast
<1> HIDE DEF i
<1>6. IsFiniteSet(left) /\ Cardinality(left) = Len(input) - n
  <2>1. IsFiniteSet(left) /\ Cardinality(left) = Cardinality(q.left) - 1
    BY <1>3, <1>5, FS_RemoveElement
  <2> QED
    BY <1>2, <1>3, <2>1
<1>7. input[i] \in Viewer!Range /\ 1 <= input[i].start /\ input[i].start <= input[i].end
  BY <1>3, <1>5 DEF Sound
<1>8. \A k \in 1 .. Len(q.merged) : q.merged[k].start <= input[i].start
  BY <1>5 DEF MergedSoFar
<1>9. /\ Spread(new)
      /\ \A k \in 1 .. Len(new) : new[k].start <= input[i].start
      /\ PagesOf(new, 1 .. Len(new)) =
           PagesOf(q.merged, 1 .. Len(q.merged)) \union (input[i].start .. input[i].end)
  <2>1. Spread(q.merged)
    BY DEF MergedSoFar
  <2> QED
    BY <1>7, <1>8, <2>1, OneMerged
<1> HIDE DEF new
<1>10. \A k \in 1 .. Len(new) : \A j \in left : new[k].start <= input[j].start
  <2> SUFFICES ASSUME NEW k \in 1 .. Len(new), NEW j \in left
               PROVE  new[k].start <= input[j].start
    OBVIOUS
  <2>1. input[j] \in Viewer!Range
    BY <1>3 DEF Sound
  <2>2. input[i].start <= input[j].start
    BY <1>5, <1>7, <2>1 DEF Viewer!Before, Viewer!Range
  <2>3. new[k] \in Viewer!Range /\ new[k].start <= input[i].start
    BY <1>9 DEF Spread
  <2> QED
    BY <1>7, <2>1, <2>2, <2>3 DEF Viewer!Range
<1>11. PagesOf(new, 1 .. Len(new)) = PagesOf(input, DOMAIN input \ left)
  <2>1. DOMAIN input \ left = (DOMAIN input \ q.left) \union {i}
    BY <1>3, <1>5
  <2>2. PagesOf(input, DOMAIN input \ left) =
          PagesOf(input, DOMAIN input \ q.left) \union (input[i].start .. input[i].end)
    BY <2>1 DEF PagesOf
  <2> QED
    BY <1>9, <2>2 DEF MergedSoFar
<1> QED
  <2> DEFINE r == [left |-> left, merged |-> new]
  <2>1. r.left = left /\ r.merged = new
    OBVIOUS
  <2>2. left \in SUBSET DOMAIN input
    BY <1>3
  <2> HIDE DEF r, left
  <2>3. MergedSoFar(input, r, n)
    BY <1>6, <1>9, <1>10, <1>11, <2>1, <2>2 DEF MergedSoFar
  <2> QED
    BY <1>1, <2>3 DEF r

(* The merge of a validated submission stands for the pages that it names. *)
LEMMA NormalizedRanges ==
  ASSUME NEW input, Sound(input)
  PROVE  /\ Spread(Viewer!NormalizePageRanges(input))
         /\ PagesOf(Viewer!NormalizePageRanges(input),
                    1 .. Len(Viewer!NormalizePageRanges(input))) = Viewer!Named(input)
<1> DEFINE merging == Viewer!Merging(input)
           Kept == {n \in 0 .. Len(input) : MergedSoFar(input, merging[n], n)}
<1>1. input \in Seq(Viewer!Range) /\ Len(input) \in Nat /\ DOMAIN input = 1 .. Len(input)
  BY DEF Sound
<1>2. /\ merging[0] = [left |-> DOMAIN input, merged |-> <<>>]
      /\ \A n \in 1 .. Len(input) : merging[n] = Viewer!MergeFirst(input, merging[n - 1])
  BY <1>1, MergingTurns
<1> HIDE DEF merging
<1>3. MergedSoFar(input, merging[0], 0)
  <2> DEFINE q == merging[0]
  <2>1. q.left = 1 .. Len(input) /\ q.merged = <<>>
    BY <1>1, <1>2
  <2> HIDE DEF q
  <2>2. IsFiniteSet(q.left) /\ Cardinality(q.left) = Len(input) - 0
    BY <1>1, <2>1, FS_Interval
  <2>3. Spread(q.merged)
    BY <2>1 DEF Spread
  <2>4. \A i \in 1 .. Len(q.merged) : \A j \in q.left : q.merged[i].start <= input[j].start
    BY <2>1
  <2>5. PagesOf(q.merged, 1 .. Len(q.merged)) = PagesOf(input, DOMAIN input \ q.left)
    BY <1>1, <2>1 DEF PagesOf
  <2>6. MergedSoFar(input, q, 0)
    BY <1>1, <2>1, <2>2, <2>3, <2>4, <2>5 DEF MergedSoFar
  <2> QED
    BY <2>6 DEF q
<1>4. \A n \in 1 .. Len(input) : n - 1 \in Kept => n \in Kept
  <2> SUFFICES ASSUME NEW n \in 1 .. Len(input), n - 1 \in Kept PROVE n \in Kept
    OBVIOUS
  <2>1. MergedSoFar(input, Viewer!MergeFirst(input, merging[n - 1]), n)
    BY MergeTurn
  <2> QED
    BY <1>1, <1>2, <2>1
<1>5. MergedSoFar(input, merging[Len(input)], Len(input))
  <2>1. 0 \in Kept
    BY <1>1, <1>3
  <2>2. Len(input) \in 0 .. Len(input)
    BY <1>1
  <2> HIDE DEF Kept
  <2>3. Len(input) \in Kept
    BY <1>1, <1>4, <2>1, <2>2, KeptByTurns
  <2> QED
    BY <2>3 DEF Kept
<1> DEFINE q == merging[Len(input)]
<1>6. q.merged = Viewer!NormalizePageRanges(input)
  BY DEF merging, Viewer!NormalizePageRanges
<1> HIDE DEF q
<1>7. MergedSoFar(input, q, Len(input))
  BY <1>5 DEF q
<1>8. q.left = {}
  <2>1. IsFiniteSet(q.left) /\ Cardinality(q.left) = 0
    BY <1>1, <1>7 DEF MergedSoFar
  <2> QED
    BY <2>1, FS_EmptySet
<1>9. PagesOf(input, DOMAIN input \ q.left) = Viewer!Named(input)
  BY <1>8 DEF PagesOf, Viewer!Named
<1> QED
  BY <1>6, <1>7, <1>9 DEF MergedSoFar

(* And so is the numbering of the pages. *)
LEMMA ExpandingUpTo ==
  ASSUME NEW rows, NEW length \in Nat
  PROVE  \E expanding : expanding = [n \in 0 .. length |->
           IF n = 0 THEN [left |-> rows, pages |-> <<>>]
           ELSE Viewer!ExpandFirst(expanding[n - 1])]
<1> DEFINE Start == [left |-> rows, pages |-> <<>>]
           Next1(q) == Viewer!ExpandFirst(q)
           Goes(f, m) == f = [n \in 0 .. m |-> IF n = 0 THEN Start ELSE Next1(f[n - 1])]
           Stuck == {m \in Nat : ~ \E f : Goes(f, m)}
<1> HIDE DEF Start, Next1
<1>1. Stuck = {}
  <2> SUFFICES ASSUME Stuck # {} PROVE FALSE
    OBVIOUS
  <2>1. PICK m \in Stuck : \A l \in Stuck : m <= l
    BY LeastNatural
  <2>2. m # 0
    <3>1. Goes([n \in 0 .. 0 |-> Start], 0)
      OBVIOUS
    <3> QED
      BY <3>1
  <2>3. m - 1 \in Nat /\ m - 1 \notin Stuck
    <3>1. m \in Nat
      BY <2>1
    <3> HIDE DEF Stuck
    <3>2. m - 1 \in Nat /\ ~ (m <= m - 1)
      BY <2>2, <3>1
    <3> QED
      BY <2>1, <3>2
  <2>4. PICK f : Goes(f, m - 1)
    BY <2>3
  <2> DEFINE g == [n \in 0 .. m |-> IF n = m THEN Next1(f[m - 1]) ELSE f[n]]
  <2>5. \A n \in 0 .. m : g[n] = IF n = 0 THEN Start ELSE Next1(g[n - 1])
    <3> SUFFICES ASSUME NEW n \in 0 .. m
                 PROVE  g[n] = IF n = 0 THEN Start ELSE Next1(g[n - 1])
      OBVIOUS
    <3>1. m \in Nat /\ m > 0
      BY <2>2
    <3>2. CASE n = m
      <4>1. n - 1 \in 0 .. m /\ n - 1 # m /\ n # 0
        BY <3>1, <3>2
      <4> QED
        BY <3>2, <4>1
    <3>3. CASE n # m
      <4>1. n \in 0 .. m - 1 /\ (n # 0 => n - 1 \in 0 .. m /\ n - 1 # m)
        BY <3>1, <3>3
      <4>2. f[n] = IF n = 0 THEN Start ELSE Next1(f[n - 1])
        BY <2>4, <4>1
      <4> QED
        BY <3>3, <4>1, <4>2
    <3> QED
      BY <3>2, <3>3
  <2>6. g = [n \in 0 .. m |-> IF n = 0 THEN Start ELSE Next1(g[n - 1])]
    <3> HIDE DEF g
    <3>1. g = [n \in 0 .. m |-> g[n]]
      BY DEF g
    <3> QED
      BY <2>5, <3>1
  <2>7. Goes(g, m)
    BY <2>6
  <2> QED
    BY <2>7
<1>2. \E f : Goes(f, length)
  BY <1>1
<1> QED
  BY <1>2 DEF Start, Next1

LEMMA ExpandingTurns ==
  ASSUME NEW rows, Cardinality(rows) \in Nat
  PROVE  /\ Viewer!Expanding(rows)[0] = [left |-> rows, pages |-> <<>>]
         /\ \A n \in 1 .. Cardinality(rows) :
              Viewer!Expanding(rows)[n] = Viewer!ExpandFirst(Viewer!Expanding(rows)[n - 1])
<1> DEFINE Defines(f) == f = [n \in 0 .. Cardinality(rows) |->
             IF n = 0 THEN [left |-> rows, pages |-> <<>>]
             ELSE Viewer!ExpandFirst(f[n - 1])]
           expanding == Viewer!Expanding(rows)
<1>1. \E f : Defines(f)
  BY ExpandingUpTo
<1>2. expanding = CHOOSE f : Defines(f)
  BY SameCardinality DEF Viewer!Expanding
<1>3. Defines(expanding)
  BY <1>1, <1>2
<1> HIDE DEF expanding
<1>4. expanding[0] = [left |-> rows, pages |-> <<>>]
  BY <1>3
<1>5. \A n \in 1 .. Cardinality(rows) : expanding[n] = Viewer!ExpandFirst(expanding[n - 1])
  BY <1>3
<1> QED
  BY <1>4, <1>5 DEF expanding

(* The row of a range. *)
RowAt(list, save, i) ==
  [start |-> list[i].start, end |-> list[i].end, position |-> i, save |-> save]

(* The pages of the first n ranges, in ascending order, after n turns. *)
ExpandedSoFar(list, save, q, n) ==
  /\ q.left = {RowAt(list, save, i) : i \in n + 1 .. Len(list)}
  /\ q.pages \in Seq(Int)
  /\ Held(q.pages) = PagesOf(list, 1 .. n)
  /\ \A k \in 2 .. Len(q.pages) : q.pages[k - 1] < q.pages[k]

LEMMA ExpandTurn ==
  ASSUME NEW list, Spread(list), NEW save, NEW n \in 1 .. Len(list),
         NEW q, ExpandedSoFar(list, save, q, n - 1)
  PROVE  ExpandedSoFar(list, save, Viewer!ExpandFirst(q), n)
<1> DEFINE row == Viewer!FirstRow(q.left)
<1>1. /\ list \in Seq(Viewer!Range) /\ Len(list) \in Nat /\ n \in 1 .. Len(list)
      /\ n - 1 + 1 = n
  BY DEF Spread
<1>2. q.left = {RowAt(list, save, i) : i \in n .. Len(list)}
  BY <1>1 DEF ExpandedSoFar
<1>3. \A i \in n .. Len(list) : RowAt(list, save, i).position = i
  BY DEF RowAt
<1>4. row = RowAt(list, save, n)
  <2>1. \A other \in q.left : \E i \in n .. Len(list) : other = RowAt(list, save, i)
    BY <1>2
  <2>2. RowAt(list, save, n) \in q.left
    BY <1>1, <1>2
  <2>3. \A other \in q.left : RowAt(list, save, n).position <= other.position
    BY <1>1, <1>3, <2>1
  <2>4. row \in q.left /\ \A other \in q.left : row.position <= other.position
    BY <2>2, <2>3 DEF Viewer!FirstRow
  <2> HIDE DEF row
  <2>5. PICK i \in n .. Len(list) : row = RowAt(list, save, i)
    BY <2>1, <2>4
  <2>6. i <= n
    BY <1>1, <1>3, <2>2, <2>4, <2>5
  <2> QED
    BY <1>1, <2>5, <2>6
<1> DEFINE left == q.left \ {row}
           first == Viewer!Pages(row)
           pages == q.pages \o first
<1>5. Viewer!ExpandFirst(q) = [left |-> left, pages |-> pages]
  BY DEF Viewer!ExpandFirst
<1> HIDE DEF row
<1>6. left = {RowAt(list, save, i) : i \in n + 1 .. Len(list)}
  <2>1. \A i \in n .. Len(list) : RowAt(list, save, i) = row <=> i = n
    BY <1>1, <1>3, <1>4
  <2>2. n + 1 .. Len(list) = (n .. Len(list)) \ {n}
    BY <1>1
  <2> QED
    BY <1>2, <2>1, <2>2
<1>7. /\ row.start = list[n].start /\ row.end = list[n].end
      /\ row.start \in Int /\ row.end \in Int /\ row.start <= row.end
  <2>1. list[n] \in Viewer!Range /\ list[n].start <= list[n].end
    BY <1>1 DEF Spread
  <2> QED
    BY <1>4, <2>1 DEF RowAt, Viewer!Range
<1>8. /\ first \in Seq(Int) /\ Len(first) = row.end + 1 - row.start
      /\ \A k \in 1 .. Len(first) : first[k] = row.start + k - 1
  <2>1. row.end + 1 - row.start \in Nat
    BY <1>7
  <2> DEFINE m == row.end + 1 - row.start
  <2>2. first = [k \in 1 .. m |-> row.start + k - 1]
    BY DEF Viewer!Pages
  <2>3. first \in [1 .. m -> Int] /\ m \in Nat
    BY <1>7, <2>1, <2>2
  <2>4. first \in Seq(Int) /\ Len(first) = m
    <3> HIDE DEF first, m
    <3> QED
      BY <2>3
  <2> QED
    BY <2>2, <2>4
<1> HIDE DEF first
<1>9. Held(first) = list[n].start .. list[n].end
  <2>1. ASSUME NEW k \in 1 .. Len(first) PROVE first[k] \in row.start .. row.end
    BY <1>7, <1>8
  <2>2. ASSUME NEW page \in row.start .. row.end
        PROVE  \E k \in 1 .. Len(first) : first[k] = page
    <3>3. Len(first) = row.end + 1 - row.start
      BY <1>8
    <3>1. page + 1 - row.start \in 1 .. Len(first)
      BY <1>7, <3>3
    <3>2. first[page + 1 - row.start] = row.start + (page + 1 - row.start) - 1
      BY <1>8, <3>1
    <3> QED
      BY <1>7, <3>1, <3>2
  <2> QED
    BY <1>7, <2>1, <2>2 DEF Held
<1> DEFINE old == q.pages
<1>10. /\ old \in Seq(Int) /\ Held(old) = PagesOf(list, 1 .. n - 1)
       /\ \A k \in 2 .. Len(old) : old[k - 1] < old[k]
  BY DEF ExpandedSoFar
<1> HIDE DEF old
<1>11. /\ pages \in Seq(Int) /\ Len(pages) = Len(old) + Len(first)
       /\ \A k \in 1 .. Len(old) : pages[k] = old[k]
       /\ \A k \in 1 .. Len(first) : pages[Len(old) + k] = first[k]
       /\ Held(pages) = Held(old) \union Held(first)
  <2>1. pages = old \o first
    BY DEF old
  <2> HIDE DEF pages
  <2>2. old \in Seq(Int) /\ first \in Seq(Int)
    BY <1>8, <1>10
  <2>3. Joins(pages, old, first)
    BY <2>1, <2>2, Concatenation
  <2> QED
    BY <2>3 DEF Joins
<1> HIDE DEF pages
<1>15. Len(old) \in Nat /\ Len(first) \in Nat
  BY <1>8, <1>10
<1>12. Held(pages) = PagesOf(list, 1 .. n)
  <2>1. 1 .. n = (1 .. n - 1) \union {n}
    BY <1>1
  <2>2. PagesOf(list, 1 .. n) = PagesOf(list, 1 .. n - 1) \union (list[n].start .. list[n].end)
    BY <2>1 DEF PagesOf
  <2> QED
    BY <1>9, <1>10, <1>11, <2>2
<1>13. \A k \in 1 .. Len(old) : old[k] < row.start
  <2> SUFFICES ASSUME NEW k \in 1 .. Len(old) PROVE old[k] < row.start
    OBVIOUS
  <2>1. old[k] \in PagesOf(list, 1 .. n - 1)
    BY <1>10 DEF Held
  <2>2. PICK i \in 1 .. n - 1 : old[k] \in list[i].start .. list[i].end
    BY <2>1 DEF PagesOf
  <2>3. i \in 1 .. Len(list) /\ i < n
    BY <1>1
  <2>4. list[i].end < list[n].start /\ list[i] \in Viewer!Range
    BY <1>1, <2>3 DEF Spread
  <2>5. list[i].start \in Int /\ list[i].end \in Int
    BY <2>4 DEF Viewer!Range
  <2> QED
    BY <1>7, <2>2, <2>4, <2>5
<1>14. \A k \in 2 .. Len(pages) : pages[k - 1] < pages[k]
  <2> SUFFICES ASSUME NEW k \in 2 .. Len(pages) PROVE pages[k - 1] < pages[k]
    OBVIOUS
  <2> DEFINE m == Len(old)
  <2>1. CASE k <= m
    <3>1. k - 1 \in 1 .. m /\ k \in 1 .. m /\ k \in 2 .. m
      BY <1>15, <2>1
    <3> QED
      BY <1>10, <1>11, <3>1
  <2>2. CASE k = m + 1
    <3>1. k - 1 \in 1 .. m /\ 1 \in 1 .. Len(first) /\ k = m + 1
      BY <1>11, <1>15, <2>2
    <3>2. pages[k] = row.start + 1 - 1
      BY <1>8, <1>11, <3>1
    <3>3. pages[k - 1] = old[k - 1] /\ old[k - 1] < row.start
      BY <1>11, <1>13, <3>1
    <3>4. row.start + 1 - 1 = row.start
      BY <1>7
    <3> QED
      BY <3>2, <3>3, <3>4
  <2>3. CASE k > m + 1
    <3>1. k - m \in 1 .. Len(first) /\ k - 1 - m \in 1 .. Len(first)
      BY <1>11, <1>15, <2>3
    <3>2. k = m + (k - m) /\ k - 1 = m + (k - 1 - m)
      BY <1>15
    <3>3. pages[k] = first[k - m] /\ pages[k - 1] = first[k - 1 - m]
      BY <1>11, <3>1, <3>2
    <3>4. first[k - m] = row.start + (k - m) - 1 /\ first[k - 1 - m] = row.start + (k - 1 - m) - 1
      BY <1>8, <3>1
    <3>5. row.start + (k - 1 - m) - 1 < row.start + (k - m) - 1
      BY <1>7, <1>15
    <3> QED
      BY <3>3, <3>4, <3>5
  <2>4. k <= m \/ k = m + 1 \/ k > m + 1
    BY <1>15
  <2> QED
    BY <2>1, <2>2, <2>3, <2>4
<1> QED
  <2> DEFINE r == [left |-> left, pages |-> pages]
  <2>1. r.left = left /\ r.pages = pages
    OBVIOUS
  <2> HIDE DEF r, left
  <2>2. ExpandedSoFar(list, save, r, n)
    BY <1>6, <1>11, <1>12, <1>14, <2>1 DEF ExpandedSoFar, left
  <2> QED
    BY <1>5, <2>2 DEF r

(* The viewer numbers the pages of a normalised submission in ascending order. *)
LEMMA ExpandedPages ==
  ASSUME NEW list, Spread(list), NEW save
  PROVE  LET shown == Viewer!ExpandPageRanges(Viewer!Rows(list, save))
         IN  /\ shown \in Seq(Int)
             /\ Held(shown) = PagesOf(list, 1 .. Len(list))
             /\ \A k \in 2 .. Len(shown) : shown[k - 1] < shown[k]
<1> DEFINE rows == Viewer!Rows(list, save)
           expanding == Viewer!Expanding(rows)
           Kept == {n \in 0 .. Len(list) : ExpandedSoFar(list, save, expanding[n], n)}
<1>1. list \in Seq(Viewer!Range) /\ Len(list) \in Nat /\ DOMAIN list = 1 .. Len(list)
  BY DEF Spread
<1>2. rows = {RowAt(list, save, i) : i \in 1 .. Len(list)}
  BY <1>1 DEF Viewer!Rows, RowAt
<1>3. Cardinality(rows) = Len(list)
  <2> DEFINE f == [i \in 1 .. Len(list) |-> RowAt(list, save, i)]
  <2>1. \A i, j \in 1 .. Len(list) : f[i] = f[j] => i = j
    <3>1. \A i \in 1 .. Len(list) : f[i].position = i
      BY DEF RowAt
    <3> QED
      BY <3>1
  <2>2. f \in [1 .. Len(list) -> rows]
    BY <1>2
  <2>3. \A row \in rows : \E i \in 1 .. Len(list) : f[i] = row
    BY <1>2
  <2> HIDE DEF f, rows
  <2>4. f \in Bijection(1 .. Len(list), rows)
    BY <2>1, <2>2, <2>3 DEF Bijection, Injection, Surjection, IsInjective
  <2>5. ExistsBijection(1 .. Len(list), rows)
    BY <2>4 DEF ExistsBijection
  <2>6. IsFiniteSet(1 .. Len(list)) /\ Cardinality(1 .. Len(list)) = Len(list)
    BY <1>1, FS_Interval
  <2> QED
    BY <2>5, <2>6, FS_Bijection
<1> HIDE DEF rows
<1>4. /\ expanding[0] = [left |-> rows, pages |-> <<>>]
      /\ \A n \in 1 .. Len(list) : expanding[n] = Viewer!ExpandFirst(expanding[n - 1])
  BY <1>1, <1>3, ExpandingTurns
<1> HIDE DEF expanding
<1>5. ExpandedSoFar(list, save, expanding[0], 0)
  <2> DEFINE q == expanding[0]
  <2>1. q.left = rows /\ q.pages = <<>>
    BY <1>4
  <2> HIDE DEF q
  <2>2. Held(q.pages) = PagesOf(list, 1 .. 0)
    BY <2>1 DEF PagesOf, Held
  <2>3. ExpandedSoFar(list, save, q, 0)
    BY <1>2, <2>1, <2>2 DEF ExpandedSoFar
  <2> QED
    BY <2>3 DEF q
<1>6. \A n \in 1 .. Len(list) : n - 1 \in Kept => n \in Kept
  <2> SUFFICES ASSUME NEW n \in 1 .. Len(list), n - 1 \in Kept PROVE n \in Kept
    OBVIOUS
  <2>1. ExpandedSoFar(list, save, Viewer!ExpandFirst(expanding[n - 1]), n)
    BY ExpandTurn
  <2> QED
    BY <1>1, <1>4, <2>1
<1>7. Len(list) \in Kept
  <2>1. 0 \in Kept /\ Len(list) \in 0 .. Len(list)
    BY <1>1, <1>5
  <2> HIDE DEF Kept
  <2> QED
    BY <1>1, <1>6, <2>1, KeptByTurns
<1>8. ExpandedSoFar(list, save, expanding[Len(list)], Len(list))
  BY <1>7
<1>9. expanding[Len(list)].pages = Viewer!ExpandPageRanges(rows)
  BY <1>3, SameCardinality DEF Viewer!ExpandPageRanges, expanding
<1> QED
  BY <1>8, <1>9 DEF ExpandedSoFar, rows

(* The rows and the requests, as far as the argument needs their types.            *)
RangeRow == [start : Int, end : Int, position : Int, save : 1 .. MaxSaves]

Pending ==
  [save : 1 .. MaxSaves, rows : SUBSET RangeRow, named : SUBSET Int, deleted : SUBSET RangeRow,
   after : SUBSET (1 .. MaxSaves)]

RangesTyped ==
  /\ counted \in {Nothing, PdfPages}
  /\ ranges \in SUBSET RangeRow
  /\ saving \in [Editors -> Pending \union {Nothing}]
  /\ saves \in 0 .. MaxSaves
  /\ submitted \in SUBSET Int
  /\ mixed \in BOOLEAN

(* The rows are those of one submission, and it names these pages. *)
OfSubmission(rows, named) ==
  \/ rows = {} /\ named = {}
  \/ \E input \in Submissions, save \in 1 .. MaxSaves :
       /\ Sound(input)
       /\ rows = Viewer!Rows(Viewer!NormalizePageRanges(input), save)
       /\ named = Viewer!Named(input)

(* Every save waits to store one submission; what is stored is one submission, unless *)
(* a save left the rows of another.                                              *)
RangesInv ==
  /\ RangesTyped
  /\ \A e \in Editors :
       saving[e] # Nothing => OfSubmission(saving[e].rows, saving[e].named)
  /\ ~ mixed => OfSubmission(ranges, submitted)

LEMMA SubmittedPages ==
  ASSUME NEW rows, NEW named, OfSubmission(rows, named)
  PROVE  LET shown == Viewer!ExpandPageRanges(rows)
         IN  /\ shown \in Seq(Int) /\ Held(shown) = named
             /\ named \in SUBSET (1 .. PdfPages)
             /\ \A k \in 2 .. Len(shown) : shown[k - 1] < shown[k]
<1>1. CASE rows = {} /\ named = {}
  <2> DEFINE shown == Viewer!ExpandPageRanges({})
  <2>1. Viewer!Rows(<<>>, 0) = {}
    BY DEF Viewer!Rows
  <2>2. Spread(<<>>) /\ PagesOf(<<>>, 1 .. Len(<<>>)) = {}
    BY DEF Spread, PagesOf
  <2>3. /\ shown \in Seq(Int) /\ Held(shown) = {}
        /\ \A k \in 2 .. Len(shown) : shown[k - 1] < shown[k]
    BY <2>1, <2>2, ExpandedPages
  <2> QED
    BY <1>1, <2>3
<1>2. CASE ~ (rows = {} /\ named = {})
  <2>1. PICK input \in Submissions, save \in 1 .. MaxSaves :
          /\ Sound(input)
          /\ rows = Viewer!Rows(Viewer!NormalizePageRanges(input), save)
          /\ named = Viewer!Named(input)
    BY <1>2 DEF OfSubmission
  <2> DEFINE list == Viewer!NormalizePageRanges(input)
             shown == Viewer!ExpandPageRanges(rows)
  <2>2. Spread(list) /\ PagesOf(list, 1 .. Len(list)) = named
    BY <2>1, NormalizedRanges
  <2>3. rows = Viewer!Rows(list, save)
    BY <2>1
  <2> HIDE DEF list
  <2>4. /\ shown \in Seq(Int) /\ Held(shown) = named
        /\ \A k \in 2 .. Len(shown) : shown[k - 1] < shown[k]
    BY <2>2, <2>3, ExpandedPages
  <2>5. named \in SUBSET (1 .. PdfPages)
    <3> SUFFICES ASSUME NEW page \in named PROVE page \in 1 .. PdfPages
      OBVIOUS
    <3>1. PICK i \in DOMAIN input : page \in input[i].start .. input[i].end
      BY <2>1 DEF Viewer!Named
    <3>2. /\ input[i] \in Viewer!Range /\ 1 <= input[i].start /\ input[i].end <= PdfPages
      BY <2>1 DEF Sound
    <3>3. input[i].start \in Int /\ input[i].end \in Int /\ PdfPages \in Int
      BY <3>2, SubmittedRanges DEF Viewer!Range, Viewer!SubmissionAssumption
    <3> QED
      BY <3>1, <3>2, <3>3
  <2> QED
    BY <2>4, <2>5
<1> QED
  BY <1>1, <1>2

LEMMA RangesShown == RangesInv => ViewerShowsSubmission
<1> DEFINE shown == Viewer!ExpandPageRanges(ranges)
<1> SUFFICES ASSUME RangesInv, ~ mixed
             PROVE  /\ {Viewer!ViewablePage(n) : n \in DOMAIN shown} = submitted
                    /\ submitted \subseteq 1 .. PdfPages
                    /\ \A n \in 2 .. Len(shown) : Viewer!ViewablePage(n - 1) < Viewer!ViewablePage(n)
  BY DEF ViewerShowsSubmission, Viewer!ViewerShowsSubmission
<1>1. /\ shown \in Seq(Int) /\ Held(shown) = submitted
      /\ submitted \in SUBSET (1 .. PdfPages)
      /\ \A k \in 2 .. Len(shown) : shown[k - 1] < shown[k]
  BY SubmittedPages DEF RangesInv
<1>2. \A n : Viewer!ViewablePage(n) = shown[n]
  BY DEF Viewer!ViewablePage
<1> HIDE DEF shown
<1>3. DOMAIN shown = 1 .. Len(shown)
  BY <1>1
<1> QED
  BY <1>1, <1>2, <1>3 DEF Held

LEMMA RangesInit == Viewer!Init => RangesInv
<1> SUFFICES ASSUME Viewer!Init PROVE RangesInv
  OBVIOUS
<1>1. RangesTyped
  <2>1. saving \in [Editors -> Pending \union {Nothing}]
    BY DEF Viewer!Init
  <2>2. saves \in 0 .. MaxSaves
    BY SubmittedRanges DEF Viewer!Init, Viewer!SubmissionAssumption
  <2> QED
    BY <2>1, <2>2 DEF Viewer!Init, RangesTyped
<1>2. \A e \in Editors : saving[e] = Nothing
  BY DEF Viewer!Init
<1>3. OfSubmission(ranges, submitted)
  BY DEF Viewer!Init, OfSubmission
<1> QED
  BY <1>1, <1>2, <1>3 DEF RangesInv

(* What was validated is sound. *)
LEMMA ValidatedSound ==
  ASSUME RangesTyped, counted # Nothing, NEW input \in Submissions,
         Viewer!ValidPageRanges(input)
  PROVE  Sound(input)
<1>1. counted = PdfPages /\ input \in Seq(Viewer!Range)
  BY SubmittedRanges DEF RangesTyped, Viewer!SubmissionAssumption
<1> QED
  BY <1>1 DEF Sound, Viewer!ValidPageRanges, Viewer!OnPdf

LEMMA InspectKeeps == RangesInv /\ Viewer!Inspect => RangesInv'
<1> SUFFICES ASSUME RangesInv, Viewer!Inspect PROVE RangesInv'
  OBVIOUS
<1>1. RangesTyped'
  BY DEF RangesInv, RangesTyped, Viewer!Inspect
<1> QED
  BY <1>1 DEF RangesInv, Viewer!Inspect, OfSubmission

LEMMA SaveKeeps ==
  ASSUME RangesInv, NEW e \in Editors, NEW input \in Submissions,
         Viewer!SavePageRanges(e, input)
  PROVE  RangesInv'
<1> DEFINE list == Viewer!NormalizePageRanges(input)
           rows == Viewer!Rows(list, saves + 1)
           named == Viewer!Named(input)
           after == Viewer!Holders(ranges)
           q == [save |-> saves + 1, rows |-> rows, named |-> named,
                 deleted |-> ranges, after |-> after]
<1>1. RangesTyped
  BY DEF RangesInv
<1>2. /\ saving' = [saving EXCEPT ![e] = q] /\ saves' = saves + 1 /\ saves < MaxSaves
      /\ counted # Nothing /\ Viewer!ValidPageRanges(input)
      /\ UNCHANGED <<counted, ranges, submitted, mixed>>
  BY DEF Viewer!SavePageRanges
<1>3. Sound(input)
  BY <1>1, <1>2, ValidatedSound
<1>4. MaxSaves \in Nat /\ saves + 1 \in 1 .. MaxSaves
  BY <1>1, <1>2, SubmittedRanges DEF RangesTyped, Viewer!SubmissionAssumption
<1>5. rows \in SUBSET RangeRow
  <2>1. list \in Seq(Viewer!Range)
    BY <1>3, NormalizedRanges DEF Spread
  <2> HIDE DEF list
  <2>2. \A i \in DOMAIN list : list[i].start \in Int /\ list[i].end \in Int /\ i \in Int
    <3>1. \A i \in DOMAIN list : list[i] \in Viewer!Range /\ i \in Int
      BY <2>1
    <3> QED
      BY <3>1 DEF Viewer!Range
  <2> QED
    BY <1>4, <2>2 DEF Viewer!Rows, RangeRow
<1>6. named \in SUBSET Int
  BY DEF Viewer!Named
<1>7. after \in SUBSET (1 .. MaxSaves)
  <2>1. \A o \in Editors : saving[o] # Nothing => saving[o].save \in 1 .. MaxSaves
    BY <1>1 DEF RangesTyped, Pending
  <2> QED
    BY <2>1 DEF Viewer!Holders
<1>8. OfSubmission(rows, named)
  BY <1>3, <1>4 DEF OfSubmission
<1> HIDE DEF rows, named, after
<1>9. q \in Pending /\ q.rows = rows /\ q.named = named
  BY <1>1, <1>4, <1>5, <1>6, <1>7 DEF Pending, RangesTyped
<1> HIDE DEF q
<1>10. RangesTyped'
  <2>1. saving' \in [Editors -> Pending \union {Nothing}]
    BY <1>1, <1>2, <1>9 DEF RangesTyped
  <2>2. saves' \in 0 .. MaxSaves
    BY <1>2, <1>4
  <2> QED
    BY <1>1, <1>2, <2>1, <2>2 DEF RangesTyped
<1>11. \A o \in Editors :
         saving'[o] # Nothing => OfSubmission(saving'[o].rows, saving'[o].named)
  <2> SUFFICES ASSUME NEW o \in Editors, saving'[o] # Nothing
               PROVE  OfSubmission(saving'[o].rows, saving'[o].named)
    OBVIOUS
  <2>1. saving' [o] = IF o = e THEN q ELSE saving[o]
    BY <1>1, <1>2 DEF RangesTyped
  <2>2. CASE o = e
    BY <1>8, <1>9, <2>1, <2>2
  <2>3. CASE o # e
    BY <2>1, <2>3 DEF RangesInv
  <2> QED
    BY <2>2, <2>3
<1>12. ~ mixed' => OfSubmission(ranges', submitted')
  BY <1>2 DEF RangesInv
<1> QED
  BY <1>10, <1>11, <1>12 DEF RangesInv, OfSubmission

LEMMA ReplaceKeeps ==
  ASSUME RangesInv, NEW e \in Editors, Viewer!ReplacePageRanges(e)
  PROVE  RangesInv'
<1> DEFINE q == saving[e]
<1>1. RangesTyped /\ OfSubmission(q.rows, q.named) /\ q # Nothing
  BY DEF RangesInv, Viewer!ReplacePageRanges
<1>2. /\ ranges' = (ranges \ q.deleted) \union q.rows
      /\ mixed' = (ranges \ q.deleted # {}) /\ submitted' = q.named
      /\ saving' = [saving EXCEPT ![e] = Nothing] /\ UNCHANGED <<counted, saves>>
  BY DEF Viewer!ReplacePageRanges
<1>3. q.rows \in SUBSET RangeRow /\ q.named \in SUBSET Int
  BY <1>1 DEF RangesTyped, Pending
<1>4. \A o \in Editors : saving'[o] = IF o = e THEN Nothing ELSE saving[o]
  BY <1>1, <1>2 DEF RangesTyped
<1> HIDE DEF q
<1>5. RangesTyped'
  <2>1. ranges' \in SUBSET RangeRow /\ submitted' \in SUBSET Int
    BY <1>1, <1>2, <1>3 DEF RangesTyped
  <2>2. saving' \in [Editors -> Pending \union {Nothing}]
    BY <1>1, <1>2 DEF RangesTyped
  <2>3. mixed' \in BOOLEAN
    BY <1>2
  <2> QED
    BY <1>1, <1>2, <2>1, <2>2, <2>3 DEF RangesTyped
<1>6. \A o \in Editors :
        saving'[o] # Nothing => OfSubmission(saving'[o].rows, saving'[o].named)
  <2> SUFFICES ASSUME NEW o \in Editors, saving'[o] # Nothing
               PROVE  OfSubmission(saving'[o].rows, saving'[o].named)
    OBVIOUS
  <2>1. saving'[o] = saving[o]
    BY <1>4
  <2> QED
    BY <2>1 DEF RangesInv
<1>7. ~ mixed' => OfSubmission(ranges', submitted')
  <2> SUFFICES ASSUME ~ mixed' PROVE OfSubmission(ranges', submitted')
    OBVIOUS
  <2>1. ranges' = q.rows
    BY <1>2
  <2> QED
    BY <1>1, <1>2, <2>1
<1> QED
  BY <1>5, <1>6, <1>7 DEF RangesInv, OfSubmission

LEMMA RangesStep == RangesInv /\ [Viewer!Next]_(Viewer!vars) => RangesInv'
<1> SUFFICES ASSUME RangesInv, [Viewer!Next]_(Viewer!vars) PROVE RangesInv'
  OBVIOUS
<1>1. CASE Viewer!Inspect
  BY <1>1, InspectKeeps
<1>2. CASE \E e \in Editors, input \in Submissions : Viewer!SavePageRanges(e, input)
  BY <1>2, SaveKeeps
<1>3. CASE \E e \in Editors : Viewer!ReplacePageRanges(e)
  BY <1>3, ReplaceKeeps
<1>4. CASE UNCHANGED Viewer!vars
  BY <1>4 DEF RangesInv, RangesTyped, OfSubmission, Viewer!vars
<1> QED
  BY <1>1, <1>2, <1>3, <1>4 DEF Viewer!Next

(* The two halves of a dictionary's pages run side by side: a behaviour of both is a    *)
(* behaviour of each.                                                            *)
THEOREM PagesSideBySide == DictionaryPages => Spec /\ Viewer!Spec
<1>1. PagesInit => Init /\ Viewer!Init
  BY DEF PagesInit
<1>2. [LexemeStep \/ ViewerStep]_<<vars, viewer>> => [Next]_vars /\ [Viewer!Next]_(Viewer!vars)
  BY DEF LexemeStep, ViewerStep, vars, viewer, Viewer!vars
<1> QED
  BY <1>1, <1>2, PTL DEF DictionaryPages, Spec, Viewer!Spec

(* Whatever two editors submit and however the ranges overlap, the viewer shows each     *)
(* page of the newest submission once and in ascending order (normalize_page_ranges and *)
(* expand_page_ranges), unless a save did not see the rows of another.                   *)
THEOREM ViewerShowsPages == DictionaryPages => []ViewerShowsSubmission
<1>1. Viewer!Init => RangesInv
  BY RangesInit
<1>2. RangesInv /\ [Viewer!Next]_(Viewer!vars) => RangesInv'
  BY RangesStep
<1>3. RangesInv => ViewerShowsSubmission
  BY RangesShown
<1> QED
  BY <1>1, <1>2, <1>3, PagesSideBySide, PTL DEF Viewer!Spec
================================================================================
