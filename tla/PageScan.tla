-------------------------------- MODULE PageScan --------------------------------
(***************************************************************************)
(* The boxes of lexemes on the pages of one dictionary: CreateLexemeService, *)
(* UpdateLexemeService and DeleteLexemeService in the API, the Celery task   *)
(* scan_dictionary_pages that fills the pages nobody worked on, and a second *)
(* page split that replaces the pages under them.                            *)
(*                                                                           *)
(* Every use case reads in one step and commits in another, others between.  *)
(* The scan reads its pages, and which of them have lexemes, once; after     *)
(* that each page is recognized, loaded and committed on its own, an hour    *)
(* later perhaps.  The status of a lexeme is EntryReview's: that a complete  *)
(* one is not edited is here an edit that is not taken.                      *)
(***************************************************************************)
EXTENDS Integers, Sequences

CONSTANTS
  Editors,     \* slots for API requests being served
  Workers,     \* worker processes that scan
  Ids,         \* bound: the lexemes that can be created (fresh UUIDs)
  PageCount,   \* pages in the saved ranges
  MaxSplits,   \* bound: how often the PDF is split into pages
  Boxes,       \* the boxes editors submit
  Readings,    \* what the recognizer proposes for a page, in its order
  PageWidth,
  PageHeight

Box == [x : Int, y : Int, width : Int, height : Int]

ASSUME ScanAssumption ==
  /\ PageCount \in Nat \ {0}
  /\ MaxSplits \in Nat
  /\ Boxes \subseteq Box
  /\ Readings \subseteq Seq(Box)
  /\ PageWidth \in Nat
  /\ PageHeight \in Nat

VARIABLES
  split,    \* splits so far: the rows of dictionary_pages are those of the last
  lexeme,   \* page and box of each row of lexemes, or how it left
  trail,    \* the event types lexeme_events has of each lexeme
  editor,   \* what each request has loaded and goes on to do
  worker,   \* how far each scan has come
  moved,    \* history: lexemes whose box an editor changed
  raced,    \* history: lexemes that changed between the load and the commit of an edit
  excused,  \* history: pairs whose overlap was confirmed, or inserted at once
  touched   \* history: the pages of the last split that ever had a lexeme

tables == <<split, lexeme, trail>>
history == <<moved, raced, excused, touched>>
vars == <<tables, editor, worker, history>>

(* A page is named by its split and its number: a new split has new ids.    *)
Page == (0..MaxSplits) \X (1..PageCount)

Row == [state : {"unborn", "stored", "deleted", "replaced"}, page : Page,
        box : Box]

NoBox == [x |-> 0, y |-> 0, width |-> 1, height |-> 1]

Unborn == [state |-> "unborn", page |-> <<0, 1>>, box |-> NoBox]

Gone(how) == [state |-> how, page |-> <<0, 1>>, box |-> NoBox]

Idle == [at |-> "idle"]

(* "beside": the lexemes list_lexemes_for_page returned.                    *)
Creation == [at : {"create"}, id : Ids, page : Page, box : Boxes,
             confirm : BOOLEAN, beside : SUBSET Ids]

(* The box as loaded, and the box asked for.                                *)
Change == [at : {"update"}, id : Ids, was : Box, box : Boxes]

Removal == [at : {"delete"}, id : Ids]

(* The split whose pages were listed, the pages that had lexemes then, those *)
(* on which nothing was recognized; the boxes to insert on the next page,   *)
(* and the lexemes loaded with it.                                          *)
Scan == [at : {"listed", "scanning", "loaded"}, split : 0..MaxSplits,
         already : SUBSET (1..PageCount), blank : SUBSET (1..PageCount),
         next : 1..(PageCount + 1), admitted : SUBSET Box, beside : SUBSET Ids]

Init ==
  /\ split = 0
  /\ lexeme = [i \in Ids |-> Unborn]
  /\ trail = [i \in Ids |-> {}]
  /\ editor = [e \in Editors |-> Idle]
  /\ worker = [w \in Workers |-> Idle]
  /\ moved = {}
  /\ raced = {}
  /\ excused = {}
  /\ touched = {}

--------------------------------------------------------------------------------
(* The rules of lexicography/domain.py. *)

Least(m, n) == IF m <= n THEN m ELSE n

Greatest(m, n) == IF m <= n THEN n ELSE m

(* The length two intervals have in common; not positive when they are apart. *)
Common(a, b, c, d) == Least(a + b, c + d) - Greatest(a, c)

(* _overlap_ratio(...) >= DUPLICATE_OVERLAP_RATIO, without the division: the *)
(* common area is at least 60 per cent of the smaller box.                   *)
Overlaps(a, b) ==
  LET wide == Common(a.x, a.width, b.x, b.width)
      high == Common(a.y, a.height, b.y, b.height)
      smaller == Least(a.width * a.height, b.width * b.height)
  IN  wide > 0 /\ high > 0 /\ smaller > 0 /\ 10 * wide * high >= 6 * smaller

(* validate_lexeme_fields: a box with an area, on its page.                 *)
Valid(box) ==
  /\ box.width > 0 /\ box.height > 0
  /\ box.x >= 0 /\ box.y >= 0
  /\ box.x + box.width <= PageWidth
  /\ box.y + box.height <= PageHeight

Stored == {i \in Ids : lexeme[i].state = "stored"}

On(page) == {i \in Stored : lexeme[i].page = page}

(* find_overlapping_lexeme among the lexemes S *)
Covered(box, S) == \E j \in S : Overlaps(box, lexeme[j].box)

(* The history of lexemes that leave is not needed any more.                *)
Forget(S) ==
  /\ moved' = moved \ S
  /\ raced' = raced \ S
  /\ excused' = {pair \in excused : pair \intersect S = {}}

Claimed ==
  {i \in Ids : \E e \in Editors : editor[e].at = "create" /\ editor[e].id = i}

Fresh == {i \in Ids : lexeme[i].state = "unborn"} \ Claimed

--------------------------------------------------------------------------------
(* Editors. *)

BeginEdit(e, loaded) ==
  /\ editor[e] = Idle
  /\ editor' = [editor EXCEPT ![e] = loaded]

DoneEdit(e) == editor' = [editor EXCEPT ![e] = Idle]

(* The request is refused, raises, or dies with its process. *)
Abandon(e) ==
  /\ editor[e] # Idle
  /\ DoneEdit(e)
  /\ UNCHANGED <<tables, worker, history>>

(* DuplicateLexemeError unless the editor confirms the overlap, which makes *)
(* no difference where there is none.                                       *)
CreateLoad(e, i, n, box) ==
  /\ split > 0
  /\ Valid(box)
  /\ \E confirm \in {FALSE, Covered(box, On(<<split, n>>))} :
       /\ Covered(box, On(<<split, n>>)) => confirm
       /\ BeginEdit(e, [at |-> "create", id |-> i, page |-> <<split, n>>, box |-> box,
                        confirm |-> confirm, beside |-> On(<<split, n>>)])
  /\ UNCHANGED <<tables, worker, history>>

Inserted(page, box) == [state |-> "stored", page |-> page, box |-> box]

(* A lexeme is inserted beside those its transaction did not see.           *)
Pairs(new, page, seen) == {{i, j} : i \in new, j \in On(page) \ seen}

(* The foreign key keeps a lexeme out whose page was replaced.              *)
CreateCommit(e) ==
  LET q == editor[e] IN
  /\ q.at = "create"
  /\ q.page[1] = split
  /\ lexeme' = [lexeme EXCEPT ![q.id] = Inserted(q.page, q.box)]
  /\ excused' = excused \union Pairs({q.id}, q.page, IF q.confirm THEN {} ELSE q.beside)
  /\ touched' = touched \union {q.page[2]}
  /\ DoneEdit(e)
  /\ UNCHANGED <<split, trail, worker, moved, raced>>

(* A box is not compared with those of other lexemes.                       *)
UpdateLoad(e, i, box) ==
  /\ i \in Stored
  /\ Valid(box)
  /\ BeginEdit(e, [at |-> "update", id |-> i, was |-> lexeme[i].box, box |-> box])
  /\ UNCHANGED <<tables, worker, history>>

Column(was, new, stored) == IF new = was THEN stored ELSE new

(* The UPDATE writes the columns that differ from what was loaded.          *)
Mixed(was, new, stored) ==
  [x |-> Column(was.x, new.x, stored.x),
   y |-> Column(was.y, new.y, stored.y),
   width |-> Column(was.width, new.width, stored.width),
   height |-> Column(was.height, new.height, stored.height)]

Updated(q) ==
  /\ lexeme' = [lexeme EXCEPT ![q.id] =
       [state |-> lexeme[q.id].state, page |-> lexeme[q.id].page,
        box |-> Mixed(q.was, q.box, lexeme[q.id].box)]]
  /\ trail' = [trail EXCEPT ![q.id] = @ \union {"updated"}]
  /\ moved' = IF q.box = q.was THEN moved ELSE moved \union {q.id}
  /\ raced' = IF lexeme[q.id].box = q.was THEN raced ELSE raced \union {q.id}

UpdateGone(e) ==
  /\ editor[e].at = "update"
  /\ Updated(editor[e])
  /\ DoneEdit(e)
  /\ UNCHANGED <<split, worker, excused, touched>>

(* The UPDATE of a row that is gone fails, and its event with it.           *)
UpdateCommit(e) ==
  /\ editor[e].at = "update"
  /\ editor[e].id \in Stored
  /\ Updated(editor[e])
  /\ DoneEdit(e)
  /\ UNCHANGED <<split, worker, excused, touched>>

DeleteLoad(e, i) ==
  /\ i \in Stored
  /\ BeginEdit(e, [at |-> "delete", id |-> i])
  /\ UNCHANGED <<tables, worker, history>>

(* The DELETE of a row that is gone deletes nothing; its event is stored.   *)
DeleteCommit(e) ==
  LET i == editor[e].id IN
  /\ editor[e].at = "delete"
  /\ lexeme' = IF i \in Stored THEN [lexeme EXCEPT ![i] = Gone("deleted")] ELSE lexeme
  /\ trail' = [trail EXCEPT ![i] = @ \union {"deleted"}]
  /\ Forget({i})
  /\ DoneEdit(e)
  /\ UNCHANGED <<split, worker, touched>>

--------------------------------------------------------------------------------
(* scan_dictionary_pages *)

At(w, place, next, blank, admitted, beside) ==
  worker' = [worker EXCEPT ![w] =
    [at |-> place, split |-> worker[w].split, already |-> worker[w].already,
     blank |-> blank, next |-> next, admitted |-> admitted, beside |-> beside]]

(* list_viewable_pages *)
ListPages(w) ==
  /\ worker[w] = Idle
  /\ split > 0
  /\ worker' = [worker EXCEPT ![w] =
       [at |-> "listed", split |-> split, already |-> {}, blank |-> {}, next |-> 1,
        admitted |-> {}, beside |-> {}]]
  /\ UNCHANGED <<tables, editor, history>>

ListProcessedAnywhere(w) ==
  /\ worker[w].at = "listed"
  /\ worker' = [worker EXCEPT ![w] =
       [at |-> "scanning", split |-> worker[w].split,
        already |-> {n \in 1..PageCount : Stored # {}},
        blank |-> {}, next |-> 1, admitted |-> {}, beside |-> {}]]
  /\ UNCHANGED <<tables, editor, history>>

(* list_page_ids_with_lexemes *)
ListProcessed(w) ==
  /\ worker[w].at = "listed"
  /\ worker' = [worker EXCEPT ![w] =
       [at |-> "scanning", split |-> worker[w].split,
        already |-> {n \in 1..PageCount : On(<<worker[w].split, n>>) # {}},
        blank |-> {}, next |-> 1, admitted |-> {}, beside |-> {}]]
  /\ UNCHANGED <<tables, editor, history>>

Scanning(w) == worker[w].at = "scanning" /\ worker[w].next <= PageCount

SkipPage(w) ==
  /\ Scanning(w)
  /\ worker[w].next \in worker[w].already
  /\ At(w, "scanning", worker[w].next + 1, worker[w].blank, {}, {})
  /\ UNCHANGED <<tables, editor, history>>

Usable(reading) == {n \in DOMAIN reading : Valid(reading[n])}

(* The image is missing, the recognizer fails, or it proposes nothing.      *)
RecognizeNothing(w) ==
  /\ Scanning(w)
  /\ worker[w].next \notin worker[w].already
  /\ At(w, "scanning", worker[w].next + 1, worker[w].blank \union {worker[w].next}, {}, {})
  /\ UNCHANGED <<tables, editor, history>>

Here(w) == <<worker[w].split, worker[w].next>>

AdmittedSingly(reading, page, K) ==
  \A n \in DOMAIN reading :
    n \in K <=> Valid(reading[n]) /\ ~Covered(reading[n], On(page))

(* Of what the recognizer proposes, the loop admits the valid boxes that     *)
(* cover neither a lexeme loaded nor a box admitted before.                 *)
Admitted(reading, page, K) ==
  \A n \in DOMAIN reading :
    n \in K <=> /\ Valid(reading[n])
                /\ ~Covered(reading[n], On(page))
                /\ \A m \in K : m < n => ~Overlaps(reading[n], reading[m])

(* The recognizer reads an image and no table: its minute belongs to the    *)
(* load of the lexemes that follows it.                                     *)
LoadPage(w) ==
  /\ Scanning(w)
  /\ worker[w].next \notin worker[w].already
  /\ \E reading \in Readings : \E K \in SUBSET DOMAIN reading :
       /\ Admitted(reading, Here(w), K)
       /\ At(w, "loaded", worker[w].next,
             IF Usable(reading) = {} THEN worker[w].blank \union {worker[w].next}
                                     ELSE worker[w].blank,
             {reading[n] : n \in K}, On(Here(w)))
  /\ UNCHANGED <<tables, editor, history>>

(* Each box is inserted under an id of its own, all at once; with none      *)
(* there is no commit.                                                      *)
CommitPage(w) ==
  LET q == worker[w] IN
  /\ q.at = "loaded"
  /\ q.admitted # {} => q.split = split
  /\ \E new \in SUBSET Fresh : \E box \in [new -> q.admitted] :
       /\ \A b \in q.admitted : \E i \in new : box[i] = b
       /\ \A i, j \in new : box[i] = box[j] => i = j
       /\ lexeme' = [i \in Ids |->
            IF i \in new THEN Inserted(Here(w), box[i]) ELSE lexeme[i]]
       /\ excused' = excused \union Pairs(new, Here(w), q.beside)
  /\ touched' = touched \union {n \in {q.next} : q.admitted # {}}
  /\ At(w, "scanning", q.next + 1, q.blank, {}, {})
  /\ UNCHANGED <<split, trail, editor, moved, raced>>

ScanEnds(w) ==
  /\ worker[w].at = "scanning"
  /\ worker[w].next > PageCount
  /\ worker' = [worker EXCEPT ![w] = Idle]
  /\ UNCHANGED <<tables, editor, history>>

(* A failed commit raises and ends the scan, so do the time limits and the  *)
(* death of the process; the pages committed before stay.                   *)
ScanHalts(w) ==
  /\ worker[w] # Idle
  /\ worker' = [worker EXCEPT ![w] = Idle]
  /\ UNCHANGED <<tables, editor, history>>

--------------------------------------------------------------------------------
ReplaceWithoutCascade ==
  /\ split < MaxSplits
  /\ split' = split + 1
  /\ touched' = {}
  /\ UNCHANGED <<lexeme, trail, editor, worker, moved, raced, excused>>

(* replace_pages: the lexemes go with the pages they are on, without event. *)
ReplacePages ==
  /\ split < MaxSplits
  /\ split' = split + 1
  /\ lexeme' = [i \in Ids |->
       IF i \in Stored THEN Gone("replaced") ELSE lexeme[i]]
  /\ Forget(Stored)
  /\ touched' = {}
  /\ UNCHANGED <<trail, editor, worker>>

EditorStep(e) ==
  \/ Abandon(e)
  \/ \E i \in Fresh, n \in 1..PageCount, box \in Boxes : CreateLoad(e, i, n, box)
  \/ CreateCommit(e)
  \/ \E i \in Ids, box \in Boxes : UpdateLoad(e, i, box)
  \/ UpdateCommit(e)
  \/ \E i \in Ids : DeleteLoad(e, i)
  \/ DeleteCommit(e)

ScanStep(w) ==
  \/ ListPages(w) \/ ListProcessed(w) \/ SkipPage(w)
  \/ RecognizeNothing(w) \/ LoadPage(w) \/ CommitPage(w)
  \/ ScanEnds(w) \/ ScanHalts(w)

Next ==
  \/ \E e \in Editors : EditorStep(e)
  \/ \E w \in Workers : ScanStep(w)
  \/ ReplacePages

Spec == Init /\ [][Next]_vars

--------------------------------------------------------------------------------
TypeOK ==
  /\ split \in 0..MaxSplits
  /\ lexeme \in [Ids -> Row]
  /\ trail \in [Ids -> SUBSET {"updated", "deleted"}]
  /\ editor \in [Editors -> {Idle} \union Creation \union Change \union Removal]
  /\ worker \in [Workers -> {Idle} \union Scan]
  /\ moved \subseteq Ids
  /\ raced \subseteq Ids
  /\ excused \subseteq SUBSET Ids
  /\ touched \subseteq 1..PageCount

(* Two lexemes of a page whose boxes cover each other got there by an       *)
(* editor who confirmed or moved one, or by transactions that did not see   *)
(* each other's rows; the scan never doubles what was there when it came.   *)
OverlapsExplained ==
  \A i, j \in Stored :
    (i # j /\ lexeme[i].page = lexeme[j].page /\ Overlaps(lexeme[i].box, lexeme[j].box))
      => i \in moved \/ j \in moved \/ {i, j} \in excused

(* A lexeme is on a page that exists and, unless two edits of it were mixed *)
(* column by column, its box is on that page.                               *)
LexemesOnPages ==
  \A i \in Stored :
    /\ lexeme[i].page[1] = split
    /\ i \notin raced => Valid(lexeme[i].box)

(* A lexeme that an editor deleted has a DELETED event, and one with a       *)
(* DELETED event is gone, taken by the deletion or by a replaced page.      *)
DeletedHasEvent ==
  \A i \in Ids :
    /\ lexeme[i].state = "deleted" => "deleted" \in trail[i]
    /\ "deleted" \in trail[i] => lexeme[i].state \in {"deleted", "replaced"}

(* A lexeme that is gone stays gone, and an edit loaded before it went       *)
(* leaves no UPDATED event of it.                                           *)
GoneStaysGone ==
  \A i \in Ids : lexeme[i].state \in {"deleted", "replaced"} =>
    /\ lexeme'[i] = lexeme[i]
    /\ "updated" \in trail'[i] => "updated" \in trail[i]

(* Rows and events agree on a deletion, whatever had been loaded before it   *)
(* commits after it.  In which order the rows are read is not said: they     *)
(* have only occurred_at, the clock at the beginning of their requests, so   *)
(* an edit committed before the deletion may be dated after it.             *)
DeletionIsFinal == []DeletedHasEvent /\ [][GoneStaysGone]_vars

(* A scan leaves no page behind it empty on which it recognized a word,     *)
(* whatever editors and other scans did meanwhile: it had a lexeme once, or *)
(* is replaced.                                                             *)
ScanLeavesNoGap ==
  \A w \in Workers : worker[w].at # "idle" /\ worker[w].split = split =>
    1..(worker[w].next - 1) \subseteq worker[w].blank \union touched
================================================================================
