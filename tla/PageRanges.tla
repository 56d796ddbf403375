------------------------------- MODULE PageRanges -------------------------------
(***************************************************************************)
(* The page ranges of one dictionary and the pages that its viewer numbers      *)
(* after them.  A save validates and merges the ranges it is given, deletes     *)
(* the rows it sees and inserts its own, beside other saves.                   *)
(***************************************************************************)
EXTENDS Integers, Sequences, FiniteSets

CONSTANTS
  Editors,      \* requests in flight
  Submissions,  \* what a form may hold: sequences of [start, end]
  PageCount,    \* of the PDF
  MaxSaves,     \* bound on the saves
  Nothing       \* NULL, or no request

VARIABLES
  ranges,     \* the rows: [start, end, position, save]
  counted,    \* page_count
  saving,     \* editor -> the save it waits for
  saves,      \* saves so far
  submitted,  \* the pages that the newest stored submission names
  mixed       \* a save saw less than the rows that were there when it committed

(* What a form holds are two integers for each range, whatever they are.          *)
Range == [start : Int, end : Int]

SubmissionAssumption ==
  /\ PageCount \in Nat /\ MaxSaves \in Nat
  /\ \A input \in Submissions : input \in Seq(Range)

vars == <<counted, ranges, saving, saves, submitted, mixed>>

Init ==
  /\ counted = Nothing /\ ranges = {} /\ submitted = {}
  /\ saving = [e \in Editors |-> Nothing]
  /\ saves = 0 /\ mixed = FALSE

--------------------------------------------------------------------------------
OnPdf(page) == page >= 1 /\ page <= counted

(* Both ends are pages of the PDF and in order.                                   *)
ValidPageRanges(input) ==
  \A i \in DOMAIN input :
    OnPdf(input[i].start) /\ OnPdf(input[i].end) /\ input[i].start <= input[i].end

Before(a, b) == a.start < b.start \/ (a.start = b.start /\ a.end <= b.end)

(* A bug: the last range ends where the current one does, even if it went further. *)
MergedShort(merged, current) ==
  LET last == Len(merged)
  IN  IF merged = <<>> \/ merged[last].end < current.start
      THEN Append(merged, current)
      ELSE [merged EXCEPT ![last].end = current.end]

(* A range that shares a page with the last one widens it; one that begins on the  *)
(* next page stands for itself.                                                  *)
Merged(merged, current) ==
  LET last == Len(merged)
  IN  IF merged = <<>> \/ merged[last].end < current.start
      THEN Append(merged, current)
      ELSE [merged EXCEPT ![last].end = IF current.end > @ THEN current.end ELSE @]

(* The first of the ranges that are left in the sorted list.                       *)
First(input, left) == CHOOSE i \in left : \A j \in left : Before(input[i], input[j])

MergeFirst(input, q) ==
  LET i == First(input, q.left)
  IN  [left |-> q.left \ {i}, merged |-> Merged(q.merged, input[i])]

(* What is left of the input, and the list so far, after n turns of the loop.       *)
Merging(input) ==
  LET merging[n \in 0 .. Len(input)] ==
        IF n = 0 THEN [left |-> DOMAIN input, merged |-> <<>>]
        ELSE MergeFirst(input, merging[n - 1])
  IN  merging

NormalizePageRanges(input) == Merging(input)[Len(input)].merged

(* The rows of a save, numbered by their position.                                *)
Rows(normalized, save) ==
  {[start |-> normalized[i].start, end |-> normalized[i].end, position |-> i, save |-> save] :
     i \in DOMAIN normalized}

Inspect ==
  /\ counted = Nothing /\ counted' = PageCount
  /\ UNCHANGED <<ranges, saving, saves, submitted, mixed>>

(* The saves that deleted some of the rows and have not committed.                 *)
Holders(deleted) ==
  LET holds(e) == saving[e] # Nothing /\ saving[e].deleted \cap deleted # {}
  IN  {saving[e].save : e \in {o \in Editors : holds(o)}}

Named(input) == UNION {input[i].start .. input[i].end : i \in DOMAIN input}

(* Up to the DELETE, which sees the committed rows.                               *)
SavePageRanges(e, input) ==
  /\ saving[e] = Nothing /\ saves < MaxSaves
  /\ counted # Nothing /\ ValidPageRanges(input)
  /\ saves' = saves + 1
  /\ saving' = [saving EXCEPT ![e] =
       [save |-> saves + 1, rows |-> Rows(NormalizePageRanges(input), saves + 1),
        named |-> Named(input), deleted |-> ranges, after |-> Holders(ranges)]]
  /\ UNCHANGED <<counted, ranges, submitted, mixed>>

(* A DELETE waits for one that took the same rows first.                           *)
Released(save) == \A o \in Editors : saving[o] # Nothing => saving[o].save # save

ReplacePageRanges(e) ==
  /\ saving[e] # Nothing /\ \A save \in saving[e].after : Released(save)
  /\ LET q == saving[e]
     IN  /\ ranges' = (ranges \ q.deleted) \union q.rows
         /\ mixed' = (ranges \ q.deleted # {})
         /\ submitted' = q.named
  /\ saving' = [saving EXCEPT ![e] = Nothing]
  /\ UNCHANGED <<counted, saves>>

Next ==
  \/ Inspect
  \/ \E e \in Editors :
       (\E input \in Submissions : SavePageRanges(e, input)) \/ ReplacePageRanges(e)

Spec == Init /\ [][Next]_vars

--------------------------------------------------------------------------------
(* The physical pages in the order of the rows' positions, which is no order where  *)
(* two rows have the same.                                                       *)
FirstRow(left) == CHOOSE row \in left : \A other \in left : row.position <= other.position

Pages(row) == [k \in 1 .. row.end + 1 - row.start |-> row.start + k - 1]

ExpandFirst(q) ==
  LET row == FirstRow(q.left)
  IN  [left |-> q.left \ {row}, pages |-> q.pages \o Pages(row)]

Expanding(rows) ==
  LET expanding[n \in 0 .. Cardinality(rows)] ==
        IF n = 0 THEN [left |-> rows, pages |-> <<>>] ELSE ExpandFirst(expanding[n - 1])
  IN  expanding

ExpandPageRanges(rows) == Expanding(rows)[Cardinality(rows)].pages

(* The page that the viewer shows under an ordinal.                               *)
ViewablePage(ordinal) == ExpandPageRanges(ranges)[ordinal]

(* The viewer shows each page of the newest submission once, in ascending order,    *)
(* and no other page, however the submitted ranges overlapped, unless a save did    *)
(* not see the rows of another.                                                  *)
ViewerShowsSubmission ==
  LET shown == ExpandPageRanges(ranges)
  IN  ~ mixed =>
        /\ {ViewablePage(n) : n \in DOMAIN shown} = submitted
        /\ submitted \subseteq 1 .. PageCount
        /\ \A n \in 2 .. Len(shown) : ViewablePage(n - 1) < ViewablePage(n)
================================================================================
