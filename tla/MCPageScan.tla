------------------------------- MODULE MCPageScan -------------------------------
(***************************************************************************)
(* Small instances of the pages of a dictionary: which of them its viewer       *)
(* shows, and the lexemes that are drawn and scanned on them.  They share no     *)
(* state, so a behaviour runs one of them while the other waits in its initial   *)
(* state.                                                                   *)
(***************************************************************************)
EXTENDS DictionaryPages, TLC, SequencesExt

Rect(x, width) == [x |-> x, y |-> 0, width |-> width, height |-> 1]

(* On a page five units wide: the whole line, and its end.                  *)
SmallBoxes == {Rect(0, 5), Rect(2, 3)}

(* The beginning of the line, the whole line once more, and a box that      *)
(* leaves the page.                                                         *)
SmallReadings == {<<Rect(0, 3), Rect(0, 5), Rect(4, 3)>>}

(* Up to three ranges in any order; some are inverted or leave the PDF.       *)
SmallSubmissions == BoundedSeq([start : 1 .. PdfPages, end : 1 .. PdfPages + 1], 3)

PagesNext ==
  \/ Viewer!Init /\ LexemeStep
  \/ Init /\ ViewerStep

Pages == PagesInit /\ [][PagesNext]_<<vars, viewer>>

(* Requests, workers and identifiers are interchangeable. *)
Symmetry == Permutations(Editors) \union Permutations(Workers) \union Permutations(Ids)
================================================================================
