------------------------------ MODULE DictionaryPages ----------------------------
(***************************************************************************)
(* The pages of a dictionary: which of them its viewer shows, and the lexemes    *)
(* that are drawn and scanned on them.  They share no state, and a step of one   *)
(* leaves the other alone.                                                   *)
(***************************************************************************)
EXTENDS PageScan

CONSTANTS PdfPages, Submissions, MaxSaves, Nothing  \* of the page ranges

VARIABLES counted, ranges, saving, saves, submitted, mixed

Viewer == INSTANCE PageRanges WITH PageCount <- PdfPages

ASSUME SubmittedRanges == Viewer!SubmissionAssumption

viewer == <<counted, ranges, saving, saves, submitted, mixed>>

LexemeStep == Next /\ UNCHANGED viewer

ViewerStep == Viewer!Next /\ UNCHANGED vars

PagesInit == Init /\ Viewer!Init

DictionaryPages == PagesInit /\ [][LexemeStep \/ ViewerStep]_<<vars, viewer>>

(* The viewer numbers the pages of the newest submission, in their order.     *)
ViewerShowsSubmission == Viewer!ViewerShowsSubmission
================================================================================
