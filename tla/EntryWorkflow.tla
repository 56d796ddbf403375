------------------------------ MODULE EntryWorkflow ------------------------------
(***************************************************************************)
(* What EntryStatus, ValidateEntryService and ReviewService make of one     *)
(* dictionary entry.  With statuses loaded as members of their enum it is   *)
(* what their docstrings describe: the entry is promoted once, submitted,   *)
(* completed by an editor or a reviewer or sent back, and "complete" is the *)
(* end.  With statuses loaded as strings the identity tests of the code     *)
(* fail: no reviewer ever decides, and a complete entry can be submitted    *)
(* again.                                                                   *)
(***************************************************************************)
CONSTANT LoadsMembers  \* a loaded status is the enum member; see EntryReview

VARIABLE status

Init == status = "none"

Promote == status = "none" /\ status' = "draft"

Submit ==
  /\ status = "draft" \/ (status = "complete" /\ ~LoadsMembers)
  /\ status' = "ready_to_review"

Complete == status \in {"draft", "ready_to_review"} /\ status' = "complete"

SendBack == LoadsMembers /\ status = "ready_to_review" /\ status' = "draft"

Next == Promote \/ Submit \/ Complete \/ SendBack

Spec == Init /\ [][Next]_status
================================================================================
