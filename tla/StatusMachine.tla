----------------------------- MODULE StatusMachine -----------------------------
(***************************************************************************)
(* What the sources module promises about one dictionary's status, when   *)
(* its use cases run one at a time.  The promise is the one the code       *)
(* keeps, not the straight line of the DictionaryStatus docstring: an      *)
(* editor may confirm "configured" or finish scanning from any status.     *)
(***************************************************************************)

VARIABLE status

Band == {"scanned", "in_progress", "processed"}

Status == {"draft", "configured", "published"} \union Band

Init == status = "draft"

(* The editor confirms readiness, whatever the status was. *)
Configure ==
  /\ status # "configured"
  /\ status' = "configured"

(* The editor finishes the scanning stage, whatever the status was. *)
FinishScanning ==
  /\ status # "scanned"
  /\ status' = "scanned"

(* An edit that breaks readiness demotes a configured dictionary only. *)
Demote ==
  /\ status = "configured"
  /\ status' = "draft"

(* The automatic sync moves inside the band and nowhere else. *)
AutoSync ==
  /\ status \in Band
  /\ status' \in Band \ {status}

(* Release: only from "processed", only by the explicit act. *)
Publish ==
  /\ status = "processed"
  /\ status' = "published"

Next == Configure \/ FinishScanning \/ Demote \/ AutoSync \/ Publish

Spec == Init /\ [][Next]_status
================================================================================
