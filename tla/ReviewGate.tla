----------------------------- MODULE ReviewGate -----------------------------
(***************************************************************************)
(* What the review workflow promises about releasing a document, without   *)
(* requests, locks or statuses: an artifact is released only after the     *)
(* review was completed and, under dual approval, only after a supervisor  *)
(* approved a completed review (review_service.complete_review's docstring *)
(* and specs/03-data-model.md, "State machine rules").                     *)
(***************************************************************************)
CONSTANT DualApproval
VARIABLES completed, approved, released

vars == <<completed, approved, released>>

Init == completed = FALSE /\ approved = FALSE /\ released = FALSE

Complete ==
    /\ completed' = TRUE
    /\ UNCHANGED <<approved, released>>

Approve ==
    /\ completed
    /\ approved' = TRUE
    /\ UNCHANGED <<completed, released>>

Release ==
    /\ completed
    /\ DualApproval => approved
    /\ released' = TRUE
    /\ UNCHANGED <<completed, approved>>

Next == Complete \/ Approve \/ Release

Spec == Init /\ [][Next]_vars
=============================================================================
