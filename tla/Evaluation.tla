----------------------------- MODULE Evaluation -----------------------------
(***************************************************************************)
(* What the doc comments of Eval and EvalExports promise a host about one  *)
(* evaluation: it ends once, with what it made or, only if the context was *)
(* cancelled, with the context's cause.                                    *)
(***************************************************************************)
VARIABLES
  cancelled,  \* the host cancelled the context
  outcome     \* "none" while evaluating

Made == {"document", "exports"}

Init == cancelled \in BOOLEAN /\ outcome = "none"

Cancel == ~cancelled /\ cancelled' = TRUE /\ UNCHANGED outcome

Finish == outcome = "none" /\ outcome' \in Made /\ UNCHANGED cancelled

Abort == outcome = "none" /\ cancelled /\ outcome' = "cause" /\ UNCHANGED cancelled

Next == Cancel \/ Finish \/ Abort

Spec == Init /\ [][Next]_<<cancelled, outcome>>
=============================================================================
