----------------------------- MODULE LeadWorkflow -----------------------------
(***************************************************************************)
(* The lead life cycle as the state machine's tests describe it: a lead    *)
(* moves from the stage it is in to one that depends on it, so it never    *)
(* goes back and never leaves a stage that ends the cycle.  It holds of a  *)
(* lead until two decisions about it are taken in one stage: from then on  *)
(* the lead is "SPLIT", and nothing is promised of it here any more.       *)
(***************************************************************************)
EXTENDS LeadStages

CONSTANT Leads

VARIABLE current

Init == current = [l \in Leads |-> "NONE"]

Open(l) == /\ current[l] = "NONE"
           /\ current' = [current EXCEPT ![l] = "CREATED"]

\* The stages that depend on this one.
Following(stage) == {s \in LaterStages : Prerequisite(s) = stage}

Move(l) == \E stage \in Following(current[l]) :
              current' = [current EXCEPT ![l] = stage]

Split(l) == /\ current[l] \in LaterStages
            /\ current' = [current EXCEPT ![l] = "SPLIT"]

Next == \E l \in Leads : Open(l) \/ Move(l) \/ Split(l)

Spec == Init /\ [][Next]_current
===============================================================================
