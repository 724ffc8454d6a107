------------------------------ MODULE LeadLedger ------------------------------
(***************************************************************************)
(* What lead-service promises about a lead however its requests overlap:   *)
(* a stage is only ever entered once the stage it depends on has been      *)
(* entered.  It does not promise that a stage is entered once, nor that it *)
(* is entered from the stage the lead is in (LeadWorkflow says that).      *)
(***************************************************************************)
EXTENDS LeadStages

CONSTANT Leads

VARIABLES current,  \* the stage a lead is in, "NONE" before it exists
          reached   \* the stages it has been in

Init == /\ current = [l \in Leads |-> "NONE"]
        /\ reached = [l \in Leads |-> {}]

Open(l) == /\ current[l] = "NONE"
           /\ current' = [current EXCEPT ![l] = "CREATED"]
           /\ reached' = [reached EXCEPT ![l] = @ \cup {"CREATED"}]

Enter(l, stage) == /\ Prerequisite(stage) \in reached[l]
                   /\ current' = [current EXCEPT ![l] = stage]
                   /\ reached' = [reached EXCEPT ![l] = @ \cup {stage}]

Next == \E l \in Leads : Open(l) \/ \E stage \in LaterStages : Enter(l, stage)

Spec == Init /\ [][Next]_<<current, reached>>
===============================================================================
