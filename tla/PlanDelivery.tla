---------------------------- MODULE PlanDelivery ----------------------------
(***************************************************************************)
(* What the delivery queue promises about each delivery plan: it moves     *)
(* from one stage to the next, one plan and one stage at a time, and never *)
(* back.  A plan that was queued is not lost, one that was processed is    *)
(* not queued again in its place, and what was handed over stays so.       *)
(***************************************************************************)
EXTENDS Naturals

CONSTANT Plan

VARIABLE stage

\* 0: no plan; 1: plan file; 2: queued; 3: processed; 4: in the inbox.
Init == stage = [p \in Plan |-> 0]

Advance(p) == stage[p] < 4 /\ stage' = [stage EXCEPT ![p] = @ + 1]

Next == \E p \in Plan : Advance(p)

Spec == Init /\ [][Next]_stage
=============================================================================
