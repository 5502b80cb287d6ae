------------------------------- MODULE MCSaga -------------------------------
(***************************************************************************)
(* TLC instances of SagaStateMachine.                                      *)
(***************************************************************************)
EXTENDS SagaStateMachine, TLC

CONSTANTS o1, o2, w1, w2

OneOrder == {o1}
TwoOrders == {o1, o2}
OneWorker == {w1}
TwoWorkers == {w1, w2}

\* The definition the orchestrator runs.
Definition == INSTANCE OrderFulfillment
OrderFulfillmentSteps == Definition!orderFulfillmentSaga

\* A definition that exercises all of the toolkit: two compensable steps
\* around one with nothing to undo, and a last step.
Step(n, compensation) ==
    [name |-> "STEP_" \o n, command |-> "Do" \o n, success |-> n \o "Done",
     failure |-> n \o "Failed", compensation |-> compensation]
ToolkitSteps ==
    <<Step("A", "UndoA"), Step("B", NoCompensation), Step("C", "UndoC"), Step("D", NoCompensation)>>

Symmetry == Permutations(Orders) \cup Permutations(Workers)
=============================================================================
