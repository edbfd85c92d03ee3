---------------------------- MODULE MCWorkflowRuns ----------------------------
(* Small instances of WorkflowRuns for TLC. *)
EXTENDS WorkflowRuns

CONSTANTS r1, r2, r3, planner, validator

TwoRuns   == {r1, r2}
ThreeRuns == {r1, r2, r3}
TwoNodes  == {planner, validator}

\* The loop of the README: plan, validate, and plan again unless terminal.
PlanThenValidate == {<<planner, validator>>}
UntilTerminal    == {<<validator, planner>>}
===============================================================================
