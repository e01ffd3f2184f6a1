------------------------ MODULE MCExecutionTransitions ------------------------
(* TLC instances of ExecutionTransitions, with the operator's view of its  *)
(* runs.                                                                   *)
EXTENDS OperatorControls

CONSTANTS r1, r2
=============================================================================
