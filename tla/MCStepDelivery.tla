--------------------------- MODULE MCStepDelivery ---------------------------
(***************************************************************************)
(* StepDelivery for TLC: one request id used twice.                         *)
(***************************************************************************)
EXTENDS StepDelivery

CONSTANTS r1

MCPromptLen == r1 :> 1
MCMaxNew == r1 :> 2
MCPriority == r1 :> 0
=============================================================================
