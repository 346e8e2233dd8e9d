---------------------------- MODULE MCFlowHistory ----------------------------
(* FlowHistory with intervals and sizes on both sides of each other.       *)
EXTENDS FlowHistory

MCConfigValues == 0..3
=============================================================================
