---------------------------- MODULE MCIdleRuntime ----------------------------
(* IdleRuntime on two workers and the loop thread, two outputs, one timer    *)
(* delay on each side of the frame interval.                                 *)
EXTENDS IdleRuntime

CONSTANTS w1, w2

MCOutputs == {1, 2}
MCDelays == {1, 3}
=============================================================================
