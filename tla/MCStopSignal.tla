---------------------------- MODULE MCStopSignal ----------------------------
(* StopSignal for TLC: the configurations choose the kinds of wait.        *)
EXTENDS StopSignal
=============================================================================
