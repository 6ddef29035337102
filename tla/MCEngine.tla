------------------------------ MODULE MCEngine ------------------------------
(* Engine for TLC: it has no parameters.                                   *)
EXTENDS Engine
=============================================================================
