------------------------------- MODULE MCChat -------------------------------
(* Chat for TLC: any use of it within the bounds of the configuration, and *)
(* the scenarios of its tests.                                             *)
EXTENDS ChatScenarios
=============================================================================
