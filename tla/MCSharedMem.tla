---------------------------- MODULE MCSharedMem ----------------------------
(* SharedMem for TLC: the bounds are given by the configuration.           *)
EXTENDS SharedMem
=============================================================================
