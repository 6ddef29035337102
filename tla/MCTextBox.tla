----------------------------- MODULE MCTextBox -----------------------------
(* TextBox for TLC: any use of it with a text that needs two messages, a   *)
(* selection, one without its argument, and the end; and the scenarios of  *)
(* its tests.                                                              *)
EXTENDS TextBoxScenarios

MCLines ==
    {TextLine(<<1, 2, 3, 4, 5>>), CommandLine("select", <<<<1, 2>>>>),
     CommandLine("select", <<>>), CommandLine("quit", <<>>)}
=============================================================================
