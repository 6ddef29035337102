---------------------------- MODULE MCDiscovery ----------------------------
(* Discovery for TLC: two nodes that are configured with each other, which *)
(* makes them interchangeable; or one that is configured with the other    *)
(* and with its own address.                                               *)
EXTENDS Discovery, TLC

CONSTANTS n1, n2

MCStatic == (n1 :> {n2}) @@ (n2 :> {n1})
MCStaticOneWay == (n1 :> {n1, n2}) @@ (n2 :> {})

MCSymmetry == Permutations(Node)
=============================================================================
