---------------------------- MODULE MCMessaging ----------------------------
(* Messaging for TLC: the configurations name the peers and the bounds.    *)
EXTENDS Messaging
=============================================================================
