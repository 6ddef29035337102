----------------------------- MODULE MCContacts -----------------------------
(* Contacts for TLC: the bounds are given by the configurations.           *)
EXTENDS Contacts
=============================================================================
