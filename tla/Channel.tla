------------------------------ MODULE Channel ------------------------------
(***************************************************************************)
(* What TTUtilsSharedMem promises its users: messages go one at a time,    *)
(* each is taken at most once, whole and in the order in which they were   *)
(* put, and a sender learns of success only after its message was taken.   *)
(* A sender that gives up, or dies, never puts another message; the last   *)
(* one it has put may still be taken.                                      *)
(***************************************************************************)
EXTENDS Naturals, Sequences

VARIABLES
    put,     \* the number of messages put so far; they are 1, 2, ...
    got,     \* the messages taken, in the order in which they were taken
    acked,   \* the number of messages the sender knows to be taken
    ended    \* the sender has given up

vars == <<put, got, acked, ended>>

Init ==
    /\ put = 0
    /\ got = <<>>
    /\ acked = 0
    /\ ended = FALSE

Put ==
    /\ ~ended
    /\ put = acked
    /\ put' = put + 1
    /\ UNCHANGED <<got, acked, ended>>

Take ==
    /\ Len(got) < put
    /\ got' = Append(got, put)
    /\ UNCHANGED <<put, acked, ended>>

Ack ==
    /\ ~ended
    /\ acked < put
    /\ Len(got) = put
    /\ acked' = put
    /\ UNCHANGED <<put, got, ended>>

GiveUp ==
    /\ ~ended
    /\ ended' = TRUE
    /\ UNCHANGED <<put, got, acked>>

Next == Put \/ Take \/ Ack \/ GiveUp

Spec == Init /\ [][Next]_vars

=============================================================================
