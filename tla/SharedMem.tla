----------------------------- MODULE SharedMem -----------------------------
(***************************************************************************)
(* TTUtilsSharedMem between the two processes that use it: send() and      *)
(* receive(), a message cell in shared memory and two named semaphores.    *)
(* The copies are not atomic, a timed wait is tried Attempts times, and    *)
(* either process may end at any moment.  The memory has been created by   *)
(* the sender and opened by the receiver; messages are numbered.           *)
(***************************************************************************)
EXTENDS Integers, Sequences

CONSTANTS
    Attempts,      \* timed waits of one send() or receive()
    MaxMessages    \* bound on the number of messages sent

ASSUME SharedMemAssumption ==
    /\ Attempts \in Nat \ {0}
    /\ MaxMessages \in Nat

VARIABLES
    cell,       \* *mSharedMessage: a message number, or Torn during a copy
    produced,   \* the value of the semaphore "data produced"
    consumed,   \* the value of the semaphore "data consumed"
    sPc,        \* where the sender is; "dead" when its mAlive is false
    sTry,       \* the attempts its current wait has left
    seq,        \* the number of its latest message
    acked,      \* the latest message for which send() returned true
    rPc,        \* where the receiver is; "dead" when its mAlive is false
    rTry,       \* the attempts its current wait has left
    copy,       \* the message it is copying
    got         \* the messages returned by receive()

senderVars == <<sPc, sTry, seq, acked>>
receiverVars == <<rPc, rTry, copy, got>>
vars == <<cell, produced, consumed, senderVars, receiverVars>>

Torn == 0

Init ==
    /\ cell = Torn
    /\ produced = 0
    /\ consumed = 0
    /\ sPc = "idle" /\ sTry = Attempts /\ seq = 0 /\ acked = 0
    /\ rPc = "wait" /\ rTry = Attempts /\ copy = Torn /\ got = <<>>

-----------------------------------------------------------------------------
(***************************************************************************)
(* send().                                                                 *)
(***************************************************************************)
SendBegin ==
    /\ sPc = "idle"
    /\ seq < MaxMessages
    /\ sPc' = "copying"
    /\ seq' = seq + 1
    /\ cell' = Torn
    /\ UNCHANGED <<produced, consumed, sTry, acked, receiverVars>>

SendPost ==
    /\ sPc = "copying"
    /\ sPc' = "wait"
    /\ sTry' = Attempts
    /\ cell' = seq
    /\ produced' = produced + 1
    /\ UNCHANGED <<consumed, seq, acked, receiverVars>>

SendAcked ==
    /\ sPc = "wait"
    /\ consumed > 0
    /\ consumed' = consumed - 1
    /\ sPc' = "idle"
    /\ acked' = seq
    /\ UNCHANGED <<cell, produced, sTry, seq, receiverVars>>

\* A failed send leaves mAlive as it was.
SendTimeoutStaysAlive ==
    /\ sPc = "wait"
    /\ consumed = 0
    /\ sTry' = sTry - 1
    /\ sPc' = IF sTry = 1 THEN "idle" ELSE "wait"
    /\ UNCHANGED <<cell, produced, consumed, seq, acked, receiverVars>>

\* A wait ends by its timeout or by EINTR; after the last one mAlive is false
\* and no later send() touches the memory.
SendTimeout ==
    /\ sPc = "wait"
    /\ consumed = 0
    /\ sTry' = sTry - 1
    /\ sPc' = IF sTry = 1 THEN "dead" ELSE "wait"
    /\ UNCHANGED <<cell, produced, consumed, seq, acked, receiverVars>>

\* The process ends, or a system call fails.
SenderDies ==
    /\ sPc # "dead"
    /\ sPc' = "dead"
    /\ UNCHANGED <<cell, produced, consumed, sTry, seq, acked, receiverVars>>

-----------------------------------------------------------------------------
(***************************************************************************)
(* receive().                                                              *)
(***************************************************************************)
ReceiveBegin ==
    /\ rPc = "wait"
    /\ produced > 0
    /\ produced' = produced - 1
    /\ rPc' = "copying"
    /\ copy' = cell
    /\ UNCHANGED <<cell, consumed, rTry, got, senderVars>>

\* The sender is told before the copy is complete.
ReceivePostEarly ==
    /\ rPc = "copying"
    /\ rPc' = "copied"
    /\ consumed' = consumed + 1
    /\ UNCHANGED <<cell, produced, rTry, copy, got, senderVars>>

\* The copy ends; it is whole only if the cell has not been written meanwhile.
ReceiveCopied ==
    /\ rPc = "copying"
    /\ rPc' = "copied"
    /\ copy' = IF cell = copy THEN copy ELSE Torn
    /\ UNCHANGED <<cell, produced, consumed, rTry, got, senderVars>>

ReceivePost ==
    /\ rPc = "copied"
    /\ rPc' = "wait"
    /\ rTry' = Attempts
    /\ consumed' = consumed + 1
    /\ got' = Append(got, copy)
    /\ UNCHANGED <<cell, produced, copy, senderVars>>

\* Every attempt starts the count again.
ReceiveTimeoutRestarts ==
    /\ rPc = "wait"
    /\ produced = 0
    /\ rTry' = Attempts
    /\ UNCHANGED <<cell, produced, consumed, rPc, copy, got, senderVars>>

\* As SendTimeout: the last wait that fails makes mAlive false.
ReceiveTimeout ==
    /\ rPc = "wait"
    /\ produced = 0
    /\ rTry' = rTry - 1
    /\ rPc' = IF rTry = 1 THEN "dead" ELSE "wait"
    /\ UNCHANGED <<cell, produced, consumed, copy, got, senderVars>>

ReceiverDies ==
    /\ rPc # "dead"
    /\ rPc' = "dead"
    /\ UNCHANGED <<cell, produced, consumed, rTry, copy, got, senderVars>>

Sender == SendBegin \/ SendPost \/ SendAcked \/ SendTimeout

Receiver == ReceiveBegin \/ ReceiveCopied \/ ReceivePost \/ ReceiveTimeout

Next == Sender \/ SenderDies \/ Receiver \/ ReceiverDies

Spec == Init /\ [][Next]_vars

\* Timed waits end and copies are finished.
FairSpec == Spec /\ WF_vars(Sender) /\ WF_vars(Receiver)

-----------------------------------------------------------------------------
TypeOK ==
    /\ cell \in Nat
    /\ produced \in Nat
    /\ consumed \in Nat
    /\ sPc \in {"idle", "copying", "wait", "dead"}
    /\ sTry \in 0 .. Attempts
    /\ seq \in Nat
    /\ acked \in Nat
    /\ rPc \in {"wait", "copying", "copied", "dead"}
    /\ rTry \in 0 .. Attempts
    /\ copy \in Nat
    /\ got \in Seq(Nat)

\* The semaphores never hold a token of an earlier message: at most one of
\* them is up, and by one, so no send() is answered by an old receive().
OneToken == produced + consumed <= 1

\* The messages put into the channel are the ones whose copy is complete.
put == IF sPc = "copying" THEN seq - 1
       ELSE IF sPc = "dead" /\ cell = Torn /\ seq > 0 THEN seq - 1 ELSE seq

C == INSTANCE Channel WITH put <- put, got <- got, acked <- acked,
                           ended <- (sPc = "dead")

\* The shared memory implements the channel that its users rely on: receive()
\* returns 1, 2, ..., none torn, lost, repeated or out of order, whenever and
\* however the sender's wait ends, and send() returns true only for a message
\* that was taken.
ImplementsChannel == C!Spec

\* Neither call outlasts its timed and counted waits.  A send() that has begun
\* returns, true or false, even when the receiver is gone or dies between
\* taking the message and telling so; a receive() returns one more message, or
\* fails for good, also when the sender is gone, is silent or dies before its
\* message is posted.
SendAndReceiveReturn ==
    /\ (sPc \in {"copying", "wait"}) ~> (sPc \in {"idle", "dead"})
    /\ \A n \in 0 .. MaxMessages :
          (rPc # "dead" /\ Len(got) = n) ~> (Len(got) > n \/ rPc = "dead")

=============================================================================
