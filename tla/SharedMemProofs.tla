-------------------------- MODULE SharedMemProofs --------------------------
(***************************************************************************)
(* Proofs about SharedMem, for every number of attempts and of messages:   *)
(* the type invariant, OneToken, and that the two semaphores and the cell  *)
(* implement Channel (ImplementsChannel).                                  *)
(***************************************************************************)
EXTENDS SharedMem, TLAPS

(***************************************************************************)
(* The inductive invariant.  OneToken says nothing of who moves next, so   *)
(* it is not inductive: every message goes through the phases below, which *)
(* tie the semaphores, the cell, and both ends of the channel together.    *)
(***************************************************************************)
NobodyCopies == rPc \in {"wait", "dead"}

\* Between two messages: everything sent is taken and acknowledged.
Resting ==
    /\ produced = 0 /\ consumed = 0 /\ NobodyCopies
    /\ cell = seq /\ acked = seq /\ Len(got) = seq

\* The latest message is not acknowledged.
Current == seq > 0 /\ acked = seq - 1

\* send() copies the message into the cell.
Writing ==
    /\ produced = 0 /\ consumed = 0 /\ NobodyCopies
    /\ Current /\ cell = Torn /\ Len(got) = seq - 1

\* The message is posted and nobody has seen it.
Offered ==
    /\ produced = 1 /\ consumed = 0 /\ NobodyCopies
    /\ Current /\ cell = seq /\ Len(got) = seq - 1

\* receive() copies the message out of the cell.
Taking ==
    /\ produced = 0 /\ consumed = 0 /\ rPc \in {"copying", "copied"}
    /\ Current /\ cell = seq /\ copy = seq /\ Len(got) = seq - 1

\* The receiver ended while it copied: the message will never be taken.
Abandoned ==
    /\ produced = 0 /\ consumed = 0 /\ rPc = "dead"
    /\ Current /\ cell = seq /\ Len(got) = seq - 1

\* The message is taken; the sender has not been told yet.
Taken ==
    /\ produced = 0 /\ consumed = 1 /\ NobodyCopies
    /\ Current /\ cell = seq /\ Len(got) = seq

Posted == Offered \/ Taking \/ Abandoned \/ Taken

\* Where the sender is tells the phase; a sender that ended may have left any.
PhaseInv ==
    /\ sPc = "idle" => Resting
    /\ sPc = "copying" => Writing
    /\ sPc = "wait" => Posted
    /\ sPc = "dead" => Resting \/ Writing \/ Posted

\* A wait that goes on has an attempt left.
TryInv ==
    /\ sPc = "wait" => sTry > 0
    /\ rPc = "wait" => rTry > 0

\* What was received is 1, 2, ...: nothing torn, lost, repeated or reordered.
GotInv == \A i \in 1 .. Len(got) : got[i] = i

IInv == TypeOK /\ TryInv /\ PhaseInv /\ GotInv

-----------------------------------------------------------------------------
\* Nothing is sent yet.
LEMMA InitInv == Init => IInv
BY SharedMemAssumption
   DEF Init, IInv, TypeOK, TryInv, PhaseInv, GotInv, Resting, NobodyCopies, Torn

\* Each step of either process keeps the types.
LEMMA StepType == TypeOK /\ TryInv /\ [Next]_vars => TypeOK'
<1> SUFFICES ASSUME TypeOK, TryInv, [Next]_vars PROVE TypeOK'
  OBVIOUS
<1> USE SharedMemAssumption DEF TypeOK, Torn, senderVars, receiverVars
<1>1. CASE SendBegin
  BY <1>1 DEF SendBegin
<1>2. CASE SendPost
  BY <1>2 DEF SendPost
<1>3. CASE SendAcked
  BY <1>3 DEF SendAcked
<1>4. CASE SendTimeout
  BY <1>4 DEF SendTimeout, TryInv
<1>5. CASE SenderDies
  BY <1>5 DEF SenderDies
<1>6. CASE ReceiveBegin
  BY <1>6 DEF ReceiveBegin
<1>7. CASE ReceiveCopied
  BY <1>7 DEF ReceiveCopied
<1>8. CASE ReceivePost
  BY <1>8 DEF ReceivePost
<1>9. CASE ReceiveTimeout
  BY <1>9 DEF ReceiveTimeout, TryInv
<1>10. CASE ReceiverDies
  BY <1>10 DEF ReceiverDies
<1>11. CASE UNCHANGED vars
  BY <1>11 DEF vars
<1>12. QED
  BY <1>1, <1>2, <1>3, <1>4, <1>5, <1>6, <1>7, <1>8, <1>9, <1>10, <1>11
     DEF Next, Sender, Receiver

\* A wait that goes on keeps an attempt, a new one starts with all of them.
LEMMA StepTry == TypeOK /\ TryInv /\ [Next]_vars => TryInv'
BY SharedMemAssumption
   DEF TypeOK, TryInv, Next, Sender, Receiver, SendBegin, SendPost, SendAcked,
       SendTimeout, SenderDies, ReceiveBegin, ReceiveCopied, ReceivePost,
       ReceiveTimeout, ReceiverDies, vars, senderVars, receiverVars

\* The steps of the sender go from phase to phase; an acknowledgement is only
\* found in the phase that follows the receiver's post.
LEMMA SenderPhase ==
    ASSUME TypeOK, PhaseInv, Sender \/ SenderDies
    PROVE  PhaseInv'
<1> USE DEF TypeOK, PhaseInv, Torn, receiverVars
<1>1. CASE SendBegin
  BY <1>1 DEF SendBegin, Resting, Writing, Current, NobodyCopies
<1>2. CASE SendPost
  BY <1>2 DEF SendPost, Writing, Posted, Offered, Current, NobodyCopies
<1>3. CASE SendAcked
  <2>1. Taken
    BY <1>3 DEF SendAcked, Posted, Offered, Taking, Abandoned
  <2>2. QED
    BY <1>3, <2>1 DEF SendAcked, Taken, Resting, Current, NobodyCopies
<1>4. CASE SendTimeout \/ SenderDies
  <2>1. /\ UNCHANGED <<cell, produced, consumed, seq, acked, rPc, copy, got>>
        /\ sPc' \in {sPc, "dead"}
    BY <1>4 DEF SendTimeout, SenderDies
  <2>2. /\ Resting => Resting'
        /\ Writing => Writing'
        /\ Posted => Posted'
    BY <2>1 DEF Resting, Writing, Posted, Offered, Taking, Abandoned, Taken,
                Current, NobodyCopies
  <2>3. QED
    BY <2>1, <2>2
<1>5. QED
  BY <1>1, <1>2, <1>3, <1>4 DEF Sender

\* The steps of the receiver: it copies only in the phase that it has entered
\* with the token, and the cell is not written meanwhile.
LEMMA ReceiverPhase ==
    ASSUME TypeOK, PhaseInv, Receiver \/ ReceiverDies
    PROVE  PhaseInv'
<1> USE DEF TypeOK, Torn, senderVars
<1>0. UNCHANGED <<sPc, seq, acked, cell>>
  BY DEF Receiver, ReceiverDies, ReceiveBegin, ReceiveCopied, ReceivePost, ReceiveTimeout
<1>1. CASE ReceiveBegin
  <2>1. Offered /\ sPc \in {"wait", "dead"}
    BY <1>1 DEF ReceiveBegin, PhaseInv, Resting, Writing, Posted, Taking, Abandoned, Taken
  <2>2. Taking'
    BY <1>0, <1>1, <2>1 DEF ReceiveBegin, Offered, Taking, Current
  <2>3. QED
    BY <1>0, <2>1, <2>2 DEF PhaseInv, Posted
<1>2. CASE ReceiveCopied
  <2>1. Taking /\ sPc \in {"wait", "dead"}
    BY <1>2 DEF ReceiveCopied, PhaseInv, Resting, Writing, Posted, Offered,
                Abandoned, Taken, NobodyCopies
  <2>2. Taking'
    BY <1>0, <1>2, <2>1 DEF ReceiveCopied, Taking, Current
  <2>3. QED
    BY <1>0, <2>1, <2>2 DEF PhaseInv, Posted
<1>3. CASE ReceivePost
  <2>1. Taking /\ sPc \in {"wait", "dead"}
    BY <1>3 DEF ReceivePost, PhaseInv, Resting, Writing, Posted, Offered,
                Abandoned, Taken, NobodyCopies
  <2>2. Taken'
    BY <1>0, <1>3, <2>1 DEF ReceivePost, Taking, Taken, Current, NobodyCopies
  <2>3. QED
    BY <1>0, <2>1, <2>2 DEF PhaseInv, Posted
<1>4. CASE ReceiveTimeout \/ ReceiverDies
  <2>1. /\ UNCHANGED <<produced, consumed, copy, got>>
        /\ rPc' = rPc \/ rPc' = "dead"
    BY <1>4 DEF ReceiveTimeout, ReceiverDies
  <2>2. /\ Resting => Resting'
        /\ Writing => Writing'
        /\ Posted => Posted'
    BY <1>0, <2>1 DEF Resting, Writing, Posted, Offered, Taking, Abandoned, Taken,
                      Current, NobodyCopies
  <2>3. QED
    BY <1>0, <2>2 DEF PhaseInv
<1>5. QED
  BY <1>1, <1>2, <1>3, <1>4 DEF Receiver

\* A message that receive() returns is the one that is due.
LEMMA PostIsDue ==
    ASSUME TypeOK, PhaseInv, ReceivePost
    PROVE  Taking /\ sPc \in {"wait", "dead"}
BY DEF TypeOK, ReceivePost, PhaseInv, Resting, Writing, Posted, Offered,
       Abandoned, Taken, NobodyCopies

\* What was received stays 1, 2, ....
LEMMA StepGot ==
    ASSUME TypeOK, PhaseInv, GotInv, [Next]_vars
    PROVE  GotInv'
<1>1. CASE ReceivePost
  <2>1. got' = Append(got, seq) /\ Len(got) = seq - 1 /\ seq \in Nat /\ got \in Seq(Nat)
    BY <1>1, PostIsDue DEF ReceivePost, Taking, TypeOK
  <2>2. QED
    BY <2>1 DEF GotInv
<1>2. CASE ~ReceivePost
  <2>1. got' = got
    BY <1>2 DEF Next, Sender, Receiver, SendBegin, SendPost, SendAcked, SendTimeout,
                SenderDies, ReceiveBegin, ReceiveCopied, ReceiveTimeout,
                ReceiverDies, vars, senderVars, receiverVars
  <2>2. QED
    BY <2>1 DEF GotInv
<1>3. QED
  BY <1>1, <1>2

\* Each step of either process preserves the inductive invariant.
LEMMA StepInv == IInv /\ [Next]_vars => IInv'
<1> SUFFICES ASSUME IInv, [Next]_vars PROVE IInv'
  OBVIOUS
<1>1. TypeOK' /\ TryInv' /\ GotInv'
  BY StepType, StepTry, StepGot DEF IInv
<1>2. PhaseInv'
  <2>1. CASE UNCHANGED vars
    BY <2>1 DEF IInv, vars, senderVars, receiverVars, PhaseInv, Resting, Writing,
         Posted, Offered, Taking, Abandoned, Taken, Current, NobodyCopies
  <2>2. QED
    BY <2>1, SenderPhase, ReceiverPhase DEF IInv, Next
<1>3. QED
  BY <1>1, <1>2 DEF IInv

\* The two processes never leave the inductive invariant.
LEMMA InductiveInvariant == Spec => []IInv
BY InitInv, StepInv, PTL DEF Spec

-----------------------------------------------------------------------------
\* The type invariant of the shared memory.
THEOREM TypeCorrect == Spec => []TypeOK
<1>1. IInv => TypeOK
  BY DEF IInv
<1>2. QED
  BY <1>1, InductiveInvariant, PTL

\* The semaphores never hold more than the one token of the current message,
\* whatever timed out and whoever ended: no send() is answered by an old receive().
THEOREM AtMostOneToken == Spec => []OneToken
<1>1. IInv => OneToken
  BY DEF IInv, TypeOK, PhaseInv, OneToken, Resting, Writing, Posted, Offered,
         Taking, Abandoned, Taken
<1>2. QED
  BY <1>1, InductiveInvariant, PTL

-----------------------------------------------------------------------------
(***************************************************************************)
(* The refinement.                                                         *)
(***************************************************************************)

\* In every phase but the first, the message is put; a sender that ended in
\* the first one has left a torn cell.
LEMMA PutOfPhase ==
    ASSUME TypeOK, PhaseInv
    PROVE  /\ put \in Nat
           /\ sPc = "idle" => put = seq
           /\ sPc = "copying" => put = seq - 1
           /\ sPc = "wait" => put = seq
           /\ sPc = "dead" /\ (Resting \/ Posted) => put = seq
           /\ sPc = "dead" /\ Writing => put = seq - 1
BY DEF TypeOK, PhaseInv, put, Torn, Resting, Writing, Posted, Offered, Taking,
       Abandoned, Taken, Current

\* Every step of the sender is a step of the channel, or leaves it alone.
LEMMA SenderRefines ==
    ASSUME IInv, IInv', Sender \/ SenderDies
    PROVE  [C!Next]_C!vars
<1> USE DEF IInv, C!vars
<1>0. TypeOK /\ PhaseInv /\ TypeOK' /\ PhaseInv' /\ got' = got
  BY DEF Sender, SenderDies, SendBegin, SendPost, SendAcked, SendTimeout, receiverVars
<1>1. CASE SendBegin
  <2>1. put' = put
    BY <1>0, <1>1 DEF SendBegin, put, TypeOK
  <2>2. (sPc = "dead") = FALSE /\ (sPc' = "dead") = FALSE
    BY <1>1 DEF SendBegin
  <2>3. QED
    BY <1>0, <1>1, <2>1, <2>2 DEF SendBegin
<1>2. CASE SendPost
  <2>1. sPc # "dead" /\ sPc' # "dead"
    BY <1>2 DEF SendPost
  <2>2. put = acked /\ put' = put + 1 /\ acked' = acked
    BY <1>0, <1>2 DEF SendPost, put, TypeOK, PhaseInv, Writing, Current
  <2>3. C!Put
    BY <1>0, <2>1, <2>2 DEF C!Put
  <2>4. QED
    BY <2>3 DEF C!Next
<1>3. CASE SendAcked
  <2>1. sPc # "dead" /\ sPc' # "dead"
    BY <1>3 DEF SendAcked
  <2>2. Taken
    BY <1>0, <1>3 DEF SendAcked, TypeOK, PhaseInv, Posted, Offered, Taking, Abandoned
  <2>3. put' = put /\ put = seq /\ acked' = seq /\ acked < put /\ Len(got) = put
    BY <1>0, <1>3, <2>2 DEF SendAcked, TypeOK, put, Taken, Current
  <2>4. C!Ack
    BY <1>0, <2>1, <2>3 DEF C!Ack
  <2>5. QED
    BY <2>4 DEF C!Next
<1>4. CASE SendTimeout \/ SenderDies
  <2>1. /\ UNCHANGED <<cell, seq, acked>>
        /\ sPc # "dead"
        /\ sPc' = sPc \/ sPc' = "dead"
    BY <1>4 DEF SendTimeout, SenderDies
  <2>2. put' = put
    BY <1>0, <2>1 DEF put, Torn, TypeOK, PhaseInv, Resting, Writing, Posted, Offered,
         Taking, Abandoned, Taken, Current
  <2>3. CASE sPc' = sPc
    BY <1>0, <2>1, <2>2, <2>3
  <2>4. CASE sPc' = "dead"
    <3>1. C!GiveUp
      BY <1>0, <2>1, <2>2, <2>4 DEF C!GiveUp
    <3>2. QED
      BY <3>1 DEF C!Next
  <2>5. QED
    BY <2>1, <2>3, <2>4
<1>5. QED
  BY <1>1, <1>2, <1>3, <1>4 DEF Sender

\* Every step of the receiver is the step Take, or leaves the channel alone.
LEMMA ReceiverRefines ==
    ASSUME IInv, Receiver \/ ReceiverDies
    PROVE  [C!Next]_C!vars
<1>0. /\ UNCHANGED <<sPc, seq, acked, cell>>
      /\ put' = put
      /\ TypeOK /\ PhaseInv
  BY DEF IInv, Receiver, ReceiverDies, ReceiveBegin, ReceiveCopied, ReceivePost,
         ReceiveTimeout, senderVars, put
<1>1. CASE ReceivePost
  <2>1. Taking /\ sPc \in {"wait", "dead"}
    BY <1>0, <1>1, PostIsDue
  <2>2. put = seq /\ Len(got) < put /\ got' = Append(got, put)
    BY <1>0, <1>1, <2>1 DEF ReceivePost, Taking, Current, put, Torn, TypeOK
  <2>3. C!Take
    BY <1>0, <2>2 DEF C!Take
  <2>4. QED
    BY <2>3 DEF C!Next
<1>2. CASE ~ReceivePost
  <2>1. got' = got
    BY <1>2 DEF Receiver, ReceiverDies, ReceiveBegin, ReceiveCopied, ReceiveTimeout
  <2>2. QED
    BY <1>0, <2>1 DEF C!vars
<1>3. QED
  BY <1>1, <1>2

\* The shared memory implements the channel, for every number of attempts and
\* of messages: receive() returns 1, 2, ..., none torn, lost, repeated or out of
\* order, and send() returns true only for a message that was taken.
THEOREM ChannelIsImplemented == Spec => ImplementsChannel
<1>1. Init => C!Init
  BY DEF Init, C!Init, put, Torn
<1>2. IInv /\ IInv' /\ [Next]_vars => [C!Next]_C!vars
  <2>1. CASE UNCHANGED vars
    BY <2>1 DEF vars, senderVars, receiverVars, C!vars, put
  <2>2. QED
    BY <2>1, SenderRefines, ReceiverRefines DEF Next
<1>3. QED
  BY <1>1, <1>2, InductiveInvariant, PTL DEF Spec, ImplementsChannel, C!Spec

=============================================================================
