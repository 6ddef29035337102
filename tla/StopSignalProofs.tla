-------------------------- MODULE StopSignalProofs --------------------------
(***************************************************************************)
(* Proofs about StopSignal, for both kinds of wait and every bound of the  *)
(* queue: the type invariant and NoLostMessage.                            *)
(***************************************************************************)
EXTENDS StopSignal, TLAPS

(***************************************************************************)
(* The inductive invariant.  NoLostMessage needs to know what main() has   *)
(* seen: between the test of the predicate and the wait it holds the       *)
(* mutex, so nothing is pushed and the queue it found empty stays empty.   *)
(***************************************************************************)
BlocksEmpty == pc.main = "block" => queue = 0

IInv == TypeOK /\ BlocksEmpty /\ NoLostMessage

-----------------------------------------------------------------------------
\* A change of main()'s place keeps pc a place for every thread.
LEMMA PcUpdate ==
    ASSUME NEW p \in Pc
    PROVE  \A x \in {"lock", "check", "block", "blocked", "recheck", "insert",
                     "awake", "send", "store", "once", "done"} :
              /\ [p EXCEPT !.main = x] \in Pc
              /\ [p EXCEPT !.main = x].main = x
              /\ \A t \in Pusher : [p EXCEPT !.main = x][t] = p[t]
BY DEF Pc, Pusher

\* A notification changes nothing but a main() that waits, and wakes it.
LEMMA NotifiedProperties ==
    ASSUME NEW p \in Pc
    PROVE  /\ Notified(p) \in Pc
           /\ \A t \in Pusher : Notified(p)[t] = p[t]
           /\ Notified(p).main # "blocked"
           /\ Notified(p).main \in {p.main, "check"}
BY DEF Pc, Pusher, Notified

\* The bound of the queue.
LEMMA QueueRange ==
    ASSUME NEW q \in 0 .. MaxQueue
    PROVE  /\ q < MaxQueue => q + 1 \in 0 .. MaxQueue
           /\ 0 \in 0 .. MaxQueue
           /\ q \in Nat
BY StopSignalAssumption

\* The handler starts with an empty queue.
LEMMA InitInv == Init => IInv
<1> SUFFICES ASSUME Init PROVE IInv
  OBVIOUS
<1>1. stopped \in BOOLEAN /\ once \in BOOLEAN /\ timedWait \in TimedWaits
  BY DEF Init
<1>2. queue \in 0 .. MaxQueue /\ pc \in Pc
  BY StopSignalAssumption DEF Init, Pc
<1>3. BlocksEmpty /\ NoLostMessage
  BY DEF Init, BlocksEmpty, NoLostMessage
<1>4. QED
  BY <1>1, <1>2, <1>3 DEF IInv, TypeOK

\* The flags of stop() stay flags, and a handler keeps its kind of wait.
LEMMA FlagsInv ==
    ASSUME TypeOK, [Next]_vars
    PROVE  stopped' \in BOOLEAN /\ once' \in BOOLEAN /\ timedWait' \in TimedWaits
<1>1. CASE UNCHANGED vars
  BY <1>1 DEF TypeOK, vars
<1>2. CASE Next
  <2>1. timedWait' \in TimedWaits
    BY <1>2 DEF Next, TypeOK
  <2>2. stopped' \in {TRUE, stopped} /\ once' \in {TRUE, once}
    BY <1>2 DEF Next, Main, Beat, Operation, OwnerStops, StopStore, StopOnce,
         MainGoes, Goes, MainLock, MainCheck, MainBlock, MainTimeout, MainSpurious,
         MainRecheck, MainInsert, MainAwake, MainSend, Test, Push, Notify, Wake,
         BeatReceive, OwnerDestroys, OwnerJoins
  <2>3. QED
    BY <2>1, <2>2 DEF TypeOK
<1>3. QED
  BY <1>1, <1>2

\* What a step has to show of the queue and of the places of the threads.
Core ==
    /\ pc \in Pc
    /\ queue \in 0 .. MaxQueue
    /\ BlocksEmpty
    /\ NoLostMessage

\* A step that leaves the queue alone, does not let main() wait and takes no
\* thread away from its notification keeps the core.
LEMMA QuietCore ==
    ASSUME Core, pc' \in Pc, queue' = queue,
           pc'.main = "block" => pc.main = "block",
           pc'.main = "blocked" => pc.main = "blocked",
           \A t \in Pusher : pc[t] = "notify" => pc'[t] = "notify"
    PROVE  Core'
BY DEF Core, BlocksEmpty, NoLostMessage

\* The steps of stop() neither fill the queue nor let main() wait.
LEMMA StopCore ==
    ASSUME Core, NEW t \in Stopper, StopStore(t) \/ StopOnce(t)
    PROVE  Core'
<1> DEFINE p == [pc EXCEPT ![t] = IF t = "owner" THEN "join" ELSE "done"]
<1>1. CASE StopStore(t)
  <2>1. /\ pc' \in Pc /\ queue' = queue
        /\ pc'.main \in {pc.main, "once"}
        /\ \A u \in Pusher : pc[u] = "notify" => pc'[u] = "notify"
    BY <1>1 DEF Core, StopStore, Stopper, Pusher, Pc
  <2>2. QED
    BY <2>1, QuietCore
<1>2. CASE StopOnce(t)
  <2>1. /\ p \in Pc /\ p.main \in {pc.main, "done"}
        /\ \A u \in Pusher : pc[u] = "notify" => p[u] = "notify"
    BY <1>2 DEF Core, StopOnce, Stopper, Pusher, Pc
  <2>2. pc' = p \/ pc' = Notified(p)
    BY <1>2 DEF StopOnce
  <2>3. queue' = queue
    BY <1>2 DEF StopOnce
  <2> HIDE DEF p
  <2>4. CASE pc' = p
    BY <2>1, <2>3, <2>4, QuietCore
  <2>5. CASE pc' = Notified(p)
    BY <2>1, <2>3, <2>5, NotifiedProperties, QuietCore
  <2>6. QED
    BY <2>2, <2>4, <2>5
<1>3. QED
  BY <1>1, <1>2

\* A push waits for the mutex, so main() is not between its test and its wait;
\* and a thread that has pushed notifies.
LEMMA OperationCore ==
    ASSUME Core, NEW t \in Pusher, Operation(t) \/ Wake(t)
    PROVE  Core'
<1>0. pc \in Pc /\ queue \in 0 .. MaxQueue
  BY DEF Core
<1>1. CASE Test(t)
  <2>1. /\ \/ t = "beat" /\ pc' = [pc EXCEPT !["beat"] = "store"]
           \/ t = "beat" /\ pc' = [pc EXCEPT !["beat"] = "receive"]
           \/ pc' = [pc EXCEPT ![t] = "done"]
           \/ pc' = [pc EXCEPT ![t] = "push"]
        /\ pc[t] = "test" /\ queue' = queue
    BY <1>1 DEF Test, Goes
  <2>2. /\ pc' \in Pc /\ pc'.main = pc.main
        /\ \A u \in Pusher \ {t} : pc'[u] = pc[u]
    BY <1>0, <2>1 DEF Pc, Pusher
  <2>3. QED
    BY <2>1, <2>2, QuietCore
<1>2. CASE Push(t)
  <2>1. queue' \in 0 .. MaxQueue
    BY <1>0, <1>2, QueueRange DEF Push
  <2>2. /\ pc' \in Pc /\ pc'[t] = "notify" /\ pc'.main # "block"
    BY <1>0, <1>2 DEF Push, Goes, HoldsMutex, Pc, Pusher
  <2>3. QED
    BY <2>1, <2>2 DEF Core, BlocksEmpty, NoLostMessage
<1>3. CASE Notify(t)
  <2> DEFINE p == [pc EXCEPT ![t] = "sleep"]
  <2>1. p \in Pc /\ p.main = pc.main
    BY <1>0 DEF Pc, Pusher
  <2>2. pc' = Notified(p) /\ queue' = queue
    BY <1>3 DEF Notify
  <2> HIDE DEF p
  <2>3. /\ pc' \in Pc /\ pc'.main # "blocked" /\ pc'.main \in {pc.main, "check"}
    BY <2>1, <2>2, NotifiedProperties
  <2>4. QED
    BY <2>2, <2>3 DEF Core, BlocksEmpty, NoLostMessage
<1>4. CASE Wake(t)
  <2>1. pc[t] = "sleep" /\ pc' = [pc EXCEPT ![t] = "test"] /\ queue' = queue
    BY <1>4 DEF Wake, Goes
  <2>2. /\ pc' \in Pc /\ pc'.main = pc.main
        /\ \A u \in Pusher \ {t} : pc'[u] = pc[u]
    BY <1>0, <2>1 DEF Pc, Pusher
  <2>3. QED
    BY <2>1, <2>2, QuietCore
<1>5. QED
  BY <1>1, <1>2, <1>3, <1>4 DEF Operation

\* Every step of every thread keeps the queue and the places in order.
LEMMA StepCore ==
    ASSUME Core, [Next]_vars
    PROVE  Core'
<1> USE DEF Core, BlocksEmpty, NoLostMessage
<1>0. /\ pc \in Pc /\ queue \in 0 .. MaxQueue /\ queue \in Nat
  BY QueueRange
<1>1. CASE MainLock
  BY <1>0, <1>1, PcUpdate DEF MainLock, MainGoes
\* Main blocks only when it has seen, under the mutex, that there is nothing.
<1>2. CASE MainCheck
  <2>1. ~(queue > 0) => queue = 0
    BY <1>0
  <2>2. ~Predicate => queue = 0
    BY <2>1 DEF Predicate
  <2>3. pc' = [pc EXCEPT !.main = "awake"] \/ (queue = 0 /\ pc' = [pc EXCEPT !.main = "block"])
    BY <1>2, <2>2 DEF MainCheck, MainGoes
  <2>4. /\ pc' \in Pc /\ pc'.main # "blocked"
        /\ pc'.main = "block" => queue = 0
    BY <1>0, <2>3 DEF Pc
  <2>5. queue' = queue
    BY <1>2 DEF MainCheck
  <2>6. QED
    BY <1>0, <2>4, <2>5
<1>3. CASE MainBlock
  <2>1. /\ pc' \in Pc /\ pc'.main = "blocked" /\ pc.main = "block"
    BY <1>0, <1>3, PcUpdate DEF MainBlock, MainGoes
  <2>2. queue' = queue /\ queue = 0
    BY <1>3, <2>1 DEF MainBlock
  <2>3. QED
    BY <1>0, <2>1, <2>2
<1>4. CASE MainTimeout
  BY <1>0, <1>4, PcUpdate DEF MainTimeout, MainGoes
<1>5. CASE MainSpurious
  BY <1>0, <1>5, PcUpdate DEF MainSpurious, MainGoes
<1>6. CASE MainRecheck
  BY <1>0, <1>6, PcUpdate DEF MainRecheck, MainGoes
<1>7. CASE MainInsert
  <2>1. queue' \in 0 .. MaxQueue
    BY <1>0, <1>7, QueueRange DEF MainInsert
  <2>2. QED
    BY <1>0, <1>7, <2>1, PcUpdate DEF MainInsert, MainGoes
<1>8. CASE MainAwake
  <2>1. queue' \in 0 .. MaxQueue
    BY <1>0, <1>8, QueueRange DEF MainAwake
  <2>2. QED
    BY <1>0, <1>8, <2>1, PcUpdate DEF MainAwake, MainGoes
<1>9. CASE MainSend
  <2>1. /\ pc' = [pc EXCEPT !.main = "lock"] \/ pc' = [pc EXCEPT !.main = "store"]
        /\ queue' = queue
    BY <1>9 DEF MainSend, MainGoes
  <2>2. QED
    BY <1>0, <2>1 DEF Pc
<1>10. CASE \E t \in Pusher : Operation(t) \/ Wake(t)
  BY <1>10, OperationCore
<1>11. CASE BeatReceive
  <2>1. /\ pc["beat"] = "receive" /\ queue' = queue
        /\ \/ pc' = [pc EXCEPT !["beat"] = "test"]
           \/ pc' = [pc EXCEPT !["beat"] = "store"]
    BY <1>11 DEF BeatReceive, Goes
  <2>2. pc' \in Pc /\ pc'.main = pc.main /\ pc'.caller = pc.caller
    BY <1>0, <2>1 DEF Pc
  <2>3. QED
    BY <2>1, <2>2, QuietCore DEF Pusher
<1>12. CASE OwnerDestroys
  <2>1. /\ pc' \in Pc /\ queue' = queue /\ pc'.main = pc.main
        /\ \A t \in Pusher : pc'[t] = pc[t]
    BY <1>0, <1>12 DEF OwnerDestroys, Pc, Pusher
  <2>2. QED
    BY <2>1, QuietCore
<1>13. CASE OwnerJoins
  <2>1. /\ pc' \in Pc /\ queue' = queue /\ pc'.main = pc.main
        /\ \A t \in Pusher : pc'[t] = pc[t]
    BY <1>0, <1>13 DEF OwnerJoins, Pc, Pusher
  <2>2. QED
    BY <2>1, QuietCore
<1>14. CASE \E t \in Stopper : StopStore(t) \/ StopOnce(t)
  BY <1>14, StopCore
<1>15. CASE UNCHANGED vars
  BY <1>15 DEF vars
<1>16. QED
  BY <1>1, <1>2, <1>3, <1>4, <1>5, <1>6, <1>7, <1>8, <1>9, <1>10, <1>11, <1>12,
     <1>13, <1>14, <1>15
     DEF Next, Main, Beat, OwnerStops, Stopper, Pusher

\* Every step of every thread preserves the inductive invariant.
LEMMA StepInv == IInv /\ [Next]_vars => IInv'
<1> SUFFICES ASSUME IInv, [Next]_vars PROVE IInv'
  OBVIOUS
<1>1. Core
  BY DEF IInv, TypeOK, Core
<1>2. Core'
  BY <1>1, StepCore
<1>3. stopped' \in BOOLEAN /\ once' \in BOOLEAN /\ timedWait' \in TimedWaits
  BY FlagsInv DEF IInv
<1>4. QED
  BY <1>2, <1>3 DEF IInv, TypeOK, Core

\* The handler never leaves the inductive invariant.
LEMMA InductiveInvariant == Spec => []IInv
BY InitInv, StepInv, PTL DEF Spec

-----------------------------------------------------------------------------
\* The type invariant of the wait and of stop().
THEOREM TypeCorrect == Spec => []TypeOK
<1>1. IInv => TypeOK
  BY DEF IInv
<1>2. QED
  BY <1>1, InductiveInvariant, PTL

\* The wake-up of a push is never lost, for both kinds of wait and however
\* long the queue: a main() that waits beside a message is about to be notified.
THEOREM NoWakeUpLost == Spec => []NoLostMessage
<1>1. IInv => NoLostMessage
  BY DEF IInv
<1>2. QED
  BY <1>1, InductiveInvariant, PTL

=============================================================================
