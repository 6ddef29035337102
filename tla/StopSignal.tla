----------------------------- MODULE StopSignal -----------------------------
(***************************************************************************)
(* How the main thread of a handler waits for messages, and how it is      *)
(* stopped: TTUtilsStopable::stop(), the queue guarded by mQueueMutex and  *)
(* the condition variable mQueueCondition, at the grain at which wake-ups  *)
(* can be lost.  The same protocol is used by                              *)
(*   - TTContactsHandler, whose main() waits without a timeout and whose   *)
(*     heartbeat thread pushes a message every 500 ms (~timedWait);        *)
(*   - TTChatHandler, whose dequeue() waits for at most 500 ms and then    *)
(*     queues a heartbeat itself (timedWait).                              *)
(*                                                                         *)
(* Threads: "main", "beat" (the heartbeat thread: that of                  *)
(* TTContactsHandler pushes, that of TTChatHandler receives the heartbeats *)
(* of the window), "caller" (a thread that calls operations of the         *)
(* handler, each of which pushes) and "owner" (the thread that destroys    *)
(* the handler).  The mutex is held by main exactly in the states of       *)
(* HoldsMutex; a push takes and releases it in one step.                   *)
(***************************************************************************)
EXTENDS Integers

CONSTANTS
    TimedWaits,  \* the kinds of wait that are considered
    MaxQueue     \* the queue is counted up to this bound

ASSUME StopSignalAssumption == TimedWaits \subseteq BOOLEAN /\ MaxQueue \in Nat \ {0}

VARIABLES
    timedWait, \* wait_for() of TTChatHandler, or wait() of TTContactsHandler
    pc,        \* where each thread is
    queue,     \* the number of queued messages, at most MaxQueue
    stopped,   \* mStopped
    once       \* mStoppedOnce: onStopInternal() has run

vars == <<timedWait, pc, queue, stopped, once>>

\* The threads that push, and the ones that may call stop().
Pusher == {"beat", "caller"}

Stopper == {"main", "beat", "owner"}

Pc == [main : {"lock", "check", "block", "blocked", "recheck", "insert",
               "awake", "send", "store", "once", "done"},
       beat : {"test", "push", "notify", "sleep", "receive", "store", "once", "done"},
       caller : {"test", "push", "notify", "sleep", "done"},
       owner : {"run", "store", "once", "join", "done"}]

TypeOK ==
    /\ timedWait \in TimedWaits
    /\ pc \in Pc
    /\ queue \in 0 .. MaxQueue
    /\ stopped \in BOOLEAN
    /\ once \in BOOLEAN

Init ==
    /\ timedWait \in TimedWaits
    /\ pc = [main |-> "lock", beat |-> "test", caller |-> "sleep", owner |-> "run"]
    /\ queue = 0
    /\ stopped = FALSE
    /\ once = FALSE

HoldsMutex == pc.main \in {"check", "block", "recheck", "awake"}

\* notify_one() on mQueueCondition: only a thread that already waits notices.
Notified(p) == IF p.main = "blocked" THEN [p EXCEPT !.main = "check"] ELSE p

Predicate == queue > 0 \/ stopped

-----------------------------------------------------------------------------
(***************************************************************************)
(* stop(), by any of the threads: the flag, then call_once.                *)
(***************************************************************************)
StopStore(t) ==
    /\ pc[t] = "store"
    /\ stopped' = TRUE
    /\ pc' = [pc EXCEPT ![t] = "once"]
    /\ UNCHANGED <<queue, once>>

\* onStopInternal() notifies without mQueueMutex.
StopOnce(t) ==
    /\ pc[t] = "once"
    /\ once' = TRUE
    /\ LET p == [pc EXCEPT ![t] = IF t = "owner" THEN "join" ELSE "done"]
       IN  pc' = IF once THEN p ELSE Notified(p)
    /\ UNCHANGED <<queue, stopped>>

(***************************************************************************)
(* The main thread.                                                        *)
(***************************************************************************)
MainGoes(from, to) ==
    /\ pc.main = from
    /\ pc' = [pc EXCEPT !.main = to]
    /\ UNCHANGED <<stopped, once>>

MainLock == MainGoes("lock", "check") /\ UNCHANGED queue

\* The predicate of the wait is evaluated, under the mutex.
MainCheck ==
    /\ MainGoes("check", IF Predicate THEN "awake" ELSE "block")
    /\ UNCHANGED queue

\* The mutex is released and the thread waits, in one step.
MainBlock == MainGoes("block", "blocked") /\ UNCHANGED queue

\* A wait that never gives up.
MainTimeoutNever == FALSE /\ UNCHANGED <<pc, queue, stopped, once>>

\* wait_for() gives up after 500 ms: the predicate is evaluated a last time.
MainTimeout ==
    /\ timedWait
    /\ MainGoes("blocked", "recheck")
    /\ UNCHANGED queue

MainSpurious == MainGoes("blocked", "check") /\ UNCHANGED queue

MainRecheck ==
    /\ MainGoes("recheck", IF Predicate THEN "awake" ELSE "insert")
    /\ UNCHANGED queue

\* dequeue() queues a heartbeat, outside the scope of the first lock.
MainInsert ==
    /\ MainGoes("insert", IF stopped THEN "store" ELSE "lock")
    /\ queue' = IF ~stopped /\ queue < MaxQueue THEN queue + 1 ELSE queue

\* The last message stays in the queue.
MainAwakeLeavesOne ==
    /\ MainGoes("awake", IF stopped THEN "store" ELSE "send")
    /\ queue' = IF stopped THEN queue ELSE 1

\* Woken by the predicate: a stop ends the loop (with a goodbye), otherwise
\* the whole queue is taken.
MainAwake ==
    /\ MainGoes("awake", IF stopped THEN "store" ELSE "send")
    /\ queue' = IF stopped THEN queue ELSE 0

\* The messages are sent to the window; a stop or a failure ends the loop.
MainSend ==
    /\ \/ MainGoes("send", "lock") /\ ~stopped
       \/ MainGoes("send", "store")
    /\ UNCHANGED queue

(***************************************************************************)
(* The heartbeat thread and the callers.                                   *)
(***************************************************************************)
Goes(t, from, to) ==
    /\ pc[t] = from
    /\ pc' = [pc EXCEPT ![t] = to]
    /\ UNCHANGED <<stopped, once>>

\* A stop ends the heartbeat thread, which calls stop() as well, and refuses
\* the operations of a caller.
Test(t) ==
    /\ Goes(t, "test", IF stopped THEN IF t = "beat" THEN "store" ELSE "done"
                       ELSE IF t = "beat" /\ timedWait THEN "receive" ELSE "push")
    /\ UNCHANGED queue

\* The push does not take mQueueMutex.
PushUnlocked(t) ==
    /\ Goes(t, "push", "notify")
    /\ queue' = IF queue < MaxQueue THEN queue + 1 ELSE queue

Push(t) ==
    /\ Goes(t, "push", "notify")
    /\ ~HoldsMutex
    /\ queue' = IF queue < MaxQueue THEN queue + 1 ELSE queue

Notify(t) ==
    /\ pc[t] = "notify"
    /\ pc' = Notified([pc EXCEPT ![t] = "sleep"])
    /\ UNCHANGED <<queue, stopped, once>>

\* The next heartbeat is due, or the next operation is called.
Wake(t) == Goes(t, "sleep", "test") /\ UNCHANGED queue

\* The chat handler's heartbeat thread has received a heartbeat, or its timed
\* and counted attempts to receive one have failed.
BeatReceive ==
    /\ Goes("beat", "receive", "test") \/ Goes("beat", "receive", "store")
    /\ UNCHANGED queue

(***************************************************************************)
(* The destructor.                                                         *)
(***************************************************************************)
OwnerDestroys ==
    /\ pc.owner = "run"
    /\ pc' = [pc EXCEPT !.owner = "store"]
    /\ UNCHANGED <<queue, stopped, once>>

\* Both destructors wait for the end of main() and of the heartbeat thread.
OwnerJoins ==
    /\ pc.owner = "join"
    /\ pc.main = "done"
    /\ pc.beat = "done"
    /\ pc' = [pc EXCEPT !.owner = "done"]
    /\ UNCHANGED <<queue, stopped, once>>

-----------------------------------------------------------------------------
Main ==
    \/ MainLock \/ MainCheck \/ MainBlock \/ MainTimeout \/ MainRecheck
    \/ MainInsert \/ MainAwake \/ MainSend
    \/ StopStore("main") \/ StopOnce("main")

\* One push, from the test of the flag to the notification.
Operation(t) == Test(t) \/ Push(t) \/ Notify(t)

Beat ==
    \/ Operation("beat") \/ Wake("beat") \/ BeatReceive
    \/ StopStore("beat") \/ StopOnce("beat")

OwnerStops == StopStore("owner") \/ StopOnce("owner") \/ OwnerJoins

Next ==
    /\ \/ Main \/ MainSpurious \/ Beat \/ Operation("caller") \/ Wake("caller")
       \/ OwnerDestroys \/ OwnerStops
    /\ UNCHANGED timedWait

(***************************************************************************)
(* The threads of a handler are scheduled, and its timed calls give up:    *)
(* the wait of the chat handler's main(), the receive of its heartbeat     *)
(* thread, the sends to the window.  An operation that is called is        *)
(* finished, but nobody has to call one.  A spurious wake-up may happen    *)
(* and is not promised.                                                    *)
(***************************************************************************)
Fairness ==
    /\ WF_vars(Main /\ UNCHANGED timedWait)
    /\ WF_vars(OwnerStops /\ UNCHANGED timedWait)
    /\ WF_vars(Beat /\ UNCHANGED timedWait)
    /\ WF_vars(Operation("caller") /\ UNCHANGED timedWait)

Spec == Init /\ [][Next]_vars

FairSpec == Spec /\ Fairness

-----------------------------------------------------------------------------
\* The wake-up of a push is never lost: when main() waits although there is
\* a message, a thread that has pushed is about to notify it.
NoLostMessage ==
    (pc.main = "blocked" /\ queue > 0) => \E t \in Pusher : pc[t] = "notify"

\* A message that is pushed is taken by main(), unless the handler is stopped.
PushedIsTaken == (queue > 0) ~> (queue = 0 \/ stopped)

\* The destructor of the chat handler, once called, returns after the end of
\* both threads: the timeouts make up for a notification of stop() that comes
\* between main()'s test of the predicate and its wait, and for a heartbeat
\* thread that has just begun to receive.
ChatDestructorReturns == (timedWait /\ pc.owner = "store") ~> (pc.owner = "done")

\* Either destructor, once called, returns: stop() reaches the main thread
\* whatever it was doing ("Wait until main thread is destroyed").
DestructorReturns == (pc.owner = "store") ~> (pc.owner = "done")

=============================================================================
