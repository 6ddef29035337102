-------------------------------- MODULE Chat --------------------------------
(***************************************************************************)
(* The chat window and its handler in the engine: TTChatHandler and its    *)
(* threads main() and heartbeat(), the two message queues, TTChat and its  *)
(* threads run() and heartbeat().  Callers of the handler are serialised   *)
(* by mMessagesMutex, but what they queue is taken by main() meanwhile.    *)
(* A queue operation is tried Attempts times, each process may be stopped  *)
(* or die at any moment.                                                   *)
(***************************************************************************)
EXTENDS ChatMessages, FiniteSets

CONSTANTS
    QueueSize,      \* capacity of a message queue (8 in the code)
    Attempts,       \* attempts of a queue operation (3 in the code)
    MaxContacts,    \* bound on the conversations
    MaxMessages,    \* bound on the entries stored, all conversations together
    MaxQueued,      \* a selection is only made while fewer messages are queued
    Lengths         \* lengths of the texts

ASSUME ChatAssumption ==
    /\ QueueSize \in Nat \ {0}
    /\ Attempts \in Nat \ {0}
    /\ {MaxContacts, MaxMessages, MaxQueued} \subseteq Nat
    /\ Lengths \subseteq Nat

VARIABLES
    mMessages,     \* the conversations, each a sequence of entries
    mCurrentId,    \* the selected conversation, or NoId
    call,          \* what the caller that holds mMessagesMutex has yet to queue
    mQueued,       \* mQueuedMessages
    batch,         \* what main() has dequeued and not sent
    primary,       \* the queue from main() to run()
    secondary,     \* the queue of heartbeats from the window to the handler
    window,        \* the window's chunks and its screen
    refused,       \* a message has been refused by handle()
    stopped,       \* isStopped() of each process
    pc,            \* where each thread is
    try            \* the attempts its queue operation has left

storageVars == <<mMessages, mCurrentId, call>>
windowVars == <<window, refused>>
threadVars == <<stopped, pc, try>>
vars == <<storageVars, mQueued, batch, primary, secondary, windowVars, threadVars>>

NoId == 0
Ids == 1 .. MaxContacts

HandlerThreads == {"main", "heartbeat"}
WindowThreads == {"run", "beat"}
Threads == HandlerThreads \cup WindowThreads
ProcessOf(t) == IF t \in HandlerThreads THEN "handler" ELSE "window"

\* The entries stored, all conversations together.
Stored == Cardinality(UNION {{id} \X (1 .. Len(mMessages[id])) : id \in 1 .. Len(mMessages)})

Heartbeat == Message("HEARTBEAT", <<>>)
Goodbye == Message("GOODBYE", <<>>)

\* Both constructors have returned: the queues exist and are open.
Init ==
    /\ mMessages = <<>>
    /\ mCurrentId = NoId
    /\ call = <<>>
    /\ mQueued = <<>>
    /\ batch = <<>>
    /\ primary = <<>>
    /\ secondary = <<>>
    /\ window = EmptyWindow
    /\ refused = FALSE
    /\ stopped = [p \in {"handler", "window"} |-> FALSE]
    /\ pc = [t \in Threads |-> IF t = "main" THEN "dequeue" ELSE "loop"]
    /\ try = [t \in Threads |-> Attempts]

-----------------------------------------------------------------------------
(***************************************************************************)
(* Threads.                                                                *)
(***************************************************************************)
At(t, place) == pc[t] = place

Goto(t, place) ==
    /\ pc' = [pc EXCEPT ![t] = place]
    /\ try' = [try EXCEPT ![t] = Attempts]
    /\ UNCHANGED stopped

\* Every loop is followed by stop().
Ends(t) ==
    /\ pc' = [pc EXCEPT ![t] = "ended"]
    /\ try' = [try EXCEPT ![t] = Attempts]
    /\ stopped' = [stopped EXCEPT ![ProcessOf(t)] = TRUE]

\* The operation has succeeded; the loop asks isStopped() and goes on.
Again(t) == IF stopped[ProcessOf(t)] THEN Ends(t) ELSE Goto(t, "loop")

\* The attempts are not counted.
RetryForever(t, place) ==
    /\ At(t, place)
    /\ UNCHANGED <<pc, try, stopped>>

\* A timed attempt of a queue operation is over.  After the last one it
\* returns false: sendGoodbye() follows a failed send, stop() any other one.
TimedOut(t, place) ==
    /\ At(t, place)
    /\ IF try[t] > 1
       THEN try' = [try EXCEPT ![t] = @ - 1] /\ UNCHANGED <<pc, stopped>>
       ELSE IF place = "send" THEN Goto(t, "goodbye") ELSE Ends(t)

IsFull(queue) == Len(queue) = QueueSize

-----------------------------------------------------------------------------
(***************************************************************************)
(* TTChatHandler: create(), send(), receive() and select().                *)
(***************************************************************************)
Free == ~stopped["handler"] /\ call = <<>>

Create ==
    /\ Free
    /\ mMessages' = Append(mMessages, <<>>)
    /\ UNCHANGED <<mCurrentId, call, mQueued, batch, primary, secondary,
                   windowVars, threadVars>>

\* An entry is stored under its conversation, and then queued if it is shown.
Store(id, entry, shown) ==
    /\ mMessages' = [mMessages EXCEPT ![id] = Append(@, entry)]
    /\ call' = IF shown THEN <<entry>> ELSE <<>>
    /\ UNCHANGED <<mCurrentId, mQueued, batch, primary, secondary,
                   windowVars, threadVars>>

Send(id, length) ==
    /\ Free
    /\ mCurrentId = id
    /\ Store(id, Message("SENDER", Text(Stored + 1, length)), TRUE)

\* Whatever has been received is shown.
IsShownAlways(id) == TRUE

IsShown(id) == mCurrentId = id

Receive(id, length) ==
    /\ Free
    /\ id <= Len(mMessages)
    /\ Store(id, Message("RECEIVER", Text(Stored + 1, length)), IsShown(id))

\* The screen is not cleared.
ClearNothing == <<>>

\* The screen is cleared when it shows another conversation.
ClearFirst == IF mCurrentId = NoId THEN <<>> ELSE <<Message("CLEAR", <<>>)>>

Select(id) ==
    /\ Free
    /\ id <= Len(mMessages)
    /\ mCurrentId # id
    /\ mCurrentId' = id
    /\ mQueued' = mQueued \o ClearFirst
    /\ call' = mMessages[id]
    /\ UNCHANGED <<mMessages, batch, primary, secondary, windowVars, threadVars>>

\* Only the next message of an entry is queued before the mutex is released.
QueuedHead(entry) == <<Head(Chunks(entry))>>

QueuedWhole(entry) == Chunks(entry)

\* The caller queues the messages of one entry, at once, under mQueueMutex.
Queue ==
    /\ call # <<>>
    /\ IF stopped["handler"]
       THEN call' = <<>> /\ UNCHANGED mQueued
       ELSE call' = Tail(call) /\ mQueued' = mQueued \o QueuedWhole(Head(call))
    /\ UNCHANGED <<mMessages, mCurrentId, batch, primary, secondary,
                   windowVars, threadVars>>

-----------------------------------------------------------------------------
(***************************************************************************)
(* TTChatHandler::main(): dequeue(), the sends, sendGoodbye().             *)
(***************************************************************************)
Dequeue ==
    /\ At("main", "dequeue")
    /\ IF stopped["handler"]
       THEN Goto("main", "goodbye") /\ UNCHANGED <<mQueued, batch>>
       ELSE IF mQueued # <<>>
       THEN Goto("main", "send") /\ batch' = mQueued /\ mQueued' = <<>>
       ELSE Goto("main", "idle") /\ UNCHANGED <<mQueued, batch>>
    /\ UNCHANGED <<storageVars, primary, secondary, windowVars>>

\* The wait has timed out: a heartbeat is queued behind what came meanwhile.
QueueHeartbeat ==
    /\ At("main", "idle")
    /\ IF stopped["handler"]
       THEN Goto("main", "goodbye") /\ UNCHANGED mQueued
       ELSE Goto("main", "dequeue") /\ mQueued' = Append(mQueued, Heartbeat)
    /\ UNCHANGED <<storageVars, batch, primary, secondary, windowVars>>

\* The rest of the batch, unless the handler has been stopped.
NextMessage ==
    IF Len(batch) = 1 THEN Goto("main", "dequeue")
    ELSE IF stopped["handler"] THEN Goto("main", "goodbye") ELSE Goto("main", "send")

MainSend ==
    /\ At("main", "send")
    /\ \/ /\ ~IsFull(primary)
          /\ primary' = Append(primary, Head(batch))
          /\ batch' = Tail(batch)
          /\ NextMessage
       \/ /\ IsFull(primary)
          /\ TimedOut("main", "send")
          /\ UNCHANGED <<primary, batch>>
    /\ UNCHANGED <<storageVars, mQueued, secondary, windowVars>>

SendGoodbye ==
    /\ At("main", "goodbye")
    /\ \/ ~IsFull(primary) /\ primary' = Append(primary, Goodbye) /\ Ends("main")
       \/ IsFull(primary) /\ TimedOut("main", "goodbye") /\ UNCHANGED primary
    /\ UNCHANGED <<storageVars, mQueued, batch, secondary, windowVars>>

\* TTChatHandler::heartbeat().
ReceiveHeartbeat ==
    /\ At("heartbeat", "loop")
    /\ \/ /\ secondary # <<>>
          /\ secondary' = Tail(secondary)
          /\ IF Head(secondary) = Heartbeat THEN Again("heartbeat") ELSE Ends("heartbeat")
       \/ secondary = <<>> /\ TimedOut("heartbeat", "loop") /\ UNCHANGED secondary
    /\ UNCHANGED <<storageVars, mQueued, batch, primary, windowVars>>

-----------------------------------------------------------------------------
(***************************************************************************)
(* TTChat: heartbeat() and run() with handle().                            *)
(***************************************************************************)
SendHeartbeat ==
    /\ At("beat", "loop")
    /\ \/ ~IsFull(secondary) /\ secondary' = Append(secondary, Heartbeat) /\ Again("beat")
       \/ IsFull(secondary) /\ TimedOut("beat", "loop") /\ UNCHANGED secondary
    /\ UNCHANGED <<storageVars, mQueued, batch, primary, windowVars>>

\* A goodbye or an unknown message.
Leaves(m) == m.type \notin MessageTypes \ {"GOODBYE"}

\* handle() returns false and run() ends.
HandleFails(m) ==
    /\ Refuses(window, m) \/ Leaves(m)
    /\ refused' = Refuses(window, m)
    /\ Ends("run")
    /\ UNCHANGED window

Handle(m) ==
    /\ ~Refuses(window, m) /\ ~Leaves(m)
    /\ window' = Handled(window, m)
    /\ Again("run")
    /\ UNCHANGED refused

Run ==
    /\ At("run", "loop")
    /\ \/ /\ primary # <<>>
          /\ primary' = Tail(primary)
          /\ HandleFails(Head(primary)) \/ Handle(Head(primary))
       \/ /\ primary = <<>>
          /\ TimedOut("run", "loop")
          /\ UNCHANGED <<primary, windowVars>>
    /\ UNCHANGED <<storageVars, mQueued, batch, secondary>>

-----------------------------------------------------------------------------
(***************************************************************************)
(* Stops and faults.                                                       *)
(***************************************************************************)
\* A queue operation returns false at once because a system call fails or is
\* interrupted, or the thread sees a stop just before the operation.
Interrupted(t) ==
    /\ pc[t] \in {"loop", "send", "goodbye"}
    /\ IF At(t, "send") THEN Goto(t, "goodbye") ELSE Ends(t)
    /\ UNCHANGED <<storageVars, mQueued, batch, primary, secondary, windowVars>>

\* stop() from the engine, from a signal or from a destructor.
Stop(p) ==
    /\ ~stopped[p]
    /\ stopped' = [stopped EXCEPT ![p] = TRUE]
    /\ UNCHANGED <<storageVars, mQueued, batch, primary, secondary, windowVars, pc, try>>

\* The process dies: nothing is said to the other one.
Die(p) ==
    /\ \E t \in Threads : ProcessOf(t) = p /\ ~At(t, "ended")
    /\ stopped' = [stopped EXCEPT ![p] = TRUE]
    /\ pc' = [t \in Threads |-> IF ProcessOf(t) = p THEN "ended" ELSE pc[t]]
    /\ call' = IF p = "handler" THEN <<>> ELSE call
    /\ UNCHANGED <<mMessages, mCurrentId, mQueued, batch, primary, secondary,
                   windowVars, try>>

Caller ==
    \/ Len(mMessages) < MaxContacts /\ Create
    \/ Stored < MaxMessages
          /\ \E id \in Ids, length \in Lengths : Send(id, length) \/ Receive(id, length)
    \/ Len(mQueued) < MaxQueued /\ \E id \in Ids : Select(id)

Main == Dequeue \/ QueueHeartbeat \/ MainSend \/ SendGoodbye
Others == ReceiveHeartbeat \/ SendHeartbeat \/ Run

Next ==
    \/ Caller \/ Queue \/ Main \/ Others
    \/ \E t \in Threads : Interrupted(t)
    \/ \E p \in {"handler", "window"} : Stop(p) \/ Die(p)

Spec == Init /\ [][Next]_vars

-----------------------------------------------------------------------------
StorageType ==
    /\ mMessages \in Seq(Seq(Entries)) /\ Len(mMessages) <= MaxContacts
    /\ mCurrentId \in 0 .. Len(mMessages)
    /\ call \in Seq(Entries)

QueueType ==
    /\ mQueued \in Seq(Messages) /\ batch \in Seq(Messages)
    /\ primary \in Seq(Messages) /\ Len(primary) <= QueueSize
    /\ secondary \in Seq(Messages) /\ Len(secondary) <= QueueSize

WindowType == window \in WindowStates /\ refused \in BOOLEAN

MainPlaces == {"dequeue", "idle", "send", "goodbye", "ended"}
LoopPlaces == {"loop", "ended"}

ThreadType ==
    /\ stopped \in [{"handler", "window"} -> BOOLEAN]
    /\ pc \in [Threads -> MainPlaces \cup LoopPlaces]
    /\ \A t \in Threads : pc[t] \in IF t = "main" THEN MainPlaces ELSE LoopPlaces
    /\ try \in [Threads -> 1 .. Attempts]

\* Every variable has its type; a message holds at most MAX_DATA_LENGTH
\* characters, and a queue at most QueueSize messages.
TypeOK == StorageType /\ QueueType /\ WindowType /\ ThreadType

\* What is on its way to the window, oldest first.
OnItsWay == primary \o batch \o mQueued

Selected == IF mCurrentId = NoId THEN <<>> ELSE mMessages[mCurrentId]

\* While the handler runs, the window has refused no message: chunks of
\* different texts are never mixed and a clear never falls between chunks.
\* While the window runs too, it refuses none of the messages that are on
\* their way (in the primary queue, main()'s batch and mQueuedMessages), and
\* its screen, once it has handled them, shows the selected conversation but
\* for the entries that a caller has yet to queue: every text whole, once, in
\* the order of the storage, and nothing else.
ScreenWillShowSelection ==
    LET after == Windows(window, OnItsWay)
        last == after[Len(OnItsWay)]
    IN ~stopped["handler"] /\ ~At("main", "goodbye") =>
           /\ ~refused
           /\ ~stopped["window"] =>
                 /\ \A k \in 1 .. Len(OnItsWay) : ~Refuses(after[k - 1], OnItsWay[k])
                 /\ last.chunks = <<>>
                 /\ last.screen \o call = Selected

\* The screen never shows the texts of two conversations, a text that is not
\* stored, or one out of order: it is a prefix of one conversation, also when
\* either process stops or dies in the middle of a selection.
OneConversationOnScreen ==
    window.screen = <<>> \/ \E id \in 1 .. Len(mMessages) : IsPrefix(window.screen, mMessages[id])

\* An entry of the selected conversation comes to the screen, unless another
\* conversation is selected or a process stops.
EntryIsShown ==
    \A id \in Ids, k \in 1 .. MaxMessages :
        (mCurrentId = id /\ Len(mMessages[id]) >= k)
            ~> (Len(window.screen) >= k \/ mCurrentId # id \/ \E p \in DOMAIN stopped : stopped[p])

\* When one process stops or dies, every thread of both ends: no thread waits
\* for ever on a full or an empty queue, so neither destructor hangs.
EveryThreadEnds ==
    (\E p \in DOMAIN stopped : stopped[p]) ~> (\A t \in Threads : At(t, "ended"))

=============================================================================
