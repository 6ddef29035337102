------------------------------ MODULE TextBox ------------------------------
(***************************************************************************)
(* The textbox and its handler in the engine.  create() of the named pipe  *)
(* opens it for writing without blocking, open() of the handler blocks     *)
(* until there is a writer: the two find each other or one gives up.  Then *)
(* TTTextBox has its thread main(), its detached reader asynchronousRead() *)
(* and wait() of the application; TTTextBoxHandler has its thread main()   *)
(* and the callbacks.  The pipe never blocks a writer and has no timeout   *)
(* for a reader.                                                           *)
(***************************************************************************)
EXTENDS TextBoxInput, FiniteSets

CONSTANTS
    Attempts,             \* attempts to open the pipe (5 in the code)
    Lines,                \* the lines that may be typed
    MaxLines,             \* bound on the number of lines
    PipeCapacity,         \* messages the pipe holds
    RECEIVE_TRY_COUNT     \* failed reads in a row that end the handler

ASSUME TextBoxAssumption ==
    /\ Attempts \in Nat \ {0}
    /\ \A line \in Lines : line.data \in Seq(Nat)
    /\ MaxLines \in Nat
    /\ PipeCapacity \in Nat \ {0}
    /\ RECEIVE_TRY_COUNT \in Nat \ {0}

VARIABLES
    fifo,          \* the file of the named pipe exists
    opens,         \* the attempts each side has left to open it
    typed,         \* the messages the input has asked for so far
    nLines,        \* the number of lines read
    pending,       \* what the reader thread has yet to queue
    mQueued,       \* mQueuedMessages
    batch,         \* what main() has taken and not sent
    pipe,          \* the named pipe
    writerOpen,    \* its ends
    readerOpen,
    delivered,     \* the messages given to the callbacks
    stopped,       \* isStopped() of each process
    pc,            \* where each thread is
    lost,          \* the application has missed the notification of the stop
    try            \* the failed reads the handler has left

openVars == <<fifo, opens>>
inputVars == <<typed, nLines, pending>>
pipeVars == <<pipe, writerOpen, readerOpen>>
vars == <<openVars, inputVars, mQueued, batch, pipeVars, delivered, stopped, pc, lost, try>>

BoxThreads == {"application", "main", "reader"}
Threads == BoxThreads \cup {"handler"}

\* A textbox that has died leaves its file behind.
Init ==
    /\ fifo \in BOOLEAN /\ opens = [t \in {"application", "handler"} |-> Attempts]
    /\ typed = <<>> /\ nLines = 0 /\ pending = <<>>
    /\ mQueued = <<>> /\ batch = <<>>
    /\ pipe = <<>> /\ writerOpen = FALSE /\ readerOpen = FALSE
    /\ delivered = <<>>
    /\ stopped = [p \in {"textbox", "engine"} |-> FALSE]
    /\ pc = [t \in Threads |->
                CASE t = "application" -> "create" [] t = "handler" -> "open" [] OTHER -> "none"]
    /\ lost = FALSE
    /\ try = RECEIVE_TRY_COUNT

At(t, place) == pc[t] = place

Goto(t, place) == pc' = [pc EXCEPT ![t] = place] /\ UNCHANGED <<stopped, lost>>

\* stop() of the textbox, by thread t that goes to place: the flag is stored
\* and the application notified, which only a blocked wait() notices.
StopBox(t, place) ==
    LET first == ~stopped["textbox"]
    IN /\ stopped' = [stopped EXCEPT !["textbox"] = TRUE]
       /\ lost' = (lost \/ (first /\ At("application", "checked")))
       /\ pc' = [pc EXCEPT ![t] = place,
                           !["application"] =
                               IF first /\ @ = "blocked" THEN "join" ELSE @]

-----------------------------------------------------------------------------
(***************************************************************************)
(* TTUtilsNamedPipe: create() and open(), in the two constructors.         *)
(***************************************************************************)
exchangeVars == <<inputVars, mQueued, batch, pipe, delivered, lost, try>>

MakeFifo ==
    /\ At("application", "create") /\ ~fifo
    /\ fifo' = TRUE
    /\ Goto("application", "open")
    /\ UNCHANGED <<opens, inputVars, mQueued, batch, pipeVars, delivered, try>>

\* mkfifo() fails, because the file is there or for any other reason.
MakeFifoFails ==
    /\ At("application", "create")
    /\ Goto("application", "failed")
    /\ UNCHANGED <<openVars, inputVars, mQueued, batch, pipeVars, delivered, try>>

\* The constructor of the textbox throws: the destructor of the pipe unlinks
\* its path, also when the file is not its own, and the process ends.
GiveUp ==
    /\ At("application", "failed")
    /\ fifo' = FALSE
    /\ stopped' = [stopped EXCEPT !["textbox"] = TRUE]
    /\ pc' = [t \in Threads |-> IF t \in BoxThreads THEN "ended" ELSE pc[t]]
    /\ UNCHANGED <<opens, writerOpen, readerOpen, exchangeVars>>

\* To the kernel a process that waits in open() has the fifo open already:
\* it is woken, and the threads of both sides start.
OpenForWriting ==
    /\ At("application", "open") /\ At("handler", "blocked")
    /\ writerOpen' = TRUE /\ readerOpen' = TRUE
    /\ pc' = [t \in Threads |-> IF t = "application" THEN "check" ELSE "loop"]
    /\ opens' = [t \in DOMAIN opens |-> Attempts]
    /\ UNCHANGED <<fifo, stopped, exchangeVars>>

\* The attempts of create() are not counted.
OpenForWritingForEver ==
    /\ At("application", "open") /\ ~At("handler", "blocked")
    /\ UNCHANGED vars

\* Nobody reads: create() sleeps, then there is another attempt or it fails.
OpenForWritingFails ==
    /\ At("application", "open") /\ ~At("handler", "blocked")
    /\ opens' = [opens EXCEPT !["application"] = @ - 1]
    /\ Goto("application", IF opens["application"] > 1 THEN "open" ELSE "failed")
    /\ UNCHANGED <<fifo, inputVars, mQueued, batch, pipeVars, delivered, try>>

\* The system call waits for a writer.
OpenForReading ==
    /\ At("handler", "open") /\ fifo
    /\ Goto("handler", "blocked")
    /\ UNCHANGED <<openVars, inputVars, mQueued, batch, pipeVars, delivered, try>>

\* There is no file: another attempt, or the constructor throws.
OpenForReadingFails ==
    /\ At("handler", "open") /\ ~fifo
    /\ opens' = [opens EXCEPT !["handler"] = @ - 1]
    /\ IF opens["handler"] > 1 THEN UNCHANGED <<stopped, pc>>
       ELSE /\ stopped' = [stopped EXCEPT !["engine"] = TRUE]
            /\ pc' = [pc EXCEPT !["handler"] = "ended"]
    /\ UNCHANGED <<fifo, writerOpen, readerOpen, exchangeVars>>

-----------------------------------------------------------------------------
(***************************************************************************)
(* TTTextBox: asynchronousRead().                                          *)
(***************************************************************************)
ReadLine(line) ==
    /\ At("reader", "loop") /\ pending = <<>>
    /\ nLines' = nLines + 1
    /\ \E messages \in Outcomes(line) :
          /\ pending' = messages
          /\ typed' = typed \o messages
    /\ IF Stops(line) THEN StopBox("reader", "ended")
       ELSE Goto("reader", IF stopped["textbox"] THEN "last" ELSE "loop")
    /\ UNCHANGED <<openVars, mQueued, batch, pipeVars, delivered, try>>

\* The front of the queue is overtaken.
QueuedFirst(m) == <<m>> \o mQueued

QueuedLast(m) == Append(mQueued, m)

QueueMessage ==
    /\ pending # <<>> /\ pc["reader"] \in {"loop", "last"}
    /\ mQueued' = QueuedLast(Head(pending))
    /\ pending' = Tail(pending)
    /\ UNCHANGED <<openVars, typed, nLines, batch, pipeVars, delivered, stopped, pc, lost, try>>

-----------------------------------------------------------------------------
(***************************************************************************)
(* TTTextBox: main().                                                      *)
(***************************************************************************)
\* Only one message is taken from the queue that is then emptied.
TakenHead == <<Head(mQueued)>>

TakenAll == mQueued

\* The wait ends: all messages are taken, or a heartbeat is sent.
MainTake ==
    /\ At("main", "loop")
    /\ IF stopped["textbox"] THEN Goto("main", "goodbye") /\ UNCHANGED <<mQueued, batch>>
       ELSE /\ Goto("main", "send")
            /\ batch' = IF mQueued = <<>> THEN <<Heartbeat>> ELSE TakenAll
            /\ mQueued' = <<>>
    /\ UNCHANGED <<openVars, inputVars, pipeVars, delivered, try>>

\* write() on the pipe, which does not block: a full pipe is an error.
CanWrite == readerOpen /\ Len(pipe) < PipeCapacity

MainSend ==
    /\ At("main", "send")
    /\ IF batch = <<>> \/ stopped["textbox"]
       THEN Goto("main", "loop") /\ batch' = <<>> /\ UNCHANGED pipe
       ELSE IF CanWrite
       THEN /\ pipe' = Append(pipe, Head(batch))
            /\ batch' = Tail(batch)
            /\ UNCHANGED <<stopped, pc, lost>>
       ELSE Goto("main", "goodbye") /\ UNCHANGED <<pipe, batch>>
    /\ UNCHANGED <<openVars, inputVars, mQueued, writerOpen, readerOpen, delivered, try>>

MainEnds == StopBox("main", "ended")

SendGoodbye ==
    /\ At("main", "goodbye")
    /\ pipe' = IF CanWrite THEN Append(pipe, Goodbye) ELSE pipe
    /\ MainEnds
    /\ UNCHANGED <<openVars, inputVars, mQueued, batch, writerOpen, readerOpen, delivered, try>>

-----------------------------------------------------------------------------
(***************************************************************************)
(* TTTextBox: wait() and the destructors.                                  *)
(***************************************************************************)
WaitCheck ==
    /\ At("application", "check")
    /\ Goto("application", IF stopped["textbox"] THEN "join" ELSE "checked")
    /\ UNCHANGED <<openVars, inputVars, mQueued, batch, pipeVars, delivered, try>>

WaitBlock ==
    /\ At("application", "checked")
    /\ Goto("application", "blocked")
    /\ UNCHANGED <<openVars, inputVars, mQueued, batch, pipeVars, delivered, try>>

\* The thread main() has ended; the pipe is closed and its file unlinked, the
\* process ends and with it the reader.
DestroyBox ==
    /\ At("application", "join")
    /\ At("main", "ended")
    /\ pc' = [pc EXCEPT !["application"] = "ended", !["reader"] = "ended"]
    /\ writerOpen' = FALSE
    /\ fifo' = FALSE
    /\ UNCHANGED <<opens, inputVars, mQueued, batch, pipe, readerOpen, delivered, stopped, lost, try>>

-----------------------------------------------------------------------------
(***************************************************************************)
(* TTTextBoxHandler: main().                                               *)
(***************************************************************************)
HandlerEnds ==
    /\ pc' = [pc EXCEPT !["handler"] = "ended"]
    /\ stopped' = [stopped EXCEPT !["engine"] = TRUE]
    /\ UNCHANGED lost

HandlerAgain ==
    IF stopped["engine"] THEN HandlerEnds ELSE UNCHANGED <<stopped, pc, lost>>

\* The callbacks; a heartbeat has none.
Called(m) == IF m = Heartbeat THEN <<>> ELSE <<m>>

HandlerReceive ==
    /\ At("handler", "loop")
    /\ pipe # <<>>
    /\ pipe' = Tail(pipe)
    /\ try' = RECEIVE_TRY_COUNT
    /\ IF Head(pipe) \in {Goodbye, Undefined}
       THEN HandlerEnds /\ UNCHANGED delivered
       ELSE delivered' = delivered \o Called(Head(pipe)) /\ HandlerAgain
    /\ UNCHANGED <<openVars, inputVars, mQueued, batch, writerOpen, readerOpen>>

\* read() returns 0 and leaves the message undefined.
HandlerEndOfFile ==
    /\ At("handler", "loop")
    /\ pipe = <<>> /\ ~writerOpen
    /\ HandlerEnds
    /\ UNCHANGED <<openVars, inputVars, mQueued, batch, pipeVars, delivered, try>>

\* read() fails, or the stop is seen just before it.
HandlerReadFails ==
    /\ At("handler", "loop")
    /\ IF try = 1 \/ stopped["engine"] THEN HandlerEnds /\ UNCHANGED try
       ELSE try' = try - 1 /\ UNCHANGED <<stopped, pc, lost>>
    /\ UNCHANGED <<openVars, inputVars, mQueued, batch, pipeVars, delivered>>

\* ~TTTextBoxHandler waits for the thread, then the pipe is closed.
DestroyHandler ==
    /\ At("handler", "ended")
    /\ readerOpen
    /\ readerOpen' = FALSE
    /\ UNCHANGED <<openVars, inputVars, mQueued, batch, pipe, writerOpen, delivered,
                   stopped, pc, lost, try>>

-----------------------------------------------------------------------------
(***************************************************************************)
(* Stops and faults.                                                       *)
(***************************************************************************)
\* A signal stops the textbox, the engine stops the handler.
SignalStops ==
    /\ ~stopped["textbox"] /\ writerOpen
    /\ StopBox("reader", pc["reader"])
    /\ UNCHANGED <<openVars, inputVars, mQueued, batch, pipeVars, delivered, try>>

EngineStops ==
    /\ ~stopped["engine"] /\ readerOpen
    /\ stopped' = [stopped EXCEPT !["engine"] = TRUE]
    /\ UNCHANGED <<openVars, inputVars, mQueued, batch, pipeVars, delivered, pc, lost, try>>

\* The textbox dies, also by #select without an argument; the file stays.
BoxDies ==
    /\ ~At("application", "ended")
    /\ writerOpen' = FALSE
    /\ stopped' = [stopped EXCEPT !["textbox"] = TRUE]
    /\ pc' = [t \in Threads |-> IF t \in BoxThreads THEN "ended" ELSE pc[t]]
    /\ UNCHANGED <<openVars, inputVars, mQueued, batch, pipe, readerOpen, delivered, lost, try>>

EngineDies ==
    /\ readerOpen \/ pc["handler"] \in {"open", "blocked"}
    /\ readerOpen' = FALSE
    /\ stopped' = [stopped EXCEPT !["engine"] = TRUE]
    /\ pc' = [pc EXCEPT !["handler"] = "ended"]
    /\ UNCHANGED <<openVars, inputVars, mQueued, batch, pipe, writerOpen, delivered, lost, try>>

Main == MainTake \/ MainSend \/ SendGoodbye
Application ==
    \/ MakeFifo \/ MakeFifoFails \/ OpenForWriting \/ OpenForWritingFails \/ GiveUp
    \/ WaitCheck \/ WaitBlock \/ DestroyBox
Handler ==
    \/ OpenForReading \/ OpenForReadingFails
    \/ HandlerReceive \/ HandlerEndOfFile \/ DestroyHandler

Next ==
    \/ nLines < MaxLines /\ \E line \in Lines : ReadLine(line)
    \/ QueueMessage \/ Main \/ Application \/ Handler \/ HandlerReadFails
    \/ SignalStops \/ EngineStops \/ BoxDies \/ EngineDies

Spec == Init /\ [][Next]_vars

-----------------------------------------------------------------------------
\* The messages the lines ask for.
Asked == UNION {Range(messages) : messages \in UNION {Outcomes(line) : line \in Lines}}

TypeOK ==
    /\ fifo \in BOOLEAN
    /\ opens \in [{"application", "handler"} -> 0 .. Attempts]
    /\ nLines \in 0 .. MaxLines
    /\ {typed, pending, mQueued, delivered} \subseteq Seq(Asked)
    /\ batch \in Seq(Asked \cup {Heartbeat})
    /\ pipe \in Seq(Asked \cup {Heartbeat, Goodbye})
    /\ Len(pipe) <= PipeCapacity
    /\ writerOpen \in BOOLEAN /\ readerOpen \in BOOLEAN /\ lost \in BOOLEAN
    /\ stopped \in [{"textbox", "engine"} -> BOOLEAN]
    /\ pc \in [Threads -> {"none", "create", "open", "failed", "check", "checked", "blocked",
                           "join", "loop", "last", "send", "goodbye", "ended"}]
    /\ try \in 1 .. RECEIVE_TRY_COUNT

\* The messages that have a callback.
HasCallback(m) == m.status \in {"MESSAGE", "CONTACTS_SELECT"}

\* How many of the first k messages of s have one.
Callbacks(s, k) == Cardinality({j \in 1 .. k : HasCallback(s[j])})

\* What s brings to the callbacks is what t has after its first n messages, in
\* the same order and without gaps.
Follows(n, s, t) ==
    \A k \in 1 .. Len(s) : HasCallback(s[k]) =>
        /\ n + Callbacks(s, k) <= Len(t)
        /\ s[k] = t[n + Callbacks(s, k)]

\* The messages on their way, oldest first.
OnItsWay == pipe \o batch \o mQueued \o pending

\* The callbacks are called for what has been typed, in that order, each at
\* most once and with nothing left out in between, however the two processes
\* end: what is missing is at the end.  Until the textbox stops or gives up a
\* send, every message that has been typed and not delivered is on its way.
DeliveredInOrder ==
    /\ IsPrefix(delivered, typed)
    /\ ~stopped["textbox"] /\ ~At("main", "goodbye") =>
          /\ Follows(Len(delivered), OnItsWay, typed)
          /\ Len(delivered) + Callbacks(OnItsWay, Len(OnItsWay)) = Len(typed)

\* The most messages that MaxLines lines make.
MaxTyped ==
    MaxLines * Max({0} \cup {Len(messages) : messages \in UNION {Outcomes(line) : line \in Lines}})

\* What is typed reaches its callback, the last piece of a long text as well,
\* unless a process stops.
TypedIsDelivered ==
    \A k \in 1 .. MaxTyped :
        (Len(typed) >= k) ~> (Len(delivered) >= k \/ \E p \in DOMAIN stopped : stopped[p])

\* What may keep the handler: the open() that waits for a writer after the
\* textbox has stopped or died, or the read() from an empty pipe that an
\* application in wait() keeps open, without a goodbye (the pipe was full).
NobodyWrites ==
    /\ stopped["textbox"]
    /\ At("handler", "blocked") \/ (At("handler", "loop") /\ pipe = <<>> /\ writerOpen)

\* When one process gives up, stops or dies, the other one follows and every
\* thread ends, main() without exception.  The application does not if it has
\* missed the notification of the stop, which is sent without the mutex of
\* wait(), and the handler does not if nobody will ever write to it.
EveryThreadEnds ==
    (\E p \in DOMAIN stopped : stopped[p])
        ~> (/\ At("main", "ended")
            /\ At("application", "ended") \/ (At("application", "blocked") /\ lost)
            /\ At("handler", "ended") \/ NobodyWrites)

=============================================================================
