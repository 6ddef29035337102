---------------------------- MODULE ChatScenarios ----------------------------
(***************************************************************************)
(* The unit tests of TTChat and of TTChatHandler as scenarios of module    *)
(* Chat.  A test runs one side against mocks of the two message queues and *)
(* sees one interleaving of its threads; here every interleaving has to    *)
(* give what the test expects.  A mock that answers heartbeats for ever is *)
(* an empty queue whose reader only waits for the stop.  Besides the tests *)
(* there are AnyUse, in which both sides run and everything of module Chat *)
(* may happen, and Conversations, in which the calls are given.            *)
(***************************************************************************)
EXTENDS Chat

VARIABLES
    test,       \* the scenario
    script,     \* the calls it has yet to make
    seen        \* what the mocked window has been sent, without heartbeats

scenarioVars == <<test, script, seen>>

Beats(n) == [i \in 1 .. n |-> Heartbeat]
Clear == Message("CLEAR", <<>>)
Unknown == Message("UNKNOWN", <<>>)

\* Text n in messages of the given lengths; all but the last are chunks.
Split(type, n, lengths) ==
    LET From(i) == FoldLeft(LAMBDA sum, l : sum + l, 0, SubSeq(lengths, 1, i - 1))
        Part(i) == [k \in 1 .. lengths[i] |-> <<n, From(i) + k>>]
    IN [i \in 1 .. Len(lengths) |->
           Message(IF i = Len(lengths) THEN type ELSE ChunkType[type], Part(i))]

Whole(type, n, length) == Message(type, Text(n, length))

Call(op, id, length, answer) == [op |-> op, id |-> id, length |-> length, answer |-> answer]
StopCall == Call("stop", NoId, 0, TRUE)

\* A test of the window: the messages it finds, the conversations it prints,
\* the threads whose queue fails in the end, and whether the test stops it.
WindowTest(name, messages, screens, fails, calls) ==
    [name |-> name, side |-> "window", primary |-> messages, secondary |-> <<>>,
     calls |-> calls, fails |-> fails, expected |-> screens]

\* A test of the handler: the heartbeats it finds, the calls, what it sends.
HandlerTest(name, heartbeats, calls, sent, fails) ==
    [name |-> name, side |-> "handler", primary |-> <<>>, secondary |-> heartbeats,
     calls |-> calls, fails |-> fails, expected |-> sent]

\* No test: the two sides together.
AnyUse ==
    [name |-> "AnyUse", side |-> "both", primary |-> <<>>, secondary |-> <<>>,
     calls |-> <<>>, fails |-> {}, expected |-> <<>>]

\* Nor is this: texts of two conversations, whole and in chunks, selections
\* back and forth, and queue operations that may time out.
Conversations ==
    LET m == MAX_DATA_LENGTH
    IN [AnyUse EXCEPT !.name = "Conversations",
           !.calls = <<Call("create", 1, 0, TRUE), Call("create", 2, 0, TRUE),
                       Call("select", 1, 0, TRUE), Call("send", 1, m + 1, TRUE),
                       Call("receive", 2, 1, TRUE), Call("select", 2, 0, TRUE),
                       Call("select", 1, 0, TRUE)>>]

-----------------------------------------------------------------------------
(***************************************************************************)
(* TTChatTest.                                                             *)
(***************************************************************************)
FailedToReceiveAfterManyReceivedHeartbeats ==
    WindowTest("FailedToReceiveAfterManyReceivedHeartbeats", Beats(15), <<<<>>>>, {"run"}, <<>>)

FailedToSendAfterManySendHeartbeats ==
    WindowTest("FailedToSendAfterManySendHeartbeats", Beats(4), <<<<>>>>, {"beat"}, <<>>)

HappyPathOnlySendAndReceivedHeartbeats ==
    WindowTest("HappyPathOnlySendAndReceivedHeartbeats", Beats(5), <<<<>>>>, {}, <<StopCall>>)

UnhappyPathReceivedHeartbeatsThenUnknown ==
    WindowTest("UnhappyPathReceivedHeartbeatsThenUnknown",
               Append(Beats(3), Unknown), <<<<>>>>, {}, <<>>)

HappyPathReceivedHeartbeatsThenGoodbye ==
    WindowTest("HappyPathReceivedHeartbeatsThenGoodbye",
               Append(Beats(3), Goodbye), <<<<>>>>, {}, <<>>)

\* Lengths around the limit m, with heartbeats between the chunks.
HappyPathReceivedChunkMessages ==
    LET m == MAX_DATA_LENGTH
        long1 == Split("SENDER", 1, <<m, 1>>)
        long2 == Split("RECEIVER", 2, <<m, 1>>)
        long3 == Split("RECEIVER", 3, <<m, m, m, m, 1>>)
        long5 == Split("SENDER", 5, <<m, 1>>)
        first == <<Heartbeat, Clear>> \o long1
                     \o <<long2[1], Heartbeat, long2[2], Clear>>
        second == SubSeq(long3, 1, 2) \o <<Heartbeat>> \o SubSeq(long3, 3, 5)
                     \o <<Heartbeat, Whole("RECEIVER", 4, m - 1)>> \o long5
                     \o <<Heartbeat, Whole("SENDER", 6, m), Goodbye>>
    IN WindowTest("HappyPathReceivedChunkMessages", first \o second,
           <<<<Whole("SENDER", 1, m + 1), Whole("RECEIVER", 2, m + 1)>>,
             <<Whole("RECEIVER", 3, 4 * m + 1), Whole("RECEIVER", 4, m - 1),
               Whole("SENDER", 5, m + 1), Whole("SENDER", 6, m)>>>>, {}, <<>>)

\* A chunk and a message that does not continue it.
Mismatch(name, chunk, message) ==
    WindowTest(name, <<Heartbeat, Message(chunk, Text(1, MAX_DATA_LENGTH)),
                       Message(message, Text(2, MAX_DATA_LENGTH))>>, <<<<>>>>, {}, <<>>)

UnhappyPathReceivedChunkMessagesNoMatch1 == Mismatch("NoMatch1", "SENDER_CHUNK", "RECEIVER_CHUNK")
UnhappyPathReceivedChunkMessagesNoMatch2 == Mismatch("NoMatch2", "RECEIVER_CHUNK", "SENDER_CHUNK")
UnhappyPathReceivedChunkMessagesNoMatch3 == Mismatch("NoMatch3", "RECEIVER_CHUNK", "SENDER")
UnhappyPathReceivedChunkMessagesNoMatch4 == Mismatch("NoMatch4", "SENDER_CHUNK", "RECEIVER")
UnhappyPathReceivedChunkMessagesNoMatch5 == Mismatch("NoMatch5", "SENDER_CHUNK", "CLEAR")

-----------------------------------------------------------------------------
(***************************************************************************)
(* TTChatHandlerTest.  Conversation 1 is the test's 0.                     *)
(***************************************************************************)
HandlerFailedToReceive ==
    HandlerTest("FailedToReceiveAfterManyReceivedHeartbeats", Beats(4), <<>>, <<>>, {"heartbeat"})

HandlerFailedToReceiveThenUnknown ==
    HandlerTest("FailedToReceiveAfterManyReceivedHeartbeatsThenUnknown",
                Append(Beats(4), Unknown), <<>>, <<>>, {})

HandlerFailedToSend ==
    HandlerTest("FailedToSendAfterManySendHeartbeats", Beats(3), <<>>, <<>>, {"main"})

HappyPathAtLeastThreeHeartbeatsAndGoodbye ==
    HandlerTest("HappyPathAtLeastThreeHeartbeatsAndGoodbye", Beats(3), <<StopCall>>, <<>>, {})

\* Each call with the answer that is expected, the calls after the stop too.
\* A text is known by the number of texts stored before it.
HappyAndUnhappyPathCreateSendAndReceive ==
    HandlerTest("HappyAndUnhappyPathCreateSendAndReceive", Beats(1),
        <<Call("create", 2, 0, FALSE), Call("create", 1, 0, TRUE), Call("create", 1, 0, FALSE),
          Call("send", 2, 1, FALSE), Call("receive", 2, 1, FALSE), Call("select", 2, 0, FALSE),
          Call("send", 1, 1, FALSE), Call("select", 1, 0, TRUE),
          Call("send", 1, 1, TRUE), Call("receive", 1, 1, TRUE), Call("select", 1, 0, TRUE),
          Call("create", 2, 0, TRUE), Call("create", 2, 0, FALSE), Call("select", 2, 0, TRUE),
          Call("send", 2, 1, TRUE), Call("receive", 2, 1, TRUE),
          Call("receive", 1, 1, TRUE), Call("receive", 1, 0, TRUE), Call("send", 1, 1, FALSE),
          Call("send", 2, 1, TRUE), Call("receive", 2, 1, TRUE),
          Call("select", 1, 0, TRUE), Call("send", 2, 1, FALSE), StopCall,
          Call("create", 2, 0, FALSE), Call("send", 1, 1, FALSE),
          Call("receive", 1, 1, FALSE), Call("select", 1, 0, FALSE)>>,
        <<Whole("SENDER", 1, 1), Whole("RECEIVER", 2, 1), Clear,
          Whole("SENDER", 3, 1), Whole("RECEIVER", 4, 1),
          Whole("SENDER", 7, 1), Whole("RECEIVER", 8, 1), Clear,
          Whole("SENDER", 1, 1), Whole("RECEIVER", 2, 1),
          Whole("RECEIVER", 5, 1), Whole("RECEIVER", 6, 0)>>, {})

HappyPathCreateSendAndReceiveHugeMessages ==
    LET m == MAX_DATA_LENGTH
        first == Split("RECEIVER", 1, <<m, 1>>) \o Split("SENDER", 2, <<m, 1>>)
    IN HandlerTest("HappyPathCreateSendAndReceiveHugeMessages", Beats(1),
        <<Call("create", 1, 0, TRUE), Call("select", 1, 0, TRUE),
          Call("receive", 1, m + 1, TRUE), Call("send", 1, m + 1, TRUE),
          Call("create", 2, 0, TRUE), Call("select", 2, 0, TRUE),
          Call("send", 2, 4 * m + 1, TRUE), Call("send", 2, m - 1, TRUE),
          Call("receive", 2, m + 1, TRUE), Call("send", 2, m, TRUE),
          Call("select", 1, 0, TRUE), Call("receive", 1, 4 * m + 1, TRUE), StopCall>>,
        first \o <<Clear>>
          \o Split("SENDER", 3, <<m, m, m, m, 1>>) \o Split("SENDER", 4, <<m - 1>>)
          \o Split("RECEIVER", 5, <<m, 1>>) \o Split("SENDER", 6, <<m>>)
          \o <<Clear>> \o first \o Split("RECEIVER", 7, <<m, m, m, m, 1>>), {})

Scenarios ==
    {FailedToReceiveAfterManyReceivedHeartbeats, FailedToSendAfterManySendHeartbeats,
     HappyPathOnlySendAndReceivedHeartbeats, UnhappyPathReceivedHeartbeatsThenUnknown,
     HappyPathReceivedHeartbeatsThenGoodbye, HappyPathReceivedChunkMessages,
     UnhappyPathReceivedChunkMessagesNoMatch1, UnhappyPathReceivedChunkMessagesNoMatch2,
     UnhappyPathReceivedChunkMessagesNoMatch3, UnhappyPathReceivedChunkMessagesNoMatch4,
     UnhappyPathReceivedChunkMessagesNoMatch5,
     HandlerFailedToReceive, HandlerFailedToReceiveThenUnknown, HandlerFailedToSend,
     HappyPathAtLeastThreeHeartbeatsAndGoodbye, HappyAndUnhappyPathCreateSendAndReceive,
     HappyPathCreateSendAndReceiveHugeMessages, AnyUse, Conversations}

-----------------------------------------------------------------------------
(***************************************************************************)
(* The run of a test.                                                      *)
(***************************************************************************)
IsTest == test.side # "both"
Absent(p) == test.side \notin {p, "both"}

\* A window under test shows conversations of a handler that is not there.
ScenarioInit ==
    /\ test \in Scenarios
    /\ script = test.calls
    /\ seen = <<>>
    /\ mMessages = (IF test.side = "window" THEN test.expected ELSE <<>>)
    /\ mCurrentId = NoId /\ call = <<>>
    /\ mQueued = <<>> /\ batch = <<>>
    /\ primary = test.primary
    /\ secondary = test.secondary
    /\ window = EmptyWindow /\ refused = FALSE
    /\ stopped = [p \in {"handler", "window"} |-> Absent(p)]
    /\ pc = [t \in Threads |-> CASE Absent(ProcessOf(t)) -> "ended"
                                  [] t = "main" -> "dequeue"
                                  [] OTHER -> "loop"]
    /\ try = [t \in Threads |-> Attempts]

\* The test has slept until what it asked for is sent or received.
Slept ==
    /\ Range(mQueued \o batch) \subseteq {Heartbeat}
    /\ test.side = "window" => primary = <<>>

Perform(c) ==
    \/ c.op = "create" /\ c.id = Len(mMessages) + 1 /\ Create
    \/ c.op = "send" /\ Send(c.id, c.length)
    \/ c.op = "receive" /\ Receive(c.id, c.length)
    \/ c.op = "select" /\ Select(c.id)
    \/ c.op = "select" /\ Free /\ mCurrentId = c.id /\ UNCHANGED vars
    \/ c.op = "stop" /\ Slept /\ Stop(test.side)

\* The next call; a call that fails changes nothing.
Calls ==
    /\ script # <<>> /\ call = <<>>
    /\ \/ Perform(Head(script))
       \/ ~Head(script).answer /\ ~ENABLED Perform(Head(script)) /\ UNCHANGED vars
    /\ script' = Tail(script)
    /\ UNCHANGED <<test, seen>>

\* The mocks take whatever is sent.
MockTakes ==
    /\ IsTest
    /\ IF test.side = "window"
       THEN /\ secondary # <<>> /\ secondary' = Tail(secondary)
            /\ UNCHANGED <<primary, seen>>
       ELSE /\ primary # <<>> /\ primary' = Tail(primary)
            /\ seen' = IF Head(primary) = Heartbeat THEN seen ELSE Append(seen, Head(primary))
            /\ UNCHANGED secondary
    /\ UNCHANGED <<storageVars, mQueued, batch, windowVars, threadVars, test, script>>

\* No queue operation of a tested side times out.
Served(t) ==
    IsTest => CASE t = "main" -> ~IsFull(primary)
                [] t = "beat" -> ~IsFull(secondary)
                [] t = "run" -> primary # <<>>
                [] OTHER -> secondary # <<>>

\* In a test an operation fails because the mock says so or after the stop.
MockFails(t) ==
    /\ IsTest
    /\ t \in test.fails \/ (stopped[test.side] /\ ~At(t, "goodbye"))
    /\ Interrupted(t)

ThreadStep(t) ==
    \/ /\ Served(t)
       /\ CASE t = "main" -> Main
            [] t = "beat" -> SendHeartbeat
            [] t = "run" -> Run
            [] OTHER -> ReceiveHeartbeat
    \/ MockFails(t)

Step(A) == A /\ UNCHANGED scenarioVars

\* What AnyUse has besides.
Environment ==
    \/ Caller
    \/ \E t \in Threads : Interrupted(t)
    \/ \E p \in {"handler", "window"} : Stop(p) \/ Die(p)

ScenarioNext ==
    \/ Calls \/ MockTakes
    \/ Step(Queue)
    \/ \E t \in Threads : Step(ThreadStep(t))
    \/ test = AnyUse /\ Step(Environment)

allVars == <<vars, scenarioVars>>

\* The test goes on, so do the mocks and every thread; what fails at last
\* fails some time.
ScenarioSpec ==
    /\ ScenarioInit
    /\ [][ScenarioNext]_allVars
    /\ WF_allVars(Calls)
    /\ WF_allVars(MockTakes)
    /\ WF_allVars(Step(Queue))
    /\ \A t \in Threads :
          /\ WF_allVars(Step(ThreadStep(t)))
          /\ SF_allVars(Step(t \in test.fails /\ Interrupted(t)))

-----------------------------------------------------------------------------
Over == \A t \in Threads : At(t, "ended")

Goodbyes == IF "main" \in test.fails THEN {<<>>, <<Goodbye>>} ELSE {<<Goodbye>>}

\* In every interleaving a test of the window ends with the conversation it
\* expects on the screen (the earlier ones are OneConversationOnScreen); a
\* test of the handler sends the messages it expects, in their order, and at
\* last its goodbye; and every call of a test has the answer it expects.
TestPasses ==
    /\ test.side = "window" /\ Over => window.screen = Last(test.expected)
    /\ test.side = "handler" =>
          /\ IsPrefix(seen, Append(test.expected, Goodbye))
          /\ Over /\ primary = <<>> => \E g \in Goodbyes : seen = test.expected \o g
    /\ (IsTest /\ script # <<>> /\ call = <<>> /\ Head(script).op # "stop")
          => Head(script).answer = ENABLED Perform(Head(script))

=============================================================================
