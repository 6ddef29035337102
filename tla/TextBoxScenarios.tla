-------------------------- MODULE TextBoxScenarios --------------------------
(***************************************************************************)
(* The unit tests of TTTextBox and TTTextBoxHandler as scenarios of module *)
(* TextBox.  A test sleeps between its steps and sees one interleaving of  *)
(* the threads; here every interleaving has to give what the test expects. *)
(* A sleep that is long enough for the messages to be sent is the guard    *)
(* that they are.  A test of the handler finds its messages in the pipe.   *)
(* Besides the tests there is AnyUse, in which both sides run and          *)
(* everything of module TextBox may happen.                                *)
(***************************************************************************)
EXTENDS TextBox

VARIABLES
    test,       \* the scenario
    script      \* the lines it has yet to type

scenarioVars == <<test, script>>

Word == <<NotDigit>>        \* "blahblah"
Selection(id) == Message("CONTACTS_SELECT", <<id>>)
Said(data) == Message("MESSAGE", data)

\* A test of the textbox types lines; the messages that are neither heartbeats
\* nor goodbyes are expected.
Typing(name, lines, expected) ==
    [name |-> name, box |-> TRUE, lines |-> lines, pipe |-> <<>>, works |-> TRUE,
     expected |-> expected]

\* A test of the handler.
Reading(name, messages, expected) ==
    [name |-> name, box |-> FALSE, lines |-> <<>>, pipe |-> messages, works |-> TRUE,
     expected |-> expected]

\* No test: the two sides together.
AnyUse == Typing("AnyUse", <<>>, <<>>)

-----------------------------------------------------------------------------
(***************************************************************************)
(* TTTextBoxTest.                                                          *)
(***************************************************************************)
SuccessEmptyInput == Typing("SuccessEmptyInput", <<>>, <<>>)

FailedEmptyInput == [Typing("FailedEmptyInput", <<>>, <<>>) EXCEPT !.works = FALSE]

SuccessEmptyCommand == Typing("SuccessEmptyCommand", <<CommandLine("#", <<>>)>>, <<>>)

SuccessNonExistingCommand ==
    Typing("SuccessNonExistingCommand", <<CommandLine("blahblah", <<>>)>>, <<>>)

SuccessHelpCommand == Typing("SuccessHelpCommand", <<CommandLine("help", <<>>)>>, <<>>)

FailureHelpCommandTooManyArguments ==
    Typing("FailureHelpCommandTooManyArguments", <<CommandLine("help", <<Word>>)>>, <<>>)

SuccessQuitCommand == Typing("SuccessQuitCommand", <<CommandLine("quit", <<>>)>>, <<>>)

FailureQuitCommandTooManyArguments ==
    Typing("FailureQuitCommandTooManyArguments", <<CommandLine("quit", <<Word>>)>>, <<>>)

SuccessSelectCommand ==
    Typing("SuccessSelectCommand", <<CommandLine("select", <<<<1>>>>)>>, <<Selection(1)>>)

FailureSelectCommandTooManyArguments ==
    Typing("FailureSelectCommandTooManyArguments",
           <<CommandLine("select", <<<<1>>, Word>>)>>, <<>>)

FailureSelectCommandNoDigits ==
    Typing("FailureSelectCommandNoDigits", <<CommandLine("select", <<Word>>)>>, <<>>)

FailureSelectCommandTooManyDigits ==
    Typing("FailureSelectCommandTooManyDigits",
           <<CommandLine("select", <<[i \in 1 .. DATA_MAX_DIGITS + 1 |-> 1]>>)>>, <<>>)

\* A letter is a number.
Letters(length, letter) == [i \in 1 .. length |-> letter]

\* One character, a few, and as many as fit.
SuccessSmallMessage ==
    LET texts == <<Letters(1, 1), Letters(DATA_MAX_LENGTH - 1, 2),
                   Letters(DATA_MAX_LENGTH, 3)>>
    IN Typing("SuccessSmallMessage", [i \in 1 .. 3 |-> TextLine(texts[i])],
              [i \in 1 .. 3 |-> Said(texts[i])])

\* Twice the limit, ten times and one and a half times.  The test looks for
\* five of the ten messages, and all ten are sent.
SuccessBigMessage ==
    LET m == DATA_MAX_LENGTH
    IN Typing("SuccessBigMessage",
              <<TextLine(Letters(2 * m, 4)), TextLine(Letters(10 * m, 5)),
                TextLine(Letters(m + m \div 2, 6))>>,
              [i \in 1 .. 2 |-> Said(Letters(m, 4))]
                  \o [i \in 1 .. 10 |-> Said(Letters(m, 5))]
                  \o <<Said(Letters(m, 6)), Said(Letters(m \div 2, 6))>>)

SuccessMixOfMessagesAndCommands ==
    Typing("SuccessMixOfMessagesAndCommands",
           <<CommandLine("help", <<>>), CommandLine("select", <<<<1>>>>),
             TextLine(Letters(2, 7)), CommandLine("quit", <<>>)>>,
           <<Selection(1), Said(Letters(2, 7))>>)

-----------------------------------------------------------------------------
(***************************************************************************)
(* TTTextBoxHandlerTest.                                                   *)
(***************************************************************************)
FailedToReceiveMessage == [Reading("FailedToReceiveMessage", <<>>, <<>>) EXCEPT !.works = FALSE]

FailedBecauseOfUndefinedMessage ==
    Reading("FailedBecauseOfUndefinedMessage", <<Undefined, Undefined>>, <<>>)

SuccessReceivedHeartbeats ==
    Reading("SuccessReceivedHeartbeats", <<Heartbeat, Heartbeat, Heartbeat>>, <<>>)

SuccessReceivedGoodbye == Reading("SuccessReceivedGoodbye", <<Goodbye>>, <<>>)

\* Two groups of messages, each after a heartbeat.
Groups(first, second) == <<Heartbeat>> \o first \o <<Heartbeat>> \o second

SuccessReceivedContactsSelect ==
    LET first == <<Selection(5), Selection(1), Selection(0)>>
        second == <<Selection(1005), Selection(1), Selection(100), Selection(25)>>
    IN Reading("SuccessReceivedContactsSelect",
               Groups(first, second) \o <<Heartbeat>>, first \o second)

SuccessReceivedMessage ==
    LET first == [i \in 1 .. 3 |-> Said(<<i>>)]
        second == [i \in 1 .. 4 |-> Said(<<3 + i>>)]
    IN Reading("SuccessReceivedMessage", Groups(first, second) \o <<Heartbeat>>, first \o second)

SuccessReceivedMixOfMessages ==
    LET first == <<Said(<<1>>), Said(<<2>>), Selection(3)>>
        second == <<Said(<<4>>), Said(<<5>>), Selection(3)>>
    IN Reading("SuccessReceivedMixOfMessages", Groups(first, second) \o <<Goodbye>>,
               first \o second)

Scenarios ==
    {SuccessEmptyInput, FailedEmptyInput, SuccessEmptyCommand, SuccessNonExistingCommand,
     SuccessHelpCommand, FailureHelpCommandTooManyArguments, SuccessQuitCommand,
     FailureQuitCommandTooManyArguments, SuccessSelectCommand,
     FailureSelectCommandTooManyArguments, FailureSelectCommandNoDigits,
     FailureSelectCommandTooManyDigits, SuccessSmallMessage, SuccessBigMessage,
     SuccessMixOfMessagesAndCommands,
     FailedToReceiveMessage, FailedBecauseOfUndefinedMessage, SuccessReceivedHeartbeats,
     SuccessReceivedGoodbye, SuccessReceivedContactsSelect, SuccessReceivedMessage,
     SuccessReceivedMixOfMessages, AnyUse}

-----------------------------------------------------------------------------
(***************************************************************************)
(* The run of a test.                                                      *)
(***************************************************************************)
IsTest == test # AnyUse

\* The mock of the other side: it takes what is sent, or refuses everything.
\* What the handler under test finds in the pipe counts as typed.
TestInit ==
    /\ fifo = TRUE /\ opens = [t \in {"application", "handler"} |-> Attempts]
    /\ typed = (IF test.box THEN <<>> ELSE test.expected)
    /\ nLines = 0 /\ pending = <<>>
    /\ mQueued = <<>> /\ batch = <<>>
    /\ pipe = test.pipe
    /\ writerOpen = TRUE
    /\ readerOpen = (test.works \/ ~test.box)
    /\ delivered = <<>>
    /\ stopped = [p \in {"textbox", "engine"} |-> p = "engine" /\ ~readerOpen]
    /\ pc = [t \in Threads |->
               CASE t = "handler" -> IF readerOpen THEN "loop" ELSE "ended"
                 [] ~test.box -> "ended"
                 [] t = "application" -> "check"
                 [] OTHER -> "loop"]
    /\ lost = FALSE
    /\ try = RECEIVE_TRY_COUNT

ScenarioInit ==
    /\ test \in Scenarios
    /\ script = test.lines
    /\ IF IsTest THEN TestInit ELSE Init

\* The test has slept until what it typed is sent.
Slept == \A m \in Range(pending \o mQueued \o batch) : ~HasCallback(m)

TypeLine ==
    /\ script # <<>>
    /\ Stops(Head(script)) => Slept
    /\ ReadLine(Head(script))
    /\ script' = Tail(script)
    /\ UNCHANGED test

\* The test stops what it tests.
TestStops ==
    /\ IsTest /\ test.works
    /\ IF test.box THEN script = <<>> /\ Slept /\ SignalStops ELSE pipe = <<>> /\ EngineStops

\* In a test the pipe is read in less time than passes between two heartbeats,
\* and it is never full.
ScenarioMain ==
    \/ (IsTest => mQueued # <<>> \/ pipe = <<>> \/ stopped["textbox"]) /\ MainTake
    \/ (IsTest => Len(pipe) < PipeCapacity) /\ (MainSend \/ SendGoodbye)

ReadsFail ==
    /\ IsTest /\ (stopped["engine"] \/ ~test.works)
    /\ HandlerReadFails

\* What AnyUse has besides.
Environment ==
    \/ nLines < MaxLines /\ \E line \in Lines : ReadLine(line)
    \/ HandlerReadFails
    \/ SignalStops \/ EngineStops \/ BoxDies \/ EngineDies

Step(A) == A /\ UNCHANGED scenarioVars

allVars == <<vars, scenarioVars>>

ScenarioNext ==
    \/ TypeLine
    \/ Step(QueueMessage \/ ScenarioMain \/ Application \/ Handler \/ ReadsFail \/ TestStops)
    \/ ~IsTest /\ Step(Environment)

\* A test types and stops what it tests, and every thread goes on.  In AnyUse
\* input may never come, and reads may never fail.
ScenarioSpec ==
    /\ ScenarioInit
    /\ [][ScenarioNext]_allVars
    /\ WF_allVars(TypeLine)
    /\ WF_allVars(Step(QueueMessage))
    /\ WF_allVars(Step(ScenarioMain))
    /\ WF_allVars(Step(Application))
    /\ WF_allVars(Step(Handler))
    /\ WF_allVars(Step(ReadsFail \/ TestStops))

-----------------------------------------------------------------------------
\* In every interleaving a test has seen the callbacks it expects, all of them
\* and in their order, when its threads have ended.
TestPasses ==
    IsTest /\ (\A t \in {"application", "main", "handler"} : At(t, "ended"))
        => delivered = test.expected

=============================================================================
