---------------------------- MODULE ChatMessages ----------------------------
(***************************************************************************)
(* What the chat handler and the chat window say to each other: the        *)
(* messages, how the handler cuts a text into messages of at most          *)
(* MAX_DATA_LENGTH characters, and what the window does with a message.    *)
(* A text is a sequence of characters that are told apart by the text they *)
(* come from and by their place in it.                                     *)
(***************************************************************************)
EXTENDS Integers, Sequences, SequencesExt

CONSTANT MAX_DATA_LENGTH    \* characters in one message (2048 in the code)

ASSUME ChatMessagesAssumption == MAX_DATA_LENGTH \in Nat \ {0}

EntryTypes == {"SENDER", "RECEIVER"}
ChunkTypes == {"SENDER_CHUNK", "RECEIVER_CHUNK"}
MessageTypes == EntryTypes \cup ChunkTypes \cup {"CLEAR", "HEARTBEAT", "GOODBYE"}

\* The type that follows a type in the enumeration.
ChunkType == [SENDER |-> "SENDER_CHUNK", RECEIVER |-> "RECEIVER_CHUNK"]

\* A message, and also an entry of the handler's storage.
Message(type, data) == [type |-> type, data |-> data]

Text(n, length) == [i \in 1 .. length |-> <<n, i>>]

Characters == Nat \X Nat
Entries == [type : EntryTypes, data : Seq(Characters)]
Messages == {m \in [type : MessageTypes, data : Seq(Characters)] :
                Len(m.data) <= MAX_DATA_LENGTH}

-----------------------------------------------------------------------------
(***************************************************************************)
(* TTChatHandler::send(type, data): all full messages but the last one are *)
(* chunks; a text of a multiple of the length ends with a full message.    *)
(***************************************************************************)
\* The multiples are not treated apart: their last message is empty.
FullMessagesPlain(length) == length \div MAX_DATA_LENGTH

FullMessages(length) ==
    LET full == length \div MAX_DATA_LENGTH
    IN IF full # 0 /\ length % MAX_DATA_LENGTH = 0 THEN full - 1 ELSE full

Chunks(entry) ==
    LET n == FullMessages(Len(entry.data))
        Chunk(i) == SubSeq(entry.data, MAX_DATA_LENGTH * (i - 1) + 1, MAX_DATA_LENGTH * i)
        rest == SubSeq(entry.data, MAX_DATA_LENGTH * n + 1, Len(entry.data))
    IN [i \in 1 .. n |-> Message(ChunkType[entry.type], Chunk(i))]
           \o <<Message(entry.type, rest)>>

-----------------------------------------------------------------------------
(***************************************************************************)
(* TTChat::handle(): the window keeps the chunks of a text until its last  *)
(* message comes.  The screen is the sequence of texts printed since the   *)
(* last clear.                                                             *)
(***************************************************************************)
WindowStates == [chunks : Seq(Messages), screen : Seq(Entries)]

EmptyWindow == [chunks |-> <<>>, screen |-> <<>>]

\* handle() returns false: the message does not continue the chunks.
Refuses(window, m) ==
    /\ window.chunks # <<>>
    /\ \/ m.type = "CLEAR"
       \/ m.type \in EntryTypes /\ Last(window.chunks).type # ChunkType[m.type]
       \/ m.type \in ChunkTypes /\ Last(window.chunks).type # m.type

\* The data of the chunks, one after the other.
Joined(chunks) ==
    LET text[k \in 0 .. Len(chunks)] ==
            IF k = 0 THEN <<>> ELSE text[k - 1] \o chunks[k].data
    IN text[Len(chunks)]

Printed(window, m) ==
    [chunks |-> <<>>,
     screen |-> Append(window.screen, Message(m.type, Joined(window.chunks) \o m.data))]

Handled(window, m) ==
    CASE m.type = "CLEAR" -> [window EXCEPT !.screen = <<>>]
      [] m.type \in EntryTypes -> Printed(window, m)
      [] m.type \in ChunkTypes -> [window EXCEPT !.chunks = Append(@, m)]
      [] OTHER -> window

\* The windows that a window becomes as it handles one message after another.
Windows(window, messages) ==
    LET after[k \in 0 .. Len(messages)] ==
            IF k = 0 THEN window ELSE Handled(after[k - 1], messages[k])
    IN after

=============================================================================
