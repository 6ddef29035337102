---------------------------- MODULE TextBoxInput ----------------------------
(***************************************************************************)
(* What TTTextBox makes of a line of input: parse(), execute() and send(). *)
(* A line is a text, or a command with its arguments; an argument is the   *)
(* sequence of its characters, a digit or NotDigit.                        *)
(***************************************************************************)
EXTENDS Integers, Sequences, SequencesExt

CONSTANTS
    DATA_MAX_LENGTH,    \* characters in one message (2048 in the code)
    DATA_MAX_DIGITS     \* digits of an identity (4 in the code)

ASSUME TextBoxInputAssumption ==
    /\ DATA_MAX_LENGTH \in Nat \ {0}
    /\ DATA_MAX_DIGITS \in Nat

NotDigit == 10

Message(status, data) == [status |-> status, data |-> data]
Heartbeat == Message("HEARTBEAT", <<>>)
Goodbye == Message("GOODBYE", <<>>)
Undefined == Message("UNDEFINED", <<>>)

TextLine(data) == [command |-> "", args |-> <<>>, data |-> data]
CommandLine(command, args) == [command |-> command, args |-> args, data |-> <<>>]

\* from_chars().
Decimal(digits) == FoldLeft(LAMBDA n, d : 10 * n + d, 0, digits)

\* The rest of the text is left out.
PiecesWhole(data) ==
    [i \in 1 .. (Len(data) \div DATA_MAX_LENGTH) |->
        Message("MESSAGE", SubSeq(data, DATA_MAX_LENGTH * (i - 1) + 1, DATA_MAX_LENGTH * i))]

\* A text is cut into full messages and a rest, if there is one.
Pieces(data) ==
    LET n == Len(data) \div DATA_MAX_LENGTH
        rest == SubSeq(data, DATA_MAX_LENGTH * n + 1, Len(data))
    IN PiecesWhole(data) \o IF rest = <<>> THEN <<>> ELSE <<Message("MESSAGE", rest)>>

\* all_of(isdigit), the number of digits, and from_chars() on nothing.
IsIdentity(arg) == NotDigit \notin Range(arg) /\ Len(arg) \in 1 .. DATA_MAX_DIGITS

\* #select reads its argument without looking whether there is one.
ReadsPastArguments(line) == line.command = "select" /\ line.args = <<>>

\* What the line asks for; a command with the wrong arguments asks nothing.
Stops(line) == line.command = "quit" /\ line.args = <<>>

Queues(line) ==
    CASE line.command = "" -> Pieces(line.data)
      [] line.command = "select" /\ Len(line.args) = 1 /\ IsIdentity(line.args[1]) ->
            <<Message("CONTACTS_SELECT", <<Decimal(line.args[1])>>)>>
      [] OTHER -> <<>>

\* The garbage behind the arguments is no identity, or it is one.
Outcomes(line) ==
    IF ReadsPastArguments(line) THEN {<<>>, <<Message("CONTACTS_SELECT", <<0>>)>>}
    ELSE {Queues(line)}

=============================================================================
