----------------------------- MODULE Messaging -----------------------------
(***************************************************************************)
(* The exchange of chat messages by one node: TTBroadcasterChat with the   *)
(* threads of the engine that meet in it.                                  *)
(*   - the textbox thread: TTEngine::mailbox() and selection();            *)
(*   - the broadcaster's own thread: TTBroadcasterChat::run();             *)
(*   - the gRPC server's threads: Tell and Narrate from each peer;         *)
(*   - the discovery threads, as far as they create, activate and          *)
(*     deactivate contacts.                                                *)
(* The contacts handler and the chat handler appear at the grain of their  *)
(* operations, each of which is atomic under its own mutex (the contacts   *)
(* handler in full is module Contacts).  A contact is named by its peer,   *)
(* not by its index.  The peer is what the network shows of it: a request  *)
(* may fail, its reply may be lost, and a broken Narrate stream delivers   *)
(* the messages written before it broke.                                   *)
(***************************************************************************)
EXTENDS Naturals, Sequences, SequencesExt, FiniteSets, ContactsState

CONSTANTS
    Peer,          \* the other nodes
    Self,          \* the node's own contact, created and selected at start
    None,
    MaxMessages,   \* bound on the messages the user writes to a peer
    MaxReceived,   \* bound on the messages a peer's requests carry
    MaxFailures    \* bound on the requests that fail

ASSUME MessagingAssumption ==
    /\ Self \notin Peer
    /\ None \notin Peer \cup {Self}
    /\ MaxMessages \in Nat
    /\ MaxReceived \in Nat \ {0}
    /\ MaxFailures \in Nat

VARIABLES
    st,          \* the contacts handler: the state of each contact
    contactsCurrent,
    chatKnown,   \* the chat handler: the contacts that have a storage
    chatCurrent,
    creating,    \* the peer whose addNeighbor() is between its two creations
    ui,          \* the textbox thread: [pc, who]
    serving,     \* [peer -> messages its requests have yet to store]
    pending,     \* mNeighbors[p].pendingMessages
    neighbors,   \* the keys of mNeighbors
    expired,     \* the neighbours whose timer has expired
    flag,        \* mNeighborsFlag
    bPc,         \* where run() is
    todo,        \* the neighbours its loop has still to visit
    target,      \* the neighbour its request goes to
    stopped,     \* the broadcaster is stopped
    reason,      \* why
    down,        \* the engine has stopped the handlers
    written,     \* history: the messages handleSend() accepted, per peer
    arrived,     \* history: the messages the peer has stored
    failures     \* history: the requests that failed, per peer

contactVars == <<st, contactsCurrent, chatKnown, chatCurrent, creating>>
queueVars == <<pending, neighbors, expired, flag>>
runVars == <<bPc, todo, target>>
stopVars == <<stopped, reason, down>>
historyVars == <<written, arrived, failures>>
vars == <<contactVars, ui, serving, queueVars, runVars, stopVars, historyVars>>

Contact == Peer \cup {Self}
Known == {c \in Contact : st[c] # "ABSENT"}

TypeOK ==
    /\ st \in [Contact -> State \cup {"ABSENT"}]
    /\ contactsCurrent \in Contact
    /\ chatKnown \subseteq Contact
    /\ chatCurrent \in Contact
    /\ creating \in Peer \cup {None}
    /\ ui \in [pc : {"idle", "chatSelect", "chatSend", "push"},
               who : Contact \cup {None}]
    /\ serving \in [Peer -> 0 .. MaxReceived]
    /\ pending \in [Peer -> Seq(Nat)]
    /\ neighbors \subseteq Peer
    /\ expired \subseteq neighbors
    /\ flag \in BOOLEAN
    /\ bPc \in {"reset", "wait", "scan", "request", "done"}
    /\ todo \subseteq neighbors
    /\ target \in neighbors \cup {None}
    /\ stopped \in BOOLEAN
    /\ reason \in {"none", "elsewhere", "select", "mismatch", "send", "chatSend",
                   "receive", "chatReceive"}
    /\ down \in BOOLEAN
    /\ written \in [Peer -> Seq(Nat)]
    /\ arrived \in [Peer -> Seq(Nat)]
    /\ failures \in [Peer -> 0 .. MaxFailures]

Init ==
    /\ st = [c \in Contact |-> IF c = Self THEN "SELECTED_ACTIVE" ELSE "ABSENT"]
    /\ contactsCurrent = Self
    /\ chatKnown = {Self}
    /\ chatCurrent = Self
    /\ creating = None
    /\ ui = [pc |-> "idle", who |-> None]
    /\ serving = [p \in Peer |-> 0]
    /\ pending = [p \in Peer |-> <<>>]
    /\ neighbors = {}
    /\ expired = {}
    /\ flag = FALSE
    /\ bPc = "reset"
    /\ todo = {}
    /\ target = None
    /\ stopped = FALSE
    /\ reason = "none"
    /\ down = FALSE
    /\ written = [p \in Peer |-> <<>>]
    /\ arrived = [p \in Peer |-> <<>>]
    /\ failures = [p \in Peer |-> 0]

-----------------------------------------------------------------------------
\* A failure that makes the broadcaster (or, in selection(), the engine) stop.
StopFor(why) ==
    /\ stopped' = TRUE
    /\ reason' = IF stopped THEN reason ELSE why
    /\ UNCHANGED down

\* Somebody else stops: the user, a signal, a window, the server.
StopElsewhere ==
    /\ ~stopped
    /\ StopFor("elsewhere")
    /\ UNCHANGED <<contactVars, ui, serving, queueVars, runVars, historyVars>>

\* TTEngine::run() notices and stops every component.
EngineStops ==
    /\ stopped
    /\ down' = TRUE
    /\ UNCHANGED <<contactVars, ui, serving, queueVars, runVars, stopped,
                   reason, historyVars>>

-----------------------------------------------------------------------------
(***************************************************************************)
(* Discovery, as seen from here.                                           *)
(***************************************************************************)
DiscoveryFrame ==
    UNCHANGED <<contactsCurrent, chatCurrent, ui, serving, queueVars, runVars,
                stopVars, historyVars>>

\* addNeighbor() creates the contact ...
AddContact(p) ==
    /\ ~down
    /\ creating = None
    /\ p \notin Known
    /\ st' = [st EXCEPT ![p] = "ACTIVE"]
    /\ creating' = p
    /\ UNCHANGED chatKnown
    /\ DiscoveryFrame

\* ... and then its storage in the chat handler.
AddStorage ==
    /\ creating # None
    /\ chatKnown' = IF down THEN chatKnown ELSE chatKnown \cup {creating}
    /\ creating' = None
    /\ UNCHANGED st
    /\ DiscoveryFrame

\* A heartbeat, a greeting, or an answer to our heartbeat.
Activate(p) ==
    /\ ~down
    /\ p \in Known
    /\ st' = [st EXCEPT ![p] = OnActivate(st[p])]
    /\ UNCHANGED <<creating, chatKnown>>
    /\ DiscoveryFrame

\* Our heartbeat was not answered.
Deactivate(p) ==
    /\ ~down
    /\ creating = None
    /\ p \in Known
    /\ st' = [st EXCEPT ![p] = OnDeactivate(st[p])]
    /\ UNCHANGED <<creating, chatKnown>>
    /\ DiscoveryFrame

-----------------------------------------------------------------------------
(***************************************************************************)
(* The textbox thread.                                                     *)
(***************************************************************************)

\* selection(id): contacts select, unselecting the contact selected so far ...
SelectContact(c) ==
    /\ ~down
    /\ ui.pc = "idle"
    /\ c \in Known
    /\ LET released == [st EXCEPT ![contactsCurrent] = OnUnselect(@)]
       IN  st' = [released EXCEPT ![c] = OnSelect(@)]
    /\ contactsCurrent' = c
    /\ ui' = [pc |-> "chatSelect", who |-> c]
    /\ UNCHANGED <<chatKnown, chatCurrent, creating, serving, queueVars,
                   runVars, stopVars, historyVars>>

\* A selection that the chat handler takes for the one it has.
SelectChatKeepsOld ==
    /\ ui.pc = "chatSelect"
    /\ ui' = [pc |-> "idle", who |-> None]
    /\ IF ui.who \in chatKnown /\ ~down
       THEN UNCHANGED <<chatCurrent, stopVars>>
       ELSE UNCHANGED chatCurrent /\ StopFor("select")
    /\ UNCHANGED <<st, contactsCurrent, chatKnown, creating, serving,
                   queueVars, runVars, historyVars>>

\* ... then chat select; the failure of either stops the engine.
SelectChat ==
    /\ ui.pc = "chatSelect"
    /\ ui' = [pc |-> "idle", who |-> None]
    /\ IF ui.who \in chatKnown /\ ~down
       THEN chatCurrent' = ui.who /\ UNCHANGED stopVars
       ELSE UNCHANGED chatCurrent /\ StopFor("select")
    /\ UNCHANGED <<st, contactsCurrent, chatKnown, creating, serving,
                   queueVars, runVars, historyVars>>

\* mailbox(message), handleSend(): the current contact of both handlers is
\* compared, and the contact takes note.
SendContact ==
    /\ ~down
    /\ ui.pc = "idle"
    /\ \A p \in Peer : Len(written[p]) < MaxMessages
    /\ IF contactsCurrent # chatCurrent
       THEN UNCHANGED <<st, ui>> /\ StopFor("mismatch")
       ELSE IF st[contactsCurrent] \notin Sendable
       THEN UNCHANGED <<st, ui>> /\ StopFor("send")
       ELSE /\ st' = [st EXCEPT ![contactsCurrent] = OnSend(@)]
            /\ ui' = [pc |-> "chatSend", who |-> contactsCurrent]
            /\ UNCHANGED stopVars
    /\ UNCHANGED <<contactsCurrent, chatKnown, chatCurrent, creating, serving,
                   queueVars, runVars, historyVars>>

\* The chat handler stores and displays it; nothing goes out to oneself.
SendChat ==
    /\ ui.pc = "chatSend"
    /\ IF ui.who = chatCurrent /\ ui.who \in chatKnown /\ ~down
       THEN /\ ui' = IF ui.who = Self THEN [pc |-> "idle", who |-> None]
                     ELSE [ui EXCEPT !.pc = "push"]
            /\ UNCHANGED stopVars
       ELSE /\ ui' = [pc |-> "idle", who |-> None]
            /\ StopFor("chatSend")
    /\ UNCHANGED <<contactVars, serving, queueVars, runVars, historyVars>>

\* handleSend() does not take the mutex.
NeighborsAlwaysUnlocked == TRUE

\* mNeighborsMutex is held by run() from the end of its wait to the next turn.
NeighborsUnlocked == bPc \notin {"scan", "request"}

\* Under the mutex the message, numbered as it is written to the peer, is added
\* to the neighbour's pending messages.
Push ==
    /\ ui.pc = "push"
    /\ NeighborsUnlocked
    /\ LET p == ui.who
           m == Len(written[p]) + 1 IN
       /\ pending' = [pending EXCEPT ![p] = Append(@, m)]
       /\ written' = [written EXCEPT ![p] = Append(@, m)]
       /\ neighbors' = neighbors \cup {p}
       /\ expired' = IF p \in neighbors THEN expired ELSE expired \cup {p}
    /\ flag' = TRUE
    /\ ui' = [pc |-> "idle", who |-> None]
    /\ UNCHANGED <<contactVars, serving, runVars, stopVars, arrived, failures>>

-----------------------------------------------------------------------------
(***************************************************************************)
(* The broadcaster's thread: run().                                        *)
(***************************************************************************)
RunFrame ==
    UNCHANGED <<contactVars, ui, serving, stopVars, written>>

TimerExpires(p) ==
    /\ p \in neighbors \ expired
    /\ expired' = expired \cup {p}
    /\ UNCHANGED <<pending, neighbors, flag, runVars, arrived, failures>>
    /\ RunFrame

RunReset ==
    /\ bPc = "reset"
    /\ flag' = IF stopped THEN flag ELSE FALSE
    /\ bPc' = IF stopped THEN "done" ELSE "wait"
    /\ UNCHANGED <<pending, neighbors, expired, todo, target, arrived, failures>>
    /\ RunFrame

\* A wait without a timeout: it ends by the flag or a stop only.
RunWakeByFlag ==
    /\ bPc = "wait"
    /\ flag \/ stopped
    /\ bPc' = "scan"
    /\ todo' = neighbors
    /\ UNCHANGED <<queueVars, target, arrived, failures>>
    /\ RunFrame

\* The wait ends by the flag, by a stop or after its timeout, so at any time.
RunWake ==
    /\ bPc = "wait"
    /\ bPc' = "scan"
    /\ todo' = neighbors
    /\ UNCHANGED <<queueVars, target, arrived, failures>>
    /\ RunFrame

\* A neighbour whose timer is running is passed over.
RunPass(p) ==
    /\ bPc = "scan" /\ ~stopped
    /\ p \in todo \ expired
    /\ todo' = todo \ {p}
    /\ UNCHANGED <<queueVars, bPc, target, arrived, failures>>
    /\ RunFrame

\* An inactive contact, a stub that cannot be created, or nothing to send.
RunSkip(p) ==
    /\ bPc = "scan" /\ ~stopped
    /\ p \in todo \cap expired
    /\ \/ ~IsActive(st[p]) \/ pending[p] = <<>>
       \/ failures[p] < MaxFailures
    /\ todo' = todo \ {p}
    /\ expired' = expired \ {p}
    /\ failures' = IF IsActive(st[p]) /\ pending[p] # <<>>
                   THEN [failures EXCEPT ![p] = @ + 1] ELSE failures
    /\ UNCHANGED <<pending, neighbors, flag, bPc, target, arrived>>
    /\ RunFrame

\* Tell or Narrate: all pending messages go into one request.
RunRequest(p) ==
    /\ bPc = "scan" /\ ~stopped
    /\ p \in todo \cap expired
    /\ IsActive(st[p])
    /\ pending[p] # <<>>
    /\ todo' = todo \ {p}
    /\ expired' = expired \ {p}
    /\ bPc' = "request"
    /\ target' = p
    /\ UNCHANGED <<pending, neighbors, flag, arrived, failures>>
    /\ RunFrame

\* The pending messages are forgotten whatever the answer.
RequestFailsForgets(k) ==
    /\ bPc = "request"
    /\ failures[target] < MaxFailures
    /\ k <= Len(pending[target])
    /\ arrived' = [arrived EXCEPT ![target] = @ \o SubSeq(pending[target], 1, k)]
    /\ failures' = [failures EXCEPT ![target] = @ + 1]
    /\ pending' = [pending EXCEPT ![target] = <<>>]
    /\ bPc' = "scan"
    /\ target' = None
    /\ UNCHANGED <<neighbors, expired, flag, todo>>
    /\ RunFrame

\* The request fails after k messages arrived: 0 if it never reached the peer
\* or was refused, all of them if only the reply was lost.
RequestFails(k) ==
    /\ bPc = "request"
    /\ failures[target] < MaxFailures
    /\ k <= Len(pending[target])
    /\ arrived' = [arrived EXCEPT ![target] = @ \o SubSeq(pending[target], 1, k)]
    /\ failures' = [failures EXCEPT ![target] = @ + 1]
    /\ bPc' = "scan"
    /\ target' = None
    /\ UNCHANGED <<queueVars, todo>>
    /\ RunFrame

\* A Narrate that writes its messages last to first.
RequestAnsweredReversed ==
    /\ bPc = "request"
    /\ arrived' = [arrived EXCEPT ![target] = @ \o Reverse(pending[target])]
    /\ pending' = [pending EXCEPT ![target] = <<>>]
    /\ bPc' = "scan"
    /\ target' = None
    /\ UNCHANGED <<neighbors, expired, flag, todo, failures>>
    /\ RunFrame

\* Only the first message of an answered Narrate is forgotten.
RequestAnsweredPops ==
    /\ bPc = "request"
    /\ arrived' = [arrived EXCEPT ![target] = @ \o pending[target]]
    /\ pending' = [pending EXCEPT ![target] = Tail(@)]
    /\ bPc' = "scan"
    /\ target' = None
    /\ UNCHANGED <<neighbors, expired, flag, todo, failures>>
    /\ RunFrame

RequestAnswered ==
    /\ bPc = "request"
    /\ arrived' = [arrived EXCEPT ![target] = @ \o pending[target]]
    /\ pending' = [pending EXCEPT ![target] = <<>>]
    /\ bPc' = "scan"
    /\ target' = None
    /\ UNCHANGED <<neighbors, expired, flag, todo, failures>>
    /\ RunFrame

RunTurn ==
    /\ bPc = "scan"
    /\ todo = {} \/ stopped
    /\ bPc' = "reset"
    /\ todo' = {}
    /\ UNCHANGED <<queueVars, target, arrived, failures>>
    /\ RunFrame

-----------------------------------------------------------------------------
(***************************************************************************)
(* The gRPC server: handleReceive() of a Tell (n = 1) or a Narrate.        *)
(***************************************************************************)

\* Requests of one peer may overlap, as when it sends again what it believes
\* lost.  An unknown identity is refused without effect, and one with the
\* node's own address is answered without effect.  A contact that is not
\* active cannot receive, and that stops the broadcaster.
ReceiveContact(p, n) ==
    /\ ~down
    /\ serving[p] + n <= MaxReceived
    /\ p \in Known
    /\ IF st[p] \in Receivable
       THEN /\ st' = [st EXCEPT ![p] = OnReceive(@)]
            /\ serving' = [serving EXCEPT ![p] = @ + n]
            /\ UNCHANGED stopVars
       ELSE UNCHANGED <<st, serving>> /\ StopFor("receive")
    /\ UNCHANGED <<contactsCurrent, chatKnown, chatCurrent, creating, ui,
                   queueVars, runVars, historyVars>>

\* A refused message ends its request with those behind it; other requests of
\* the peer go on.
ReceiveChat(p) ==
    /\ serving[p] > 0
    /\ IF p \in chatKnown /\ ~down
       THEN /\ serving' = [serving EXCEPT ![p] = @ - 1]
            /\ UNCHANGED stopVars
       ELSE /\ \E k \in 0 .. serving[p] - 1 : serving' = [serving EXCEPT ![p] = k]
            /\ StopFor("chatReceive")
    /\ UNCHANGED <<contactVars, ui, queueVars, runVars, historyVars>>

-----------------------------------------------------------------------------
Discovery ==
    \/ \E p \in Peer : AddContact(p)
    \/ AddStorage
    \/ \E p \in Peer : Activate(p)
    \/ \E p \in Peer : Deactivate(p)

TextBox ==
    \/ \E c \in Contact : SelectContact(c)
    \/ SelectChat \/ SendContact \/ SendChat \/ Push

Run ==
    \/ RunReset \/ RunWake \/ RunTurn
    \/ \E p \in Peer : RunPass(p)
    \/ \E p \in Peer : RunSkip(p)
    \/ \E p \in Peer : RunRequest(p)
    \/ \E k \in 0 .. MaxMessages : RequestFails(k)
    \/ RequestAnswered

Server ==
    \/ \E p \in Peer, n \in 1 .. MaxReceived : ReceiveContact(p, n)
    \/ \E p \in Peer : ReceiveChat(p)

Next ==
    \/ StopElsewhere \/ EngineStops
    \/ Discovery \/ TextBox \/ Run \/ Server
    \/ \E p \in Peer : TimerExpires(p)

(***************************************************************************)
(* The broadcaster's thread runs, timers expire, and a call that has begun *)
(* goes on.  A request ends: gRPC reports a broken connection.             *)
(***************************************************************************)
Fairness ==
    /\ WF_vars(Run)
    /\ \A p \in Peer : WF_vars(TimerExpires(p))
    /\ WF_vars(SelectChat \/ SendChat \/ Push)
    /\ WF_vars(AddStorage)

Spec == Init /\ [][Next]_vars

FairSpec == Spec /\ Fairness

-----------------------------------------------------------------------------
\* No message is lost on its way out: every message the user wrote to a peer
\* has arrived there or is still pending, however requests fail.
NoMessageLost ==
    \A p \in Peer : Range(written[p]) \subseteq
                        Range(arrived[p]) \cup Range(pending[p])

\* No gaps and no reordering: a peer that stores a message has stored, before
\* it, every message that was written to it before.
ArrivesInOrder ==
    \A p \in Peer : \A i \in DOMAIN arrived[p] : \A j \in DOMAIN written[p] :
        written[p][j] < arrived[p][i] =>
            \E h \in 1 .. i - 1 : arrived[p][h] = written[p][j]

\* A message is repeated only by a request that failed after it arrived.
RepeatedOnlyByFailure ==
    \A p \in Peer : \A m \in Range(arrived[p]) :
        Cardinality({i \in DOMAIN arrived[p] : arrived[p][i] = m})
            <= 1 + failures[p]

\* A contact displayed with pending messages ("!?" and "<!?") has some, or
\* the textbox thread is just handing one over.
PendingMarkIsTrue ==
    \A p \in Peer :
        st[p] \in {"PENDING_MSG_INACTIVE", "SELECTED_PENDING_MSG_INACTIVE"} =>
            \/ pending[p] # <<>>
            \/ ui.who = p /\ ui.pc \in {"chatSend", "push"}
            \/ stopped

\* The node stops by itself in two windows only: a message comes from a peer
\* that is taken for inactive, or a selection or a message meets a contact
\* between its two creations.  In particular writing never stops it: whenever
\* the user writes, the two handlers agree about the current contact, that
\* contact can be written to, and the chat handler takes the message.
StopsOnlyInWindows ==
    [][reason' # reason =>
          \/ reason' = "elsewhere"
          \/ reason' = "receive" /\ \E p \in Peer \cap Known : ~IsActive(st[p])
          \/ reason' \in {"select", "chatReceive"} /\ creating # None]_vars

\* What the states promise of pending messages (contacts/src/
\* TTContactsState.hpp: "SELECTED_INACTIVE, // Inactive contact, no
\* unread/pending messages, selected"): an inactive contact with messages
\* that have not been delivered is in one of the two pending states.
PendingIsMarked ==
    \A p \in Peer :
        (~IsActive(st[p]) /\ pending[p] # <<>>) =>
            st[p] \in {"PENDING_MSG_INACTIVE", "SELECTED_PENDING_MSG_INACTIVE"}

\* What is written to a peer that stays active is delivered, unless the node
\* stops or all its requests fail (MaxFailures of them do): the timeout of the
\* wait makes up for a flag that is reset before run() takes the mutex.
EventuallyDelivered ==
    \A p \in Peer :
        (<>[](IsActive(st[p]) /\ ~stopped)) =>
            ((pending[p] # <<>>) ~> (pending[p] = <<>>))

=============================================================================
