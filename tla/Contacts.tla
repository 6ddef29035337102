------------------------------ MODULE Contacts ------------------------------
(***************************************************************************)
(* The contacts component: TTContactsHandler, which lives in the engine    *)
(* process and keeps the state of every contact, and TTContacts, the       *)
(* window process that displays them.  Every change of a contact's state   *)
(* is queued as a message; the handler's main thread carries the queue, a  *)
(* message at a time, through shared memory to the window.                 *)
(*                                                                         *)
(* Actors: the callers of the handler's operations (serialised by          *)
(* mContactsMutex), the handler's main thread and heartbeat thread, the    *)
(* window, and whoever stops the handler or the window.                    *)
(*                                                                         *)
(* Contact ids count from 0 as in the code.  The vector mContacts is the   *)
(* function "state" below "size", and the window's vector mEntries is the  *)
(* function "entries" below "shown".  Nicknames, addresses and the         *)
(* sent/received statistics do not influence control and are left out.     *)
(***************************************************************************)
EXTENDS Integers, Sequences, ContactsState

CONSTANTS
    MaxContacts,   \* bound on the number of contacts ever created
    MaxQueue       \* bound on mQueuedMessages

ASSUME BoundsAssumption ==
    /\ MaxContacts \in Nat \ {0}
    /\ MaxQueue \in Nat \ {0}

VARIABLES
    size,            \* mContacts.size()
    state,           \* mContacts[id].state
    mCurrentContact, \* the selected contact, or NoContact
    selecting,       \* the id of a select() between its two halves
    pipe,            \* main()'s list "messages" followed by mQueuedMessages
    drained,         \* how many messages of pipe main() has taken over
    mainPc,          \* where the constructor, then the main thread, is
    heartbeatPc,     \* where the heartbeat thread is
    stopped,         \* TTUtilsStopable::mStopped of the handler
    mem,             \* what the shared memory holds for the window
    shown,           \* mEntries.size()
    entries,         \* mEntries[id].state
    windowStopped    \* the window's run() has ended

handlerVars == <<size, state, mCurrentContact, selecting>>
windowVars == <<shown, entries, windowStopped>>
vars == <<handlerVars, pipe, drained, mainPc, heartbeatPc, stopped, mem,
          windowVars>>

Id == 0 .. MaxContacts - 1
NoContact == -1
Absent == "ABSENT"

Message == [status : {"STATE", "HEARTBEAT"},
            identity : Id \cup {NoContact},
            state : State]

StateMessage(id, s) == [status |-> "STATE", identity |-> id, state |-> s]
HeartbeatMessage ==
    [status |-> "HEARTBEAT", identity |-> NoContact, state |-> "ACTIVE"]

About(m, id) == m.status = "STATE" /\ m.identity = id

(***************************************************************************)
(* One type invariant.                                                     *)
(***************************************************************************)
MainPc == {"establish", "failed", "wait", "loop", "sending", "goodbye",
           "exit", "done"}

TypeOK ==
    /\ size \in 0 .. MaxContacts
    /\ state \in [Id -> State \cup {Absent}]
    /\ \A id \in Id : state[id] = Absent <=> id >= size
    /\ mCurrentContact \in Id \cup {NoContact}
    /\ selecting \in Id \cup {NoContact}
    /\ pipe \in Seq(Message)
    /\ drained \in 0 .. Len(pipe)
    /\ mainPc \in MainPc
    /\ heartbeatPc \in {"running", "done"}
    /\ stopped \in BOOLEAN
    /\ mem \in {"empty", "heartbeat", "message", "goodbye"}
    /\ shown \in 0 .. MaxContacts
    /\ entries \in [Id -> State \cup {Absent}]
    /\ windowStopped \in BOOLEAN

\* The constructor has created the shared memory and establish() has copied
\* its heartbeat into it; TTContacts has opened the memory.
Init ==
    /\ size = 0
    /\ state = [id \in Id |-> Absent]
    /\ mCurrentContact = NoContact
    /\ selecting = NoContact
    /\ pipe = <<>>
    /\ drained = 0
    /\ mainPc = "establish"
    /\ heartbeatPc = "running"
    /\ stopped = FALSE
    /\ mem = "heartbeat"
    /\ shown = 0
    /\ entries = [id \in Id |-> Absent]
    /\ windowStopped = FALSE

-----------------------------------------------------------------------------
(***************************************************************************)
(* The operations of the handler.                                          *)
(***************************************************************************)

Constructed == mainPc \notin {"establish", "failed"}

\* mContactsMutex is free: no select() is between its two halves.
ContactsUnlocked == selecting = NoContact

\* send(message): refused once stopped, otherwise queued.  A stop() between
\* the test of isStopped() and the push leaves the message in a queue that
\* nobody reads any more, as does a push just before the stop().
Queue(m) ==
    IF stopped
    THEN UNCHANGED pipe
    ELSE /\ Len(pipe) - drained < MaxQueue
         /\ pipe' = Append(pipe, m)

\* The common end of the operations: assign the state, and queue a message
\* if that changed it.
SetState(id, s) ==
    /\ state' = [state EXCEPT ![id] = s]
    /\ IF s = state[id] THEN UNCHANGED pipe ELSE Queue(StateMessage(id, s))

\* The message of a new contact overtakes the ones queued before it.
CreateJumpsQueue ==
    /\ Constructed
    /\ ContactsUnlocked
    /\ size < MaxContacts
    /\ Len(pipe) - drained < MaxQueue
    /\ size' = size + 1
    /\ state' = [state EXCEPT ![size] = "ACTIVE"]
    /\ IF mem # "message"
       THEN pipe' = <<StateMessage(size, "ACTIVE")>> \o pipe
       ELSE Queue(StateMessage(size, "ACTIVE"))
    /\ UNCHANGED <<mCurrentContact, selecting, drained, mainPc, heartbeatPc,
                   stopped, mem, windowVars>>

Create ==
    /\ Constructed
    /\ ContactsUnlocked
    /\ size < MaxContacts
    /\ size' = size + 1
    /\ state' = [state EXCEPT ![size] = "ACTIVE"]
    /\ Queue(StateMessage(size, "ACTIVE"))
    /\ UNCHANGED <<mCurrentContact, selecting, drained, mainPc, heartbeatPc,
                   stopped, mem, windowVars>>

\* What send(id), receive(id), activate(id) and deactivate(id) share.
Operation(id) ==
    /\ Constructed
    /\ ContactsUnlocked
    /\ id < size
    /\ UNCHANGED <<size, mCurrentContact, selecting, drained, mainPc,
                   heartbeatPc, stopped, mem, windowVars>>

Send(id) ==
    /\ Operation(id)
    /\ state[id] \in Sendable
    /\ SetState(id, OnSend(state[id]))

Receive(id) ==
    /\ Operation(id)
    /\ state[id] \in Receivable
    /\ SetState(id, OnReceive(state[id]))

\* The change of state is queued only when nothing else is waiting.
ActivateCoalesces(id) ==
    /\ Operation(id)
    /\ state' = [state EXCEPT ![id] = OnActivate(state[id])]
    /\ IF pipe # <<>> \/ OnActivate(state[id]) = state[id]
       THEN UNCHANGED pipe
       ELSE Queue(StateMessage(id, OnActivate(state[id])))

Activate(id) ==
    /\ Operation(id)
    /\ SetState(id, OnActivate(state[id]))

Deactivate(id) ==
    /\ Operation(id)
    /\ SetState(id, OnDeactivate(state[id]))

\* The second half of select(id): the new contact becomes the current one.
SelectNew(id) ==
    /\ mCurrentContact' = id
    /\ selecting' = NoContact
    /\ IF state[id] \in Selectable
       THEN /\ state' = [state EXCEPT ![id] = OnSelect(state[id])]
            /\ Queue(StateMessage(id, OnSelect(state[id])))
       ELSE UNCHANGED <<state, pipe>>
    /\ UNCHANGED <<size, drained, mainPc, heartbeatPc, stopped, mem,
                   windowVars>>

\* The new contact is selected and the old one is never unselected.
SelectKeepsOld(id) ==
    /\ Constructed
    /\ ContactsUnlocked
    /\ id < size
    /\ SelectNew(id)

\* select(id) up to its first send(message): with no contact selected so far
\* it is a single step; otherwise the contact selected so far is unselected,
\* and a refused message makes select() return with mCurrentContact as it was.
Select(id) ==
    /\ Constructed
    /\ ContactsUnlocked
    /\ id < size
    /\ IF mCurrentContact = NoContact
       THEN SelectNew(id)
       ELSE LET old == mCurrentContact IN
            /\ IsSelected(state[old])
            /\ state' = [state EXCEPT ![old] = OnUnselect(state[old])]
            /\ Queue(StateMessage(old, OnUnselect(state[old])))
            /\ selecting' = IF stopped THEN NoContact ELSE id
            /\ UNCHANGED <<size, mCurrentContact, drained, mainPc,
                           heartbeatPc, stopped, mem, windowVars>>

SelectFinish ==
    /\ selecting # NoContact
    /\ SelectNew(selecting)

\* stop(), called by the engine or by the destructor.
Stop ==
    /\ Constructed
    /\ stopped' = TRUE
    /\ UNCHANGED <<handlerVars, pipe, drained, mainPc, heartbeatPc, mem,
                   windowVars>>

-----------------------------------------------------------------------------
(***************************************************************************)
(* The heartbeat thread: heartbeat().                                      *)
(***************************************************************************)

\* The sleep of 500 ms between two heartbeats is the time until the next step.
Heartbeat ==
    /\ Constructed
    /\ heartbeatPc = "running"
    /\ ~stopped
    /\ Queue(HeartbeatMessage)
    /\ UNCHANGED <<handlerVars, drained, mainPc, heartbeatPc, stopped, mem,
                   windowVars>>

HeartbeatQuit ==
    /\ Constructed
    /\ heartbeatPc = "running"
    /\ stopped
    /\ heartbeatPc' = "done"
    /\ UNCHANGED <<handlerVars, pipe, drained, mainPc, stopped, mem,
                   windowVars>>

-----------------------------------------------------------------------------
(***************************************************************************)
(* The constructor's establish() and the main thread: main().  A send()    *)
(* through the shared memory is two steps: the copy, and the answer of the *)
(* window or the end of the last timed wait.                               *)
(***************************************************************************)

MainStep(from, to) ==
    /\ mainPc = from
    /\ mainPc' = to
    /\ UNCHANGED <<handlerVars, heartbeatPc, windowVars>>

Established ==
    /\ MainStep("establish", "wait")
    /\ mem = "empty"
    /\ UNCHANGED <<pipe, drained, stopped, mem>>

EstablishTimeout ==
    /\ MainStep("establish", "failed")
    /\ mem # "empty"
    /\ UNCHANGED <<pipe, drained, stopped, mem>>

\* The list is taken to be one longer than the queue.
MainDrainOffByOne ==
    /\ MainStep("wait", "loop")
    /\ ~stopped
    /\ pipe # <<>>
    /\ drained' = Len(pipe) + 1
    /\ UNCHANGED <<pipe, stopped, mem>>

\* The wait ends with messages in the queue: all of them become main()'s list.
MainDrain ==
    /\ MainStep("wait", "loop")
    /\ ~stopped
    /\ pipe # <<>>
    /\ drained' = Len(pipe)
    /\ UNCHANGED <<pipe, stopped, mem>>

\* sendGoodbye() from the wait or from the list.  What is left in the list is
\* destroyed with it, and nobody reads what is left in the queue.
MainGoodbye ==
    /\ \/ MainStep("wait", "goodbye")
       \/ MainStep("loop", "goodbye") /\ drained > 0
    /\ stopped
    /\ mem' = "goodbye"
    /\ pipe' = <<>>
    /\ drained' = 0
    /\ UNCHANGED stopped

MainSend ==
    /\ MainStep("loop", "sending")
    /\ drained > 0
    /\ ~stopped
    /\ mem' = "message"
    /\ UNCHANGED <<pipe, drained, stopped>>

MainListDone ==
    /\ MainStep("loop", "wait")
    /\ drained = 0
    /\ UNCHANGED <<pipe, drained, stopped, mem>>

MainSent ==
    /\ MainStep("sending", "loop")
    /\ mem = "empty"
    /\ UNCHANGED <<pipe, drained, stopped, mem>>

\* A failed send is retried by the next turn of the loop.
MainSendTimeoutRetries ==
    /\ MainStep("sending", "loop")
    /\ mem # "empty"
    /\ UNCHANGED <<pipe, drained, stopped, mem>>

\* The window has not answered in time: a hard failure, without a goodbye.
MainSendTimeout ==
    /\ MainStep("sending", "exit")
    /\ mem # "empty"
    /\ UNCHANGED <<pipe, drained, stopped, mem>>

\* Whether the window takes the goodbye or not, main() goes on.
MainGoodbyeDone ==
    /\ MainStep("goodbye", "exit")
    /\ UNCHANGED <<pipe, drained, stopped, mem>>

\* destroy() unlinks the memory (the window keeps its mapping and can still
\* take what was copied there), then stop(); the list and the queue are dead.
MainExit ==
    /\ MainStep("exit", "done")
    /\ stopped' = TRUE
    /\ IF mem = "message"
       THEN pipe' = <<Head(pipe)>> /\ drained' = 1
       ELSE pipe' = <<>> /\ drained' = 0
    /\ UNCHANGED mem

-----------------------------------------------------------------------------
(***************************************************************************)
(* The window: TTContacts::run() and handle().                             *)
(***************************************************************************)

\* A new contact is taken for a known one.
HandleStateOffByOne(id, s) ==
    IF s = "ACTIVE" /\ id > shown
    THEN /\ entries' = [entries EXCEPT ![shown] = s]
         /\ shown' = shown + 1
    ELSE /\ entries' = [entries EXCEPT ![id] = s]
         /\ UNCHANGED shown

\* handle() of a STATE message.  Indexing mEntries past its end is undefined
\* behaviour in the code; IndexSafety states that it is never reached.
HandleState(id, s) ==
    IF s = "ACTIVE" /\ id >= shown
    THEN /\ entries' = [entries EXCEPT ![shown] = s]
         /\ shown' = shown + 1
    ELSE /\ entries' = [entries EXCEPT ![id] = s]
         /\ UNCHANGED shown

\* receive() copies the message out and lets the sender go on; handle()
\* touches the window's own state only, so both are one step.
WindowReceive ==
    /\ ~windowStopped
    /\ mem # "empty"
    /\ mem' = "empty"
    /\ IF mem = "message"
       THEN /\ pipe' = Tail(pipe)
            /\ drained' = drained - 1
            /\ IF Head(pipe).status = "STATE"
               THEN HandleState(Head(pipe).identity, Head(pipe).state)
               ELSE UNCHANGED <<shown, entries>>
       ELSE UNCHANGED <<pipe, drained, shown, entries>>
    /\ windowStopped' = (mem = "goodbye")
    /\ UNCHANGED <<handlerVars, mainPc, heartbeatPc, stopped>>

\* Three timed waits of receive() have found no message: run() ends.
WindowTimeout ==
    /\ ~windowStopped
    /\ mem = "empty"
    /\ windowStopped' = TRUE
    /\ UNCHANGED <<handlerVars, pipe, drained, mainPc, heartbeatPc, stopped,
                   mem, shown, entries>>

\* A signal, or a refresh() that fails.
WindowStop ==
    /\ ~windowStopped
    /\ windowStopped' = TRUE
    /\ UNCHANGED <<handlerVars, pipe, drained, mainPc, heartbeatPc, stopped,
                   mem, shown, entries>>

-----------------------------------------------------------------------------
Operations ==
    \/ Create
    \/ \E id \in Id : Send(id)
    \/ \E id \in Id : Receive(id)
    \/ \E id \in Id : Activate(id)
    \/ \E id \in Id : Deactivate(id)
    \/ \E id \in Id : Select(id)
    \/ SelectFinish
    \/ Stop

HeartbeatThread == Heartbeat \/ HeartbeatQuit

\* The steps of main() that do not depend on being woken up by stop().
MainThread ==
    \/ Established \/ EstablishTimeout
    \/ MainDrain \/ MainSend \/ MainListDone
    \/ MainSent \/ MainSendTimeout \/ MainGoodbyeDone \/ MainExit

Window == WindowReceive \/ WindowTimeout

Next == Operations \/ HeartbeatThread \/ MainThread \/ MainGoodbye
            \/ Window \/ WindowStop

(***************************************************************************)
(* Fairness.  Threads are scheduled and timed waits end.  A push to the    *)
(* queue holds the mutex of the wait, so its wake-up cannot be lost; the   *)
(* wake-up of stop() can (module StopSignal), so MainGoodbye has none.     *)
(***************************************************************************)
Fairness ==
    /\ WF_vars(SelectFinish)
    /\ WF_vars(Heartbeat)
    /\ WF_vars(MainThread)
    /\ WF_vars(WindowReceive)
    /\ WF_vars(WindowTimeout)

Spec == Init /\ [][Next]_vars

FairSpec == Spec /\ Fairness

-----------------------------------------------------------------------------
(***************************************************************************)
(* Properties.                                                             *)
(***************************************************************************)

\* A contact is in a SELECTED_ state only if it is the current contact, and
\* the current contact is, unless select() is between unselecting the old
\* and selecting the new one or was cut short by a stop().  (handleSend()
\* relies on it: send() is refused for a contact that is not selected.)
SelectedIsCurrent ==
    /\ \A id \in Id : IsSelected(state[id]) => id = mCurrentContact
    /\ (mCurrentContact # NoContact /\ ContactsUnlocked /\ ~stopped)
          => IsSelected(state[mCurrentContact])

\* For every contact, the last word that is on its way to the window (or, if
\* none is, what the window already shows) is the state the handler keeps:
\* no order of operations, heartbeats, batches and timeouts makes the window
\* converge to anything else, as long as the handler is not stopped.
LastWord(id) ==
    \/ \E k \in 1 .. Len(pipe) :
          /\ pipe[k] = StateMessage(id, state[id])
          /\ \A j \in k + 1 .. Len(pipe) : ~About(pipe[j], id)
    \/ /\ \A k \in 1 .. Len(pipe) : ~About(pipe[k], id)
       /\ entries[id] = state[id]

WindowConverges == ~stopped => \A id \in Id : id < size => LastWord(id)

\* handle() never indexes mEntries past its end, and appends a contact under
\* the index that is its identity: whatever has been queued, a message about
\* a contact the window does not know is the one that created it, and the
\* contacts created before it are known by then.
IndexSafety ==
    (mem = "message" /\ Head(pipe).status = "STATE") =>
        LET m == Head(pipe) IN
        m.identity < shown \/ (m.identity = shown /\ m.state = "ACTIVE")

\* The edges of the diagram, with the creation of a contact.
DiagramEdge(s, t) ==
    <<s, t>> \in
      {<<"ABSENT", "ACTIVE">>,
       <<"ACTIVE", "INACTIVE">>,
       <<"ACTIVE", "SELECTED_ACTIVE">>,
       <<"ACTIVE", "UNREAD_MSG_ACTIVE">>,
       <<"INACTIVE", "ACTIVE">>,
       <<"INACTIVE", "SELECTED_INACTIVE">>,
       <<"SELECTED_ACTIVE", "SELECTED_INACTIVE">>,
       <<"SELECTED_ACTIVE", "ACTIVE">>,
       <<"SELECTED_INACTIVE", "SELECTED_PENDING_MSG_INACTIVE">>,
       <<"SELECTED_INACTIVE", "SELECTED_ACTIVE">>,
       <<"SELECTED_INACTIVE", "INACTIVE">>,
       <<"UNREAD_MSG_ACTIVE", "UNREAD_MSG_INACTIVE">>,
       <<"UNREAD_MSG_ACTIVE", "SELECTED_ACTIVE">>,
       <<"UNREAD_MSG_INACTIVE", "UNREAD_MSG_ACTIVE">>,
       <<"UNREAD_MSG_INACTIVE", "SELECTED_INACTIVE">>,
       <<"PENDING_MSG_INACTIVE", "ACTIVE">>,
       <<"PENDING_MSG_INACTIVE", "SELECTED_PENDING_MSG_INACTIVE">>,
       <<"SELECTED_PENDING_MSG_INACTIVE", "SELECTED_ACTIVE">>,
       <<"SELECTED_PENDING_MSG_INACTIVE", "PENDING_MSG_INACTIVE">>}

\* A step changes at most one contact, along an edge of the diagram
\* contacts/doc/TTContactsState.uml; in particular unread messages are
\* forgotten only by selecting the contact, and pending ones only by
\* activating it.
DiagramStep ==
    \A id \in Id : state'[id] # state[id] =>
        /\ DiagramEdge(state[id], state'[id])
        /\ \A other \in Id \ {id} : state'[other] = state[other]

\* The diagram is followed by every step (see DiagramStep).
FollowsDiagram == [][DiagramStep]_vars

\* A contact that is created is eventually on display, unless one of the two
\* processes ends first.
CreatedIsShown ==
    \A id \in Id :
        (id < size) ~> (id < shown \/ stopped \/ windowStopped)

\* Neither side outlives the other: when the window has ended (even by a
\* crash) the heartbeats make the handler notice and stop, and when the
\* handler has stopped the window ends, by the goodbye or by its timeout.
EndTogether ==
    (windowStopped \/ stopped) ~> (windowStopped /\ (stopped \/ mainPc = "failed"))

=============================================================================
