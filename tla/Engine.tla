------------------------------- MODULE Engine -------------------------------
(***************************************************************************)
(* The life of a TTEngine: the steps of its constructor, run(), stop(),    *)
(* the destructor and the destruction of the members, next to the threads  *)
(* of the server and of the broadcasters and to the thread of the textbox  *)
(* handler, which calls mailbox() and selection() from the moment it       *)
(* exists.  What the components do is left to their own modules: here they *)
(* run, and stop when they are told to or by themselves.                   *)
(***************************************************************************)
EXTENDS Integers, Sequences, SequencesExt

VARIABLES
    step,       \* the number of steps of the constructor that are done
    gone,       \* the number of members that are destroyed
    phase,      \* where the main thread is
    stopped,    \* isStopped() of the engine
    early,      \* stop() has run before all members were there
    down,       \* the components for which isStopped() holds
    threads,    \* the three threads of the engine
    missed,     \* main() of the contacts handler waits and has missed the stop
    text,       \* the thread of the textbox handler
    crashed     \* a callback has used a broadcaster that is not there

vars == <<step, gone, phase, stopped, early, down, missed, threads, text, crashed>>

\* The constructor, in its order.  (The mutex of the callbacks is a member
\* without a constructor or destructor that does anything.)
Construction ==
    <<"externalCallsMutex", "contacts", "chat", "textbox", "contact0", "chat0", "stub",
      "broadcasterChat", "broadcasterDiscovery", "services", "server",
      "serverThread", "chatThread", "discoveryThread">>

\* The members in the reverse order of their declaration.
Destruction ==
    <<"broadcasterDiscovery", "broadcasterChat", "stub", "server", "services",
      "externalCallsMutex", "textbox", "chat", "contacts">>

Components == {"server", "contacts", "chat", "textbox", "broadcasterChat",
               "broadcasterDiscovery"}

\* Each thread of the engine runs a component.
Runs == [serverThread |-> "server", chatThread |-> "broadcasterChat",
         discoveryThread |-> "broadcasterDiscovery"]

Built(s) == \E i \in 1 .. step : Construction[i] = s
Destroyed(c) == \E i \in 1 .. gone : Destruction[i] = c
Exists(c) == Built(c) /\ ~Destroyed(c)

Init ==
    /\ step = 0 /\ gone = 0
    /\ phase = "construct"
    /\ stopped = FALSE /\ early = FALSE
    /\ down = {} /\ missed = FALSE
    /\ threads = [t \in DOMAIN Runs |-> "none"]
    /\ text = "none"
    /\ crashed = FALSE

-----------------------------------------------------------------------------
(***************************************************************************)
(* stop() and onStop(): once, for the components that are there.           *)
(***************************************************************************)
StoppedByEngine == {c \in Components : Exists(c)}

\* A stop from outside may come between the test and the wait of main() in
\* TTContactsHandler, which then misses the notification (module StopSignal).
MayMiss(told) == missed' \in {missed, missed \/ ("contacts" \in told \ down)}

StopAnd(others) ==
    /\ stopped' = TRUE
    /\ IF stopped THEN down' = down \cup others /\ UNCHANGED <<early, missed>>
       ELSE /\ down' = down \cup others \cup StoppedByEngine
            /\ early' = (phase = "construct" /\ \E c \in Components : ~Built(c))
            /\ MayMiss(StoppedByEngine)

Stop == StopAnd({})

-----------------------------------------------------------------------------
(***************************************************************************)
(* The main thread.                                                        *)
(***************************************************************************)
Construct ==
    /\ ~crashed
    /\ phase = "construct" /\ step < Len(Construction)
    /\ step' = step + 1
    /\ LET s == Construction[step + 1]
       IN /\ text' = IF s = "textbox" THEN "loop" ELSE text
          /\ threads' = IF s \in DOMAIN Runs THEN [threads EXCEPT ![s] = "running"] ELSE threads
    /\ UNCHANGED <<gone, phase, stopped, early, down, missed, crashed>>

\* A component cannot be created: the members made so far are destroyed, the
\* destructor of the engine does not run.
ConstructFails ==
    /\ ~crashed
    /\ phase = "construct" /\ step < Len(Construction)
    /\ Construction[step + 1] \in Components \cup {"stub", "services"}
    /\ phase' = "destroy"
    /\ UNCHANGED <<step, gone, stopped, early, down, missed, threads, text, crashed>>

Constructed ==
    /\ ~crashed
    /\ phase = "construct" /\ step = Len(Construction)
    /\ phase' = "run"
    /\ UNCHANGED <<step, gone, stopped, early, down, missed, threads, text, crashed>>


Watched == Components

\* run() sees that somebody has stopped, then the destructor begins; a stop
\* before run() has the same effect.
Run ==
    /\ ~crashed
    /\ phase = "run"
    /\ stopped \/ \E c \in Watched : c \in down
    /\ Stop
    /\ phase' = "wait"
    /\ UNCHANGED <<step, gone, threads, text, crashed>>

\* Only the first blocker is waited for.
JoinedFirst == threads["serverThread"] = "ended"

Joined == \A t \in DOMAIN Runs : threads[t] = "ended"

WaitForThreads ==
    /\ ~crashed
    /\ phase = "wait"
    /\ Joined
    /\ phase' = "destroy"
    /\ UNCHANGED <<step, gone, stopped, early, down, missed, threads, text, crashed>>

\* What the destructor of a handler waits for: the textbox handler's thread,
\* main() of the contacts handler.  (The destructor of the chat handler
\* returns whatever its threads are doing: StopSignal.)
ThreadsEnded(c) ==
    CASE c = "textbox" -> text = "ended"
      [] c = "contacts" -> ~missed
      [] OTHER -> TRUE

\* The destructor of a handler stops it, then waits for its threads.
DestroyMember ==
    /\ ~crashed
    /\ phase = "destroy" /\ gone < Len(Destruction)
    /\ LET c == Destruction[gone + 1]
       IN IF c \in {"textbox", "chat", "contacts"} \ down /\ Built(c)
          THEN down' = down \cup {c} /\ MayMiss({c}) /\ UNCHANGED gone
          ELSE /\ Built(c) => ThreadsEnded(c)
               /\ gone' = gone + 1
               /\ UNCHANGED <<down, missed>>
    /\ UNCHANGED <<step, phase, stopped, early, threads, text, crashed>>

Ended ==
    /\ ~crashed
    /\ phase = "destroy" /\ gone = Len(Destruction)
    /\ phase' = "ended"
    /\ UNCHANGED <<step, gone, stopped, early, down, missed, threads, text, crashed>>

-----------------------------------------------------------------------------
(***************************************************************************)
(* server(), chat() and discovery().                                       *)
(***************************************************************************)
ThreadEnds(t) ==
    /\ ~crashed
    /\ threads[t] = "running"
    /\ Runs[t] \in down
    /\ Stop
    /\ threads' = [threads EXCEPT ![t] = "ended"]
    /\ UNCHANGED <<step, gone, phase, text, crashed>>

\* A component stops by itself: its window is gone, a handler has refused.
ComponentStops(c) ==
    /\ ~crashed
    /\ Exists(c) /\ c \notin down \cup {"server", "textbox"}
    /\ down' = down \cup {c}
    /\ UNCHANGED <<step, gone, phase, stopped, early, missed, threads, text, crashed>>

\* A spurious wake-up, or a push that had begun before the stop.
Woken ==
    /\ ~crashed
    /\ missed
    /\ missed' = FALSE
    /\ UNCHANGED <<step, gone, phase, stopped, early, down, threads, text, crashed>>

\* A signal reaches the engine once main() has got it.
Signal ==
    /\ ~crashed
    /\ phase = "run" /\ ~stopped
    /\ Stop
    /\ UNCHANGED <<step, gone, phase, threads, text, crashed>>

-----------------------------------------------------------------------------
(***************************************************************************)
(* The thread of the textbox handler and the callbacks.                    *)
(***************************************************************************)
\* It looks at the stop before a read, so one message is handled after it.
NextText == IF "textbox" \in down THEN "ended" ELSE "loop"

Usable(c) == Exists(c)

\* mailbox() is entered.
Mailbox ==
    /\ ~crashed
    /\ text = "loop"
    /\ IF Usable("broadcasterChat") THEN text' = "mailbox" /\ UNCHANGED crashed
       ELSE crashed' = TRUE /\ UNCHANGED text
    /\ UNCHANGED <<step, gone, phase, stopped, early, down, missed, threads>>

\* handleSend() returns; the broadcaster refuses when a handler does.
MailboxReturns ==
    /\ ~crashed
    /\ text = "mailbox"
    /\ IF ~Usable("broadcasterChat")
       THEN crashed' = TRUE /\ UNCHANGED <<text, stopped, early, down, missed>>
       ELSE /\ UNCHANGED crashed
            /\ text' = NextText
            /\ IF {"contacts", "chat"} \cap down # {} THEN StopAnd({"broadcasterChat"})
               ELSE UNCHANGED <<stopped, early, down, missed>>
    /\ UNCHANGED <<step, gone, phase, threads>>

\* The conversation of the first contact is created after the contact.
Selected == {"contacts", "chat"} \cap down = {} /\ Built("chat0")

Selection ==
    /\ ~crashed
    /\ text = "loop"
    /\ text' = NextText
    /\ IF Built("contact0") /\ ~Selected THEN Stop ELSE UNCHANGED <<stopped, early, down, missed>>
    /\ UNCHANGED <<step, gone, phase, threads, crashed>>

\* A goodbye or the end of the pipe; a heartbeat is enough after a stop.
TextEnds ==
    /\ ~crashed
    /\ text = "loop"
    /\ text' = "ended"
    /\ down' = down \cup {"textbox"}
    /\ UNCHANGED <<step, gone, phase, stopped, early, missed, threads, crashed>>

Main == Construct \/ Constructed \/ Run \/ WaitForThreads \/ DestroyMember \/ Ended

Next ==
    \/ Main \/ ConstructFails \/ Signal \/ Woken
    \/ \E t \in DOMAIN Runs : ThreadEnds(t)
    \/ \E c \in Components : ComponentStops(c)
    \/ Mailbox \/ MailboxReturns \/ Selection \/ TextEnds

Spec == Init /\ [][Next]_vars

\* The threads go on, and the textbox sends heartbeats.  Nothing promises a
\* wake-up to a main() that has missed the stop.
FairSpec ==
    /\ Spec
    /\ WF_vars(Main)
    /\ \A t \in DOMAIN Runs : WF_vars(ThreadEnds(t))
    /\ WF_vars(MailboxReturns)
    /\ SF_vars("textbox" \in down /\ TextEnds)

-----------------------------------------------------------------------------
TypeOK ==
    /\ step \in 0 .. Len(Construction)
    /\ gone \in 0 .. Len(Destruction)
    /\ phase \in {"construct", "run", "wait", "destroy", "ended"}
    /\ {stopped, early, missed, crashed} \subseteq BOOLEAN
    /\ down \subseteq Components
    /\ threads \in [DOMAIN Runs -> {"none", "running", "ended"}]
    /\ text \in {"none", "loop", "mailbox", "ended"}
    /\ \A c \in down : Built(c)

\* No thread of the engine runs a component that has been destroyed, the
\* handlers are there as long as the textbox may call, and a callback finds
\* its broadcaster from the end of the constructor to the end of the
\* destructor's body, also after stop().  (A text typed before or after that
\* may reach a pointer that is null.)
NothingDestroyedIsUsed ==
    /\ \A t \in DOMAIN Runs : threads[t] = "running" => Exists(Runs[t])
    /\ text \in {"loop", "mailbox"} => Exists("contacts") /\ Exists("chat")
    /\ phase \in {"run", "wait"} => ~crashed

\* The last destructor waits for a main() that has missed the stop.
Stuck == missed /\ phase = "destroy" /\ Destruction[gone + 1] = "contacts"

\* stop() came while the constructor was under way: a thread whose component
\* was built later was never told, and the destructor of the engine waits.
Untold ==
    /\ early /\ phase = "wait"
    /\ \E t \in DOMAIN Runs : threads[t] = "running" /\ Runs[t] \notin down


=============================================================================
