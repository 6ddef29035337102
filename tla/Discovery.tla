----------------------------- MODULE Discovery -----------------------------
(***************************************************************************)
(* Discovery between nodes: TTBroadcasterDiscovery of every node with its  *)
(* service and its stub.  On each node run                                 *)
(*   - resolveStaticNeighbors(), which greets the configured addresses;    *)
(*   - resolveDynamicNeighbors(), which sends heartbeats to the neighbours *)
(*     it knows, holding mNeighborMutex during every call;                 *)
(*   - the gRPC server: handleGreet(), which needs mNeighborMutex, and     *)
(*     handleHeartbeat(), which does not.                                  *)
(* A call fails when the other node is gone, or when the network loses the *)
(* request or its reply.  A node may leave at any time (the user quits, a  *)
(* component stops, the process is killed) and may start again: nothing of *)
(* its state is kept.  A request of a node that has left may still be on   *)
(* its way.  Of a contact's state only "active" and "inactive" matter      *)
(* here.  An address stands for the node that listens there.               *)
(***************************************************************************)
EXTENDS Naturals, FiniteSets

CONSTANTS
    Node,
    Nobody,             \* no node: the receiver of no call
    Static,             \* the addresses each node is configured with
    InactivityTrials,   \* DynamicNeighbor::inactivityTrials
    DiscoveryTrials,    \* StaticNeighbor::discoveryTrials
    MaxLosses,          \* bound on the calls and stubs that fail in vain
    MaxLives            \* bound on the starts of a node

ASSUME DiscoveryAssumption ==
    /\ Nobody \notin Node
    /\ Static \in [Node -> SUBSET Node]
    /\ InactivityTrials \in Nat \ {0}
    /\ DiscoveryTrials \in Nat \ {0}
    /\ MaxLosses \in Nat
    /\ MaxLives \in Nat \ {0}

VARIABLES
    life,      \* how many times the node has started
    up,        \* the nodes that run
    contact,   \* contact[n][m]: what n's contacts handler says of m
    neighbors, \* the keys of n's mDynamicNeighbors
    trials,    \* DynamicNeighbor::trials
    stubs,     \* the neighbours with a discovery stub
    expired,   \* the neighbours whose inactivity timer has expired
    dPc,       \* resolveDynamicNeighbors()
    dTodo,     \* the neighbours its loop has still to visit
    sPc,       \* resolveStaticNeighbors()
    sTrials,   \* StaticNeighbor::trials
    call,      \* call[n][thread]: the call the thread makes, or its leftover
    resolved,  \* history: the life in which m answered n's greeting, or 0
    losses     \* history: calls and stubs that failed in vain

lifeVars == <<life, up>>
neighborVars == <<contact, neighbors, trials, stubs, expired>>
dynamicVars == <<dPc, dTodo>>
staticVars == <<sPc, sTrials>>
vars == <<lifeVars, neighborVars, dynamicVars, staticVars, call, resolved,
          losses>>

Thread == {"greet", "beat"}
NoCall == [to |-> Nobody, phase |-> "none", life |-> 0]

TypeOK ==
    /\ life \in [Node -> 1 .. MaxLives]
    /\ up \subseteq Node
    /\ contact \in [Node -> [Node -> {"absent", "active", "inactive"}]]
    /\ neighbors \in [Node -> SUBSET Node]
    /\ trials \in [Node -> [Node -> 0 .. InactivityTrials]]
    /\ stubs \in [Node -> SUBSET Node]
    /\ expired \in [Node -> SUBSET Node]
    /\ dPc \in [Node -> {"unlocked", "scan", "calling"}]
    /\ dTodo \in [Node -> SUBSET Node]
    /\ sPc \in [Node -> {"scan", "calling", "adding", "done"}]
    /\ sTrials \in [Node -> [Node -> 0 .. DiscoveryTrials]]
    /\ call \in [Node -> [Thread ->
                   [to : Node \cup {Nobody}, life : 0 .. MaxLives,
                    phase : {"none", "sent", "yes", "no"}]]]
    /\ resolved \in [Node -> [Node -> 0 .. MaxLives]]
    /\ losses \in 0 .. MaxLosses

\* What a node knows when it starts: itself, its first contact.
FreshContact(n) == [m \in Node |-> IF m = n THEN "active" ELSE "absent"]
FreshTrials(n) == [m \in Node |-> IF m \in Static[n] THEN DiscoveryTrials ELSE 0]

Init ==
    /\ life = [n \in Node |-> 1]
    /\ up = Node
    /\ contact = [n \in Node |-> FreshContact(n)]
    /\ neighbors = [n \in Node |-> {}]
    /\ trials = [n \in Node |-> [m \in Node |-> 0]]
    /\ stubs = [n \in Node |-> {}]
    /\ expired = [n \in Node |-> {}]
    /\ dPc = [n \in Node |-> "unlocked"]
    /\ dTodo = [n \in Node |-> {}]
    /\ sPc = [n \in Node |-> "scan"]
    /\ sTrials = [n \in Node |-> FreshTrials(n)]
    /\ call = [n \in Node |-> [t \in Thread |-> NoCall]]
    /\ resolved = [n \in Node |-> [m \in Node |-> 0]]
    /\ losses = 0

-----------------------------------------------------------------------------
(***************************************************************************)
(* The contacts and the neighbours of a node.                              *)
(***************************************************************************)

\* mNeighborMutex of n is free.
Unlocked(n) == dPc[n] = "unlocked"

\* activate() and deactivate() of n's contacts handler.
SetContact(n, m, s) == contact' = [contact EXCEPT ![n][m] = s]

\* A greeting makes a neighbour of every node, known or not.
AddNeighborUnchecked(n, m, stub) ==
    /\ Unlocked(n)
    /\ SetContact(n, m, "active")
    /\ neighbors' = [neighbors EXCEPT ![n] = @ \cup {m}]
    /\ trials' = [trials EXCEPT ![n][m] = InactivityTrials]
    /\ stubs' = [stubs EXCEPT ![n] = IF stub THEN @ \cup {m} ELSE @]
    /\ expired' = [expired EXCEPT ![n] = @ \cup {m}]

\* addNeighbor(), under the mutex: a known contact is activated, an unknown
\* one becomes a contact and a neighbour.
AddNeighbor(n, m, stub) ==
    /\ Unlocked(n)
    /\ SetContact(n, m, "active")
    /\ IF contact[n][m] # "absent"
       THEN UNCHANGED <<neighbors, trials, stubs, expired>>
       ELSE /\ neighbors' = [neighbors EXCEPT ![n] = @ \cup {m}]
            /\ trials' = [trials EXCEPT ![n][m] = InactivityTrials]
            /\ stubs' = [stubs EXCEPT ![n] = IF stub THEN @ \cup {m} ELSE @]
            /\ expired' = [expired EXCEPT ![n] = @ \cup {m}]

-----------------------------------------------------------------------------
(***************************************************************************)
(* Calls.  A call of a thread of n is sent, is handled by the other node   *)
(* and returns "yes" or "no".                                              *)
(***************************************************************************)
Calls(n, t, m) ==
    call' = [call EXCEPT ![n][t] = [to |-> m, phase |-> "sent", life |-> 0]]

\* The reply reaches n only if n still runs.
Replies(n, t, answer) ==
    call' = [call EXCEPT ![n][t] =
                IF n \in up
                THEN [@ EXCEPT !.phase = answer, !.life = life[call[n][t].to]]
                ELSE NoCall]

Arrived(n, t, m) == m \in up /\ call[n][t].to = m /\ call[n][t].phase = "sent"

\* The greeting is acknowledged before it is looked at.
HandleGreetTooEarly(m, n) ==
    /\ Arrived(n, "greet", m)
    /\ Replies(n, "greet", "yes")
    /\ IF Unlocked(m) THEN AddNeighbor(m, n, FALSE) ELSE UNCHANGED neighborVars
    /\ UNCHANGED <<lifeVars, dynamicVars, staticVars, resolved, losses>>

HandleGreet(m, n) ==
    /\ Arrived(n, "greet", m)
    /\ AddNeighbor(m, n, FALSE)
    /\ Replies(n, "greet", "yes")
    /\ UNCHANGED <<lifeVars, dynamicVars, staticVars, resolved, losses>>

\* The handler takes mNeighborMutex.
HandleHeartbeatLocks(m, n) ==
    /\ Arrived(n, "beat", m)
    /\ Unlocked(m)
    /\ IF contact[m][n] # "absent"
       THEN SetContact(m, n, "active") /\ Replies(n, "beat", "yes")
       ELSE UNCHANGED contact /\ Replies(n, "beat", "no")
    /\ UNCHANGED <<lifeVars, neighbors, trials, stubs, expired, dynamicVars,
                   staticVars, resolved, losses>>

\* A heartbeat of a node that is no contact is refused.
HandleHeartbeat(m, n) ==
    /\ Arrived(n, "beat", m)
    /\ IF contact[m][n] # "absent"
       THEN SetContact(m, n, "active") /\ Replies(n, "beat", "yes")
       ELSE UNCHANGED contact /\ Replies(n, "beat", "no")
    /\ UNCHANGED <<lifeVars, neighbors, trials, stubs, expired, dynamicVars,
                   staticVars, resolved, losses>>

\* The other node is gone: the call fails.
CallRefused(n, t) ==
    /\ n \in up
    /\ call[n][t].phase = "sent"
    /\ call[n][t].to \notin up
    /\ call' = [call EXCEPT ![n][t].phase = "no"]
    /\ UNCHANGED <<lifeVars, neighborVars, dynamicVars, staticVars, resolved,
                   losses>>

\* The network loses the request, or the reply of a call that was handled.
CallLost(n, t) ==
    /\ n \in up
    /\ losses < MaxLosses
    /\ call[n][t].phase \in {"sent", "yes"}
    /\ call' = [call EXCEPT ![n][t].phase = "no"]
    /\ losses' = losses + 1
    /\ UNCHANGED <<lifeVars, neighborVars, dynamicVars, staticVars, resolved>>

-----------------------------------------------------------------------------
(***************************************************************************)
(* resolveDynamicNeighbors().                                              *)
(***************************************************************************)
TimerExpires(n, m) ==
    /\ n \in up
    /\ m \in neighbors[n] \ expired[n]
    /\ expired' = [expired EXCEPT ![n] = @ \cup {m}]
    /\ UNCHANGED <<lifeVars, contact, neighbors, trials, stubs, dynamicVars,
                   staticVars, call, resolved, losses>>

DynamicGoes(n, from, to) ==
    /\ n \in up
    /\ dPc[n] = from
    /\ dPc' = [dPc EXCEPT ![n] = to]
    /\ UNCHANGED <<lifeVars, neighbors, staticVars, resolved>>

DynamicLock(n) ==
    /\ DynamicGoes(n, "unlocked", "scan")
    /\ dTodo' = [dTodo EXCEPT ![n] = neighbors[n]]
    /\ UNCHANGED <<contact, trials, stubs, expired, call, losses>>

Visits(n, m) ==
    /\ m \in dTodo[n]
    /\ dTodo' = [dTodo EXCEPT ![n] = @ \ {m}]

\* A timer that is running, or no trials left.
DynamicPass(n, m) ==
    /\ DynamicGoes(n, "scan", "scan")
    /\ Visits(n, m)
    /\ m \notin expired[n] \/ trials[n][m] = 0
    /\ UNCHANGED <<contact, trials, stubs, expired, call, losses>>

\* A stub that cannot be created costs a trial.
DynamicNoStub(n, m) ==
    /\ DynamicGoes(n, "scan", "scan")
    /\ Visits(n, m)
    /\ m \in expired[n] \ stubs[n]
    /\ trials[n][m] > 0
    /\ losses < MaxLosses
    /\ losses' = losses + 1
    /\ trials' = [trials EXCEPT ![n][m] = @ - 1]
    /\ expired' = [expired EXCEPT ![n] = @ \ {m}]
    /\ UNCHANGED <<contact, stubs, call>>

DynamicCall(n, m) ==
    /\ DynamicGoes(n, "scan", "calling")
    /\ Visits(n, m)
    /\ m \in expired[n]
    /\ trials[n][m] > 0
    /\ stubs' = [stubs EXCEPT ![n] = @ \cup {m}]
    /\ Calls(n, "beat", m)
    /\ UNCHANGED <<contact, trials, expired, losses>>

\* An unanswered heartbeat costs its trial and nothing else.
DynamicUnansweredKeeps(n) ==
    /\ DynamicGoes(n, "calling", "scan")
    /\ call[n]["beat"].phase = "no"
    /\ LET m == call[n]["beat"].to IN
       /\ trials' = [trials EXCEPT ![n][m] = @ - 1]
       /\ expired' = [expired EXCEPT ![n] = @ \ {m}]
    /\ call' = [call EXCEPT ![n]["beat"] = NoCall]
    /\ UNCHANGED <<contact, dTodo, stubs, losses>>

\* A neighbour without trials is forgotten, but stays a contact.
DynamicUnansweredForgets(n) ==
    /\ n \in up
    /\ dPc[n] = "calling"
    /\ call[n]["beat"].phase = "no"
    /\ dPc' = [dPc EXCEPT ![n] = "scan"]
    /\ LET m == call[n]["beat"].to IN
       /\ SetContact(n, m, "inactive")
       /\ trials' = [trials EXCEPT ![n][m] = @ - 1]
       /\ expired' = [expired EXCEPT ![n] = @ \ {m}]
       /\ neighbors' = [neighbors EXCEPT ![n] =
                           IF trials[n][m] = 1 THEN @ \ {m} ELSE @]
    /\ call' = [call EXCEPT ![n]["beat"] = NoCall]
    /\ UNCHANGED <<lifeVars, stubs, dTodo, staticVars, resolved, losses>>

DynamicUnanswered(n) ==
    /\ DynamicGoes(n, "calling", "scan")
    /\ call[n]["beat"].phase = "no"
    /\ LET m == call[n]["beat"].to IN
       /\ SetContact(n, m, "inactive")
       /\ trials' = [trials EXCEPT ![n][m] = @ - 1]
       /\ expired' = [expired EXCEPT ![n] = @ \ {m}]
    /\ call' = [call EXCEPT ![n]["beat"] = NoCall]
    /\ UNCHANGED <<dTodo, stubs, losses>>

\* The trials are not given back by an answer.
DynamicAnsweredSpends(n) ==
    /\ DynamicGoes(n, "calling", "scan")
    /\ call[n]["beat"].phase = "yes"
    /\ LET m == call[n]["beat"].to IN
       /\ SetContact(n, m, "active")
       /\ trials' = [trials EXCEPT ![n][m] = @ - 1]
       /\ expired' = [expired EXCEPT ![n] = @ \ {m}]
    /\ call' = [call EXCEPT ![n]["beat"] = NoCall]
    /\ UNCHANGED <<dTodo, stubs, losses>>

\* An answer gives back all trials (InactivityTrials + 1, and one is spent).
DynamicAnswered(n) ==
    /\ DynamicGoes(n, "calling", "scan")
    /\ call[n]["beat"].phase = "yes"
    /\ LET m == call[n]["beat"].to IN
       /\ SetContact(n, m, "active")
       /\ trials' = [trials EXCEPT ![n][m] = InactivityTrials]
       /\ expired' = [expired EXCEPT ![n] = @ \ {m}]
    /\ call' = [call EXCEPT ![n]["beat"] = NoCall]
    /\ UNCHANGED <<dTodo, stubs, losses>>

DynamicUnlock(n) ==
    /\ DynamicGoes(n, "scan", "unlocked")
    /\ dTodo[n] = {}
    /\ UNCHANGED <<contact, trials, stubs, expired, dTodo, call, losses>>

-----------------------------------------------------------------------------
(***************************************************************************)
(* resolveStaticNeighbors().  Its timers only delay the next greeting.     *)
(***************************************************************************)
StaticGoes(n, from, to) ==
    /\ n \in up
    /\ sPc[n] = from
    /\ sPc' = [sPc EXCEPT ![n] = to]
    /\ UNCHANGED <<lifeVars, dynamicVars>>

Spends(n, m) ==
    /\ sTrials[n][m] > 0
    /\ sTrials' = [sTrials EXCEPT ![n][m] = @ - 1]

StaticNoStub(n, m) ==
    /\ StaticGoes(n, "scan", "scan")
    /\ Spends(n, m)
    /\ losses < MaxLosses
    /\ losses' = losses + 1
    /\ UNCHANGED <<neighborVars, call, resolved>>

StaticCall(n, m) ==
    /\ StaticGoes(n, "scan", "calling")
    /\ Spends(n, m)
    /\ Calls(n, "greet", m)
    /\ UNCHANGED <<neighborVars, resolved, losses>>

\* The trial of an unanswered greeting is not counted.
StaticUnansweredFree(n) ==
    /\ StaticGoes(n, "calling", "scan")
    /\ call[n]["greet"].phase = "no"
    /\ sTrials' = [sTrials EXCEPT ![n][call[n]["greet"].to] = @ + 1]
    /\ call' = [call EXCEPT ![n]["greet"] = NoCall]
    /\ UNCHANGED <<neighborVars, resolved, losses>>

StaticUnanswered(n) ==
    /\ StaticGoes(n, "calling", "scan")
    /\ call[n]["greet"].phase = "no"
    /\ call' = [call EXCEPT ![n]["greet"] = NoCall]
    /\ UNCHANGED <<neighborVars, sTrials, resolved, losses>>

StaticAnswered(n) ==
    /\ StaticGoes(n, "calling", "adding")
    /\ call[n]["greet"].phase = "yes"
    /\ UNCHANGED <<neighborVars, sTrials, call, resolved, losses>>

\* The neighbour is added as soon as the mutex is free, and greeted no more.
StaticAdd(n) ==
    /\ StaticGoes(n, "adding", "scan")
    /\ LET m == call[n]["greet"].to IN
       /\ AddNeighbor(n, m, TRUE)
       /\ sTrials' = [sTrials EXCEPT ![n][m] = 0]
       /\ resolved' = [resolved EXCEPT ![n][m] = call[n]["greet"].life]
    /\ call' = [call EXCEPT ![n]["greet"] = NoCall]
    /\ UNCHANGED losses

StaticDone(n) ==
    /\ StaticGoes(n, "scan", "done")
    /\ \A m \in Node : sTrials[n][m] = 0
    /\ UNCHANGED <<neighborVars, sTrials, call, resolved, losses>>

-----------------------------------------------------------------------------
(***************************************************************************)
(* Nodes come and go.                                                      *)
(***************************************************************************)

\* Everything is forgotten, but requests that are on their way stay there.
Leave(n) ==
    /\ n \in up
    /\ up' = up \ {n}
    /\ contact' = [contact EXCEPT ![n] = FreshContact(n)]
    /\ neighbors' = [neighbors EXCEPT ![n] = {}]
    /\ trials' = [trials EXCEPT ![n] = [m \in Node |-> 0]]
    /\ stubs' = [stubs EXCEPT ![n] = {}]
    /\ expired' = [expired EXCEPT ![n] = {}]
    /\ dPc' = [dPc EXCEPT ![n] = "unlocked"]
    /\ dTodo' = [dTodo EXCEPT ![n] = {}]
    /\ sPc' = [sPc EXCEPT ![n] = "scan"]
    /\ sTrials' = [sTrials EXCEPT ![n] = FreshTrials(n)]
    /\ resolved' = [resolved EXCEPT ![n] = [m \in Node |-> 0]]
    /\ call' = [call EXCEPT ![n] =
                   [t \in Thread |-> IF @[t].phase = "sent" THEN @[t] ELSE NoCall]]
    /\ UNCHANGED <<life, losses>>

Start(n) ==
    /\ n \notin up
    /\ life[n] < MaxLives
    /\ up' = up \cup {n}
    /\ life' = [life EXCEPT ![n] = @ + 1]
    /\ UNCHANGED <<neighborVars, dynamicVars, staticVars, call, resolved, losses>>

-----------------------------------------------------------------------------
Dynamic(n) ==
    \/ DynamicLock(n) \/ DynamicUnanswered(n) \/ DynamicAnswered(n)
    \/ DynamicUnlock(n)
    \/ \E m \in Node : DynamicPass(n, m)
    \/ \E m \in Node : DynamicCall(n, m)

Greeting(n) ==
    \/ StaticUnanswered(n) \/ StaticAnswered(n) \/ StaticDone(n)
    \/ \E m \in Node : StaticCall(n, m)

Next ==
    \/ \E n \in Node : Dynamic(n) \/ Greeting(n) \/ StaticAdd(n)
    \/ \E n, m \in Node : DynamicNoStub(n, m)
    \/ \E n, m \in Node : StaticNoStub(n, m)
    \/ \E n, m \in Node : TimerExpires(n, m)
    \/ \E n, m \in Node : HandleGreet(m, n)
    \/ \E n, m \in Node : HandleHeartbeat(m, n)
    \/ \E n \in Node, t \in Thread : CallRefused(n, t)
    \/ \E n \in Node, t \in Thread : CallLost(n, t)
    \/ \E n \in Node : Leave(n)
    \/ \E n \in Node : Start(n)

(***************************************************************************)
(* Threads run, timers expire, a running node handles its requests and a   *)
(* call to a node that is gone fails.  A thread that waits for the mutex   *)
(* gets it if it is free again and again: resolveDynamicNeighbors() sleeps *)
(* without it between its turns.                                           *)
(***************************************************************************)
Fairness ==
    \A n \in Node :
        /\ WF_vars(Dynamic(n))
        /\ WF_vars(Greeting(n))
        /\ SF_vars(StaticAdd(n))
        /\ \A m \in Node : /\ WF_vars(TimerExpires(n, m))
                           /\ SF_vars(HandleGreet(m, n))
                           /\ WF_vars(HandleHeartbeat(m, n))
        /\ \A t \in Thread : WF_vars(CallRefused(n, t))

Spec == Init /\ [][Next]_vars

FairSpec == Spec /\ Fairness

-----------------------------------------------------------------------------
\* A node whose greeting was answered is a contact of the node that answered,
\* as long as that one has not started again: the reply is sent after the
\* neighbour was added, whatever else holds the mutex, is lost or leaves.
GreetIsMutual ==
    \A n, m \in Node :
        (n \in up /\ m \in up /\ resolved[n][m] = life[m])
            => contact[m][n] # "absent"

\* The contacts of a node other than itself are the neighbours it watches,
\* with or without trials left, and even if its own address is among the ones
\* it greets.
ContactsAreWatched ==
    \A n \in up : neighbors[n] = {m \in Node \ {n} : contact[n][m] # "absent"}

\* No call waits for ever, although a node holds its mutex while it waits for
\* another one: there is no cycle of nodes that wait for each other.
CallsReturn ==
    \A n \in Node : (dPc[n] = "calling") ~> (dPc[n] # "calling" \/ n \notin up)

\* Greeting ends, and with it the busy loop of resolveStaticNeighbors().
GreetingEnds == \A n \in Node : (n \in up) ~> (sPc[n] = "done" \/ n \notin up)

\* A neighbour that is gone is noticed: it is displayed as inactive, provided
\* that more trials are left for it than stubs may still fail.
GoneIsNoticed ==
    \A n \in Node : \A m \in Node \ {n} :
        (n \in up /\ m \notin up /\ trials[n][m] > MaxLosses - losses)
            ~> (contact[n][m] = "inactive" \/ n \notin up \/ m \in up)

\* Two running nodes are contacts of each other.
Acquainted(n, m) ==
    /\ {n, m} \subseteq up
    /\ contact[n][m] # "absent"
    /\ contact[m][n] # "absent"

\* Two nodes that stay and know each other end up active for each other, for
\* good, as long as fewer calls are lost than a neighbour has trials: neither
\* refused heartbeats (the other side has not added the node yet) nor losses
\* use up the trials of both.
StayConnected ==
    \A n \in Node : \A m \in Node \ {n} :
        (<>[]Acquainted(n, m)) => <>[](contact[n][m] = "active")

=============================================================================
