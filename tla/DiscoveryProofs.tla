-------------------------- MODULE DiscoveryProofs --------------------------
(***************************************************************************)
(* Proofs about Discovery, for any set of nodes, any configuration of      *)
(* addresses and every bound: the type invariant, ContactsAreWatched and   *)
(* GreetIsMutual.                                                          *)
(***************************************************************************)
EXTENDS Discovery, TLAPS

(***************************************************************************)
(* The inductive invariant.                                                *)
(***************************************************************************)

\* ContactsAreWatched of every node, up or not.  A node is its own contact and
\* not its own neighbour: that is what a greeting to itself rests on.
WatchedInv ==
    \A n \in Node :
        /\ contact[n][n] # "absent"
        /\ neighbors[n] = {m \in Node \ {n} : contact[n][m] # "absent"}

\* The loop over the neighbours, which holds the mutex, visits neighbours only,
\* and the one whose heartbeat it waits for has a trial to lose.
DynamicInv ==
    \A n \in Node :
        /\ dTodo[n] \subseteq neighbors[n]
        /\ dPc[n] = "calling" =>
              /\ call[n]["beat"].to \in neighbors[n]
              /\ trials[n][call[n]["beat"].to] > 0

\* A greeting that is waited for goes to a node.
StaticInv ==
    \A n \in Node : sPc[n] \in {"calling", "adding"} => call[n]["greet"].to \in Node

\* A node that has left is in none of its loops.
DownInv ==
    \A n \in Node \ up : dPc[n] = "unlocked" /\ sPc[n] = "scan"

\* Node m answered n in its life l: l is no later than m's present life, and
\* as long as that one lasts n is a contact of m.
Knows(m, n, l) ==
    /\ l <= life[m]
    /\ (m \in up /\ l = life[m]) => contact[m][n] # "absent"

\* The answer is on its way, or has been heeded.
GreetInv ==
    \A n, m \in Node :
        /\ call[n]["greet"].to = m => Knows(m, n, call[n]["greet"].life)
        /\ Knows(m, n, resolved[n][m])

IInv ==
    /\ TypeOK
    /\ WatchedInv
    /\ DynamicInv
    /\ StaticInv
    /\ DownInv
    /\ GreetInv

-----------------------------------------------------------------------------
(***************************************************************************)
(* Operators.                                                              *)
(***************************************************************************)
State == {"absent", "active", "inactive"}
Call == [to : Node \cup {Nobody}, life : 0 .. MaxLives,
         phase : {"none", "sent", "yes", "no"}]

\* What a node knows when it starts is well typed: itself, and nobody else.
LEMMA FreshProperties ==
    ASSUME NEW n \in Node
    PROVE  /\ FreshContact(n) \in [Node -> State]
           /\ FreshContact(n)[n] = "active"
           /\ \A m \in Node \ {n} : FreshContact(n)[m] = "absent"
           /\ FreshTrials(n) \in [Node -> 0 .. DiscoveryTrials]
BY DiscoveryAssumption DEF FreshContact, FreshTrials, State

\* The absence of a call is a call record.
LEMMA NoCallType == NoCall \in Call /\ NoCall.to \notin Node
BY DiscoveryAssumption DEF NoCall, Call

\* A known contact stays one: contacts are only forgotten with the process.
Remembers ==
    \A n, m \in Node : contact[n][m] # "absent" => contact'[n][m] # "absent"

\* A change of state that neither makes nor forgets a contact.
LEMMA WatchedStays ==
    ASSUME WatchedInv, neighbors' = neighbors,
           \A n, m \in Node : contact'[n][m] # "absent" <=> contact[n][m] # "absent"
    PROVE  WatchedInv'
<1> SUFFICES ASSUME NEW n \in Node
             PROVE  /\ contact'[n][n] # "absent"
                    /\ neighbors[n] = {m \in Node \ {n} : contact'[n][m] # "absent"}
  BY DEF WatchedInv
<1>1. neighbors[n] = {m \in Node \ {n} : contact[n][m] # "absent"}
  BY DEF WatchedInv
<1>2. QED
  BY <1>1 DEF WatchedInv

\* addNeighbor() makes a neighbour of a contact exactly when it makes it a
\* contact, and forgets nobody.
LEMMA AddNeighborProperties ==
    ASSUME TypeOK, NEW n \in Node, NEW m \in Node, NEW stub \in BOOLEAN,
           AddNeighbor(n, m, stub)
    PROVE  /\ contact' \in [Node -> [Node -> State]]
           /\ neighbors' \in [Node -> SUBSET Node]
           /\ trials' \in [Node -> [Node -> 0 .. InactivityTrials]]
           /\ stubs' \in [Node -> SUBSET Node]
           /\ expired' \in [Node -> SUBSET Node]
           /\ Remembers
           /\ contact'[n][m] # "absent"
           /\ WatchedInv => WatchedInv'
           /\ \A k \in Node : neighbors[k] \subseteq neighbors'[k]
           /\ \A k \in Node \ {n} : trials'[k] = trials[k]
           /\ dPc[n] = "unlocked"
<1>1. /\ contact' = [contact EXCEPT ![n][m] = "active"]
      /\ dPc[n] = "unlocked"
  BY DEF AddNeighbor, SetContact, Unlocked
<1>2. contact' \in [Node -> [Node -> State]] /\ contact'[n][m] = "active"
  BY <1>1 DEF TypeOK, State
<1>3. /\ \A k \in Node \ {n} : contact'[k] = contact[k]
      /\ \A k \in Node \ {m} : contact'[n][k] = contact[n][k]
  BY <1>1 DEF TypeOK
<1>4. Remembers
  BY <1>2, <1>3 DEF Remembers
<1>5. CASE contact[n][m] # "absent"
  <2>1. UNCHANGED <<neighbors, trials, stubs, expired>>
    BY <1>5 DEF AddNeighbor
  <2>2. WatchedInv => WatchedInv'
    <3>1. \A k, j \in Node : contact'[k][j] # "absent" <=> contact[k][j] # "absent"
      BY <1>2, <1>3, <1>5
    <3>2. neighbors' = neighbors
      BY <2>1
    <3>3. QED
      BY <3>1, <3>2, WatchedStays
  <2>3. QED
    BY <1>1, <1>2, <1>4, <2>1, <2>2 DEF TypeOK
<1>6. CASE contact[n][m] = "absent"
  <2>1. /\ neighbors' = [neighbors EXCEPT ![n] = @ \cup {m}]
        /\ trials' = [trials EXCEPT ![n][m] = InactivityTrials]
        /\ expired' = [expired EXCEPT ![n] = @ \cup {m}]
    BY <1>6 DEF AddNeighbor
  <2>2. stubs' = [stubs EXCEPT ![n] = @ \cup {m}] \/ stubs' = [stubs EXCEPT ![n] = @]
    BY <1>6 DEF AddNeighbor
  <2>3. stubs' \in [Node -> SUBSET Node]
    <3>1. stubs \in [Node -> SUBSET Node]
      BY DEF TypeOK
    <3>2. CASE stubs' = [stubs EXCEPT ![n] = @ \cup {m}]
      BY <3>1, <3>2
    <3>3. CASE stubs' = [stubs EXCEPT ![n] = @]
      BY <3>1, <3>3
    <3>4. QED
      BY <2>2, <3>2, <3>3
  <2>4. /\ neighbors' \in [Node -> SUBSET Node]
        /\ expired' \in [Node -> SUBSET Node]
        /\ \A k \in Node : neighbors[k] \subseteq neighbors'[k]
        /\ \A k \in Node \ {n} : neighbors'[k] = neighbors[k]
        /\ neighbors'[n] = neighbors[n] \cup {m}
    BY <2>1 DEF TypeOK
  <2>5. /\ trials' \in [Node -> [Node -> 0 .. InactivityTrials]]
        /\ \A k \in Node \ {n} : trials'[k] = trials[k]
    BY <2>1, DiscoveryAssumption DEF TypeOK
  <2>6. WatchedInv => WatchedInv'
    <3> SUFFICES ASSUME WatchedInv, NEW k \in Node
                 PROVE  /\ contact'[k][k] # "absent"
                        /\ neighbors'[k] = {j \in Node \ {k} : contact'[k][j] # "absent"}
      BY DEF WatchedInv
    <3>1. CASE k # n
      BY <1>3, <2>4, <3>1 DEF WatchedInv
    <3>2. CASE k = n
      <4>1. m # n /\ contact'[n][n] = contact[n][n]
        BY <1>3, <1>6 DEF WatchedInv
      <4>2. \A j \in Node : j \in neighbors'[n] <=> (j # n /\ contact'[n][j] # "absent")
        BY <1>2, <1>3, <2>4, <4>1 DEF WatchedInv
      <4>3. neighbors'[n] \subseteq Node
        BY <2>4
      <4>4. QED
        BY <3>2, <4>1, <4>2, <4>3 DEF WatchedInv
    <3>3. QED
      BY <3>1, <3>2
  <2>7. QED
    BY <1>1, <1>2, <1>4, <2>3, <2>4, <2>5, <2>6
<1>7. QED
  BY <1>5, <1>6

\* A reply goes to the caller's record alone, and keeps its addressee.
LEMMA RepliesProperties ==
    ASSUME TypeOK, NEW n \in Node, NEW t \in Thread, NEW m \in Node,
           NEW answer \in {"yes", "no"}, Arrived(n, t, m), Replies(n, t, answer)
    PROVE  /\ call' \in [Node -> [Thread -> Call]]
           /\ \A k \in Node, u \in Thread : (k # n \/ u # t) => call'[k][u] = call[k][u]
           /\ n \in up => call'[n][t].to = m /\ call'[n][t].life = life[m]
           /\ n \notin up => call'[n][t] = NoCall
<1>1. call[n][t] \in Call /\ call[n][t].to = m /\ life[m] \in 0 .. MaxLives
  BY DiscoveryAssumption DEF TypeOK, Arrived, Call
<1> DEFINE r == [call[n][t] EXCEPT !.phase = answer, !.life = life[m]]
<1>2. r \in Call /\ r.to = m /\ r.life = life[m]
  BY <1>1 DEF Call
<1>3. call' = [call EXCEPT ![n][t] = IF n \in up THEN r ELSE NoCall]
  BY <1>1 DEF Replies, TypeOK
<1> HIDE DEF r
<1>4. (IF n \in up THEN r ELSE NoCall) \in Call
  BY <1>2, NoCallType
<1>5. call \in [Node -> [Thread -> Call]]
  BY DEF TypeOK, Call
<1>6. QED
  BY <1>2, <1>3, <1>4, <1>5

\* A change of one entry of a table of rows.
LEMMA Update ==
    ASSUME NEW A, NEW B, NEW S, NEW f \in [A -> [B -> S]],
           NEW a \in A, NEW b \in B, NEW v \in S
    PROVE  /\ [f EXCEPT ![a][b] = v] \in [A -> [B -> S]]
           /\ [f EXCEPT ![a][b] = v][a][b] = v
           /\ \A x \in A, y \in B : (x # a \/ y # b) => [f EXCEPT ![a][b] = v][x][y] = f[x][y]
OBVIOUS

\* Every call but the one of thread t of node n stays as it is.
OtherCalls(n, t) ==
    \A k \in Node, u \in Thread : (k # n \/ u # t) => call'[k][u] = call[k][u]

\* A new call of a thread.
LEMMA CallsProperties ==
    ASSUME TypeOK, NEW n \in Node, NEW t \in Thread, NEW m \in Node, Calls(n, t, m)
    PROVE  /\ call' \in [Node -> [Thread -> Call]]
           /\ call'[n][t].to = m /\ call'[n][t].life = 0
           /\ OtherCalls(n, t)
<1>1. call \in [Node -> [Thread -> Call]]
  BY DEF TypeOK, Call
<1>2. [to |-> m, phase |-> "sent", life |-> 0] \in Call
  BY DiscoveryAssumption DEF Call
<1>3. QED
  BY <1>1, <1>2, Update DEF Calls, OtherCalls

\* The end of a call.
LEMMA EndProperties ==
    ASSUME TypeOK, NEW n \in Node, NEW t \in Thread, call' = [call EXCEPT ![n][t] = NoCall]
    PROVE  /\ call' \in [Node -> [Thread -> Call]]
           /\ call'[n][t] = NoCall
           /\ OtherCalls(n, t)
<1>1. call \in [Node -> [Thread -> Call]]
  BY DEF TypeOK, Call
<1>2. QED
  BY <1>1, NoCallType, Update DEF OtherCalls

\* A call that fails keeps its addressee and what it knows of its life.
LEMMA FailProperties ==
    ASSUME TypeOK, NEW n \in Node, NEW t \in Thread,
           call' = [call EXCEPT ![n][t].phase = "no"]
    PROVE  /\ call' \in [Node -> [Thread -> Call]]
           /\ \A k \in Node, u \in Thread : /\ call'[k][u].to = call[k][u].to
                                            /\ call'[k][u].life = call[k][u].life
<1> DEFINE r == [call[n][t] EXCEPT !.phase = "no"]
<1>1. call \in [Node -> [Thread -> Call]] /\ call[n][t] \in Call
  BY DEF TypeOK, Call
<1>2. r \in Call /\ r.to = call[n][t].to /\ r.life = call[n][t].life
  BY <1>1 DEF Call
<1>3. call' = [call EXCEPT ![n][t] = r]
  BY <1>1
<1> HIDE DEF r
<1>4. /\ [call EXCEPT ![n][t] = r] \in [Node -> [Thread -> Call]]
      /\ [call EXCEPT ![n][t] = r][n][t] = r
      /\ \A k \in Node, u \in Thread :
            (k # n \/ u # t) => [call EXCEPT ![n][t] = r][k][u] = call[k][u]
  BY <1>1, <1>2, Update
<1>5. QED
  BY <1>2, <1>3, <1>4

-----------------------------------------------------------------------------
(***************************************************************************)
(* The types.                                                              *)
(***************************************************************************)
\* Nobody has met anybody.
LEMMA InitInv == Init => IInv
<1> SUFFICES ASSUME Init PROVE IInv
  OBVIOUS
<1>1. TypeOK
  <2>1. contact \in [Node -> [Node -> State]] /\ sTrials \in [Node -> [Node -> 0 .. DiscoveryTrials]]
    BY FreshProperties DEF Init
  <2>2. call \in [Node -> [Thread -> Call]]
    BY NoCallType DEF Init
  <2>3. QED
    BY <2>1, <2>2, DiscoveryAssumption DEF Init, TypeOK, State, Call
<1>2. WatchedInv
  <2> SUFFICES ASSUME NEW n \in Node
               PROVE  /\ contact[n][n] # "absent"
                      /\ neighbors[n] = {m \in Node \ {n} : contact[n][m] # "absent"}
    BY DEF WatchedInv
  <2>1. contact[n] = FreshContact(n) /\ neighbors[n] = {}
    BY DEF Init
  <2>2. QED
    BY <2>1, FreshProperties
<1>3. DynamicInv /\ StaticInv /\ DownInv
  BY DEF Init, DynamicInv, StaticInv, DownInv
<1>4. GreetInv
  <2> SUFFICES ASSUME NEW n \in Node, NEW m \in Node
               PROVE  /\ call[n]["greet"].to = m => Knows(m, n, call[n]["greet"].life)
                      /\ Knows(m, n, resolved[n][m])
    BY DEF GreetInv
  <2>1. call[n]["greet"].to # m
    BY NoCallType DEF Init, Thread
  <2>2. resolved[n][m] = 0 /\ life[m] = 1
    BY DEF Init
  <2>3. QED
    BY <2>1, <2>2 DEF Knows
<1>5. QED
  BY <1>1, <1>2, <1>3, <1>4 DEF IInv

\* The steps of the two loops of a node, and of its calls.
DynamicStep(n) ==
    Dynamic(n) \/ \E m \in Node : DynamicNoStub(n, m) \/ TimerExpires(n, m)

StaticStep(n) ==
    Greeting(n) \/ StaticAdd(n) \/ \E m \in Node : StaticNoStub(n, m)

CallStep(n) ==
    \/ \E m \in Node : HandleGreet(m, n) \/ HandleHeartbeat(m, n)
    \/ \E t \in Thread : CallRefused(n, t) \/ CallLost(n, t)

\* Each step of resolveDynamicNeighbors() keeps the types.
LEMMA DynamicType ==
    ASSUME TypeOK, DynamicInv, NEW n \in Node, DynamicStep(n)
    PROVE  TypeOK'
<1> USE DiscoveryAssumption DEF TypeOK, DynamicGoes, lifeVars, dynamicVars, staticVars
<1>1. CASE DynamicLock(n)
  BY <1>1 DEF DynamicLock
<1>2. CASE DynamicUnlock(n)
  BY <1>2 DEF DynamicUnlock
<1>3. CASE DynamicUnanswered(n) \/ DynamicAnswered(n)
  <2> DEFINE m == call[n]["beat"].to
  <2>1. m \in Node /\ trials[n][m] \in 1 .. InactivityTrials
    BY <1>3 DEF DynamicUnanswered, DynamicAnswered, DynamicInv
  <2>2. call' \in [Node -> [Thread -> Call]]
    BY <1>3, <2>1, EndProperties DEF DynamicUnanswered, DynamicAnswered, Thread
  <2>3. \/ contact' = [contact EXCEPT ![n][m] = "active"]
        \/ contact' = [contact EXCEPT ![n][m] = "inactive"]
    BY <1>3 DEF DynamicUnanswered, DynamicAnswered, SetContact
  <2>4. \/ trials' = [trials EXCEPT ![n][m] = @ - 1]
        \/ trials' = [trials EXCEPT ![n][m] = InactivityTrials]
    BY <1>3 DEF DynamicUnanswered, DynamicAnswered
  <2>5. /\ dPc' = [dPc EXCEPT ![n] = "scan"]
        /\ expired' = [expired EXCEPT ![n] = @ \ {m}]
        /\ UNCHANGED <<life, up, neighbors, stubs, dTodo, sPc, sTrials, resolved, losses>>
    BY <1>3 DEF DynamicUnanswered, DynamicAnswered
  <2> HIDE DEF m
  <2>6. contact' \in [Node -> [Node -> State]]
    <3>1. contact \in [Node -> [Node -> State]] /\ "active" \in State /\ "inactive" \in State
      BY DEF State
    <3>2. \E v \in State : contact' = [contact EXCEPT ![n][m] = v]
      BY <2>3, <3>1
    <3>3. QED
      BY <2>1, <3>1, <3>2, Update
  <2>7. trials' \in [Node -> [Node -> 0 .. InactivityTrials]]
    <3>1. trials[n][m] - 1 \in 0 .. InactivityTrials /\ InactivityTrials \in 0 .. InactivityTrials
      BY <2>1
    <3>2. \E v \in 0 .. InactivityTrials : trials' = [trials EXCEPT ![n][m] = v]
      BY <2>4, <3>1
    <3>3. QED
      BY <2>1, <3>2, Update
  <2>8. QED
    BY <2>2, <2>5, <2>6, <2>7 DEF State, Call
<1>4. CASE \E m \in Node : DynamicPass(n, m)
  BY <1>4 DEF DynamicPass, Visits
<1>5. CASE \E m \in Node : DynamicCall(n, m)
  <2>1. PICK m \in Node : DynamicCall(n, m)
    BY <1>5
  <2>2. call' \in [Node -> [Thread -> Call]]
    BY <2>1, CallsProperties DEF DynamicCall, Thread
  <2>3. QED
    BY <2>1, <2>2 DEF DynamicCall, Visits, Call
<1>6. CASE \E m \in Node : DynamicNoStub(n, m)
  BY <1>6 DEF DynamicNoStub, Visits
<1>7. CASE \E m \in Node : TimerExpires(n, m)
  BY <1>7 DEF TimerExpires
<1>8. QED
  BY <1>1, <1>2, <1>3, <1>4, <1>5, <1>6, <1>7 DEF Dynamic, DynamicStep

\* Each step of resolveStaticNeighbors() keeps the types.
LEMMA StaticType ==
    ASSUME TypeOK, StaticInv, NEW n \in Node, StaticStep(n)
    PROVE  TypeOK'
<1> USE DEF TypeOK, StaticGoes, lifeVars, dynamicVars, neighborVars
<1>1. CASE StaticUnanswered(n)
  <2>1. call' \in [Node -> [Thread -> Call]]
    BY <1>1, EndProperties DEF StaticUnanswered, Thread
  <2>2. QED
    BY <1>1, <2>1 DEF StaticUnanswered, Call
<1>2. CASE StaticAnswered(n)
  BY <1>2 DEF StaticAnswered
<1>3. CASE StaticDone(n)
  BY <1>3 DEF StaticDone
<1>4. CASE \E m \in Node : StaticCall(n, m)
  <2>1. PICK m \in Node : StaticCall(n, m)
    BY <1>4
  <2>2. call' \in [Node -> [Thread -> Call]]
    BY <2>1, CallsProperties DEF StaticCall, Thread
  <2>3. sTrials' \in [Node -> [Node -> 0 .. DiscoveryTrials]]
    BY <2>1, DiscoveryAssumption DEF StaticCall, Spends
  <2>4. QED
    BY <2>1, <2>2, <2>3 DEF StaticCall, Call
<1>5. CASE \E m \in Node : StaticNoStub(n, m)
  BY <1>5, DiscoveryAssumption DEF StaticNoStub, Spends
<1>6. CASE StaticAdd(n)
  <2> DEFINE m == call[n]["greet"].to
  <2>1. m \in Node /\ call[n]["greet"].life \in 0 .. MaxLives
    BY <1>6 DEF StaticAdd, StaticInv, Thread
  <2>2. call' \in [Node -> [Thread -> Call]]
    BY <1>6, <2>1, EndProperties DEF StaticAdd, Thread
  <2>3. AddNeighbor(n, m, TRUE)
    BY <1>6 DEF StaticAdd
  <2>4. /\ sTrials' = [sTrials EXCEPT ![n][m] = 0]
        /\ resolved' = [resolved EXCEPT ![n][m] = call[n]["greet"].life]
        /\ sPc' = [sPc EXCEPT ![n] = "scan"]
        /\ UNCHANGED <<life, up, dPc, dTodo, losses>>
    BY <1>6 DEF StaticAdd
  <2> HIDE DEF m
  <2>5. /\ contact' \in [Node -> [Node -> State]]
        /\ neighbors' \in [Node -> SUBSET Node]
        /\ trials' \in [Node -> [Node -> 0 .. InactivityTrials]]
        /\ stubs' \in [Node -> SUBSET Node]
        /\ expired' \in [Node -> SUBSET Node]
    BY <2>1, <2>3, AddNeighborProperties
  <2>6. sTrials' \in [Node -> [Node -> 0 .. DiscoveryTrials]]
    BY <2>1, <2>4, DiscoveryAssumption
  <2>7. resolved' \in [Node -> [Node -> 0 .. MaxLives]]
    BY <2>1, <2>4
  <2>8. QED
    BY <2>2, <2>4, <2>5, <2>6, <2>7 DEF State, Call
<1>7. QED
  BY <1>1, <1>2, <1>3, <1>4, <1>5, <1>6 DEF Greeting, StaticStep

\* The handlers of the server, and the calls that fail, keep the types.
LEMMA CallType ==
    ASSUME TypeOK, NEW n \in Node, CallStep(n)
    PROVE  TypeOK'
<1> USE DEF TypeOK, lifeVars, dynamicVars, staticVars, neighborVars
<1>1. CASE \E m \in Node : HandleGreet(m, n)
  <2>1. PICK m \in Node : HandleGreet(m, n)
    BY <1>1
  <2>2. call' \in [Node -> [Thread -> Call]]
    BY <2>1, RepliesProperties DEF HandleGreet, Thread
  <2>3. /\ contact' \in [Node -> [Node -> State]]
        /\ neighbors' \in [Node -> SUBSET Node]
        /\ trials' \in [Node -> [Node -> 0 .. InactivityTrials]]
        /\ stubs' \in [Node -> SUBSET Node]
        /\ expired' \in [Node -> SUBSET Node]
    BY <2>1, AddNeighborProperties DEF HandleGreet
  <2>4. QED
    BY <2>1, <2>2, <2>3 DEF HandleGreet, State, Call
<1>2. CASE \E m \in Node : HandleHeartbeat(m, n)
  <2>1. PICK m \in Node : HandleHeartbeat(m, n)
    BY <1>2
  <2>2. call' \in [Node -> [Thread -> Call]]
    BY <2>1, RepliesProperties DEF HandleHeartbeat, Thread
  <2>3. contact' = contact \/ contact' = [contact EXCEPT ![m][n] = "active"]
    BY <2>1 DEF HandleHeartbeat, SetContact
  <2>4. contact' \in [Node -> [Node -> State]]
    <3>1. contact \in [Node -> [Node -> State]] /\ "active" \in State
      BY DEF State
    <3>2. [contact EXCEPT ![m][n] = "active"] \in [Node -> [Node -> State]]
      BY <2>1, <3>1, Update
    <3>3. QED
      BY <2>3, <3>1, <3>2
  <2>5. QED
    BY <2>1, <2>2, <2>4 DEF HandleHeartbeat, Call, State
<1>3. CASE \E t \in Thread : CallRefused(n, t) \/ CallLost(n, t)
  <2>1. PICK t \in Thread : CallRefused(n, t) \/ CallLost(n, t)
    BY <1>3
  <2>2. call' \in [Node -> [Thread -> Call]]
    BY <2>1, FailProperties DEF CallRefused, CallLost
  <2>3. losses' \in 0 .. MaxLosses
    BY <2>1, DiscoveryAssumption DEF CallRefused, CallLost
  <2>4. QED
    BY <2>1, <2>2, <2>3 DEF CallRefused, CallLost, Call
<1>4. QED
  BY <1>1, <1>2, <1>3 DEF CallStep

-----------------------------------------------------------------------------
(***************************************************************************)
(* resolveDynamicNeighbors().                                              *)
(***************************************************************************)

\* It leaves the other nodes and its own greetings alone.
LEMMA DynamicFrame ==
    ASSUME TypeOK, DynamicInv, NEW n \in Node, DynamicStep(n)
    PROVE  /\ n \in up
           /\ UNCHANGED <<life, up, neighbors, sPc, sTrials, resolved>>
           /\ \A k \in Node \ {n} : /\ dPc'[k] = dPc[k] /\ dTodo'[k] = dTodo[k]
                                    /\ trials'[k] = trials[k] /\ contact'[k] = contact[k]
           /\ OtherCalls(n, "beat")
<1>1. n \in up
  BY DEF DynamicStep, Dynamic, DynamicGoes, DynamicLock, DynamicUnanswered, DynamicAnswered,
         DynamicUnlock, DynamicPass, DynamicCall, DynamicNoStub, TimerExpires
<1>2. UNCHANGED <<life, up, neighbors, sPc, sTrials, resolved>>
  BY DEF DynamicStep, Dynamic, DynamicGoes, DynamicLock, DynamicUnanswered, DynamicAnswered,
         DynamicUnlock, DynamicPass, DynamicCall, DynamicNoStub, TimerExpires, lifeVars,
         staticVars
<1>3. \A k \in Node \ {n} : dPc'[k] = dPc[k] /\ dTodo'[k] = dTodo[k]
  BY DEF TypeOK, DynamicStep, Dynamic, DynamicGoes, DynamicLock, DynamicUnanswered,
         DynamicAnswered, DynamicUnlock, DynamicPass, DynamicCall, DynamicNoStub,
         TimerExpires, dynamicVars, Visits
<1>4. \A k \in Node \ {n} : trials'[k] = trials[k]
  BY DEF TypeOK, DynamicStep, Dynamic, DynamicLock, DynamicUnanswered, DynamicAnswered,
         DynamicUnlock, DynamicPass, DynamicCall, DynamicNoStub, TimerExpires
<1>5. \A k \in Node \ {n} : contact'[k] = contact[k]
  BY DEF TypeOK, DynamicStep, Dynamic, DynamicLock, DynamicUnanswered, DynamicAnswered,
         DynamicUnlock, DynamicPass, DynamicCall, DynamicNoStub, TimerExpires, SetContact
<1>6. OtherCalls(n, "beat")
  <2>1. \/ call' = call
        \/ call' = [call EXCEPT ![n]["beat"] = NoCall]
        \/ \E m \in Node : Calls(n, "beat", m)
    BY DEF DynamicStep, Dynamic, DynamicLock, DynamicUnanswered, DynamicAnswered,
           DynamicUnlock, DynamicPass, DynamicCall, DynamicNoStub, TimerExpires
  <2>2. "beat" \in Thread
    BY DEF Thread
  <2>3. CASE call' = call
    BY <2>3 DEF OtherCalls
  <2>4. QED
    BY <2>1, <2>2, <2>3, EndProperties, CallsProperties
<1>7. QED
  BY <1>1, <1>2, <1>3, <1>4, <1>5, <1>6

\* A heartbeat, answered or not, makes no contact and forgets none.
LEMMA DynamicWatched ==
    ASSUME TypeOK, WatchedInv, DynamicInv, NEW n \in Node, DynamicStep(n)
    PROVE  WatchedInv' /\ Remembers
<1>1. neighbors' = neighbors /\ \A k \in Node \ {n} : contact'[k] = contact[k]
  BY DynamicFrame
<1>2. \A j \in Node : contact'[n][j] # "absent" <=> contact[n][j] # "absent"
  <2>1. CASE DynamicUnanswered(n) \/ DynamicAnswered(n)
    <3> DEFINE m == call[n]["beat"].to
    <3>1. m \in neighbors[n]
      BY <2>1 DEF DynamicUnanswered, DynamicAnswered, DynamicGoes, DynamicInv
    <3>2. m \in Node /\ contact[n][m] # "absent"
      BY <3>1 DEF WatchedInv
    <3>3. \E v \in {"active", "inactive"} : contact' = [contact EXCEPT ![n][m] = v]
      BY <2>1 DEF DynamicUnanswered, DynamicAnswered, SetContact
    <3> HIDE DEF m
    <3>4. QED
      BY <3>2, <3>3 DEF TypeOK
  <2>2. CASE ~(DynamicUnanswered(n) \/ DynamicAnswered(n))
    <3>1. contact' = contact
      BY <2>2 DEF DynamicStep, Dynamic, DynamicLock, DynamicUnlock, DynamicPass, DynamicCall,
           DynamicNoStub, TimerExpires
    <3>2. QED
      BY <3>1
  <2>3. QED
    BY <2>1, <2>2
<1>3. \A k, j \in Node : contact'[k][j] # "absent" <=> contact[k][j] # "absent"
  BY <1>1, <1>2
<1>4. WatchedInv'
  BY <1>1, <1>3, WatchedStays
<1>5. QED
  BY <1>3, <1>4 DEF Remembers

\* The loop goes on over neighbours only.
LEMMA DynamicDynamic ==
    ASSUME TypeOK, DynamicInv, NEW n \in Node, DynamicStep(n)
    PROVE  DynamicInv'
<1>1. /\ neighbors' = neighbors
      /\ \A k \in Node \ {n} : dPc'[k] = dPc[k] /\ dTodo'[k] = dTodo[k] /\ trials'[k] = trials[k]
      /\ \A k \in Node \ {n} : call'[k]["beat"] = call[k]["beat"]
  BY DynamicFrame DEF OtherCalls, Thread
<1>2. /\ dTodo'[n] \subseteq neighbors[n]
      /\ dPc'[n] = "calling" =>
              /\ call'[n]["beat"].to \in neighbors[n]
              /\ trials'[n][call'[n]["beat"].to] > 0
  <2> USE DEF TypeOK, DynamicInv, DynamicGoes
  <2>1. CASE DynamicLock(n)
    BY <2>1 DEF DynamicLock
  <2>2. CASE DynamicUnlock(n)
    BY <2>2 DEF DynamicUnlock
  <2>3. CASE DynamicUnanswered(n)
    BY <2>3 DEF DynamicUnanswered
  <2>4. CASE DynamicAnswered(n)
    BY <2>4 DEF DynamicAnswered
  <2>5. CASE \E m \in Node : DynamicPass(n, m)
    BY <2>5 DEF DynamicPass, Visits
  <2>6. CASE \E m \in Node : DynamicNoStub(n, m)
    BY <2>6 DEF DynamicNoStub, Visits
  <2>7. CASE \E m \in Node : DynamicCall(n, m)
    <3>1. PICK m \in Node : DynamicCall(n, m)
      BY <2>7
    <3>2. call'[n]["beat"].to = m
      BY <3>1, CallsProperties DEF DynamicCall, Thread
    <3>3. QED
      BY <3>1, <3>2 DEF DynamicCall, Visits
  <2>8. CASE \E m \in Node : TimerExpires(n, m)
    BY <2>8 DEF TimerExpires, dynamicVars
  <2>9. QED
    BY <2>1, <2>2, <2>3, <2>4, <2>5, <2>6, <2>7, <2>8 DEF DynamicStep, Dynamic
<1>3. QED
  BY <1>1, <1>2 DEF DynamicInv

\* Greetings and answers that stay as they are stay known.
LEMMA KnowsStays ==
    ASSUME TypeOK, Remembers, life' = life, up' = up
    PROVE  \A m, n \in Node, l \in Nat :
              Knows(m, n, l) => /\ l <= life'[m]
                                /\ (m \in up' /\ l = life'[m]) => contact'[m][n] # "absent"
BY DEF Knows, Remembers

\* The heartbeats preserve the inductive invariant.
LEMMA DynamicPreserves ==
    ASSUME IInv, NEW n \in Node, DynamicStep(n)
    PROVE  IInv'
<1>0. TypeOK /\ WatchedInv /\ DynamicInv /\ StaticInv /\ DownInv /\ GreetInv
  BY DEF IInv
<1>1. TypeOK' /\ WatchedInv' /\ DynamicInv'
  BY <1>0, DynamicType, DynamicWatched, DynamicDynamic
<1>2. /\ n \in up
      /\ UNCHANGED <<life, up, sPc, resolved>>
      /\ \A k \in Node \ {n} : dPc'[k] = dPc[k]
      /\ \A k \in Node : call'[k]["greet"] = call[k]["greet"]
  BY <1>0, DynamicFrame DEF OtherCalls, Thread
<1>3. StaticInv' /\ DownInv'
  BY <1>0, <1>2 DEF StaticInv, DownInv
<1>4. GreetInv'
  <2> SUFFICES ASSUME NEW k \in Node, NEW m \in Node
               PROVE  /\ call[k]["greet"].to = m => Knows(m, k, call[k]["greet"].life)'
                      /\ Knows(m, k, resolved[k][m])'
    BY <1>2 DEF GreetInv
  <2>1. call[k]["greet"].life \in Nat /\ resolved[k][m] \in Nat
    BY <1>0 DEF TypeOK, Thread
  <2>2. Remembers
    BY <1>0, DynamicWatched
  <2>3. QED
    BY <1>0, <1>2, <2>1, <2>2, KnowsStays DEF GreetInv, Knows
<1>5. QED
  BY <1>1, <1>3, <1>4 DEF IInv

-----------------------------------------------------------------------------
(***************************************************************************)
(* resolveStaticNeighbors().                                               *)
(***************************************************************************)

\* It leaves the other nodes and its own heartbeats alone.
LEMMA StaticFrame ==
    ASSUME TypeOK, StaticInv, NEW n \in Node, StaticStep(n)
    PROVE  /\ n \in up
           /\ UNCHANGED <<life, up, dPc, dTodo>>
           /\ \A k \in Node \ {n} : sPc'[k] = sPc[k] /\ resolved'[k] = resolved[k]
           /\ OtherCalls(n, "greet")
<1>1. n \in up
  BY DEF StaticStep, Greeting, StaticGoes, StaticAdd, StaticUnanswered, StaticAnswered,
         StaticDone, StaticCall, StaticNoStub
<1>2. UNCHANGED <<life, up, dPc, dTodo>>
  BY DEF StaticStep, Greeting, StaticGoes, StaticAdd, StaticUnanswered, StaticAnswered,
         StaticDone, StaticCall, StaticNoStub, lifeVars, dynamicVars
<1>3. \A k \in Node \ {n} : sPc'[k] = sPc[k]
  BY DEF TypeOK, StaticStep, Greeting, StaticGoes, StaticAdd, StaticUnanswered,
         StaticAnswered, StaticDone, StaticCall, StaticNoStub
<1>4. \A k \in Node \ {n} : resolved'[k] = resolved[k]
  BY DEF TypeOK, StaticStep, Greeting, StaticAdd, StaticUnanswered, StaticAnswered,
         StaticDone, StaticCall, StaticNoStub
<1>5. OtherCalls(n, "greet")
  <2>1. \/ call' = call
        \/ call' = [call EXCEPT ![n]["greet"] = NoCall]
        \/ \E m \in Node : Calls(n, "greet", m)
    BY DEF StaticStep, Greeting, StaticAdd, StaticUnanswered, StaticAnswered, StaticDone,
           StaticCall, StaticNoStub
  <2>2. "greet" \in Thread
    BY DEF Thread
  <2>3. CASE call' = call
    BY <2>3 DEF OtherCalls
  <2>4. QED
    BY <2>1, <2>2, <2>3, EndProperties, CallsProperties
<1>6. QED
  BY <1>1, <1>2, <1>3, <1>4, <1>5

\* A greeting that was answered is added once, as contact and as neighbour.
LEMMA StaticWatched ==
    ASSUME TypeOK, WatchedInv, StaticInv, NEW n \in Node, StaticStep(n)
    PROVE  /\ WatchedInv' /\ Remembers
           /\ \A k \in Node : neighbors[k] \subseteq neighbors'[k]
           /\ \A k \in Node : dPc[k] = "calling" => trials'[k] = trials[k]
<1>1. CASE StaticAdd(n)
  <2> DEFINE m == call[n]["greet"].to
  <2>1. m \in Node /\ AddNeighbor(n, m, TRUE)
    BY <1>1 DEF StaticAdd, StaticGoes, StaticInv
  <2> HIDE DEF m
  <2>2. QED
    BY <2>1, AddNeighborProperties
<1>2. CASE ~StaticAdd(n)
  <2>1. UNCHANGED <<contact, neighbors, trials>>
    BY <1>2 DEF StaticStep, Greeting, StaticUnanswered, StaticAnswered, StaticDone,
         StaticCall, StaticNoStub, neighborVars
  <2>2. QED
    BY <2>1, WatchedStays DEF Remembers
<1>3. QED
  BY <1>1, <1>2

\* The greetings of n preserve what is known of its answers.
LEMMA StaticGreet ==
    ASSUME TypeOK, WatchedInv, StaticInv, GreetInv, NEW n \in Node, StaticStep(n)
    PROVE  GreetInv'
<1>1. /\ UNCHANGED <<life, up>>
      /\ \A k \in Node \ {n} : call'[k]["greet"] = call[k]["greet"] /\ resolved'[k] = resolved[k]
  BY StaticFrame DEF OtherCalls, Thread
<1>2. Remembers
  BY StaticWatched
<1>3. \A k, m \in Node : call[k]["greet"].life \in Nat /\ resolved[k][m] \in Nat
                         /\ life[m] \in Nat /\ 0 < life[m]
  BY DiscoveryAssumption DEF TypeOK, Thread
<1> SUFFICES ASSUME NEW k \in Node, NEW m \in Node
             PROVE  /\ call'[k]["greet"].to = m => Knows(m, k, call[k]["greet"].life)'
                    /\ Knows(m, k, resolved[k][m])'
  BY DEF GreetInv
<1>4. CASE k # n
  BY <1>1, <1>2, <1>3, <1>4, KnowsStays DEF GreetInv, Knows
<1>5. CASE k = n
  <2>1. CASE StaticAdd(n)
    <3>1. call'[n]["greet"].to # m
      BY <2>1, EndProperties, NoCallType DEF StaticAdd, Thread
    <3>2. resolved'[n][m] = resolved[n][m]
          \/ (call[n]["greet"].to = m /\ resolved'[n][m] = call[n]["greet"].life)
      BY <2>1 DEF StaticAdd, StaticGoes, StaticInv, TypeOK
    <3>3. QED
      BY <1>1, <1>2, <1>3, <1>5, <3>1, <3>2, KnowsStays DEF GreetInv, Knows
  <2>2. CASE ~StaticAdd(n)
    <3>1. resolved' = resolved
      BY <2>2 DEF StaticStep, Greeting, StaticUnanswered, StaticAnswered, StaticDone,
         StaticCall, StaticNoStub
    <3>2. \/ call' = call
          \/ call' = [call EXCEPT ![n]["greet"] = NoCall]
          \/ \E j \in Node : Calls(n, "greet", j)
      BY <2>2 DEF StaticStep, Greeting, StaticUnanswered, StaticAnswered, StaticDone,
           StaticCall, StaticNoStub
    <3>3. \/ call'[n]["greet"] = call[n]["greet"]
          \/ call'[n]["greet"].to # m
          \/ call'[n]["greet"].life = 0
      BY <3>2, EndProperties, CallsProperties, NoCallType DEF Thread
    <3>4. QED
      BY <1>1, <1>2, <1>3, <1>5, <3>1, <3>3, KnowsStays DEF GreetInv, Knows
  <2>3. QED
    BY <2>1, <2>2
<1>6. QED
  BY <1>4, <1>5

\* The greetings preserve the inductive invariant.
LEMMA StaticPreserves ==
    ASSUME IInv, NEW n \in Node, StaticStep(n)
    PROVE  IInv'
<1>0. TypeOK /\ WatchedInv /\ DynamicInv /\ StaticInv /\ DownInv /\ GreetInv
  BY DEF IInv
<1>1. TypeOK' /\ WatchedInv' /\ GreetInv'
  BY <1>0, StaticType, StaticWatched, StaticGreet
<1>2. /\ n \in up
      /\ UNCHANGED <<life, up, dPc, dTodo>>
      /\ \A k \in Node \ {n} : sPc'[k] = sPc[k] /\ call'[k]["greet"] = call[k]["greet"]
      /\ \A k \in Node : call'[k]["beat"] = call[k]["beat"]
  BY <1>0, StaticFrame DEF OtherCalls, Thread
<1>3. DynamicInv'
  <2>1. /\ \A k \in Node : neighbors[k] \subseteq neighbors'[k]
        /\ \A k \in Node : dPc[k] = "calling" => trials'[k] = trials[k]
    BY <1>0, StaticWatched
  <2>2. QED
    BY <1>0, <1>2, <2>1 DEF DynamicInv
<1>4. StaticInv'
  <2>1. sPc'[n] \in {"calling", "adding"} => call'[n]["greet"].to \in Node
    <3> USE <1>0 DEF TypeOK, StaticGoes
    <3>1. CASE StaticUnanswered(n) \/ StaticDone(n) \/ StaticAdd(n)
                 \/ \E m \in Node : StaticNoStub(n, m)
      BY <3>1 DEF StaticUnanswered, StaticDone, StaticAdd, StaticNoStub
    <3>2. CASE StaticAnswered(n)
      BY <3>2 DEF StaticAnswered, StaticInv
    <3>3. CASE \E m \in Node : StaticCall(n, m)
      <4>1. PICK m \in Node : StaticCall(n, m)
        BY <3>3
      <4>2. call'[n]["greet"].to = m
        BY <4>1, CallsProperties DEF StaticCall, Thread
      <4>3. QED
        BY <4>2
    <3>4. QED
      BY <3>1, <3>2, <3>3 DEF StaticStep, Greeting
  <2>2. QED
    BY <1>0, <1>2, <2>1 DEF StaticInv
<1>5. DownInv'
  BY <1>0, <1>2 DEF DownInv
<1>6. QED
  BY <1>1, <1>3, <1>4, <1>5 DEF IInv

-----------------------------------------------------------------------------
(***************************************************************************)
(* The server of the other node, and calls that fail.                      *)
(***************************************************************************)

\* A call changes at most the call's own record, whose addressee stays unless
\* the caller has left.
LEMMA CallFrame ==
    ASSUME TypeOK, NEW n \in Node, CallStep(n)
    PROVE  /\ UNCHANGED <<life, up, dPc, dTodo, sPc, sTrials, resolved>>
           /\ \A k \in Node, u \in Thread :
                 call'[k][u].to = call[k][u].to \/ (k \notin up /\ call'[k][u] = NoCall)
<1>1. UNCHANGED <<life, up, dPc, dTodo, sPc, sTrials, resolved>>
  BY DEF CallStep, HandleGreet, HandleHeartbeat, CallRefused, CallLost, lifeVars,
         dynamicVars, staticVars
<1>2. CASE \E m \in Node : HandleGreet(m, n) \/ HandleHeartbeat(m, n)
  <2>1. PICK m \in Node, t \in Thread, answer \in {"yes", "no"} :
            Arrived(n, t, m) /\ Replies(n, t, answer)
    BY <1>2 DEF HandleGreet, HandleHeartbeat, Thread
  <2>2. /\ \A k \in Node, u \in Thread : (k # n \/ u # t) => call'[k][u] = call[k][u]
        /\ n \in up => call'[n][t].to = m
        /\ n \notin up => call'[n][t] = NoCall
    BY <2>1, RepliesProperties
  <2>3. call[n][t].to = m
    BY <2>1 DEF Arrived
  <2>4. QED
    BY <1>1, <2>2, <2>3
<1>3. CASE \E t \in Thread : CallRefused(n, t) \/ CallLost(n, t)
  BY <1>1, <1>3, FailProperties DEF CallRefused, CallLost
<1>4. QED
  BY <1>2, <1>3 DEF CallStep

\* A handler adds or activates a contact, and forgets none.
LEMMA CallWatched ==
    ASSUME TypeOK, WatchedInv, NEW n \in Node, CallStep(n)
    PROVE  /\ WatchedInv' /\ Remembers
           /\ \A k \in Node : neighbors[k] \subseteq neighbors'[k]
           /\ \A k \in Node : dPc[k] = "calling" => trials'[k] = trials[k]
<1>1. CASE \E m \in Node : HandleGreet(m, n)
  <2>1. PICK m \in Node : AddNeighbor(m, n, FALSE)
    BY <1>1 DEF HandleGreet
  <2>2. QED
    BY <2>1, AddNeighborProperties
<1>2. CASE \E m \in Node : HandleHeartbeat(m, n)
  <2>1. PICK m \in Node : HandleHeartbeat(m, n)
    BY <1>2
  <2>2. neighbors' = neighbors /\ trials' = trials
    BY <2>1 DEF HandleHeartbeat
  <2>3. contact' = contact
        \/ (contact[m][n] # "absent" /\ contact' = [contact EXCEPT ![m][n] = "active"])
    BY <2>1 DEF HandleHeartbeat, SetContact
  <2>4. \A k, j \in Node : contact'[k][j] # "absent" <=> contact[k][j] # "absent"
    <3>1. CASE contact' = contact
      BY <3>1
    <3>2. CASE contact[m][n] # "absent" /\ contact' = [contact EXCEPT ![m][n] = "active"]
      BY <3>2 DEF TypeOK
    <3>3. QED
      BY <2>3, <3>1, <3>2
  <2>5. WatchedInv'
    BY <2>2, <2>4, WatchedStays
  <2>6. QED
    BY <2>2, <2>4, <2>5 DEF Remembers
<1>3. CASE \E t \in Thread : CallRefused(n, t) \/ CallLost(n, t)
  <2>1. UNCHANGED <<contact, neighbors, trials>>
    BY <1>3 DEF CallRefused, CallLost, neighborVars
  <2>2. QED
    BY <2>1, WatchedStays DEF Remembers
<1>4. QED
  BY <1>1, <1>2, <1>3 DEF CallStep

\* The answer to a greeting is sent when the caller has become a contact.
LEMMA CallGreet ==
    ASSUME TypeOK, WatchedInv, GreetInv, NEW n \in Node, CallStep(n)
    PROVE  GreetInv'
<1>1. UNCHANGED <<life, up, resolved>>
  BY CallFrame
<1>2. Remembers
  BY CallWatched
<1>3. \A k, m \in Node : call[k]["greet"].life \in Nat /\ resolved[k][m] \in Nat
                         /\ life[m] \in Nat
  BY DiscoveryAssumption DEF TypeOK, Thread
<1> SUFFICES ASSUME NEW k \in Node, NEW m \in Node
             PROVE  /\ call'[k]["greet"].to = m => Knows(m, k, call[k]["greet"].life)'
                    /\ Knows(m, k, resolved[k][m])'
  BY DEF GreetInv
<1>4. \/ /\ call'[k]["greet"].to = call[k]["greet"].to
         /\ call'[k]["greet"].life = call[k]["greet"].life
      \/ call'[k]["greet"].to # m
      \/ call'[k]["greet"].life = life[m] /\ contact'[m][k] # "absent"
  <2>1. CASE \E j \in Node : HandleGreet(j, n)
    <3>1. PICK j \in Node : HandleGreet(j, n)
      BY <2>1
    <3>2. contact'[j][n] # "absent"
      BY <3>1, AddNeighborProperties DEF HandleGreet
    <3>3. /\ k # n => call'[k]["greet"] = call[k]["greet"]
          /\ n \in up => call'[n]["greet"].to = j /\ call'[n]["greet"].life = life[j]
          /\ n \notin up => call'[n]["greet"] = NoCall
      BY <3>1, RepliesProperties DEF HandleGreet, Thread
    <3>4. QED
      BY <3>2, <3>3, NoCallType
  <2>2. CASE \E j \in Node : HandleHeartbeat(j, n)
    <3>1. call'[k]["greet"] = call[k]["greet"]
      BY <2>2, RepliesProperties DEF HandleHeartbeat, Thread
    <3>2. QED
      BY <3>1
  <2>3. CASE \E t \in Thread : CallRefused(n, t) \/ CallLost(n, t)
    BY <2>3, FailProperties DEF CallRefused, CallLost, Thread
  <2>4. QED
    BY <2>1, <2>2, <2>3 DEF CallStep
<1>5. QED
  BY <1>1, <1>2, <1>3, <1>4, KnowsStays DEF GreetInv, Knows

\* The handlers and the failures of calls preserve the inductive invariant.
LEMMA CallPreserves ==
    ASSUME IInv, NEW n \in Node, CallStep(n)
    PROVE  IInv'
<1>0. TypeOK /\ WatchedInv /\ DynamicInv /\ StaticInv /\ DownInv /\ GreetInv
  BY DEF IInv
<1>1. TypeOK' /\ WatchedInv' /\ GreetInv'
  BY <1>0, CallType, CallWatched, CallGreet
<1>2. /\ UNCHANGED <<life, up, dPc, dTodo, sPc>>
      /\ \A k \in Node, u \in Thread :
            call'[k][u].to = call[k][u].to \/ (k \notin up /\ call'[k][u] = NoCall)
  BY <1>0, CallFrame
<1>3. /\ \A k \in Node : neighbors[k] \subseteq neighbors'[k]
      /\ \A k \in Node : dPc[k] = "calling" => trials'[k] = trials[k]
  BY <1>0, CallWatched
<1>4. \A k \in up, u \in Thread : k \in Node => call'[k][u].to = call[k][u].to
  BY <1>2
<1>5. DynamicInv'
  <2>1. \A k \in Node : dPc[k] = "calling" => call'[k]["beat"].to = call[k]["beat"].to
    BY <1>0, <1>4 DEF DownInv, Thread
  <2>2. QED
    BY <1>0, <1>2, <1>3, <2>1 DEF DynamicInv
<1>6. StaticInv'
  <2>1. \A k \in Node : sPc[k] \in {"calling", "adding"} =>
            call'[k]["greet"].to = call[k]["greet"].to
    BY <1>0, <1>4 DEF DownInv, Thread
  <2>2. QED
    BY <1>0, <1>2, <2>1 DEF StaticInv
<1>7. DownInv'
  BY <1>0, <1>2 DEF DownInv
<1>8. QED
  BY <1>1, <1>5, <1>6, <1>7 DEF IInv

-----------------------------------------------------------------------------
(***************************************************************************)
(* Nodes come and go.                                                      *)
(***************************************************************************)

\* A node that leaves forgets everything; what it has answered in this life
\* it will not be asked about again.
LEMMA LeavePreserves ==
    ASSUME IInv, NEW n \in Node, Leave(n)
    PROVE  IInv'
<1>0. TypeOK /\ WatchedInv /\ DynamicInv /\ StaticInv /\ DownInv /\ GreetInv
  BY DEF IInv
<1>1. /\ life' = life /\ up' = up \ {n}
      /\ contact' = [contact EXCEPT ![n] = FreshContact(n)]
      /\ neighbors' = [neighbors EXCEPT ![n] = {}]
      /\ dPc' = [dPc EXCEPT ![n] = "unlocked"]
      /\ dTodo' = [dTodo EXCEPT ![n] = {}]
      /\ sPc' = [sPc EXCEPT ![n] = "scan"]
      /\ resolved' = [resolved EXCEPT ![n] = [m \in Node |-> 0]]
  BY DEF Leave
<1>2. /\ call' \in [Node -> [Thread -> Call]]
      /\ \A k \in Node \ {n} : call'[k] = call[k]
      /\ \A t \in Thread : call'[n][t] = call[n][t] \/ call'[n][t] = NoCall
  <2> DEFINE row == [t \in Thread |-> IF call[n][t].phase = "sent" THEN call[n][t] ELSE NoCall]
  <2>1. call \in [Node -> [Thread -> Call]]
    BY <1>0 DEF TypeOK, Call
  <2>2. row \in [Thread -> Call]
    BY <2>1, NoCallType
  <2>3. call' = [call EXCEPT ![n] = row]
    BY DEF Leave
  <2>4. call'[n] = row
    BY <2>1, <2>3
  <2>5. QED
    BY <2>1, <2>2, <2>3, <2>4
<1>3. TypeOK'
  <2>1. contact' \in [Node -> [Node -> State]]
    BY <1>0, <1>1, FreshProperties DEF TypeOK, State
  <2>2. sTrials' \in [Node -> [Node -> 0 .. DiscoveryTrials]]
    BY <1>0, FreshProperties DEF TypeOK, Leave
  <2>3. trials' \in [Node -> [Node -> 0 .. InactivityTrials]]
    BY <1>0, DiscoveryAssumption DEF TypeOK, Leave
  <2>4. resolved' \in [Node -> [Node -> 0 .. MaxLives]]
    BY <1>0, <1>1, DiscoveryAssumption DEF TypeOK
  <2>5. QED
    BY <1>0, <1>1, <1>2, <2>1, <2>2, <2>3, <2>4 DEF TypeOK, Leave, State, Call
<1>4. WatchedInv'
  <2> SUFFICES ASSUME NEW k \in Node
               PROVE  /\ contact'[k][k] # "absent"
                      /\ neighbors'[k] = {m \in Node \ {k} : contact'[k][m] # "absent"}
    BY DEF WatchedInv
  <2>1. CASE k = n
    <3>1. contact'[n] = FreshContact(n) /\ neighbors'[n] = {}
      BY <1>0, <1>1 DEF TypeOK
    <3>2. QED
      BY <2>1, <3>1, FreshProperties
  <2>2. CASE k # n
    <3>1. contact'[k] = contact[k] /\ neighbors'[k] = neighbors[k]
      BY <1>0, <1>1, <2>2 DEF TypeOK
    <3>2. QED
      BY <1>0, <3>1 DEF WatchedInv
  <2>3. QED
    BY <2>1, <2>2
<1>5. DynamicInv'
  <2>1. trials' = [trials EXCEPT ![n] = [m \in Node |-> 0]]
    BY DEF Leave
  <2>2. QED
    BY <1>0, <1>1, <1>2, <2>1 DEF TypeOK, DynamicInv
<1>6. StaticInv' /\ DownInv'
  BY <1>0, <1>1, <1>2 DEF TypeOK, StaticInv, DownInv
<1>7. GreetInv'
  <2> SUFFICES ASSUME NEW k \in Node, NEW m \in Node
               PROVE  /\ call'[k]["greet"].to = m => Knows(m, k, call[k]["greet"].life)'
                      /\ Knows(m, k, resolved[k][m])'
    BY DEF GreetInv
  <2>1. \A j \in Node \ {n} : contact'[j] = contact[j] /\ resolved'[j] = resolved[j]
    BY <1>0, <1>1 DEF TypeOK
  <2>2. \A l \in Nat : Knows(m, k, l) =>
            l <= life'[m] /\ ((m \in up' /\ l = life'[m]) => contact'[m][k] # "absent")
    BY <1>1, <2>1 DEF Knows
  <2>3. call[k]["greet"].life \in Nat /\ resolved[k][m] \in Nat /\ life[m] \in Nat /\ 0 < life[m]
    BY <1>0, DiscoveryAssumption DEF TypeOK, Thread
  <2>4. call'[k]["greet"] = call[k]["greet"] \/ call'[k]["greet"].to # m
    BY <1>2, NoCallType DEF Thread
  <2>5. resolved'[k][m] = resolved[k][m] \/ resolved'[k][m] = 0
    BY <1>0, <1>1 DEF TypeOK
  <2>6. QED
    BY <1>0, <1>1, <2>2, <2>3, <2>4, <2>5 DEF GreetInv, Knows
<1>8. QED
  BY <1>3, <1>4, <1>5, <1>6, <1>7 DEF IInv

\* A node that starts is in a life in which it has answered nobody.
LEMMA StartPreserves ==
    ASSUME IInv, NEW n \in Node, Start(n)
    PROVE  IInv'
<1>0. TypeOK /\ WatchedInv /\ DynamicInv /\ StaticInv /\ DownInv /\ GreetInv
  BY DEF IInv
<1>1. /\ up' = up \cup {n} /\ n \notin up
      /\ life' = [life EXCEPT ![n] = @ + 1] /\ life[n] < MaxLives
      /\ UNCHANGED <<contact, neighbors, trials, stubs, expired, dPc, dTodo, sPc, sTrials,
                     call, resolved, losses>>
  BY DEF Start, neighborVars, dynamicVars, staticVars
<1>2. life' \in [Node -> 1 .. MaxLives]
  BY <1>0, <1>1, DiscoveryAssumption DEF TypeOK
<1>3. TypeOK'
  BY <1>0, <1>1, <1>2 DEF TypeOK
<1>4. WatchedInv' /\ DynamicInv' /\ StaticInv' /\ DownInv'
  BY <1>0, <1>1 DEF WatchedInv, DynamicInv, StaticInv, DownInv
<1>5. GreetInv'
  <2> SUFFICES ASSUME NEW k \in Node, NEW m \in Node
               PROVE  /\ call[k]["greet"].to = m => Knows(m, k, call[k]["greet"].life)'
                      /\ Knows(m, k, resolved[k][m])'
    BY <1>1 DEF GreetInv
  <2>1. call[k]["greet"].life \in Nat /\ resolved[k][m] \in Nat /\ life[m] \in Nat
    BY <1>0 DEF TypeOK, Thread
  <2>2. m # n => life'[m] = life[m] /\ (m \in up' <=> m \in up)
    BY <1>0, <1>1 DEF TypeOK
  <2>3. m = n => life'[m] = life[m] + 1
    BY <1>0, <1>1 DEF TypeOK
  <2>4. QED
    BY <1>0, <1>1, <2>1, <2>2, <2>3 DEF GreetInv, Knows
<1>6. QED
  BY <1>3, <1>4, <1>5 DEF IInv

-----------------------------------------------------------------------------
\* Every step of every node preserves the inductive invariant.
LEMMA StepInv == IInv /\ [Next]_vars => IInv'
<1> SUFFICES ASSUME IInv, [Next]_vars PROVE IInv'
  OBVIOUS
<1>1. CASE \E n \in Node : DynamicStep(n)
  BY <1>1, DynamicPreserves
<1>2. CASE \E n \in Node : StaticStep(n)
  BY <1>2, StaticPreserves
<1>3. CASE \E n \in Node : CallStep(n)
  BY <1>3, CallPreserves
<1>4. CASE \E n \in Node : Leave(n)
  BY <1>4, LeavePreserves
<1>5. CASE \E n \in Node : Start(n)
  BY <1>5, StartPreserves
<1>6. CASE UNCHANGED vars
  <2>1. UNCHANGED <<life, up, contact, neighbors, trials, stubs, expired, dPc, dTodo, sPc,
                    sTrials, call, resolved, losses>>
    BY <1>6 DEF vars, lifeVars, neighborVars, dynamicVars, staticVars
  <2>2. TypeOK' /\ WatchedInv' /\ DynamicInv'
    BY <2>1 DEF IInv, TypeOK, WatchedInv, DynamicInv
  <2>3. StaticInv' /\ DownInv' /\ GreetInv'
    BY <2>1 DEF IInv, StaticInv, DownInv, GreetInv, Knows
  <2>4. QED
    BY <2>2, <2>3 DEF IInv
<1>7. Next => \E n \in Node : DynamicStep(n) \/ StaticStep(n) \/ CallStep(n) \/ Leave(n) \/ Start(n)
  BY DEF Next, DynamicStep, StaticStep, CallStep
<1>8. QED
  BY <1>1, <1>2, <1>3, <1>4, <1>5, <1>6, <1>7

\* The nodes never leave the inductive invariant.
LEMMA InductiveInvariant == Spec => []IInv
BY InitInv, StepInv, PTL DEF Spec

\* The type invariant of discovery.
THEOREM TypeCorrect == Spec => []TypeOK
<1>1. IInv => TypeOK
  BY DEF IInv
<1>2. QED
  BY <1>1, InductiveInvariant, PTL

\* However many nodes greet, answer, lose calls, leave and return: the
\* neighbours a node watches are exactly its contacts other than itself.
THEOREM EveryContactIsWatched == Spec => []ContactsAreWatched
<1>1. IInv => ContactsAreWatched
  <2>1. IInv => up \subseteq Node
    BY DEF IInv, TypeOK
  <2>2. QED
    BY <2>1 DEF IInv, WatchedInv, ContactsAreWatched
<1>2. QED
  BY <1>1, InductiveInvariant, PTL

\* A node whose greeting was answered is a contact of the node that answered,
\* until that one starts again.
THEOREM AnswerMeansContact == Spec => []GreetIsMutual
<1>1. IInv => GreetIsMutual
  BY DEF IInv, GreetInv, Knows, GreetIsMutual
<1>2. QED
  BY <1>1, InductiveInvariant, PTL

=============================================================================
