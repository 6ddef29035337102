--------------------------- MODULE ContactsProofs ---------------------------
(***************************************************************************)
(* Proofs about Contacts, for every number of contacts and every bound of  *)
(* the queue: the type invariant, SelectedIsCurrent, WindowConverges,      *)
(* IndexSafety and FollowsDiagram.                                         *)
(***************************************************************************)
EXTENDS Contacts, TLAPS

(***************************************************************************)
(* The inductive invariant.  SelectedIsCurrent needs to know that nobody   *)
(* is selected while select() is between its halves; IndexSafety needs to  *)
(* know, of every message on its way, that the window will have been told  *)
(* of the contact, and of the contacts created before it, when it arrives. *)
(***************************************************************************)
SelectInv ==
    /\ mCurrentContact < size
    /\ selecting < size
    /\ selecting # NoContact => \A id \in Id : ~IsSelected(state[id])

MemInv == mem = "message" => drained > 0

\* Until a stop, a contact that the window does not show is announced.
Announced ==
    ~stopped => \A id \in Id :
        (shown <= id /\ id < size) =>
            \E k \in 1 .. Len(pipe) : About(pipe[k], id)

\* Message k is about a contact that exists, and is not the first word about
\* it or about a smaller id that the window hears, unless it creates it.
InOrder(k) ==
    LET m == pipe[k] IN
    m.status = "STATE" =>
      /\ m.identity \in Id
      /\ m.identity < size
      /\ \A id \in Id : (shown <= id /\ id < m.identity) =>
             \E j \in 1 .. k - 1 : About(pipe[j], id)
      /\ m.identity >= shown =>
             \/ m.state = "ACTIVE"
             \/ \E j \in 1 .. k - 1 : About(pipe[j], m.identity)

OrderInv == \A k \in 1 .. Len(pipe) : InOrder(k)

QueueInv ==
    /\ MemInv
    /\ shown <= size
    /\ Announced
    /\ OrderInv
    /\ WindowConverges

IInv ==
    /\ TypeOK
    /\ SelectInv
    /\ SelectedIsCurrent
    /\ QueueInv

-----------------------------------------------------------------------------
(***************************************************************************)
(* Sequences: what a push and a receive do to the positions of a queue.    *)
(***************************************************************************)

\* A push keeps every position and adds one.
LEMMA AppendProperties ==
    ASSUME NEW S, NEW q \in Seq(S), NEW m \in S
    PROVE  /\ Append(q, m) \in Seq(S)
           /\ Len(Append(q, m)) = Len(q) + 1
           /\ \A k \in 1 .. Len(q) : Append(q, m)[k] = q[k]
           /\ Append(q, m)[Len(q) + 1] = m
OBVIOUS

\* A receive takes position 1 and moves every other one down.
LEMMA TailProperties ==
    ASSUME NEW S, NEW q \in Seq(S), Len(q) > 0
    PROVE  /\ Tail(q) \in Seq(S)
           /\ Len(Tail(q)) = Len(q) - 1
           /\ \A k \in 1 .. Len(q) - 1 : Tail(q)[k] = q[k + 1]
           /\ Head(q) = q[1]
           /\ q[1] \in S
OBVIOUS

(***************************************************************************)
(* The transition tables.                                                  *)
(***************************************************************************)

\* Every table maps states to states, unselecting ends a selection, selecting
\* starts one, and the other operations keep a contact selected or not.
LEMMA TableProperties ==
    ASSUME NEW s \in State
    PROVE  /\ OnSend(s) \in State /\ OnReceive(s) \in State
           /\ OnActivate(s) \in State /\ OnDeactivate(s) \in State
           /\ OnSelect(s) \in State /\ OnUnselect(s) \in State
           /\ IsSelected(OnSend(s)) <=> IsSelected(s)
           /\ IsSelected(OnReceive(s)) <=> IsSelected(s)
           /\ IsSelected(OnActivate(s)) <=> IsSelected(s)
           /\ IsSelected(OnDeactivate(s)) <=> IsSelected(s)
           /\ IsSelected(OnSelect(s))
           /\ ~IsSelected(OnUnselect(s))
BY DEF State, IsSelected, OnSend, OnReceive, OnActivate, OnDeactivate,
       OnSelect, OnUnselect

-----------------------------------------------------------------------------
(***************************************************************************)
(* The queue.  One lemma per way in which a step touches it.               *)
(***************************************************************************)

\* An operation that gives contact i (possibly the one it creates) the state
\* s and queues the message preserves the invariant of the queue.
LEMMA PushState ==
    ASSUME TypeOK, QueueInv, TypeOK', ~stopped,
           NEW i \in Id, NEW s \in State,
           \/ size' = size
           \/ size' = size + 1 /\ i = size /\ s = "ACTIVE",
           i < size',
           state' = [state EXCEPT ![i] = s],
           pipe' = Append(pipe, StateMessage(i, s)),
           UNCHANGED <<drained, mem, shown, entries, stopped>>
    PROVE  QueueInv'
<1> DEFINE m == StateMessage(i, s)
<1>1. /\ m \in Message
      /\ m.status = "STATE" /\ m.identity = i /\ m.state = s
  BY DEF Message, StateMessage
<1>2. /\ pipe \in Seq(Message)
      /\ Len(pipe) \in Nat
      /\ Len(pipe') = Len(pipe) + 1
      /\ \A k \in 1 .. Len(pipe) : pipe'[k] = pipe[k]
      /\ pipe'[Len(pipe) + 1] = m
  BY <1>1, AppendProperties DEF TypeOK
<1>3. About(pipe'[Len(pipe) + 1], i)
  BY <1>1, <1>2 DEF About
<1>4. /\ size \in Nat /\ size' \in Nat /\ shown \in Nat
      /\ Id \subseteq Nat
  BY BoundsAssumption DEF TypeOK, Id
<1>5. MemInv' /\ shown' <= size'
  BY <1>4 DEF QueueInv, MemInv
<1>6. Announced'
  <2> SUFFICES ASSUME ~stopped, NEW id \in Id, shown <= id, id < size'
               PROVE  \E k \in 1 .. Len(pipe') : About(pipe'[k], id)
    BY DEF Announced
  <2>1. CASE id = i
    BY <2>1, <1>2, <1>3
  <2>2. CASE id # i
    <3>1. id < size
      BY <2>2, <1>4
    <3>2. PICK k \in 1 .. Len(pipe) : About(pipe[k], id)
      BY <3>1 DEF QueueInv, Announced
    <3> QED
      BY <3>2, <1>2
  <2> QED
    BY <2>1, <2>2
<1>7. OrderInv'
  <2> SUFFICES ASSUME NEW k \in 1 .. Len(pipe')
               PROVE  InOrder(k)'
    BY DEF OrderInv
  <2>1. CASE k \in 1 .. Len(pipe)
    <3>1. InOrder(k) /\ pipe'[k] = pipe[k]
      BY <2>1, <1>2 DEF QueueInv, OrderInv
    <3>2. \A j \in 1 .. k - 1 : pipe'[j] = pipe[j]
      BY <2>1, <1>2
    <3> SUFFICES ASSUME pipe[k].status = "STATE"
                 PROVE  InOrder(k)'
      BY <3>1 DEF InOrder
    <3>3. /\ pipe[k].identity \in Id
          /\ pipe[k].identity < size
          /\ \A id \in Id : (shown <= id /\ id < pipe[k].identity) =>
                 \E j \in 1 .. k - 1 : About(pipe[j], id)
          /\ pipe[k].identity >= shown =>
                 \/ pipe[k].state = "ACTIVE"
                 \/ \E j \in 1 .. k - 1 : About(pipe[j], pipe[k].identity)
      BY <3>1 DEF InOrder
    <3>4. pipe[k].identity < size'
      BY <3>3, <1>4
    <3> QED
      BY <3>1, <3>2, <3>3, <3>4 DEF InOrder
  <2>2. CASE k = Len(pipe) + 1
    <3>1. pipe'[k] = m
      BY <2>2, <1>2
    <3>2. ASSUME NEW id \in Id, shown <= id, id < size
          PROVE  \E j \in 1 .. k - 1 : About(pipe'[j], id)
      <4>1. PICK j \in 1 .. Len(pipe) : About(pipe[j], id)
        BY <3>2 DEF QueueInv, Announced
      <4> QED
        BY <4>1, <2>2, <1>2
    <3>3. i <= size
      BY <1>4
    <3>4. \A id \in Id : (shown <= id /\ id < i) =>
              \E j \in 1 .. k - 1 : About(pipe'[j], id)
      BY <3>2, <3>3, <1>4
    <3>5. i >= shown =>
              s = "ACTIVE" \/ \E j \in 1 .. k - 1 : About(pipe'[j], i)
      BY <3>2, <1>4
    <3> QED
      BY <3>1, <3>4, <3>5, <1>1 DEF InOrder
  <2> QED
    BY <2>1, <2>2, <1>2
<1>8. WindowConverges'
  <2> SUFFICES ASSUME NEW id \in Id, id < size'
               PROVE  LastWord(id)'
    BY DEF WindowConverges
  <2>1. CASE id = i
    <3>1. state'[id] = s
      BY <2>1 DEF TypeOK
    <3>2. pipe'[Len(pipe')] = StateMessage(id, state'[id])
      BY <2>1, <3>1, <1>2
    <3> QED
      BY <3>2, <1>2 DEF LastWord
  <2>2. CASE id # i
    <3>1. state'[id] = state[id] /\ id < size
      BY <2>2, <1>4 DEF TypeOK
    <3>2. ~About(pipe'[Len(pipe) + 1], id)
      BY <2>2, <1>1, <1>2 DEF About
    <3>3. LastWord(id)
      BY <3>1 DEF QueueInv, WindowConverges
    <3>4. CASE \E k \in 1 .. Len(pipe) :
                  /\ pipe[k] = StateMessage(id, state[id])
                  /\ \A j \in k + 1 .. Len(pipe) : ~About(pipe[j], id)
      <4>1. PICK k \in 1 .. Len(pipe) :
                  /\ pipe[k] = StateMessage(id, state[id])
                  /\ \A j \in k + 1 .. Len(pipe) : ~About(pipe[j], id)
        BY <3>4
      <4>2. k \in 1 .. Len(pipe') /\ pipe'[k] = StateMessage(id, state'[id])
        BY <4>1, <3>1, <1>2
      <4>3. \A j \in k + 1 .. Len(pipe') : ~About(pipe'[j], id)
        BY <4>1, <3>2, <1>2
      <4> QED
        BY <4>2, <4>3 DEF LastWord
    <3>5. CASE /\ \A k \in 1 .. Len(pipe) : ~About(pipe[k], id)
               /\ entries[id] = state[id]
      <4>1. \A k \in 1 .. Len(pipe') : ~About(pipe'[k], id)
        BY <3>5, <3>2, <1>2
      <4> QED
        BY <4>1, <3>5, <3>1 DEF LastWord
    <3> QED
      BY <3>3, <3>4, <3>5 DEF LastWord
  <2> QED
    BY <2>1, <2>2
<1> QED
  BY <1>5, <1>6, <1>7, <1>8 DEF QueueInv

\* A heartbeat in the queue says nothing about any contact.
LEMMA PushHeartbeat ==
    ASSUME TypeOK, QueueInv,
           pipe' = Append(pipe, HeartbeatMessage),
           UNCHANGED <<size, state, drained, mem, shown, entries, stopped>>
    PROVE  QueueInv'
<1>1. /\ HeartbeatMessage \in Message
      /\ HeartbeatMessage.status = "HEARTBEAT"
  BY DEF Message, HeartbeatMessage, State
<1>2. /\ Len(pipe) \in Nat
      /\ Len(pipe') = Len(pipe) + 1
      /\ \A k \in 1 .. Len(pipe) : pipe'[k] = pipe[k]
      /\ pipe'[Len(pipe) + 1] = HeartbeatMessage
  BY <1>1, AppendProperties DEF TypeOK
<1>3. \A id : ~About(pipe'[Len(pipe) + 1], id)
  BY <1>1, <1>2 DEF About
<1>4. MemInv' /\ shown' <= size'
  BY DEF QueueInv, MemInv
<1>5. Announced'
  BY <1>2 DEF QueueInv, Announced, About
<1>6. OrderInv'
  <2> SUFFICES ASSUME NEW k \in 1 .. Len(pipe')
               PROVE  InOrder(k)'
    BY DEF OrderInv
  <2>1. CASE k \in 1 .. Len(pipe)
    <3>1. InOrder(k) /\ pipe'[k] = pipe[k]
      BY <2>1, <1>2 DEF QueueInv, OrderInv
    <3>2. \A j \in 1 .. k - 1 : pipe'[j] = pipe[j]
      BY <2>1, <1>2
    <3> QED
      BY <3>1, <3>2 DEF InOrder
  <2>2. CASE k = Len(pipe) + 1
    BY <2>2, <1>1, <1>2 DEF InOrder
  <2> QED
    BY <2>1, <2>2, <1>2
<1>7. WindowConverges'
  <2> SUFFICES ASSUME ~stopped, NEW id \in Id, id < size
               PROVE  LastWord(id)'
    BY DEF WindowConverges
  <2>1. LastWord(id)
    BY DEF QueueInv, WindowConverges
  <2>2. CASE \E k \in 1 .. Len(pipe) :
                /\ pipe[k] = StateMessage(id, state[id])
                /\ \A j \in k + 1 .. Len(pipe) : ~About(pipe[j], id)
    <3>1. PICK k \in 1 .. Len(pipe) :
                /\ pipe[k] = StateMessage(id, state[id])
                /\ \A j \in k + 1 .. Len(pipe) : ~About(pipe[j], id)
      BY <2>2
    <3>2. k \in 1 .. Len(pipe') /\ pipe'[k] = StateMessage(id, state'[id])
      BY <3>1, <1>2
    <3>3. \A j \in k + 1 .. Len(pipe') : ~About(pipe'[j], id)
      BY <3>1, <1>2, <1>3
    <3> QED
      BY <3>2, <3>3 DEF LastWord
  <2>3. CASE /\ \A k \in 1 .. Len(pipe) : ~About(pipe[k], id)
             /\ entries[id] = state[id]
    <3>1. \A k \in 1 .. Len(pipe') : ~About(pipe'[k], id)
      BY <2>3, <1>2, <1>3
    <3> QED
      BY <3>1, <2>3 DEF LastWord
  <2> QED
    BY <2>1, <2>2, <2>3 DEF LastWord
<1> QED
  BY <1>4, <1>5, <1>6, <1>7 DEF QueueInv

\* An operation of a stopped handler changes the contacts behind the window's
\* back, but never the order of what was queued before.
LEMMA RefusedStep ==
    ASSUME TypeOK, QueueInv, stopped,
           size' = size \/ size' = size + 1,
           UNCHANGED <<pipe, drained, mem, shown, stopped>>
    PROVE  QueueInv'
<1>1. /\ size \in Nat /\ size' \in Nat /\ shown \in Nat
      /\ Id \subseteq Nat
  BY BoundsAssumption DEF TypeOK, Id
<1>2. MemInv' /\ shown' <= size' /\ Announced' /\ WindowConverges'
  BY <1>1 DEF QueueInv, MemInv, Announced, WindowConverges
<1>3. OrderInv'
  <2> SUFFICES ASSUME NEW k \in 1 .. Len(pipe), pipe[k].status = "STATE"
               PROVE  InOrder(k)'
    BY DEF OrderInv, InOrder
  <2>1. InOrder(k)
    BY DEF QueueInv, OrderInv
  <2>2. pipe[k].identity \in Nat /\ pipe[k].identity < size
    BY <2>1, <1>1 DEF InOrder
  <2>3. pipe[k].identity < size'
    BY <2>2, <1>1
  <2> QED
    BY <2>1, <2>3 DEF InOrder
<1> QED
  BY <1>2, <1>3 DEF QueueInv

\* A step that leaves the contacts, the queue and the window's entries alone.
LEMMA QuietStep ==
    ASSUME QueueInv, MemInv', stopped \in BOOLEAN, stopped => stopped',
           UNCHANGED <<size, state, pipe, shown, entries>>
    PROVE  QueueInv'
<1>1. OrderInv' /\ shown' <= size'
  BY DEF QueueInv, OrderInv, InOrder
<1>2. Announced' /\ WindowConverges'
  BY DEF QueueInv, Announced, WindowConverges, LastWord
<1> QED
  BY <1>1, <1>2 DEF QueueInv

\* The main thread gives up what it has not copied to the shared memory: at
\* most the first message is left for the window.
LEMMA DropStep ==
    ASSUME TypeOK, QueueInv, MemInv', stopped',
           \/ pipe' = <<>>
           \/ pipe # <<>> /\ pipe' = <<Head(pipe)>>,
           UNCHANGED <<size, shown>>
    PROVE  QueueInv'
<1>1. shown' <= size' /\ Announced' /\ WindowConverges'
  BY DEF QueueInv, Announced, WindowConverges
<1>2. CASE pipe' = <<>>
  <2>1. OrderInv'
    BY <1>2 DEF OrderInv
  <2> QED
    BY <1>1, <2>1 DEF QueueInv
<1>3. CASE pipe # <<>> /\ pipe' = <<Head(pipe)>>
  <2>1. Len(pipe) \in Nat /\ Len(pipe) > 0
    BY <1>3 DEF TypeOK
  <2>2. pipe'[1] = pipe[1] /\ Len(pipe') = 1 /\ 1 \in 1 .. Len(pipe)
    BY <1>3, <2>1, TailProperties DEF TypeOK
  <2>3. InOrder(1)
    BY <2>2 DEF QueueInv, OrderInv
  <2>4. \A k \in 1 .. Len(pipe') : k = 1
    BY <2>2
  <2>5. InOrder(1)'
    BY <2>3, <2>2 DEF InOrder
  <2>6. OrderInv'
    BY <2>4, <2>5 DEF OrderInv
  <2> QED
    BY <1>1, <2>6 DEF QueueInv
<1> QED
  BY <1>2, <1>3

\* The window takes the first message: it finds mEntries long enough, and
\* what it shows afterwards agrees with what is still on its way.
LEMMA ReceiveStep ==
    ASSUME TypeOK, QueueInv, mem = "message",
           pipe' = Tail(pipe), drained' = drained - 1, mem' = "empty",
           IF Head(pipe).status = "STATE"
           THEN HandleState(Head(pipe).identity, Head(pipe).state)
           ELSE UNCHANGED <<shown, entries>>,
           UNCHANGED <<size, state, stopped>>
    PROVE  /\ QueueInv'
           /\ shown' \in 0 .. MaxContacts
           /\ entries' \in [Id -> State \cup {Absent}]
<1> DEFINE m == pipe[1]
<1>1. /\ Len(pipe) \in Nat /\ Len(pipe) > 0 /\ 1 \in 1 .. Len(pipe)
      /\ Len(pipe') \in Nat /\ Len(pipe') = Len(pipe) - 1
      /\ \A k \in 1 .. Len(pipe') : pipe'[k] = pipe[k + 1]
      /\ Head(pipe) = m /\ m \in Message
  BY TailProperties DEF TypeOK, QueueInv, MemInv
<1>2. /\ size \in Nat /\ shown \in Nat /\ size <= MaxContacts
      /\ MaxContacts \in Nat
      /\ \A id \in Id : id \in Nat
  BY BoundsAssumption DEF TypeOK, Id
<1>3. ASSUME m.status = "STATE"
      PROVE  /\ m.identity \in Id /\ m.identity < size
             /\ m.identity <= shown
             /\ m.identity = shown => m.state = "ACTIVE"
             /\ m.state \in State
  <2>1. InOrder(1)
    BY <1>1 DEF QueueInv, OrderInv
  <2>2. /\ m.identity \in Id /\ m.identity < size
        /\ \A id \in Id : ~(shown <= id /\ id < m.identity)
        /\ m.identity >= shown => m.state = "ACTIVE"
    BY <2>1, <1>3 DEF InOrder
  <2>3. m.identity <= shown
    <3> SUFFICES ASSUME shown < m.identity
                 PROVE  FALSE
      BY <2>2, <1>2
    <3>1. shown \in Id
      BY <2>2, <1>2 DEF Id
    <3> QED
      BY <3>1, <2>2, <1>2
  <2>4. m.state \in State
    BY <1>1 DEF Message
  <2> QED
    BY <2>2, <2>3, <2>4, <1>2
<1>4. /\ shown' \in Nat /\ shown <= shown' /\ shown' <= size
      /\ entries' \in [Id -> State \cup {Absent}]
      /\ \A id \in Id : entries'[id] = IF About(m, id) THEN m.state
                                                      ELSE entries[id]
      /\ \A id \in Id : shown' <= id <=> (shown <= id /\ ~About(m, id))
  <2>1. CASE m.status = "STATE" /\ m.identity = shown
    <3>1. shown' = shown + 1 /\ entries' = [entries EXCEPT ![shown] = m.state]
      BY <2>1, <1>1, <1>2, <1>3 DEF HandleState
    <3> QED
      BY <3>1, <2>1, <1>2, <1>3 DEF About, TypeOK
  <2>2. CASE m.status = "STATE" /\ m.identity # shown
    <3>1. m.identity \in Nat /\ m.identity < shown
      BY <2>2, <1>2, <1>3
    <3>2. shown' = shown
          /\ entries' = [entries EXCEPT ![m.identity] = m.state]
      BY <2>2, <3>1, <1>1, <1>2 DEF HandleState
    <3> QED
      BY <3>1, <3>2, <2>2, <1>2, <1>3 DEF About, TypeOK, QueueInv
  <2>3. CASE m.status # "STATE"
    BY <2>3, <1>1, <1>2 DEF About, TypeOK, QueueInv
  <2> QED
    BY <2>1, <2>2, <2>3
\* A word about id that is not the first is still on its way.
<1>5. ASSUME NEW id, ~About(m, id), NEW n \in 1 .. Len(pipe),
             \E j \in 1 .. n : About(pipe[j], id)
      PROVE  \E j \in 1 .. n - 1 : About(pipe'[j], id)
  <2>1. PICK j \in 1 .. n : About(pipe[j], id)
    BY <1>5
  <2>2. j # 1
    BY <2>1, <1>5
  <2>3. j - 1 \in 1 .. n - 1 /\ pipe'[j - 1] = pipe[j]
    BY <2>2, <1>1
  <2> QED
    BY <2>1, <2>3
<1>6. MemInv' /\ shown' <= size'
  BY <1>4 DEF MemInv
<1>7. Announced'
  <2> SUFFICES ASSUME ~stopped, NEW id \in Id, shown' <= id, id < size
               PROVE  \E k \in 1 .. Len(pipe') : About(pipe'[k], id)
    BY DEF Announced
  <2>1. shown <= id /\ ~About(m, id)
    BY <1>4
  <2>2. \E k \in 1 .. Len(pipe) : About(pipe[k], id)
    BY <2>1 DEF QueueInv, Announced
  <2> QED
    BY <2>1, <2>2, <1>5, <1>1
<1>8. OrderInv'
  <2> SUFFICES ASSUME NEW k \in 1 .. Len(pipe'), pipe'[k].status = "STATE"
               PROVE  InOrder(k)'
    BY DEF OrderInv, InOrder
  <2> DEFINE n == pipe[k + 1]
  <2>1. k + 1 \in 1 .. Len(pipe) /\ k \in 1 .. Len(pipe) /\ pipe'[k] = n
        /\ k \in Nat
    BY <1>1
  <2>2. InOrder(k + 1)
    BY <2>1 DEF QueueInv, OrderInv
  <2>3. (k + 1) - 1 = k
    BY <2>1
  <2>4. /\ n.identity \in Id /\ n.identity < size
        /\ \A id \in Id : (shown <= id /\ id < n.identity) =>
               \E j \in 1 .. k : About(pipe[j], id)
        /\ n.identity >= shown =>
               \/ n.state = "ACTIVE"
               \/ \E j \in 1 .. k : About(pipe[j], n.identity)
    BY <2>1, <2>2, <2>3 DEF InOrder
  <2>5. ASSUME NEW id \in Id, shown' <= id, id < n.identity
        PROVE  \E j \in 1 .. k - 1 : About(pipe'[j], id)
    <3>1. shown <= id /\ ~About(m, id)
      BY <2>5, <1>4
    <3>2. \E j \in 1 .. k : About(pipe[j], id)
      BY <3>1, <2>4, <2>5
    <3> QED
      BY <3>1, <3>2, <2>1, <1>5
  <2>6. ASSUME n.identity >= shown', n.state # "ACTIVE"
        PROVE  \E j \in 1 .. k - 1 : About(pipe'[j], n.identity)
    <3>1. shown' <= n.identity
      BY <2>6, <2>4, <1>2, <1>4
    <3>2. shown <= n.identity /\ ~About(m, n.identity)
      BY <3>1, <2>4, <1>4
    <3>3. n.identity >= shown
      BY <3>2, <2>4, <1>2
    <3>4. \E j \in 1 .. k : About(pipe[j], n.identity)
      BY <3>3, <2>4, <2>6
    <3> QED
      BY <3>2, <3>4, <2>1, <1>5
  <2> QED
    BY <2>1, <2>4, <2>5, <2>6 DEF InOrder
<1>9. WindowConverges'
  <2> SUFFICES ASSUME ~stopped, NEW id \in Id, id < size
               PROVE  LastWord(id)'
    BY DEF WindowConverges
  <2>1. LastWord(id)
    BY DEF QueueInv, WindowConverges
  <2>2. CASE \E k \in 1 .. Len(pipe) :
                /\ pipe[k] = StateMessage(id, state[id])
                /\ \A j \in k + 1 .. Len(pipe) : ~About(pipe[j], id)
    <3>1. PICK k \in 1 .. Len(pipe) :
                /\ pipe[k] = StateMessage(id, state[id])
                /\ \A j \in k + 1 .. Len(pipe) : ~About(pipe[j], id)
      BY <2>2
    <3>2. CASE k = 1
      <4>1. entries'[id] = state[id]
        BY <3>1, <3>2, <1>4 DEF About, StateMessage
      <4>2. \A j \in 1 .. Len(pipe') : ~About(pipe'[j], id)
        BY <3>1, <3>2, <1>1
      <4> QED
        BY <4>1, <4>2 DEF LastWord
    <3>3. CASE k # 1
      <4>1. /\ k - 1 \in 1 .. Len(pipe')
            /\ pipe'[k - 1] = StateMessage(id, state'[id])
        BY <3>1, <3>3, <1>1
      <4>2. \A j \in (k - 1) + 1 .. Len(pipe') : ~About(pipe'[j], id)
        BY <3>1, <1>1
      <4> QED
        BY <4>1, <4>2 DEF LastWord
    <3> QED
      BY <3>2, <3>3
  <2>3. CASE /\ \A k \in 1 .. Len(pipe) : ~About(pipe[k], id)
             /\ entries[id] = state[id]
    <3>1. entries'[id] = state[id]
      BY <2>3, <1>1, <1>4
    <3>2. \A j \in 1 .. Len(pipe') : ~About(pipe'[j], id)
      BY <2>3, <1>1
    <3> QED
      BY <3>1, <3>2 DEF LastWord
  <2> QED
    BY <2>1, <2>2, <2>3 DEF LastWord
<1> QED
  BY <1>2, <1>4, <1>6, <1>7, <1>8, <1>9 DEF QueueInv

-----------------------------------------------------------------------------
(***************************************************************************)
(* The inductive invariant holds initially and is preserved by every step. *)
(***************************************************************************)

LEMMA InitEstablishes == Init => IInv
<1> SUFFICES ASSUME Init
             PROVE  IInv
  OBVIOUS
<1>1. /\ Len(pipe) = 0 /\ pipe \in Seq(Message)
      /\ \A k : k \notin 1 .. Len(pipe)
  BY DEF Init
<1>2. TypeOK
  BY <1>1, BoundsAssumption DEF Init, TypeOK, Id, NoContact, MainPc
<1>3. SelectInv /\ SelectedIsCurrent
  BY BoundsAssumption
  DEF Init, SelectInv, SelectedIsCurrent, IsSelected, Absent, NoContact, Id
<1>4. MemInv /\ shown <= size /\ Announced /\ OrderInv /\ WindowConverges
  BY <1>1, BoundsAssumption
  DEF Init, MemInv, Announced, OrderInv, WindowConverges, Id
<1> QED
  BY <1>2, <1>3, <1>4 DEF IInv, QueueInv

\* Queueing a message keeps the type of the queue.
LEMMA QueueType ==
    ASSUME TypeOK, NEW m \in Message, Queue(m), drained' = drained
    PROVE  pipe' \in Seq(Message) /\ drained' \in 0 .. Len(pipe')
BY AppendProperties DEF TypeOK, Queue

\* A contact i takes the state s, and the message is queued or refused.
LEMMA SetStateQueueInv ==
    ASSUME TypeOK, TypeOK', QueueInv, NEW i \in Id, NEW s \in State,
           \/ size' = size
           \/ size' = size + 1 /\ i = size /\ s = "ACTIVE",
           i < size',
           state' = [state EXCEPT ![i] = s],
           Queue(StateMessage(i, s)),
           UNCHANGED <<drained, mem, shown, entries, stopped>>
    PROVE  QueueInv'
<1>1. CASE stopped
  BY <1>1, RefusedStep DEF Queue
<1>2. CASE ~stopped
  BY <1>2, PushState DEF Queue
<1> QED
  BY <1>1, <1>2

\* send(id), receive(id), activate(id), deactivate(id).
LEMMA OperationStep ==
    ASSUME IInv, NEW i \in Id, NEW s \in State,
           Operation(i), SetState(i, s),
           IsSelected(s) <=> IsSelected(state[i])
    PROVE  IInv'
<1>1. StateMessage(i, s) \in Message
  BY DEF Message, StateMessage
<1>2. state \in [Id -> State \cup {Absent}] /\ Absent \notin State
      /\ state' = [state EXCEPT ![i] = s] /\ i < size /\ size' = size
  BY DEF IInv, TypeOK, SetState, Operation, Absent, State
<1>3. /\ state' \in [Id -> State \cup {Absent}]
      /\ \A id \in Id : state'[id] = IF id = i THEN s ELSE state[id]
  BY <1>2
<1>4. \A id \in Id : state'[id] = Absent <=> id >= size'
  BY <1>2, <1>3, BoundsAssumption DEF IInv, TypeOK, Id
<1>5. pipe' \in Seq(Message) /\ drained' \in 0 .. Len(pipe')
  BY <1>1, QueueType DEF SetState, Operation, IInv, TypeOK
<1>6. TypeOK'
  BY <1>3, <1>4, <1>5 DEF IInv, TypeOK, Operation, windowVars
<1>7. \A id \in Id : IsSelected(state'[id]) <=> IsSelected(state[id])
  BY <1>3
<1>8. SelectInv' /\ SelectedIsCurrent'
  BY <1>2, <1>7
  DEF IInv, TypeOK, SelectInv, SelectedIsCurrent, Operation, ContactsUnlocked
<1>9. QueueInv'
  <2>1. CASE s = state[i]
    <3>1. state' = state /\ pipe' = pipe
      BY <2>1, <1>2 DEF SetState
    <3>2. MemInv'
      BY <3>1 DEF IInv, QueueInv, MemInv, Operation
    <3> QED
      BY <3>1, <3>2, QuietStep DEF IInv, TypeOK, Operation, windowVars
  <2>2. CASE s # state[i]
    BY <2>2, <1>2, <1>6, SetStateQueueInv
    DEF IInv, SetState, Operation, windowVars
  <2> QED
    BY <2>1, <2>2
<1> QED
  BY <1>6, <1>8, <1>9 DEF IInv

LEMMA CreateStep ==
    ASSUME IInv, Create
    PROVE  IInv'
<1>1. size \in Id /\ size' = size + 1 /\ size' \in 0 .. MaxContacts
      /\ size \in Nat
  BY BoundsAssumption DEF IInv, TypeOK, Create, Id
<1>2. "ACTIVE" \in State /\ ~IsSelected("ACTIVE") /\ ~IsSelected(Absent)
      /\ Absent # "ACTIVE"
  BY DEF State, IsSelected, Absent
<1>3. StateMessage(size, "ACTIVE") \in Message
  BY <1>1, <1>2 DEF Message, StateMessage
<1>4. /\ state' \in [Id -> State \cup {Absent}]
      /\ \A id \in Id : state'[id] = IF id = size THEN "ACTIVE" ELSE state[id]
  BY <1>1, <1>2 DEF IInv, TypeOK, Create
<1>5. \A id \in Id : state'[id] = Absent <=> id >= size'
  BY <1>1, <1>2, <1>4, BoundsAssumption DEF IInv, TypeOK, Id
<1>6. pipe' \in Seq(Message) /\ drained' \in 0 .. Len(pipe')
  BY <1>3, QueueType DEF Create, IInv, TypeOK
<1>7. TypeOK'
  BY <1>1, <1>4, <1>5, <1>6 DEF IInv, TypeOK, Create, windowVars
<1>8. \A id \in Id : IsSelected(state'[id]) <=> IsSelected(state[id])
  <2>1. state[size] = Absent
    BY <1>1 DEF IInv, TypeOK
  <2> QED
    BY <2>1, <1>2, <1>4
<1>9. SelectInv' /\ SelectedIsCurrent'
  BY <1>1, <1>8, BoundsAssumption
  DEF IInv, TypeOK, SelectInv, SelectedIsCurrent, Create, ContactsUnlocked,
      Id, NoContact
<1>10. QueueInv'
  <2>1. /\ size < size'
        /\ state' = [state EXCEPT ![size] = "ACTIVE"]
        /\ Queue(StateMessage(size, "ACTIVE"))
        /\ UNCHANGED <<drained, mem, shown, entries, stopped>>
    BY <1>1 DEF Create, windowVars
  <2>2. TypeOK /\ QueueInv
    BY DEF IInv
  <2> QED
    BY <2>1, <2>2, <1>1, <1>2, <1>7, SetStateQueueInv
<1> QED
  BY <1>7, <1>9, <1>10 DEF IInv

\* The second half of select(id), when nobody is selected.
LEMMA SelectNewStep ==
    ASSUME IInv, NEW i \in Id, i < size, SelectNew(i),
           \A id \in Id : ~IsSelected(state[id])
    PROVE  IInv'
<1> DEFINE s == OnSelect(state[i])
<1>1. state \in [Id -> State \cup {Absent}] /\ Absent \notin State
      /\ size \in Nat /\ i \in Nat
  BY BoundsAssumption DEF IInv, TypeOK, Absent, State, Id
<1>2. state[i] \in State /\ state[i] \in Selectable
  BY <1>1 DEF IInv, TypeOK, Selectable
<1>3. s \in State /\ IsSelected(s)
  BY <1>2, TableProperties
<1>4. StateMessage(i, s) \in Message
  BY <1>3 DEF Message, StateMessage
<1>5. /\ state' = [state EXCEPT ![i] = s]
      /\ Queue(StateMessage(i, s))
      /\ mCurrentContact' = i /\ selecting' = NoContact /\ size' = size
      /\ UNCHANGED <<drained, mem, shown, entries, stopped>>
  BY <1>2 DEF SelectNew, windowVars
<1>6. /\ state' \in [Id -> State \cup {Absent}]
      /\ \A id \in Id : state'[id] = IF id = i THEN s ELSE state[id]
  BY <1>1, <1>3, <1>5
<1>7. \A id \in Id : state'[id] = Absent <=> id >= size'
  BY <1>1, <1>3, <1>5, <1>6, BoundsAssumption DEF IInv, TypeOK, Id
<1>8. pipe' \in Seq(Message) /\ drained' \in 0 .. Len(pipe')
  BY <1>4, <1>5, QueueType DEF IInv
<1>9. TypeOK'
  BY <1>5, <1>6, <1>7, <1>8 DEF IInv, TypeOK, SelectNew, windowVars
<1>10. SelectInv' /\ SelectedIsCurrent'
  BY <1>1, <1>3, <1>5, <1>6
  DEF SelectInv, SelectedIsCurrent, NoContact
<1>11. QueueInv'
  BY <1>3, <1>5, <1>9, SetStateQueueInv DEF IInv
<1> QED
  BY <1>9, <1>10, <1>11 DEF IInv

LEMMA SelectStep ==
    ASSUME IInv, NEW i \in Id, Select(i)
    PROVE  IInv'
<1>1. CASE mCurrentContact = NoContact
  <2>1. \A id \in Id : ~IsSelected(state[id])
    BY <1>1, BoundsAssumption DEF IInv, SelectedIsCurrent, NoContact, Id
  <2> QED
    BY <1>1, <2>1, SelectNewStep DEF Select
<1>2. CASE mCurrentContact # NoContact
  <2> DEFINE old == mCurrentContact
             s == OnUnselect(state[old])
  <2>1. old \in Id /\ old < size /\ i < size /\ IsSelected(state[old])
        /\ size' = size
    BY <1>2 DEF IInv, TypeOK, SelectInv, Select
  <2>2. state \in [Id -> State \cup {Absent}] /\ Absent \notin State
        /\ state[old] \in State
    BY <2>1 DEF IInv, TypeOK, Absent, State, IsSelected
  <2>3. s \in State /\ ~IsSelected(s)
    BY <2>2, TableProperties
  <2>4. StateMessage(old, s) \in Message
    BY <2>1, <2>3 DEF Message, StateMessage
  <2>5. /\ state' = [state EXCEPT ![old] = s]
        /\ Queue(StateMessage(old, s))
        /\ mCurrentContact' = old
        /\ selecting' = IF stopped THEN NoContact ELSE i
        /\ UNCHANGED <<drained, mem, shown, entries, stopped>>
    BY <1>2 DEF Select, windowVars
  <2>6. /\ state' \in [Id -> State \cup {Absent}]
        /\ \A id \in Id : state'[id] = IF id = old THEN s ELSE state[id]
    BY <2>1, <2>2, <2>3, <2>5
  <2>7. \A id \in Id : state'[id] = Absent <=> id >= size'
    BY <2>1, <2>2, <2>3, <2>6, BoundsAssumption DEF IInv, TypeOK, Id
  <2>8. pipe' \in Seq(Message) /\ drained' \in 0 .. Len(pipe')
    BY <2>4, <2>5, QueueType DEF IInv
  <2>9. selecting' \in Id \cup {NoContact}
    BY <2>5
  <2>10. TypeOK'
    BY <1>2, <2>1, <2>5, <2>6, <2>7, <2>8, <2>9
    DEF IInv, TypeOK, Select, windowVars
  <2>11. \A id \in Id : ~IsSelected(state'[id])
    BY <2>3, <2>6 DEF IInv, SelectedIsCurrent
  <2>12. selecting' < size'
    BY <2>1, <2>5, BoundsAssumption DEF NoContact, Id, IInv, TypeOK
  <2>13. SelectInv' /\ SelectedIsCurrent'
    <3>1. mCurrentContact' < size'
      BY <2>1, <2>5
    <3>2. stopped' \/ ~ContactsUnlocked'
      BY <2>5, BoundsAssumption DEF ContactsUnlocked, NoContact, Id
    <3> QED
      BY <3>1, <3>2, <2>11, <2>12 DEF SelectInv, SelectedIsCurrent
  <2>14. QueueInv'
    BY <2>1, <2>3, <2>5, <2>10, SetStateQueueInv DEF IInv
  <2> QED
    BY <2>10, <2>13, <2>14 DEF IInv
<1> QED
  BY <1>1, <1>2

\* A step of the main thread that keeps the queue.
LEMMA QuietMainStep ==
    ASSUME IInv, UNCHANGED <<handlerVars, pipe, heartbeatPc, windowVars>>,
           mainPc' \in MainPc, MemInv',
           drained' \in 0 .. Len(pipe),
           stopped' = stopped,
           mem' \in {"empty", "heartbeat", "message", "goodbye"}
    PROVE  IInv'
<1>1. TypeOK'
  BY DEF IInv, TypeOK, handlerVars, windowVars
<1>2. SelectInv' /\ SelectedIsCurrent'
  BY DEF IInv, SelectInv, SelectedIsCurrent, ContactsUnlocked, handlerVars
<1>3. QueueInv'
  BY QuietStep DEF IInv, TypeOK, handlerVars, windowVars
<1> QED
  BY <1>1, <1>2, <1>3 DEF IInv

\* Every step of the next-state relation preserves the invariant.
LEMMA NextPreserves == IInv /\ [Next]_vars => IInv'
<1> SUFFICES ASSUME IInv, [Next]_vars
             PROVE  IInv'
  OBVIOUS
<1> USE DEF handlerVars, windowVars
<1>1. CASE Create
  BY <1>1, CreateStep
<1>2. ASSUME NEW i \in Id, Send(i) \/ Receive(i) \/ Activate(i) \/ Deactivate(i)
      PROVE  IInv'
  <2>1. state[i] \in State
    <3>1. i < size /\ state[i] \in State \cup {Absent} /\ size \in Nat
          /\ i \in Nat
      BY <1>2, BoundsAssumption
      DEF IInv, TypeOK, Send, Receive, Activate, Deactivate, Operation, Id
    <3> QED
      BY <3>1 DEF IInv, TypeOK
  <2>2. CASE Send(i)
    BY <2>1, <2>2, TableProperties, OperationStep DEF Send
  <2>3. CASE Receive(i)
    BY <2>1, <2>3, TableProperties, OperationStep DEF Receive
  <2>4. CASE Activate(i)
    BY <2>1, <2>4, TableProperties, OperationStep DEF Activate
  <2>5. CASE Deactivate(i)
    BY <2>1, <2>5, TableProperties, OperationStep DEF Deactivate
  <2> QED
    BY <1>2, <2>2, <2>3, <2>4, <2>5
<1>3. ASSUME NEW i \in Id, Select(i)
      PROVE  IInv'
  BY <1>3, SelectStep
<1>4. CASE SelectFinish
  BY <1>4, SelectNewStep DEF SelectFinish, IInv, TypeOK, SelectInv
<1>5. CASE Stop
  <2>1. TypeOK' /\ SelectInv' /\ SelectedIsCurrent' /\ MemInv'
    BY <1>5
    DEF Stop, IInv, TypeOK, SelectInv, SelectedIsCurrent, QueueInv, MemInv
  <2>2. QueueInv'
    BY <1>5, <2>1, QuietStep DEF Stop, IInv, TypeOK
  <2> QED
    BY <2>1, <2>2 DEF IInv
<1>6. CASE Heartbeat
  <2>1. pipe' = Append(pipe, HeartbeatMessage)
    BY <1>6 DEF Heartbeat, Queue
  <2>2. QueueInv'
    BY <1>6, <2>1, PushHeartbeat DEF Heartbeat, IInv
  <2>3. HeartbeatMessage \in Message
    BY DEF Message, HeartbeatMessage, State
  <2>4. pipe' \in Seq(Message) /\ drained' \in 0 .. Len(pipe')
    BY <1>6, <2>3, QueueType DEF Heartbeat, IInv
  <2>5. TypeOK'
    BY <1>6, <2>4 DEF Heartbeat, IInv, TypeOK
  <2>6. SelectInv' /\ SelectedIsCurrent'
    BY <1>6
    DEF Heartbeat, IInv, SelectInv, SelectedIsCurrent, ContactsUnlocked
  <2> QED
    BY <2>2, <2>5, <2>6 DEF IInv
<1>7. CASE HeartbeatQuit
  <2>1. TypeOK' /\ SelectInv' /\ SelectedIsCurrent' /\ MemInv'
    BY <1>7 DEF HeartbeatQuit, IInv, TypeOK, SelectInv, SelectedIsCurrent,
                ContactsUnlocked, QueueInv, MemInv
  <2>2. QueueInv'
    BY <1>7, <2>1, QuietStep DEF HeartbeatQuit, IInv, TypeOK
  <2> QED
    BY <2>1, <2>2 DEF IInv
<1>8. CASE Established \/ EstablishTimeout \/ MainListDone \/ MainSent
           \/ MainSendTimeout \/ MainGoodbyeDone
  <2>1. /\ UNCHANGED <<handlerVars, heartbeatPc, windowVars>>
        /\ UNCHANGED <<pipe, drained, stopped, mem>>
        /\ mainPc' \in MainPc
    BY <1>8 DEF Established, EstablishTimeout, MainListDone, MainSent,
                MainSendTimeout, MainGoodbyeDone, MainStep, MainPc
  <2>2. MemInv' /\ drained' \in 0 .. Len(pipe)
    BY <2>1 DEF IInv, TypeOK, QueueInv, MemInv
  <2> QED
    BY <2>1, <2>2, QuietMainStep DEF IInv, TypeOK
<1>9. CASE MainDrain
  <2>1. Len(pipe) \in Nat /\ Len(pipe) > 0
    BY <1>9 DEF MainDrain, IInv, TypeOK
  <2>2. MemInv' /\ drained' \in 0 .. Len(pipe)
    BY <1>9, <2>1 DEF MainDrain, MemInv
  <2>3. mainPc' \in MainPc
    BY <1>9 DEF MainDrain, MainStep, MainPc
  <2> QED
    BY <1>9, <2>2, <2>3, QuietMainStep DEF MainDrain, MainStep, IInv, TypeOK
<1>10. CASE MainSend
  <2>1. MemInv' /\ drained' \in 0 .. Len(pipe)
    BY <1>10 DEF MainSend, MemInv, IInv, TypeOK
  <2>2. mainPc' \in MainPc
    BY <1>10 DEF MainSend, MainStep, MainPc
  <2> QED
    BY <1>10, <2>1, <2>2, QuietMainStep DEF MainSend, MainStep
<1>11. CASE MainGoodbye
  <2>1. /\ UNCHANGED <<handlerVars, heartbeatPc, windowVars, stopped>>
        /\ pipe' = <<>> /\ drained' = 0 /\ mem' = "goodbye"
        /\ mainPc' \in MainPc /\ stopped
    BY <1>11 DEF MainGoodbye, MainStep, MainPc
  <2>2. TypeOK' /\ SelectInv' /\ SelectedIsCurrent' /\ MemInv'
    BY <2>1 DEF IInv, TypeOK, SelectInv, SelectedIsCurrent,
                ContactsUnlocked, MemInv
  <2>3. QueueInv'
    BY <2>1, <2>2, DropStep DEF IInv
  <2> QED
    BY <2>2, <2>3 DEF IInv
<1>12. CASE MainExit
  <2>1. /\ UNCHANGED <<handlerVars, heartbeatPc, windowVars, mem>>
        /\ IF mem = "message"
           THEN pipe' = <<Head(pipe)>> /\ drained' = 1
           ELSE pipe' = <<>> /\ drained' = 0
        /\ mainPc' \in MainPc /\ stopped'
    BY <1>12 DEF MainExit, MainStep, MainPc
  <2>2. \/ pipe' = <<>>
        \/ pipe # <<>> /\ pipe' = <<Head(pipe)>>
    BY <2>1 DEF IInv, TypeOK, QueueInv, MemInv
  <2>3. pipe' \in Seq(Message) /\ drained' \in 0 .. Len(pipe')
    <3>1. CASE mem = "message"
      <4>1. pipe \in Seq(Message) /\ Len(pipe) > 0
        BY <3>1 DEF IInv, TypeOK, QueueInv, MemInv
      <4>2. Head(pipe) \in Message
        BY <4>1, TailProperties
      <4>3. pipe' = <<Head(pipe)>> /\ drained' = 1
        BY <3>1, <2>1
      <4> QED
        BY <4>2, <4>3
    <3>2. CASE mem # "message"
      BY <3>2, <2>1
    <3> QED
      BY <3>1, <3>2
  <2>4. TypeOK' /\ SelectInv' /\ SelectedIsCurrent' /\ MemInv'
    BY <1>12, <2>1, <2>3 DEF MainExit, IInv, TypeOK, SelectInv,
                SelectedIsCurrent, ContactsUnlocked, MemInv
  <2>5. QueueInv'
    BY <2>1, <2>2, <2>4, DropStep DEF IInv
  <2> QED
    BY <2>4, <2>5 DEF IInv
<1>13. CASE WindowReceive
  <2>1. SelectInv' /\ SelectedIsCurrent'
    BY <1>13
    DEF WindowReceive, IInv, SelectInv, SelectedIsCurrent, ContactsUnlocked
  <2>2. CASE mem = "message"
    <3>1. /\ QueueInv'
          /\ shown' \in 0 .. MaxContacts
          /\ entries' \in [Id -> State \cup {Absent}]
      BY <1>13, <2>2, ReceiveStep DEF WindowReceive, IInv
    <3>2. pipe' \in Seq(Message) /\ drained' \in 0 .. Len(pipe')
      <4>1. pipe \in Seq(Message) /\ drained \in 1 .. Len(pipe)
        BY <2>2 DEF IInv, TypeOK, QueueInv, MemInv
      <4>2. pipe' = Tail(pipe) /\ drained' = drained - 1
        BY <1>13, <2>2 DEF WindowReceive
      <4> QED
        BY <4>1, <4>2, TailProperties
    <3>3. TypeOK'
      BY <1>13, <3>1, <3>2 DEF WindowReceive, IInv, TypeOK
    <3> QED
      BY <2>1, <3>1, <3>3 DEF IInv
  <2>3. CASE mem # "message"
    <3>1. TypeOK' /\ MemInv'
      BY <1>13, <2>3 DEF WindowReceive, IInv, TypeOK, MemInv
    <3>2. QueueInv'
      BY <1>13, <2>3, <3>1, QuietStep DEF WindowReceive, IInv, TypeOK
    <3> QED
      BY <2>1, <3>1, <3>2 DEF IInv
  <2> QED
    BY <2>2, <2>3
<1>14. CASE WindowTimeout \/ WindowStop \/ UNCHANGED vars
  <2>1. /\ UNCHANGED <<size, state, mCurrentContact, selecting, pipe, drained,
                       mainPc, heartbeatPc, stopped, mem, shown, entries>>
        /\ windowStopped' \in BOOLEAN
    BY <1>14 DEF WindowTimeout, WindowStop, vars, IInv, TypeOK
  <2>2. TypeOK' /\ SelectInv' /\ SelectedIsCurrent' /\ MemInv'
    BY <2>1 DEF IInv, TypeOK, SelectInv, SelectedIsCurrent,
                ContactsUnlocked, QueueInv, MemInv
  <2>3. QueueInv'
    BY <2>1, <2>2, QuietStep DEF IInv, TypeOK
  <2> QED
    BY <2>2, <2>3 DEF IInv
<1> QED
  BY <1>1, <1>2, <1>3, <1>4, <1>5, <1>6, <1>7, <1>8, <1>9, <1>10, <1>11,
     <1>12, <1>13, <1>14
  DEF Next, Operations, HeartbeatThread, MainThread, Window

\* Every reachable state of the contacts component satisfies the invariant.
LEMMA Invariance == Spec => []IInv
BY InitEstablishes, NextPreserves, PTL DEF Spec

-----------------------------------------------------------------------------
(***************************************************************************)
(* The results.                                                            *)
(***************************************************************************)

\* Every variable of the handler, the queue, the shared memory and the window
\* keeps its type, and exactly the created contacts have a state.
THEOREM TypeCorrect == Spec => []TypeOK
BY Invariance, PTL DEF IInv

\* At most one contact is in a SELECTED_ state, it is mCurrentContact, and
\* mCurrentContact is in one whenever mContactsMutex is free before a stop().
THEOREM SelectionCorrect == Spec => []SelectedIsCurrent
BY Invariance, PTL DEF IInv

\* The window converges to the state that the handler keeps: for each contact
\* the last queued or displayed word is that state, until the handler stops.
THEOREM WindowCorrect == Spec => []WindowConverges
<1>1. IInv => WindowConverges
  BY DEF IInv, QueueInv
<1> QED
  BY <1>1, Invariance, PTL

\* TTContacts::handle() never indexes mEntries out of bounds and never files
\* a contact under an index that is not its identity.
THEOREM IndexCorrect == Spec => []IndexSafety
<1>1. IInv => IndexSafety
  <2> SUFFICES ASSUME IInv, mem = "message", Head(pipe).status = "STATE"
               PROVE  \/ Head(pipe).identity < shown
                      \/ Head(pipe).identity = shown
                            /\ Head(pipe).state = "ACTIVE"
    BY DEF IndexSafety
  <2>1. pipe \in Seq(Message) /\ Len(pipe) > 0 /\ 1 \in 1 .. Len(pipe)
    BY DEF IInv, TypeOK, QueueInv, MemInv
  <2>2. Head(pipe) = pipe[1]
    BY <2>1, TailProperties
  <2>3. InOrder(1)
    BY <2>1 DEF IInv, QueueInv, OrderInv
  <2>4. /\ pipe[1].identity \in Id
        /\ \A id \in Id : ~(shown <= id /\ id < pipe[1].identity)
        /\ pipe[1].identity >= shown => pipe[1].state = "ACTIVE"
    BY <2>2, <2>3 DEF InOrder
  <2>5. shown \in Nat /\ pipe[1].identity \in 0 .. MaxContacts - 1
        /\ MaxContacts \in Nat
    BY <2>4, BoundsAssumption DEF IInv, TypeOK, Id
  <2>6. ~(shown < pipe[1].identity)
    <3> SUFFICES ASSUME shown < pipe[1].identity
                 PROVE  FALSE
      OBVIOUS
    <3>1. shown \in Id
      BY <2>5 DEF Id
    <3> QED
      BY <3>1, <2>4, <2>5
  <2> QED
    BY <2>2, <2>4, <2>5, <2>6
<1> QED
  BY <1>1, Invariance, PTL

\* The tables move a contact along an edge of the diagram or not at all.
LEMMA TableEdges ==
    ASSUME NEW s \in State
    PROVE  /\ OnSend(s) = s \/ DiagramEdge(s, OnSend(s))
           /\ OnReceive(s) = s \/ DiagramEdge(s, OnReceive(s))
           /\ OnActivate(s) = s \/ DiagramEdge(s, OnActivate(s))
           /\ OnDeactivate(s) = s \/ DiagramEdge(s, OnDeactivate(s))
           /\ IsSelected(s) => DiagramEdge(s, OnUnselect(s))
           /\ ~IsSelected(s) => DiagramEdge(s, OnSelect(s))
<1>1. OnSend(s) = s \/ DiagramEdge(s, OnSend(s))
  BY DEF State, OnSend, DiagramEdge
<1>2. OnReceive(s) = s \/ DiagramEdge(s, OnReceive(s))
  BY DEF State, OnReceive, DiagramEdge
<1>3. OnActivate(s) = s \/ DiagramEdge(s, OnActivate(s))
  BY DEF State, OnActivate, DiagramEdge
<1>4. OnDeactivate(s) = s \/ DiagramEdge(s, OnDeactivate(s))
  BY DEF State, OnDeactivate, DiagramEdge
<1>5. IsSelected(s) => DiagramEdge(s, OnUnselect(s))
  BY DEF State, OnUnselect, DiagramEdge, IsSelected
<1>6. ~IsSelected(s) => DiagramEdge(s, OnSelect(s))
  BY DEF State, OnSelect, DiagramEdge, IsSelected
<1> QED
  BY <1>1, <1>2, <1>3, <1>4, <1>5, <1>6

\* An assignment to the state of one contact along an edge, or of the state
\* it has already, is a step of the diagram.
LEMMA AssignmentIsStep ==
    ASSUME TypeOK, NEW i \in Id, NEW s,
           state' = [state EXCEPT ![i] = s],
           s = state[i] \/ DiagramEdge(state[i], s)
    PROVE  DiagramStep
BY DEF TypeOK, DiagramStep

\* Each step of the component changes the state of at most one contact, along
\* an edge of the documented state diagram.
THEOREM DiagramCorrect == Spec => FollowsDiagram
<1>1. ASSUME IInv, [Next]_vars
      PROVE  [DiagramStep]_vars
  <2>0. /\ TypeOK /\ SelectInv
        /\ \A id \in Id : id < size => state[id] \in State
    BY <1>1, BoundsAssumption DEF IInv, TypeOK, Id
  <2>1. CASE Create
    <3>1. size \in Id /\ state[size] = "ABSENT"
      BY <2>1, <2>0, BoundsAssumption DEF Create, TypeOK, Id, Absent
    <3>2. DiagramEdge(state[size], "ACTIVE")
      BY <3>1 DEF DiagramEdge
    <3> QED
      BY <3>1, <3>2, <2>0, <2>1, AssignmentIsStep DEF Create
  <2>2. ASSUME NEW i \in Id,
               Send(i) \/ Receive(i) \/ Activate(i) \/ Deactivate(i)
        PROVE  DiagramStep
    <3>1. state[i] \in State
      BY <2>0, <2>2 DEF Send, Receive, Activate, Deactivate, Operation
    <3> QED
      BY <3>1, <2>0, <2>2, TableEdges, AssignmentIsStep
      DEF Send, Receive, Activate, Deactivate, SetState
  <2>3. ASSUME NEW i \in Id, i < size, SelectNew(i)
        PROVE  DiagramStep
    <3>1. CASE state[i] \in Selectable
      BY <3>1, <2>0, <2>3, TableEdges, AssignmentIsStep
      DEF SelectNew, Selectable
    <3>2. CASE state[i] \notin Selectable
      BY <3>2, <2>3 DEF SelectNew, DiagramStep
    <3> QED
      BY <3>1, <3>2
  <2>4. ASSUME NEW i \in Id, Select(i)
        PROVE  DiagramStep
    <3>1. CASE mCurrentContact = NoContact
      BY <3>1, <2>3, <2>4 DEF Select
    <3>2. CASE mCurrentContact # NoContact
      <4>1. mCurrentContact \in Id /\ state[mCurrentContact] \in State
        BY <3>2, <2>0 DEF TypeOK, SelectInv
      <4> QED
        BY <3>2, <4>1, <2>0, <2>4, TableEdges, AssignmentIsStep DEF Select
    <3> QED
      BY <3>1, <3>2
  <2>5. CASE SelectFinish
    BY <2>0, <2>3, <2>5 DEF SelectFinish, TypeOK, SelectInv
  <2>6. CASE Stop \/ HeartbeatThread \/ MainThread \/ MainGoodbye \/ Window
             \/ WindowStop
    <3>1. state' = state
      BY <2>6 DEF Stop, HeartbeatThread, Heartbeat, HeartbeatQuit, MainThread,
         Established, EstablishTimeout, MainDrain, MainSend, MainListDone,
         MainSent, MainSendTimeout, MainGoodbyeDone, MainExit, MainGoodbye,
         MainStep, Window, WindowReceive, WindowTimeout, WindowStop,
         handlerVars
    <3> QED
      BY <3>1 DEF DiagramStep
  <2> QED
    BY <1>1, <2>1, <2>2, <2>4, <2>5, <2>6 DEF Next, Operations
<1> QED
  BY <1>1, Invariance, PTL DEF Spec, FollowsDiagram

=============================================================================
