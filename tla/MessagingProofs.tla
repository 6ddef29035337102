-------------------------- MODULE MessagingProofs --------------------------
(***************************************************************************)
(* Proofs about Messaging, for any set of peers and every bound: the type  *)
(* invariant, NoMessageLost, ArrivesInOrder, RepeatedOnlyByFailure,        *)
(* PendingMarkIsTrue and StopsOnlyInWindows.                               *)
(***************************************************************************)
EXTENDS Messaging, Integers, FiniteSetTheorems, TLAPS

(***************************************************************************)
(* The inductive invariant.                                                *)
(***************************************************************************)

\* The messages w written to a peer are 1, 2, ...; the pending ones q are the
\* latest of them; of the others all are among the ones a that have arrived;
\* and before a message arrives, all smaller ones have.
InOrder(w, q, a) ==
    /\ \A j \in 1 .. Len(w) : w[j] = j
    /\ Len(q) <= Len(w)
    /\ \A k \in 1 .. Len(q) : q[k] = Len(w) - Len(q) + k
    /\ \A j \in 1 .. Len(w) - Len(q) : \E i \in 1 .. Len(a) : a[i] = j
    /\ \A i \in 1 .. Len(a) :
          /\ a[i] \in 1 .. Len(w)
          /\ \A j \in 1 .. a[i] - 1 : \E h \in 1 .. i - 1 : a[h] = j

Occurrences(a, m) == {i \in 1 .. Len(a) : a[i] = m}

\* A pending message has arrived at most as often as requests have failed, one
\* that is not pending at most once more.
Counted(w, q, a, f) ==
    \A m \in 1 .. Len(w) :
        Cardinality(Occurrences(a, m)) <= IF m <= Len(w) - Len(q) THEN f + 1 ELSE f

QueueInv ==
    \A p \in Peer :
        /\ InOrder(written[p], pending[p], arrived[p])
        /\ Counted(written[p], pending[p], arrived[p], failures[p])

\* The textbox thread works on the current contact, run() on a neighbour.
WhoInv ==
    /\ ui.pc # "idle" => ui.who = contactsCurrent
    /\ ui.pc = "push" => ui.who \in Peer
    /\ bPc = "request" => target \in Peer

\* The current contact is selected and, unless a selection is under way or the
\* node is stopping, the chat handler has the same one.
CurrentInv ==
    /\ IsSelected(st[contactsCurrent])
    /\ chatCurrent \in chatKnown
    /\ (~stopped /\ ui.pc # "chatSelect") => contactsCurrent = chatCurrent
    /\ down => stopped

\* A contact has a storage, or is just getting it.
KnownInv ==
    /\ ~down => Known \subseteq chatKnown \cup {creating}
    /\ \A p \in Peer : serving[p] > 0 => p \in Known

Marked(s) == s \in {"PENDING_MSG_INACTIVE", "SELECTED_PENDING_MSG_INACTIVE"}
HandsOver(p) == ui.who = p /\ ui.pc \in {"chatSend", "push"}

\* A peer that is marked when its request is answered has been written to
\* since the request began: that message waits for the mutex.
RequestInv ==
    (bPc = "request" /\ Marked(st[target])) => HandsOver(target) \/ stopped

IInv ==
    /\ TypeOK
    /\ QueueInv
    /\ WhoInv
    /\ CurrentInv
    /\ KnownInv
    /\ PendingMarkIsTrue
    /\ RequestInv

-----------------------------------------------------------------------------
(***************************************************************************)
(* The queue of one peer: what writing and a request do to it.             *)
(***************************************************************************)

\* The positions of a concatenation.
LEMMA ConcatProperties ==
    ASSUME NEW a \in Seq(Nat), NEW b \in Seq(Nat)
    PROVE  /\ a \o b \in Seq(Nat)
           /\ Len(a \o b) = Len(a) + Len(b)
           /\ \A i \in 1 .. Len(a) : (a \o b)[i] = a[i]
           /\ \A k \in 1 .. Len(b) : (a \o b)[Len(a) + k] = b[k]
OBVIOUS

\* The positions of the first k elements.
LEMMA PrefixProperties ==
    ASSUME NEW q \in Seq(Nat), NEW k \in 0 .. Len(q)
    PROVE  /\ SubSeq(q, 1, k) \in Seq(Nat)
           /\ Len(SubSeq(q, 1, k)) = k
           /\ \A i \in 1 .. k : SubSeq(q, 1, k)[i] = q[i]
OBVIOUS

\* A message written to the peer is the next one, and pending.
LEMMA PushInOrder ==
    ASSUME NEW w \in Seq(Nat), NEW q \in Seq(Nat), NEW a \in Seq(Nat), InOrder(w, q, a)
    PROVE  InOrder(Append(w, Len(w) + 1), Append(q, Len(w) + 1), a)
<1> DEFINE v == Append(w, Len(w) + 1)
           r == Append(q, Len(w) + 1)
<1>1. /\ Len(v) = Len(w) + 1
      /\ v[Len(w) + 1] = Len(w) + 1
      /\ \A j \in 1 .. Len(w) : v[j] = w[j]
  OBVIOUS
<1>2. /\ Len(r) = Len(q) + 1
      /\ r[Len(q) + 1] = Len(w) + 1
      /\ \A j \in 1 .. Len(q) : r[j] = q[j]
  OBVIOUS
<1>3. Len(w) \in Nat /\ Len(q) \in Nat /\ Len(a) \in Nat
  OBVIOUS
<1> HIDE DEF v, r
<1>4. \A j \in 1 .. Len(v) : v[j] = j
  <2>1. \A j \in 1 .. Len(w) : v[j] = j
    BY <1>1 DEF InOrder
  <2>2. \A j \in 1 .. Len(v) : j \in 1 .. Len(w) \/ j = Len(w) + 1
    BY <1>1, <1>3
  <2>3. QED
    BY <1>1, <2>1, <2>2
<1>5. Len(r) <= Len(v) /\ Len(v) - Len(r) = Len(w) - Len(q)
  BY <1>1, <1>2, <1>3 DEF InOrder
<1>6. \A k \in 1 .. Len(r) : r[k] = Len(v) - Len(r) + k
  <2>1. \A k \in 1 .. Len(q) : r[k] = Len(w) - Len(q) + k
    BY <1>2 DEF InOrder
  <2>2. r[Len(q) + 1] = Len(w) - Len(q) + (Len(q) + 1)
    BY <1>2, <1>3
  <2>3. \A k \in 1 .. Len(r) : k \in 1 .. Len(q) \/ k = Len(q) + 1
    BY <1>2, <1>3
  <2>4. QED
    BY <1>5, <2>1, <2>2, <2>3
<1>7. \A i \in 1 .. Len(a) : a[i] \in 1 .. Len(v)
  BY <1>1, <1>3 DEF InOrder
<1>8. \A j \in 1 .. Len(v) - Len(r) : \E i \in 1 .. Len(a) : a[i] = j
  BY <1>5 DEF InOrder
<1>9. \A i \in 1 .. Len(a) : \A j \in 1 .. a[i] - 1 : \E h \in 1 .. i - 1 : a[h] = j
  BY DEF InOrder
<1>10. Len(r) <= Len(v)
  BY <1>5
<1>11. InOrder(v, r, a)
  BY <1>4, <1>6, <1>7, <1>8, <1>9, <1>10 DEF InOrder
<1>12. QED
  BY <1>11 DEF v, r

\* The first k pending messages arrive, behind the ones that have.
LEMMA SendInOrder ==
    ASSUME NEW w \in Seq(Nat), NEW q \in Seq(Nat), NEW a \in Seq(Nat), InOrder(w, q, a),
           NEW b \in Seq(Nat), Len(b) <= Len(q), \A i \in 1 .. Len(b) : b[i] = q[i]
    PROVE  /\ InOrder(w, q, a \o b)
           /\ Len(b) = Len(q) => InOrder(w, <<>>, a \o b)
<1> DEFINE c == a \o b
           base == Len(w) - Len(q)
<1>1. /\ Len(c) = Len(a) + Len(b)
      /\ \A i \in 1 .. Len(a) : c[i] = a[i]
      /\ \A k \in 1 .. Len(b) : c[Len(a) + k] = b[k]
  BY ConcatProperties
<1>2. Len(w) \in Nat /\ Len(q) \in Nat /\ Len(a) \in Nat /\ Len(b) \in Nat /\ base \in Nat
      /\ Len(w) = base + Len(q)
  BY DEF InOrder
<1> HIDE DEF c, base
<1>3. \A k \in 1 .. Len(b) : c[Len(a) + k] = base + k
  BY <1>1, <1>2 DEF InOrder, base
<1>4. \A j \in 1 .. base : \E i \in 1 .. Len(a) : c[i] = j
  BY <1>1, <1>2 DEF InOrder, base
<1>5. \A j \in 1 .. base + Len(b) : \E i \in 1 .. Len(c) : c[i] = j
  <2> SUFFICES ASSUME NEW j \in 1 .. base + Len(b) PROVE \E i \in 1 .. Len(c) : c[i] = j
    OBVIOUS
  <2>1. CASE j <= base
    BY <1>1, <1>2, <1>4, <2>1
  <2>2. CASE j > base
    <3>1. j - base \in 1 .. Len(b)
      BY <1>2, <2>2
    <3>2. c[Len(a) + (j - base)] = base + (j - base)
      BY <1>3, <3>1
    <3>3. Len(a) + (j - base) \in 1 .. Len(c) /\ base + (j - base) = j
      BY <1>1, <1>2, <3>1
    <3>4. QED
      BY <3>2, <3>3
  <2>3. QED
    BY <1>2, <2>1, <2>2
<1>6. ASSUME NEW i \in 1 .. Len(c)
      PROVE  c[i] \in 1 .. Len(w) /\ \A j \in 1 .. c[i] - 1 : \E h \in 1 .. i - 1 : c[h] = j
  <2>1. CASE i \in 1 .. Len(a)
    <3>1. c[i] = a[i]
      BY <1>1, <2>1
    <3>2. \A h \in 1 .. i - 1 : c[h] = a[h]
      BY <1>1, <1>2, <2>1
    <3>3. a[i] \in 1 .. Len(w) /\ \A j \in 1 .. a[i] - 1 : \E h \in 1 .. i - 1 : a[h] = j
      BY <2>1 DEF InOrder
    <3>4. QED
      BY <3>1, <3>2, <3>3
  <2>2. CASE i \notin 1 .. Len(a)
    <3> DEFINE n == i - Len(a)
    <3>1. n \in 1 .. Len(b) /\ i = Len(a) + n
      BY <1>1, <1>2, <2>2
    <3> HIDE DEF n
    <3>2. c[i] = base + n
      BY <1>3, <3>1
    <3>3. c[i] \in 1 .. Len(w)
      BY <1>2, <3>1, <3>2
    <3>4. ASSUME NEW j \in 1 .. c[i] - 1 PROVE \E h \in 1 .. i - 1 : c[h] = j
      <4>0. j \in 1 .. base + n - 1
        BY <1>2, <3>1, <3>2
      <4>1. CASE j <= base
        <5>1. j \in 1 .. base
          BY <1>2, <3>1, <4>0, <4>1
        <5>2. PICK h \in 1 .. Len(a) : c[h] = j
          BY <1>4, <5>1
        <5>3. h \in 1 .. i - 1
          BY <1>2, <3>1
        <5>4. QED
          BY <5>2, <5>3
      <4>2. CASE j > base
        <5> DEFINE l == j - base
        <5>1. l \in 1 .. n - 1 /\ base + l = j
          BY <1>2, <3>1, <4>0, <4>2
        <5> HIDE DEF l
        <5>2. c[Len(a) + l] = base + l
          <6>1. l \in 1 .. Len(b)
            BY <1>2, <3>1, <5>1
          <6>2. QED
            BY <1>3, <6>1
        <5>3. Len(a) + l \in 1 .. i - 1
          <6>1. l \in Nat /\ n \in Nat /\ Len(a) \in Nat /\ 1 <= l /\ l <= n - 1
            BY <1>2, <3>1, <5>1
          <6>2. QED
            BY <3>1, <6>1
        <5>4. QED
          BY <5>1, <5>2, <5>3
      <4>3. QED
        BY <1>2, <3>1, <4>0, <4>1, <4>2
    <3>5. QED
      BY <3>3, <3>4
  <2>3. QED
    BY <2>1, <2>2
<1>7. InOrder(w, q, c)
  <2>1. \A j \in 1 .. Len(w) - Len(q) : \E i \in 1 .. Len(c) : c[i] = j
    <3>1. \A j \in 1 .. base : \E i \in 1 .. Len(c) : c[i] = j
      <4>1. \A j \in 1 .. base : j \in 1 .. base + Len(b)
        BY <1>2
      <4>2. QED
        BY <1>5, <4>1
    <3>2. QED
      BY <3>1 DEF base
  <2>2. \A i \in 1 .. Len(c) :
          c[i] \in 1 .. Len(w) /\ \A j \in 1 .. c[i] - 1 : \E h \in 1 .. i - 1 : c[h] = j
    BY <1>6
  <2>3. /\ \A j \in 1 .. Len(w) : w[j] = j
        /\ Len(q) <= Len(w)
        /\ \A k \in 1 .. Len(q) : q[k] = Len(w) - Len(q) + k
    BY DEF InOrder
  <2>4. QED
    BY <2>1, <2>2, <2>3 DEF InOrder
<1>8. Len(b) = Len(q) => InOrder(w, <<>>, c)
  <2> SUFFICES ASSUME Len(b) = Len(q) PROVE InOrder(w, <<>>, c)
    OBVIOUS
  <2>1. Len(<<>>) = 0 /\ Len(w) - Len(<<>>) = base + Len(b)
    BY <1>2
  <2>2. \A j \in 1 .. Len(w) - Len(<<>>) : \E i \in 1 .. Len(c) : c[i] = j
    BY <1>5, <2>1
  <2>3. \A i \in 1 .. Len(c) :
          c[i] \in 1 .. Len(w) /\ \A j \in 1 .. c[i] - 1 : \E h \in 1 .. i - 1 : c[h] = j
    BY <1>6
  <2>4. /\ \A j \in 1 .. Len(w) : w[j] = j
        /\ Len(<<>>) <= Len(w)
        /\ \A k \in 1 .. Len(<<>>) : <<>>[k] = Len(w) - Len(<<>>) + k
    BY <1>2, <2>1 DEF InOrder
  <2>5. QED
    BY <2>2, <2>3, <2>4 DEF InOrder
<1>9. QED
  BY <1>7, <1>8 DEF c

\* A message occurs a finite number of times.
LEMMA OccurrencesFinite ==
    ASSUME NEW a \in Seq(Nat), NEW m
    PROVE  IsFiniteSet(Occurrences(a, m)) /\ Cardinality(Occurrences(a, m)) \in Nat
<1>1. IsFiniteSet(1 .. Len(a))
  BY FS_Interval
<1>2. Occurrences(a, m) \subseteq 1 .. Len(a)
  BY DEF Occurrences
<1>3. IsFiniteSet(Occurrences(a, m))
  BY <1>1, <1>2, FS_Subset
<1>4. QED
  BY <1>3, FS_CardinalityType

\* A request brings a pending message once more at most, and no other.
LEMMA SendOccurrences ==
    ASSUME NEW w \in Seq(Nat), NEW q \in Seq(Nat), NEW a \in Seq(Nat), InOrder(w, q, a),
           NEW b \in Seq(Nat), Len(b) <= Len(q), \A i \in 1 .. Len(b) : b[i] = q[i],
           NEW m \in 1 .. Len(w)
    PROVE  Cardinality(Occurrences(a \o b, m)) <=
              IF m <= Len(w) - Len(q) THEN Cardinality(Occurrences(a, m))
              ELSE Cardinality(Occurrences(a, m)) + 1
<1> DEFINE c == a \o b
           base == Len(w) - Len(q)
<1>1. /\ c \in Seq(Nat)
      /\ Len(c) = Len(a) + Len(b)
      /\ \A i \in 1 .. Len(a) : c[i] = a[i]
      /\ \A k \in 1 .. Len(b) : c[Len(a) + k] = b[k]
  BY ConcatProperties
<1>2. Len(w) \in Nat /\ Len(q) \in Nat /\ Len(a) \in Nat /\ Len(b) \in Nat /\ base \in Nat
  BY DEF InOrder
<1>3. \A k \in 1 .. Len(b) : b[k] = base + k
  BY <1>2 DEF InOrder
<1> HIDE DEF c, base
<1>4. ASSUME NEW i \in Occurrences(c, m)
      PROVE  i \in Occurrences(a, m) \/ (m > base /\ i = Len(a) + (m - base))
  <2>1. i \in 1 .. Len(c) /\ c[i] = m
    BY DEF Occurrences
  <2>2. CASE i \in 1 .. Len(a)
    BY <1>1, <2>1, <2>2 DEF Occurrences
  <2>3. CASE i \notin 1 .. Len(a)
    <3> DEFINE n == i - Len(a)
    <3>1. n \in 1 .. Len(b) /\ i = Len(a) + n
      BY <1>1, <1>2, <2>1, <2>3
    <3> HIDE DEF n
    <3>2. m = base + n
      BY <1>1, <1>3, <2>1, <3>1
    <3>3. QED
      BY <1>2, <3>1, <3>2
  <2>4. QED
    BY <2>2, <2>3
<1>5. IsFiniteSet(Occurrences(a, m)) /\ Cardinality(Occurrences(a, m)) \in Nat
  BY OccurrencesFinite
<1>6. CASE m <= base
  <2>1. Occurrences(c, m) \subseteq Occurrences(a, m)
    <3>1. ~(m > base)
      BY <1>2, <1>6
    <3>2. QED
      BY <1>4, <3>1
  <2>2. Cardinality(Occurrences(c, m)) <= Cardinality(Occurrences(a, m))
    BY <1>5, <2>1, FS_Subset
  <2>3. QED
    BY <1>6, <2>2 DEF c, base
<1>7. CASE ~(m <= base)
  <2> DEFINE x == Len(a) + (m - base)
             S == Occurrences(a, m) \cup {x}
  <2>1. IsFiniteSet(S) /\ Cardinality(S) \in {Cardinality(Occurrences(a, m)),
                                              Cardinality(Occurrences(a, m)) + 1}
    BY <1>5, FS_AddElement
  <2>2. Occurrences(c, m) \subseteq S
    BY <1>4
  <2>3. Cardinality(Occurrences(c, m)) <= Cardinality(S)
    BY <2>1, <2>2, FS_Subset
  <2>4. Cardinality(Occurrences(c, m)) \in Nat
    BY <1>1, OccurrencesFinite
  <2> HIDE DEF S
  <2>5. Cardinality(Occurrences(c, m)) <= Cardinality(Occurrences(a, m)) + 1
    BY <1>5, <2>1, <2>3, <2>4
  <2>6. QED
    BY <1>7, <2>5 DEF c, base
<1>8. QED
  BY <1>6, <1>7

\* Writing a message repeats none.
LEMMA PushCounted ==
    ASSUME NEW w \in Seq(Nat), NEW q \in Seq(Nat), NEW a \in Seq(Nat), NEW f \in Nat,
           InOrder(w, q, a), Counted(w, q, a, f)
    PROVE  Counted(Append(w, Len(w) + 1), Append(q, Len(w) + 1), a, f)
<1> DEFINE v == Append(w, Len(w) + 1)
           r == Append(q, Len(w) + 1)
<1>1. Len(w) \in Nat /\ Len(q) \in Nat /\ Len(v) = Len(w) + 1 /\ Len(r) = Len(q) + 1
      /\ Len(v) - Len(r) = Len(w) - Len(q) /\ Len(q) <= Len(w)
  BY DEF InOrder
<1> HIDE DEF v, r
<1> SUFFICES ASSUME NEW m \in 1 .. Len(v)
             PROVE  Cardinality(Occurrences(a, m)) <= IF m <= Len(v) - Len(r) THEN f + 1 ELSE f
  BY DEF Counted, v, r
<1>2. CASE m \in 1 .. Len(w)
  BY <1>1, <1>2 DEF Counted
<1>3. CASE m \notin 1 .. Len(w)
  <2>1. m = Len(w) + 1
    BY <1>1, <1>3
  <2>2. Occurrences(a, m) = {}
    BY <1>3 DEF InOrder, Occurrences
  <2>3. Cardinality(Occurrences(a, m)) = 0
    BY <2>2, FS_EmptySet
  <2>4. QED
    BY <1>1, <2>1, <2>3
<1>4. QED
  BY <1>2, <1>3

\* A failed request repeats what arrived, an answered one repeats nothing.
LEMMA SendCounted ==
    ASSUME NEW w \in Seq(Nat), NEW q \in Seq(Nat), NEW a \in Seq(Nat), NEW f \in Nat,
           InOrder(w, q, a), Counted(w, q, a, f),
           NEW b \in Seq(Nat), Len(b) <= Len(q), \A i \in 1 .. Len(b) : b[i] = q[i]
    PROVE  /\ Counted(w, q, a \o b, f + 1)
           /\ Counted(w, <<>>, a \o b, f)
<1>1. Len(w) \in Nat /\ Len(q) \in Nat /\ Len(q) <= Len(w) /\ Len(<<>>) = 0
  BY DEF InOrder
<1>2. ASSUME NEW m \in 1 .. Len(w)
      PROVE  /\ Cardinality(Occurrences(a \o b, m)) <= f + 1
             /\ Cardinality(Occurrences(a \o b, m)) <= IF m <= Len(w) - Len(q) THEN f + 2 ELSE f + 1
  <2>1. Cardinality(Occurrences(a \o b, m)) <=
              IF m <= Len(w) - Len(q) THEN Cardinality(Occurrences(a, m))
              ELSE Cardinality(Occurrences(a, m)) + 1
    BY SendOccurrences
  <2>2. Cardinality(Occurrences(a, m)) <= IF m <= Len(w) - Len(q) THEN f + 1 ELSE f
    BY DEF Counted
  <2>3. Cardinality(Occurrences(a, m)) \in Nat /\ Cardinality(Occurrences(a \o b, m)) \in Nat
    BY OccurrencesFinite, ConcatProperties
  <2>4. QED
    BY <1>1, <2>1, <2>2, <2>3
<1>3. Counted(w, q, a \o b, f + 1)
  <2>1. f + 1 + 1 = f + 2
    OBVIOUS
  <2>2. QED
    BY <1>2, <2>1 DEF Counted
<1>4. Counted(w, <<>>, a \o b, f)
  <2>1. \A m \in 1 .. Len(w) : m <= Len(w) - Len(<<>>)
    BY <1>1
  <2>2. QED
    BY <1>2, <2>1 DEF Counted
<1>5. QED
  BY <1>3, <1>4

-----------------------------------------------------------------------------
(***************************************************************************)
(* The states of a contact.                                                *)
(***************************************************************************)
AnyState == State \cup {"ABSENT"}

\* The transitions stay within the states; only sending marks a contact as
\* having pending messages; only selecting and unselecting change the selection.
LEMMA Transitions ==
    ASSUME NEW s \in State
    PROVE  /\ OnActivate(s) \in State /\ OnDeactivate(s) \in State /\ OnReceive(s) \in State
           /\ OnSend(s) \in State /\ OnSelect(s) \in State /\ OnUnselect(s) \in State
           /\ Marked(OnActivate(s)) => Marked(s)
           /\ Marked(OnDeactivate(s)) => Marked(s)
           /\ Marked(OnReceive(s)) => Marked(s)
           /\ Marked(OnSelect(s)) => Marked(s)
           /\ Marked(OnUnselect(s)) => Marked(s)
           /\ IsSelected(s) => /\ IsSelected(OnActivate(s)) /\ IsSelected(OnDeactivate(s))
                               /\ IsSelected(OnReceive(s)) /\ IsSelected(OnSend(s))
           /\ IsSelected(OnSelect(s))
           /\ s # "ABSENT"
BY DEF State, OnActivate, OnDeactivate, OnReceive, OnSend, OnSelect, OnUnselect, Marked,
       IsSelected

\* An active contact is not marked, an unknown one neither selected nor marked.
LEMMA StateFacts ==
    /\ \A s \in AnyState : IsActive(s) => ~Marked(s)
    /\ \A s \in AnyState : IsSelected(s) => s \in State /\ s # "ABSENT" /\ s \in Sendable
    /\ \A s \in AnyState : s # "ABSENT" => s \in State
    /\ ~Marked("ABSENT") /\ ~Marked("ACTIVE") /\ ~Marked("SELECTED_ACTIVE")
    /\ "ACTIVE" \in State /\ "SELECTED_ACTIVE" \in State
    /\ IsSelected("SELECTED_ACTIVE")
BY DEF AnyState, State, IsActive, IsSelected, Marked, Sendable

-----------------------------------------------------------------------------
(***************************************************************************)
(* The types.                                                              *)
(***************************************************************************)
Reasons == {"none", "elsewhere", "select", "mismatch", "send", "chatSend", "receive",
            "chatReceive"}

\* The types of everything but the flags.
PlainType ==
    /\ st \in [Contact -> AnyState]
    /\ contactsCurrent \in Contact
    /\ chatKnown \subseteq Contact
    /\ chatCurrent \in Contact
    /\ creating \in Peer \cup {None}
    /\ ui \in [pc : {"idle", "chatSelect", "chatSend", "push"}, who : Contact \cup {None}]
    /\ serving \in [Peer -> 0 .. MaxReceived]
    /\ neighbors \subseteq Peer
    /\ expired \subseteq neighbors
    /\ bPc \in {"reset", "wait", "scan", "request", "done"}
    /\ todo \subseteq neighbors
    /\ target \in neighbors \cup {None}
    /\ reason \in Reasons

QueueType ==
    /\ pending \in [Peer -> Seq(Nat)]
    /\ written \in [Peer -> Seq(Nat)]
    /\ arrived \in [Peer -> Seq(Nat)]
    /\ failures \in [Peer -> 0 .. MaxFailures]

FlagType == flag \in BOOLEAN /\ stopped \in BOOLEAN /\ down \in BOOLEAN

\* The type invariant in three parts.
LEMMA TypeSplit == TypeOK <=> PlainType /\ QueueType /\ FlagType
BY DEF TypeOK, PlainType, QueueType, FlagType, AnyState, Reasons

\* The flags stay flags, and a stop is final.
LEMMA FlagStep ==
    ASSUME FlagType, [Next]_vars
    PROVE  FlagType' /\ (stopped => stopped') /\ (down => down')
<1>1. flag' \in {flag, TRUE, FALSE}
  BY DEF Next, Discovery, TextBox, Run, Server, vars, queueVars, StopElsewhere, EngineStops,
         AddContact, AddStorage, Activate, Deactivate, DiscoveryFrame, SelectContact,
         SelectChat, SendContact, SendChat, Push, RunReset, RunWake, RunTurn, RunPass,
         RunSkip, RunRequest, RequestFails, RequestAnswered, ReceiveContact, ReceiveChat,
         TimerExpires
<1>2. stopped' = stopped \/ stopped' = TRUE
  BY DEF Next, Discovery, TextBox, Run, Server, vars, stopVars, StopElsewhere, EngineStops,
         AddContact, AddStorage, Activate, Deactivate, DiscoveryFrame, SelectContact,
         SelectChat, SendContact, SendChat, Push, RunReset, RunWake, RunTurn, RunPass,
         RunSkip, RunRequest, RequestFails, RequestAnswered, ReceiveContact, ReceiveChat,
         TimerExpires, RunFrame, StopFor
<1>3. down' = down \/ down' = TRUE
  BY DEF Next, Discovery, TextBox, Run, Server, vars, stopVars, StopElsewhere, EngineStops,
         AddContact, AddStorage, Activate, Deactivate, DiscoveryFrame, SelectContact,
         SelectChat, SendContact, SendChat, Push, RunReset, RunWake, RunTurn, RunPass,
         RunSkip, RunRequest, RequestFails, RequestAnswered, ReceiveContact, ReceiveChat,
         TimerExpires, RunFrame, StopFor
<1>4. QED
  BY <1>1, <1>2, <1>3 DEF FlagType

\* What a step does to the states of the contacts: none is forgotten, a new one
\* is between its creations, only writing marks one, and the current contact is
\* selected.
StateMoves ==
    /\ st' \in [Contact -> AnyState]
    /\ \A c \in Contact : Marked(st'[c]) =>
          Marked(st[c]) \/ (ui'.pc = "chatSend" /\ ui'.who = c)
    /\ \A c \in Contact : st[c] # "ABSENT" => st'[c] # "ABSENT"
    /\ \A c \in Contact : st[c] = "ABSENT" /\ st'[c] # "ABSENT" =>
          /\ creating = None /\ creating' = c
          /\ ~down
    /\ IsSelected(st'[contactsCurrent'])

\* The transition of one contact that neither marks nor unselects it.
LEMMA OneMoves ==
    ASSUME PlainType, IsSelected(st[contactsCurrent]), UNCHANGED contactsCurrent,
           NEW p \in Known, NEW s \in State, st' = [st EXCEPT ![p] = s],
           Marked(s) => Marked(st[p]) \/ (ui'.pc = "chatSend" /\ ui'.who = p),
           IsSelected(st[p]) => IsSelected(s)
    PROVE  StateMoves
<1>1. p \in Contact /\ st[p] # "ABSENT" /\ s # "ABSENT" /\ s \in AnyState
  BY Transitions DEF Known, AnyState
<1>2. st' \in [Contact -> AnyState] /\ st'[p] = s /\ \A c \in Contact \ {p} : st'[c] = st[c]
  BY <1>1 DEF PlainType
<1>3. contactsCurrent \in Contact
  BY DEF PlainType
<1>4. QED
  BY <1>1, <1>2, <1>3 DEF StateMoves

\* Every step moves the states so.
LEMMA StateStep ==
    ASSUME PlainType, IsSelected(st[contactsCurrent]), [Next]_vars
    PROVE  StateMoves
<1> USE MessagingAssumption
<1>0. /\ st \in [Contact -> AnyState] /\ contactsCurrent \in Contact /\ Peer \subseteq Contact
      /\ contactsCurrent \in Known
      /\ \A c \in Known : c \in Contact /\ st[c] \in State
  BY StateFacts DEF PlainType, Contact, Known
<1>1. CASE UNCHANGED <<st, contactsCurrent>>
  BY <1>0, <1>1 DEF StateMoves
<1>2. ASSUME NEW p \in Peer, AddContact(p) PROVE StateMoves
  <2>1. p \in Contact /\ st[p] = "ABSENT" /\ st' = [st EXCEPT ![p] = "ACTIVE"]
        /\ creating = None /\ creating' = p /\ ~down /\ contactsCurrent' = contactsCurrent
    BY <1>0, <1>2 DEF AddContact, DiscoveryFrame, Known
  <2>2. st' \in [Contact -> AnyState] /\ st'[p] = "ACTIVE" /\ \A c \in Contact \ {p} : st'[c] = st[c]
    BY <1>0, <2>1, StateFacts DEF AnyState
  <2>3. contactsCurrent # p
    BY <1>0, <2>1 DEF Known
  <2>4. QED
    BY <1>0, <2>1, <2>2, <2>3, StateFacts DEF StateMoves
<1>3. ASSUME NEW p \in Peer, Activate(p) PROVE StateMoves
  <2>1. p \in Known /\ st' = [st EXCEPT ![p] = OnActivate(st[p])] /\ UNCHANGED contactsCurrent
    BY <1>3 DEF Activate, DiscoveryFrame
  <2>2. QED
    BY <1>0, <2>1, Transitions, OneMoves
<1>4. ASSUME NEW p \in Peer, Deactivate(p) PROVE StateMoves
  <2>1. p \in Known /\ st' = [st EXCEPT ![p] = OnDeactivate(st[p])] /\ UNCHANGED contactsCurrent
    BY <1>4 DEF Deactivate, DiscoveryFrame
  <2>2. QED
    BY <1>0, <2>1, Transitions, OneMoves
<1>5. ASSUME NEW c \in Contact, SelectContact(c) PROVE StateMoves
  <2> DEFINE released == [st EXCEPT ![contactsCurrent] = OnUnselect(@)]
  <2>1. c \in Known /\ st' = [released EXCEPT ![c] = OnSelect(@)] /\ contactsCurrent' = c
    BY <1>5 DEF SelectContact
  <2>2. /\ released \in [Contact -> AnyState]
        /\ \A d \in Contact : Marked(released[d]) => Marked(st[d])
        /\ \A d \in Contact : released[d] = "ABSENT" <=> st[d] = "ABSENT"
    <3>1. /\ OnUnselect(st[contactsCurrent]) \in State
          /\ st[contactsCurrent] \in State
          /\ OnUnselect(st[contactsCurrent]) # "ABSENT" /\ st[contactsCurrent] # "ABSENT"
          /\ Marked(OnUnselect(st[contactsCurrent])) => Marked(st[contactsCurrent])
      BY <1>0, Transitions
    <3>2. QED
      BY <1>0, <3>1 DEF AnyState
  <2> HIDE DEF released
  <2>3. released[c] \in State /\ c \in Contact
    BY <1>0, <2>1, <2>2, StateFacts DEF Known
  <2>4. /\ OnSelect(released[c]) \in State
        /\ OnSelect(released[c]) # "ABSENT"
        /\ IsSelected(OnSelect(released[c]))
        /\ Marked(OnSelect(released[c])) => Marked(released[c])
    BY <2>3, Transitions
  <2>5. st' \in [Contact -> AnyState] /\ st'[c] = OnSelect(released[c])
        /\ \A d \in Contact \ {c} : st'[d] = released[d]
    BY <2>1, <2>2, <2>3, <2>4 DEF AnyState
  <2>6. IsSelected(st'[contactsCurrent'])
    BY <2>1, <2>4, <2>5
  <2>7. \A d \in Contact : Marked(st'[d]) => Marked(st[d])
    BY <2>2, <2>3, <2>4, <2>5
  <2>8. \A d \in Contact : st'[d] = "ABSENT" <=> st[d] = "ABSENT"
    BY <1>0, <2>1, <2>2, <2>3, <2>4, <2>5 DEF Known
  <2>9. QED
    BY <2>5, <2>6, <2>7, <2>8 DEF StateMoves
<1>6. CASE SendContact
  <2>1. CASE st' = [st EXCEPT ![contactsCurrent] = OnSend(@)] /\ ui' = [pc |-> "chatSend", who |-> contactsCurrent]
    <3>1. UNCHANGED contactsCurrent /\ ui'.pc = "chatSend" /\ ui'.who = contactsCurrent
      BY <1>6, <2>1 DEF SendContact
    <3>2. st' = [st EXCEPT ![contactsCurrent] = OnSend(st[contactsCurrent])]
      BY <2>1
    <3>3. OnSend(st[contactsCurrent]) \in State /\ IsSelected(OnSend(st[contactsCurrent]))
      BY <1>0, Transitions
    <3>4. QED
      BY <1>0, <3>1, <3>2, <3>3, OneMoves
  <2>2. CASE UNCHANGED st
    BY <1>1, <1>6, <2>2 DEF SendContact
  <2>3. QED
    BY <1>6, <2>1, <2>2 DEF SendContact
<1>7. ASSUME NEW p \in Peer, NEW n \in 1 .. MaxReceived, ReceiveContact(p, n) PROVE StateMoves
  <2>1. p \in Known /\ UNCHANGED contactsCurrent
        /\ (st' = [st EXCEPT ![p] = OnReceive(@)] \/ UNCHANGED st)
    BY <1>7 DEF ReceiveContact
  <2>2. CASE UNCHANGED st
    BY <1>1, <2>1, <2>2
  <2>3. CASE st' = [st EXCEPT ![p] = OnReceive(@)]
    <3>1. st' = [st EXCEPT ![p] = OnReceive(st[p])]
      BY <2>3
    <3>2. QED
      BY <1>0, <2>1, <3>1, Transitions, OneMoves
  <2>4. QED
    BY <2>1, <2>2, <2>3
<1>8. \/ UNCHANGED <<st, contactsCurrent>>
      \/ \E p \in Peer : AddContact(p) \/ Activate(p) \/ Deactivate(p)
      \/ \E c \in Contact : SelectContact(c)
      \/ SendContact
      \/ \E p \in Peer, n \in 1 .. MaxReceived : ReceiveContact(p, n)
  BY DEF Next, Discovery, TextBox, Run, Server, vars, contactVars, StopElsewhere, EngineStops,
         AddStorage, DiscoveryFrame, SelectChat, SendChat, Push, RunReset, RunWake, RunTurn,
         RunPass, RunSkip, RunRequest, RequestFails, RequestAnswered, ReceiveChat,
         TimerExpires, RunFrame
<1>9. QED
  BY <1>1, <1>2, <1>3, <1>4, <1>5, <1>6, <1>7, <1>8

\* Where the textbox thread can be.
UiType == [pc : {"idle", "chatSelect", "chatSend", "push"}, who : Contact \cup {None}]

\* The textbox thread goes on, or back to idle.
LEMMA UiStep ==
    ASSUME PlainType, [Next]_vars
    PROVE  \/ UNCHANGED ui
           \/ ui' = [pc |-> "idle", who |-> None]
           \/ ui' = [pc |-> "chatSelect", who |-> contactsCurrent'] /\ contactsCurrent' \in Contact
              /\ ui.pc = "idle"
           \/ ui' = [pc |-> "chatSend", who |-> contactsCurrent] /\ UNCHANGED contactsCurrent
              /\ ui.pc = "idle"
           \/ ui' = [pc |-> "push", who |-> ui.who] /\ UNCHANGED contactsCurrent
              /\ ui.pc = "chatSend" /\ ui.who # Self
<1>1. SendChat => [ui EXCEPT !.pc = "push"] = [pc |-> "push", who |-> ui.who]
  BY DEF PlainType
<1>2. CASE SendChat
  BY <1>1, <1>2 DEF SendChat, contactVars
<1>3. CASE SendContact
  BY <1>3 DEF SendContact
<1>4. ASSUME NEW c \in Contact, SelectContact(c)
      PROVE  ui' = [pc |-> "chatSelect", who |-> contactsCurrent'] /\ contactsCurrent' \in Contact
             /\ ui.pc = "idle"
  BY <1>4 DEF SelectContact
<1>5. CASE SelectChat \/ Push
  BY <1>5 DEF SelectChat, Push
<1>6. \/ UNCHANGED ui \/ SendChat \/ SendContact \/ SelectChat \/ Push
      \/ \E c \in Contact : SelectContact(c)
  BY DEF Next, Discovery, TextBox, Run, Server, vars, StopElsewhere, EngineStops, AddContact,
         AddStorage, Activate, Deactivate, DiscoveryFrame, RunReset, RunWake, RunTurn, RunPass,
         RunSkip, RunRequest, RequestFails, RequestAnswered, ReceiveContact, ReceiveChat,
         TimerExpires, RunFrame
<1>7. QED
  BY <1>2, <1>3, <1>4, <1>5, <1>6

\* The types of everything but the flags and the queues are kept.
LEMMA PlainStep ==
    ASSUME PlainType, IsSelected(st[contactsCurrent]), WhoInv, [Next]_vars
    PROVE  PlainType'
<1> USE MessagingAssumption
<1>1. st' \in [Contact -> AnyState]
  BY StateStep DEF StateMoves
<1>2. contactsCurrent' \in Contact
  BY DEF PlainType, Next, Discovery, TextBox, Run, Server, vars, contactVars, StopElsewhere,
         EngineStops, AddContact, AddStorage, Activate, Deactivate, DiscoveryFrame,
         SelectContact, SelectChat, SendContact, SendChat, Push, RunReset, RunWake, RunTurn,
         RunPass, RunSkip, RunRequest, RequestFails, RequestAnswered, ReceiveContact,
         ReceiveChat, TimerExpires, RunFrame
<1>3. chatKnown' \subseteq Contact /\ creating' \in Peer \cup {None}
  <2>1. CASE AddStorage
    BY <2>1 DEF AddStorage, PlainType, Contact
  <2>2. CASE UNCHANGED <<chatKnown, creating>>
    BY <2>2 DEF PlainType
  <2>3. ASSUME NEW p \in Peer, AddContact(p) PROVE chatKnown' = chatKnown /\ creating' = p
    BY <2>3 DEF AddContact
  <2>4. UNCHANGED <<chatKnown, creating>> \/ AddStorage \/ \E p \in Peer : AddContact(p)
    BY DEF Next, Discovery, TextBox, Run, Server, vars, contactVars, StopElsewhere,
           EngineStops, Activate, Deactivate, SelectContact, SelectChat, SendContact, SendChat,
           Push, RunReset, RunWake, RunTurn, RunPass, RunSkip, RunRequest, RequestFails,
           RequestAnswered, ReceiveContact, ReceiveChat, TimerExpires, RunFrame
  <2>5. QED
    BY <2>1, <2>2, <2>3, <2>4 DEF PlainType
<1>4. ui' \in UiType
  BY UiStep DEF PlainType, UiType
<1>5. chatCurrent' \in Contact
  <2>1. CASE SelectChat
    <3>1. ui.who \in Contact \/ chatCurrent' = chatCurrent
      BY <2>1 DEF SelectChat, PlainType
    <3>2. chatCurrent' = ui.who \/ chatCurrent' = chatCurrent
      BY <2>1 DEF SelectChat
    <3>3. QED
      BY <2>1, <3>1, <3>2 DEF PlainType, WhoInv
  <2>2. chatCurrent' = chatCurrent \/ SelectChat
    BY DEF Next, Discovery, TextBox, Run, Server, vars, contactVars, StopElsewhere,
           EngineStops, AddContact, AddStorage, Activate, Deactivate, DiscoveryFrame,
           SelectContact, SendContact, SendChat, Push, RunReset, RunWake, RunTurn, RunPass,
           RunSkip, RunRequest, RequestFails, RequestAnswered, ReceiveContact, ReceiveChat,
           TimerExpires, RunFrame
  <2>3. QED
    BY <2>1, <2>2 DEF PlainType
<1>6. serving' \in [Peer -> 0 .. MaxReceived]
  <2>1. ASSUME NEW p \in Peer, NEW n \in 1 .. MaxReceived, ReceiveContact(p, n)
        PROVE  /\ serving' = [serving EXCEPT ![p] = @ + n] \/ UNCHANGED serving
               /\ serving[p] + n <= MaxReceived
    BY <2>1 DEF ReceiveContact
  <2>2. ASSUME NEW p \in Peer, NEW n \in 1 .. MaxReceived, ReceiveContact(p, n)
        PROVE  serving' \in [Peer -> 0 .. MaxReceived]
    <3>1. serving[p] + n \in 0 .. MaxReceived
      BY <2>1, <2>2, MessagingAssumption DEF PlainType
    <3>2. QED
      BY <2>1, <2>2, <3>1 DEF PlainType
  <2>3. ASSUME NEW p \in Peer, ReceiveChat(p)
        PROVE  serving' \in [Peer -> 0 .. MaxReceived]
    <3>1. serving[p] > 0 /\ serving[p] \in 0 .. MaxReceived
      BY <2>3 DEF ReceiveChat, PlainType
    <3>2. \E k \in 0 .. serving[p] - 1 : serving' = [serving EXCEPT ![p] = k]
      <4>1. serving[p] - 1 \in 0 .. serving[p] - 1
        BY <3>1
      <4>2. QED
        BY <2>3, <4>1 DEF ReceiveChat
    <3>3. \A k \in 0 .. serving[p] - 1 : k \in 0 .. MaxReceived
      BY <3>1, MessagingAssumption
    <3>4. QED
      BY <3>2, <3>3 DEF PlainType
  <2>4. \/ UNCHANGED serving
        \/ \E p \in Peer, n \in 1 .. MaxReceived : ReceiveContact(p, n)
        \/ \E p \in Peer : ReceiveChat(p)
    BY DEF Next, Discovery, TextBox, Run, Server, vars, StopElsewhere, EngineStops, AddContact,
           AddStorage, Activate, Deactivate, DiscoveryFrame, SelectContact, SelectChat,
           SendContact, SendChat, Push, RunReset, RunWake, RunTurn, RunPass, RunSkip,
           RunRequest, RequestFails, RequestAnswered, TimerExpires, RunFrame
  <2>5. QED
    BY <2>2, <2>3, <2>4 DEF PlainType
<1>7. neighbors' \subseteq Peer /\ expired' \subseteq neighbors' /\ todo' \subseteq neighbors'
      /\ target' \in neighbors' \cup {None}
  <2>1. CASE Push
    <3>1. ui.who \in Peer
      BY <2>1 DEF Push, WhoInv
    <3>2. neighbors' = neighbors \cup {ui.who}
          /\ (expired' = expired \/ expired' = expired \cup {ui.who})
          /\ todo' = todo /\ target' = target
      BY <2>1 DEF Push, runVars
    <3>3. QED
      BY <3>1, <3>2 DEF PlainType
  <2>2. CASE UNCHANGED <<neighbors, expired, todo, target>>
    BY <2>2 DEF PlainType
  <2>3. CASE UNCHANGED <<neighbors, target>> /\ expired' = expired /\ todo' \subseteq neighbors
    BY <2>3 DEF PlainType
  <2>4. ASSUME NEW p \in Peer, TimerExpires(p)
        PROVE  p \in neighbors /\ UNCHANGED <<neighbors, todo, target>> /\ expired' = expired \cup {p}
    BY <2>4 DEF TimerExpires, runVars
  <2>5. ASSUME NEW p \in Peer, RunSkip(p) \/ RunRequest(p)
        PROVE  /\ p \in todo /\ UNCHANGED neighbors /\ expired' = expired \ {p}
               /\ todo' = todo \ {p} /\ target' \in {target, p}
    BY <2>5 DEF RunSkip, RunRequest
  <2>6. ASSUME NEW p \in Peer, RunPass(p)
        PROVE  UNCHANGED <<neighbors, target>> /\ expired' = expired /\ todo' = todo \ {p}
    BY <2>6 DEF RunPass, queueVars
  <2>7. CASE RunWake \/ RunTurn
    BY <2>3, <2>7 DEF RunWake, RunTurn, queueVars
  <2>8. CASE RequestAnswered \/ \E k \in 0 .. MaxMessages : RequestFails(k)
    <3>1. UNCHANGED <<neighbors, expired, todo>> /\ target' = None
      BY <2>8 DEF RequestAnswered, RequestFails, queueVars
    <3>2. QED
      BY <3>1 DEF PlainType
  <2>9. \/ UNCHANGED <<neighbors, expired, todo, target>>
        \/ Push \/ RunWake \/ RunTurn \/ RequestAnswered
        \/ \E k \in 0 .. MaxMessages : RequestFails(k)
        \/ \E p \in Peer : RunPass(p) \/ RunSkip(p) \/ RunRequest(p) \/ TimerExpires(p)
    BY DEF Next, Discovery, TextBox, Run, Server, vars, queueVars, runVars, StopElsewhere,
           EngineStops, AddContact, AddStorage, Activate, Deactivate, DiscoveryFrame,
           SelectContact, SelectChat, SendContact, SendChat, RunReset, ReceiveContact,
           ReceiveChat
  <2>10. QED
    BY <2>1, <2>2, <2>4, <2>5, <2>6, <2>7, <2>8, <2>9 DEF PlainType
<1>8. bPc' \in {"reset", "wait", "scan", "request", "done"}
  BY DEF PlainType, Next, Discovery, TextBox, Run, Server, vars, runVars, StopElsewhere,
         EngineStops, AddContact, AddStorage, Activate, Deactivate, DiscoveryFrame,
         SelectContact, SelectChat, SendContact, SendChat, Push, RunReset, RunWake, RunTurn,
         RunPass, RunSkip, RunRequest, RequestFails, RequestAnswered, ReceiveContact,
         ReceiveChat, TimerExpires
<1>9. reason' \in Reasons
  BY DEF PlainType, Reasons, Next, Discovery, TextBox, Run, Server, vars, stopVars,
         StopElsewhere, EngineStops, AddContact, AddStorage, Activate, Deactivate,
         DiscoveryFrame, SelectContact, SelectChat, SendContact, SendChat, Push, RunReset,
         RunWake, RunTurn, RunPass, RunSkip, RunRequest, RequestFails, RequestAnswered,
         ReceiveContact, ReceiveChat, TimerExpires, RunFrame, StopFor
<1>10. QED
  BY <1>1, <1>2, <1>3, <1>4, <1>5, <1>6, <1>7, <1>8, <1>9 DEF PlainType, UiType

-----------------------------------------------------------------------------
(***************************************************************************)
(* The queues.                                                             *)
(***************************************************************************)

\* A failure more allows no less.
LEMMA CountedMore ==
    ASSUME NEW w \in Seq(Nat), NEW q \in Seq(Nat), NEW a \in Seq(Nat), NEW f \in Nat,
           Counted(w, q, a, f)
    PROVE  Counted(w, q, a, f + 1)
<1> SUFFICES ASSUME NEW m \in 1 .. Len(w)
             PROVE  Cardinality(Occurrences(a, m)) <=
                       IF m <= Len(w) - Len(q) THEN f + 1 + 1 ELSE f + 1
  BY DEF Counted
<1>1. Cardinality(Occurrences(a, m)) <= IF m <= Len(w) - Len(q) THEN f + 1 ELSE f
  BY DEF Counted
<1>2. Cardinality(Occurrences(a, m)) \in Nat
  BY OccurrencesFinite
<1>3. QED
  BY <1>1, <1>2

\* Writing to a peer keeps its queue.
LEMMA PushQueue ==
    ASSUME QueueType, QueueInv, WhoInv, Push
    PROVE  QueueType' /\ QueueInv'
<1> DEFINE p == ui.who
           m == Len(written[p]) + 1
<1>1. p \in Peer
  BY DEF Push, WhoInv
<1>2. /\ written[p] \in Seq(Nat) /\ pending[p] \in Seq(Nat) /\ arrived[p] \in Seq(Nat)
      /\ failures[p] \in Nat
  BY <1>1, MessagingAssumption DEF QueueType
<1>3. /\ pending' = [pending EXCEPT ![p] = Append(pending[p], m)]
      /\ written' = [written EXCEPT ![p] = Append(written[p], m)]
      /\ UNCHANGED <<arrived, failures>>
  BY DEF Push
<1>4. InOrder(written[p], pending[p], arrived[p])
      /\ Counted(written[p], pending[p], arrived[p], failures[p])
  BY <1>1 DEF QueueInv
<1>5. /\ InOrder(Append(written[p], m), Append(pending[p], m), arrived[p])
      /\ Counted(Append(written[p], m), Append(pending[p], m), arrived[p], failures[p])
  BY <1>2, <1>4, PushInOrder, PushCounted
<1>6. Append(written[p], m) \in Seq(Nat) /\ Append(pending[p], m) \in Seq(Nat)
  BY <1>2
<1> HIDE DEF m, p
<1>7. QueueType'
  BY <1>3, <1>6 DEF QueueType
<1>8. /\ written'[p] = Append(written[p], m) /\ pending'[p] = Append(pending[p], m)
      /\ arrived' = arrived /\ failures' = failures
      /\ \A o \in Peer \ {p} : written'[o] = written[o] /\ pending'[o] = pending[o]
  BY <1>1, <1>3 DEF QueueType
<1>9. QueueInv'
  <2> SUFFICES ASSUME NEW o \in Peer
               PROVE  InOrder(written'[o], pending'[o], arrived'[o])
                      /\ Counted(written'[o], pending'[o], arrived'[o], failures'[o])
    BY DEF QueueInv
  <2>1. CASE o = p
    BY <1>5, <1>8, <2>1
  <2>2. CASE o # p
    BY <1>8, <2>2 DEF QueueInv
  <2>3. QED
    BY <2>1, <2>2
<1>10. QED
  BY <1>7, <1>9

\* A request that delivers the messages b and leaves the queue r, with f failures
\* counted from then on, keeps all queues if it keeps that of its target p.
LEMMA RequestQueue ==
    ASSUME QueueType, QueueInv, NEW p \in Peer, NEW a \in Seq(Nat), NEW r \in Seq(Nat),
           NEW f \in 0 .. MaxFailures,
           UNCHANGED written,
           arrived' = [arrived EXCEPT ![p] = a],
           pending' = [pending EXCEPT ![p] = r],
           failures' = [failures EXCEPT ![p] = f],
           InOrder(written[p], r, a), Counted(written[p], r, a, f)
    PROVE  QueueType' /\ QueueInv'
<1>1. QueueType'
  BY DEF QueueType
<1>2. /\ arrived'[p] = a /\ pending'[p] = r /\ failures'[p] = f
      /\ \A o \in Peer \ {p} : /\ arrived'[o] = arrived[o] /\ pending'[o] = pending[o]
                               /\ failures'[o] = failures[o]
  BY DEF QueueType
<1>3. QueueInv'
  <2> SUFFICES ASSUME NEW o \in Peer
               PROVE  InOrder(written'[o], pending'[o], arrived'[o])
                      /\ Counted(written'[o], pending'[o], arrived'[o], failures'[o])
    BY DEF QueueInv
  <2>1. CASE o = p
    BY <1>2, <2>1
  <2>2. CASE o # p
    BY <1>2, <2>2 DEF QueueInv
  <2>3. QED
    BY <2>1, <2>2
<1>4. QED
  BY <1>1, <1>3

\* Every step keeps the queues: the pending messages follow the ones that have
\* arrived, and an arrival is repeated once per failed request at most.
LEMMA QueueStep ==
    ASSUME QueueType, QueueInv, WhoInv, [Next]_vars
    PROVE  QueueType' /\ QueueInv'
<1> USE MessagingAssumption
<1>1. CASE Push
  BY <1>1, PushQueue
<1>2. ASSUME NEW p \in Peer
      PROVE  /\ written[p] \in Seq(Nat) /\ pending[p] \in Seq(Nat) /\ arrived[p] \in Seq(Nat)
             /\ failures[p] \in Nat /\ failures[p] \in 0 .. MaxFailures
             /\ InOrder(written[p], pending[p], arrived[p])
             /\ Counted(written[p], pending[p], arrived[p], failures[p])
  BY DEF QueueType, QueueInv
<1>3. ASSUME NEW k \in 0 .. MaxMessages, RequestFails(k) PROVE QueueType' /\ QueueInv'
  <2> DEFINE p == target
             b == SubSeq(pending[p], 1, k)
  <2>1. p \in Peer
    BY <1>3 DEF RequestFails, WhoInv
  <2>2. /\ k \in 0 .. Len(pending[p]) /\ failures[p] + 1 \in 0 .. MaxFailures
    <3>1. failures[p] < MaxFailures /\ k <= Len(pending[p]) /\ Len(pending[p]) \in Nat
      BY <1>2, <1>3, <2>1 DEF RequestFails
    <3>2. QED
      BY <1>2, <2>1, <3>1
  <2>3. b \in Seq(Nat) /\ Len(b) <= Len(pending[p]) /\ \A i \in 1 .. Len(b) : b[i] = pending[p][i]
    BY <1>2, <2>1, <2>2, PrefixProperties
  <2>4. /\ UNCHANGED <<written, pending>>
        /\ arrived' = [arrived EXCEPT ![p] = arrived[p] \o b]
        /\ failures' = [failures EXCEPT ![p] = failures[p] + 1]
    BY <1>3 DEF RequestFails, RunFrame, queueVars
  <2>5. pending' = [pending EXCEPT ![p] = pending[p]]
    BY <2>1, <2>4 DEF QueueType
  <2> HIDE DEF p, b
  <2>6. InOrder(written[p], pending[p], arrived[p] \o b)
    BY <1>2, <2>1, <2>3, SendInOrder
  <2>7. Counted(written[p], pending[p], arrived[p] \o b, failures[p] + 1)
    BY <1>2, <2>1, <2>3, SendCounted
  <2>8. arrived[p] \o b \in Seq(Nat)
    BY <1>2, <2>1, <2>3, ConcatProperties
  <2>9. QED
    BY <1>2, <2>1, <2>2, <2>4, <2>5, <2>6, <2>7, <2>8, RequestQueue
<1>4. CASE RequestAnswered
  <2> DEFINE p == target
             b == pending[p]
  <2>1. p \in Peer
    BY <1>4 DEF RequestAnswered, WhoInv
  <2>2. /\ UNCHANGED <<written, failures>>
        /\ arrived' = [arrived EXCEPT ![p] = arrived[p] \o b]
        /\ pending' = [pending EXCEPT ![p] = <<>>]
    BY <1>4 DEF RequestAnswered, RunFrame
  <2>3. failures' = [failures EXCEPT ![p] = failures[p]]
    BY <2>1, <2>2 DEF QueueType
  <2>4. b \in Seq(Nat) /\ Len(b) <= Len(pending[p]) /\ Len(b) = Len(pending[p])
        /\ \A i \in 1 .. Len(b) : b[i] = pending[p][i]
    BY <1>2, <2>1
  <2>5. InOrder(written[p], <<>>, arrived[p] \o b)
    BY <1>2, <2>1, <2>4, SendInOrder
  <2>6. Counted(written[p], <<>>, arrived[p] \o b, failures[p])
    BY <1>2, <2>1, <2>4, SendCounted
  <2>7. arrived[p] \o b \in Seq(Nat) /\ <<>> \in Seq(Nat)
    BY <1>2, <2>1, ConcatProperties
  <2> HIDE DEF p, b
  <2>8. QED
    BY <1>2, <2>1, <2>2, <2>3, <2>5, <2>6, <2>7, RequestQueue
<1>5. ASSUME NEW p \in Peer, RunSkip(p) PROVE QueueType' /\ QueueInv'
  <2>1. UNCHANGED <<written, pending, arrived>>
    BY <1>5 DEF RunSkip, RunFrame
  <2>2. CASE UNCHANGED failures
    BY <2>1, <2>2 DEF QueueType, QueueInv
  <2>3. CASE ~UNCHANGED failures
    <3>1. failures[p] < MaxFailures /\ failures' = [failures EXCEPT ![p] = failures[p] + 1]
      BY <1>5, <2>3 DEF RunSkip
    <3>2. failures[p] + 1 \in 0 .. MaxFailures
      BY <1>2, <3>1
    <3>3. arrived' = [arrived EXCEPT ![p] = arrived[p]] /\ pending' = [pending EXCEPT ![p] = pending[p]]
      BY <2>1 DEF QueueType
    <3>4. Counted(written[p], pending[p], arrived[p], failures[p] + 1)
      BY <1>2, CountedMore
    <3>5. QED
      BY <1>2, <2>1, <3>1, <3>2, <3>3, <3>4, RequestQueue
  <2>4. QED
    BY <2>2, <2>3
<1>6. CASE UNCHANGED <<written, pending, arrived, failures>>
  BY <1>6 DEF QueueType, QueueInv
<1>7. \/ UNCHANGED <<written, pending, arrived, failures>>
      \/ Push \/ RequestAnswered
      \/ \E k \in 0 .. MaxMessages : RequestFails(k)
      \/ \E p \in Peer : RunSkip(p)
  BY DEF Next, Discovery, TextBox, Run, Server, vars, queueVars, historyVars, StopElsewhere,
         EngineStops, AddContact, AddStorage, Activate, Deactivate, DiscoveryFrame,
         SelectContact, SelectChat, SendContact, SendChat, RunReset, RunWake, RunTurn, RunPass,
         RunRequest, ReceiveContact, ReceiveChat, TimerExpires, RunFrame
<1>8. QED
  BY <1>1, <1>3, <1>4, <1>5, <1>6, <1>7

-----------------------------------------------------------------------------
(***************************************************************************)
(* The control.                                                            *)
(***************************************************************************)

\* The textbox thread keeps its contact, run() its neighbour.
LEMMA WhoStep ==
    ASSUME PlainType, WhoInv, [Next]_vars
    PROVE  WhoInv'
<1>1. (ui'.pc # "idle" => ui'.who = contactsCurrent') /\ (ui'.pc = "push" => ui'.who \in Peer)
  <2>1. CASE UNCHANGED ui
    <3>1. UNCHANGED contactsCurrent \/ \E c \in Contact : SelectContact(c)
      BY DEF Next, Discovery, TextBox, Run, Server, vars, contactVars, StopElsewhere,
             EngineStops, AddContact, AddStorage, Activate, Deactivate, DiscoveryFrame,
             SelectChat, SendContact, SendChat, Push, RunReset, RunWake, RunTurn, RunPass,
             RunSkip, RunRequest, RequestFails, RequestAnswered, ReceiveContact, ReceiveChat,
             TimerExpires, RunFrame
    <3>2. CASE UNCHANGED contactsCurrent
      BY <2>1, <3>2 DEF WhoInv
    <3>3. ASSUME NEW c \in Contact, SelectContact(c) PROVE FALSE
      <4>1. ui.pc = "idle" /\ ui'.pc = "chatSelect"
        BY <3>3 DEF SelectContact
      <4>2. QED
        BY <2>1, <4>1
    <3>4. QED
      BY <3>1, <3>2, <3>3
  <2>2. CASE ui' = [pc |-> "idle", who |-> None]
    BY <2>2
  <2>3. CASE ui' = [pc |-> "chatSelect", who |-> contactsCurrent']
    BY <2>3
  <2>4. CASE ui' = [pc |-> "chatSend", who |-> contactsCurrent] /\ UNCHANGED contactsCurrent
    BY <2>4
  <2>5. CASE ui' = [pc |-> "push", who |-> ui.who] /\ UNCHANGED contactsCurrent
             /\ ui.pc = "chatSend" /\ ui.who # Self
    BY <2>5 DEF WhoInv, PlainType, Contact
  <2>6. QED
    BY <2>1, <2>2, <2>3, <2>4, <2>5, UiStep
<1>2. bPc' = "request" => target' \in Peer
  BY DEF WhoInv, Next, Discovery, TextBox, Run, Server, vars, runVars, StopElsewhere,
         EngineStops, AddContact, AddStorage, Activate, Deactivate, DiscoveryFrame,
         SelectContact, SelectChat, SendContact, SendChat, Push, RunReset, RunWake, RunTurn,
         RunPass, RunSkip, RunRequest, RequestFails, RequestAnswered, ReceiveContact,
         ReceiveChat, TimerExpires
<1>3. QED
  BY <1>1, <1>2 DEF WhoInv

\* The two handlers keep agreeing about the current contact.
LEMMA CurrentStep ==
    ASSUME PlainType, FlagType, WhoInv, CurrentInv, [Next]_vars
    PROVE  CurrentInv'
<1>0. FlagType' /\ (stopped => stopped') /\ (down => down')
  BY FlagStep
<1>1. IsSelected(st'[contactsCurrent'])
  BY StateStep DEF CurrentInv, StateMoves
<1>2. down' => stopped'
  <2>1. CASE EngineStops
    BY <1>0, <2>1 DEF EngineStops
  <2>2. down' = down \/ EngineStops
    BY DEF Next, Discovery, TextBox, Run, Server, vars, stopVars, StopElsewhere, AddContact,
           AddStorage, Activate, Deactivate, DiscoveryFrame, SelectContact, SelectChat,
           SendContact, SendChat, Push, RunReset, RunWake, RunTurn, RunPass, RunSkip,
           RunRequest, RequestFails, RequestAnswered, ReceiveContact, ReceiveChat,
           TimerExpires, RunFrame, StopFor
  <2>3. QED
    BY <1>0, <2>1, <2>2 DEF CurrentInv
<1>3. chatKnown \subseteq chatKnown'
  BY DEF Next, Discovery, TextBox, Run, Server, vars, contactVars, StopElsewhere, EngineStops,
         AddContact, AddStorage, Activate, Deactivate, SelectContact, SelectChat, SendContact,
         SendChat, Push, RunReset, RunWake, RunTurn, RunPass, RunSkip, RunRequest,
         RequestFails, RequestAnswered, ReceiveContact, ReceiveChat, TimerExpires, RunFrame
<1>4. chatCurrent' \in chatKnown' /\ ((~stopped' /\ ui'.pc # "chatSelect") => contactsCurrent' = chatCurrent')
  <2>1. CASE SelectChat
    <3>1. ui.who = contactsCurrent /\ contactsCurrent' = contactsCurrent
      BY <2>1 DEF SelectChat, WhoInv
    <3>2. CASE ui.who \in chatKnown /\ ~down
      BY <1>3, <2>1, <3>1, <3>2 DEF SelectChat
    <3>3. CASE ~(ui.who \in chatKnown /\ ~down)
      <4>1. chatCurrent' = chatCurrent /\ stopped'
        BY <2>1, <3>3 DEF SelectChat, StopFor
      <4>2. QED
        BY <1>3, <4>1 DEF CurrentInv
    <3>4. QED
      BY <3>2, <3>3
  <2>2. ASSUME NEW c \in Contact, SelectContact(c)
        PROVE  chatCurrent' = chatCurrent /\ ui'.pc = "chatSelect"
    BY <2>2 DEF SelectContact
  <2>3. CASE UNCHANGED <<contactsCurrent, chatCurrent>> /\ (ui'.pc = "chatSelect" <=> ui.pc = "chatSelect")
    BY <1>0, <1>3, <2>3 DEF CurrentInv
  <2>4. \/ UNCHANGED <<contactsCurrent, chatCurrent>> /\ (ui'.pc = "chatSelect" <=> ui.pc = "chatSelect")
        \/ SelectChat
        \/ \E c \in Contact : SelectContact(c)
    <3>1. \/ UNCHANGED <<contactsCurrent, chatCurrent, ui>>
          \/ SelectChat \/ SendContact \/ SendChat \/ Push
          \/ \E c \in Contact : SelectContact(c)
      BY DEF Next, Discovery, TextBox, Run, Server, vars, contactVars, StopElsewhere,
             EngineStops, AddContact, AddStorage, Activate, Deactivate, DiscoveryFrame,
             RunReset, RunWake, RunTurn, RunPass, RunSkip, RunRequest, RequestFails,
             RequestAnswered, ReceiveContact, ReceiveChat, TimerExpires, RunFrame
    <3>2. ASSUME SendContact \/ SendChat \/ Push
          PROVE  UNCHANGED <<contactsCurrent, chatCurrent>> /\ ui.pc # "chatSelect"
                 /\ ui'.pc # "chatSelect"
      <4>1. UNCHANGED <<contactsCurrent, chatCurrent>> /\ ui.pc # "chatSelect"
        BY <3>2 DEF SendContact, SendChat, Push, contactVars
      <4>2. ui'.pc # "chatSelect"
        <5>1. CASE ui' = ui
          BY <4>1, <5>1
        <5>2. ~(ui' = [pc |-> "chatSelect", who |-> contactsCurrent'] /\ ui.pc = "idle")
          <6>1. CASE SendContact
            <7>1. ui' = ui \/ ui' = [pc |-> "chatSend", who |-> contactsCurrent]
              BY <6>1 DEF SendContact
            <7>2. QED
              BY <4>1, <7>1
          <6>2. QED
            BY <3>2, <6>1 DEF SendChat, Push
        <5>3. QED
          BY <5>1, <5>2, UiStep
      <4>3. QED
        BY <4>1, <4>2
    <3>3. QED
      BY <3>1, <3>2
  <2>5. QED
    BY <1>3, <2>1, <2>2, <2>3, <2>4 DEF CurrentInv
<1>5. QED
  BY <1>1, <1>2, <1>4 DEF CurrentInv

\* A contact keeps its storage, and gets it when it is created.
LEMMA KnownStep ==
    ASSUME PlainType, FlagType, CurrentInv, KnownInv, [Next]_vars
    PROVE  KnownInv'
<1> USE MessagingAssumption
<1>0. (down => down') /\ StateMoves
  BY FlagStep, StateStep DEF CurrentInv
<1>1. \A c \in Contact : st[c] # "ABSENT" => st'[c] # "ABSENT"
  BY <1>0 DEF StateMoves
<1>2. ASSUME ~down', NEW c \in Known' PROVE c \in chatKnown' \cup {creating'}
  <2>0. ~down /\ c \in Contact /\ st'[c] # "ABSENT" /\ c # None
    BY <1>0, <1>2 DEF Known, Contact
  <2>1. CASE c \notin Known
    <3>1. creating' = c
      BY <1>0, <2>0, <2>1 DEF StateMoves, Known
    <3>2. QED
      BY <3>1
  <2>2. CASE c \in Known
    <3>1. c \in chatKnown \cup {creating}
      BY <2>0, <2>2 DEF KnownInv
    <3>2. CASE AddStorage
      BY <2>0, <3>1, <3>2 DEF AddStorage
    <3>3. ASSUME NEW p \in Peer, AddContact(p) PROVE c \in chatKnown'
      BY <2>0, <3>1, <3>3 DEF AddContact
    <3>4. UNCHANGED <<chatKnown, creating>> \/ AddStorage \/ \E p \in Peer : AddContact(p)
      BY DEF Next, Discovery, TextBox, Run, Server, vars, contactVars, StopElsewhere,
             EngineStops, Activate, Deactivate, SelectContact, SelectChat, SendContact,
             SendChat, Push, RunReset, RunWake, RunTurn, RunPass, RunSkip, RunRequest,
             RequestFails, RequestAnswered, ReceiveContact, ReceiveChat, TimerExpires, RunFrame
    <3>5. QED
      BY <3>1, <3>2, <3>3, <3>4
  <2>3. QED
    BY <2>1, <2>2
<1>3. ASSUME NEW p \in Peer, serving'[p] > 0 PROVE p \in Known'
  <2>1. p \in Known => p \in Known'
    BY <1>1 DEF Known
  <2>2. CASE serving[p] > 0
    BY <2>1, <2>2 DEF KnownInv
  <2>3. CASE ~(serving[p] > 0)
    <3>1. serving'[p] # serving[p]
      BY <1>3, <2>3
    <3>2. ASSUME NEW o \in Peer, ReceiveChat(o) PROVE FALSE
      <4>1. serving[o] > 0 /\ o # p
        BY <2>3, <3>2 DEF ReceiveChat
      <4>2. serving'[p] = serving[p]
        BY <3>2, <4>1 DEF ReceiveChat, PlainType
      <4>3. QED
        BY <3>1, <4>2
    <3>3. ASSUME NEW o \in Peer, NEW n \in 1 .. MaxReceived, ReceiveContact(o, n)
          PROVE  p \in Known
      <4>1. o \in Known /\ (serving' = [serving EXCEPT ![o] = @ + n] \/ serving' = serving)
        BY <3>3 DEF ReceiveContact
      <4>2. o = p
        BY <3>1, <4>1 DEF PlainType
      <4>3. QED
        BY <4>1, <4>2
    <3>4. \/ UNCHANGED serving
          \/ \E o \in Peer, n \in 1 .. MaxReceived : ReceiveContact(o, n)
          \/ \E o \in Peer : ReceiveChat(o)
      BY DEF Next, Discovery, TextBox, Run, Server, vars, StopElsewhere, EngineStops,
             AddContact, AddStorage, Activate, Deactivate, DiscoveryFrame, SelectContact,
             SelectChat, SendContact, SendChat, Push, RunReset, RunWake, RunTurn, RunPass,
             RunSkip, RunRequest, RequestFails, RequestAnswered, TimerExpires, RunFrame
    <3>5. QED
      BY <2>1, <3>1, <3>2, <3>3, <3>4
  <2>4. QED
    BY <2>2, <2>3
<1>4. QED
  BY <1>2, <1>3 DEF KnownInv

\* A message that is being handed over is pushed, unless the node stops.
LEMMA HandOverStep ==
    ASSUME PlainType, [Next]_vars, NEW p \in Peer, HandsOver(p)
    PROVE  HandsOver(p)' \/ stopped' \/ Push
<1> USE MessagingAssumption
<1>1. ui.who = p /\ ui.pc \in {"chatSend", "push"} /\ p # Self
  BY DEF HandsOver
<1>2. CASE UNCHANGED ui
  BY <1>2 DEF HandsOver
<1>3. CASE SendChat
  <2>1. CASE ui.who = chatCurrent /\ ui.who \in chatKnown /\ ~down
    <3>1. ui' = [ui EXCEPT !.pc = "push"]
      BY <1>1, <1>3, <2>1 DEF SendChat
    <3>2. ui'.who = p /\ ui'.pc = "push"
      BY <1>1, <3>1 DEF PlainType
    <3>3. QED
      BY <3>2 DEF HandsOver
  <2>2. CASE ~(ui.who = chatCurrent /\ ui.who \in chatKnown /\ ~down)
    BY <1>3, <2>2 DEF SendChat, StopFor
  <2>3. QED
    BY <2>1, <2>2
<1>4. UNCHANGED ui \/ SendChat \/ Push
  BY <1>1 DEF Next, Discovery, TextBox, Run, Server, vars, StopElsewhere, EngineStops,
         AddContact, AddStorage, Activate, Deactivate, DiscoveryFrame, SelectContact,
         SelectChat, SendContact, RunReset, RunWake, RunTurn, RunPass, RunSkip, RunRequest,
         RequestFails, RequestAnswered, ReceiveContact, ReceiveChat, TimerExpires, RunFrame
<1>5. QED
  BY <1>2, <1>3, <1>4

\* A queue with one more message is not empty.
LEMMA AppendNotEmpty ==
    ASSUME NEW q \in Seq(Nat), NEW m \in Nat
    PROVE  Append(q, m) # <<>>
<1>1. Len(Append(q, m)) = Len(q) + 1 /\ Len(q) \in Nat /\ Len(<<>>) = 0
  OBVIOUS
<1>2. Len(Append(q, m)) # Len(<<>>)
  BY <1>1
<1>3. QED
  BY <1>2

\* Only an answered request empties a queue.
LEMMA PendingStep ==
    ASSUME PlainType, QueueType, WhoInv, [Next]_vars, NEW p \in Peer
    PROVE  /\ pending[p] # <<>> => pending'[p] # <<>> \/ (RequestAnswered /\ p = target)
           /\ Push /\ ui.who = p => pending'[p] # <<>>
<1>0. ASSUME Push
      PROVE  \E x \in Seq(Nat) : x # <<>> /\ pending' = [pending EXCEPT ![ui.who] = x]
  <2> DEFINE q == pending[ui.who]
             m == Len(written[ui.who]) + 1
  <2>1. ui.who \in Peer
    BY <1>0 DEF Push, WhoInv
  <2>2. pending' = [pending EXCEPT ![ui.who] = Append(q, m)]
    BY <1>0 DEF Push
  <2>3. q \in Seq(Nat) /\ m \in Nat
    BY <2>1 DEF QueueType
  <2> HIDE DEF q, m
  <2>4. Append(q, m) \in Seq(Nat) /\ Append(q, m) # <<>>
    BY <2>3, AppendNotEmpty
  <2>5. QED
    BY <2>2, <2>4
<1>1. ASSUME Push PROVE pending'[p] = pending[p] \/ pending'[p] # <<>>
  BY <1>0, <1>1 DEF QueueType
<1>2. ASSUME Push, ui.who = p PROVE pending'[p] # <<>>
  BY <1>0, <1>2 DEF QueueType
<1>3. ASSUME RequestAnswered, p # target PROVE pending'[p] = pending[p]
  BY <1>3 DEF RequestAnswered, QueueType
<1>4. UNCHANGED pending \/ Push \/ RequestAnswered
  BY DEF Next, Discovery, TextBox, Run, Server, vars, queueVars, StopElsewhere, EngineStops,
         AddContact, AddStorage, Activate, Deactivate, DiscoveryFrame, SelectContact,
         SelectChat, SendContact, SendChat, RunReset, RunWake, RunTurn, RunPass, RunSkip,
         RunRequest, RequestFails, ReceiveContact, ReceiveChat, TimerExpires
<1>5. QED
  BY <1>1, <1>2, <1>3, <1>4

\* The mark stays true, also of the peer that a request is on its way to.
LEMMA MarkStep ==
    ASSUME PlainType, QueueType, FlagType, WhoInv, CurrentInv, PendingMarkIsTrue, RequestInv,
           [Next]_vars
    PROVE  PendingMarkIsTrue' /\ RequestInv'
<1> USE MessagingAssumption
<1>0. FlagType' /\ (stopped => stopped')
  BY FlagStep
<1>1. \A c \in Contact : Marked(st'[c]) => Marked(st[c]) \/ (ui'.pc = "chatSend" /\ ui'.who = c)
  BY StateStep DEF CurrentInv, StateMoves
<1>2. ASSUME NEW p \in Peer, Marked(st'[p])
      PROVE  Marked(st[p]) \/ HandsOver(p)'
  BY <1>1, <1>2 DEF HandsOver, Contact
<1>3. ASSUME NEW p \in Peer, Marked(st'[p])
      PROVE  pending'[p] # <<>> \/ HandsOver(p)' \/ stopped'
  <2>1. CASE HandsOver(p)'
    BY <2>1
  <2>2. CASE Marked(st[p])
    <3>1. pending[p] # <<>> \/ HandsOver(p) \/ stopped
      BY <2>2 DEF PendingMarkIsTrue, Marked, HandsOver
    <3>2. CASE stopped
      BY <1>0, <3>2
    <3>3. CASE HandsOver(p)
      <4>1. HandsOver(p)' \/ stopped' \/ Push
        BY <3>3, HandOverStep
      <4>2. Push => pending'[p] # <<>>
        BY <3>3, PendingStep DEF HandsOver
      <4>3. QED
        BY <4>1, <4>2
    <3>4. CASE pending[p] # <<>>
      <4>1. CASE RequestAnswered /\ p = target
        <5>1. HandsOver(p) \/ stopped
          BY <2>2, <4>1 DEF RequestAnswered, RequestInv
        <5>2. UNCHANGED ui
          BY <4>1 DEF RequestAnswered, RunFrame
        <5>3. HandsOver(p) => HandsOver(p)'
          BY <5>2 DEF HandsOver
        <5>4. QED
          BY <1>0, <5>1, <5>3
      <4>2. QED
        BY <3>4, <4>1, PendingStep
    <3>5. QED
      BY <3>1, <3>2, <3>3, <3>4
  <2>3. QED
    BY <1>2, <1>3, <2>1, <2>2
<1>4. PendingMarkIsTrue'
  BY <1>3 DEF PendingMarkIsTrue, Marked, HandsOver
<1>5. ASSUME bPc' = "request", Marked(st'[target']) PROVE HandsOver(target)' \/ stopped'
  <2>1. ASSUME NEW p \in Peer, RunRequest(p) PROVE FALSE
    <3>1. IsActive(st[p]) /\ target' = p /\ st' = st
      BY <2>1 DEF RunRequest, RunFrame, contactVars
    <3>2. st[p] \in AnyState
      BY DEF PlainType, Contact
    <3>3. QED
      BY <1>5, <3>1, <3>2, StateFacts
  <2>2. (UNCHANGED <<bPc, target>>) \/ \E p \in Peer : RunRequest(p)
    BY <1>5 DEF Next, Discovery, TextBox, Run, Server, vars, runVars, StopElsewhere,
         EngineStops, AddContact, AddStorage, Activate, Deactivate, DiscoveryFrame,
         SelectContact, SelectChat, SendContact, SendChat, Push, RunReset, RunWake, RunTurn,
         RunPass, RunSkip, RequestFails, RequestAnswered, ReceiveContact, ReceiveChat,
         TimerExpires
  <2>3. target' = target /\ bPc = "request"
    BY <1>5, <2>1, <2>2
  <2>4. target \in Peer
    BY <2>3 DEF WhoInv
  <2>5. ~Push
    BY <2>3 DEF Push, NeighborsUnlocked
  <2>6. CASE HandsOver(target)'
    BY <2>6
  <2>7. CASE Marked(st[target])
    <3>1. HandsOver(target) \/ stopped
      BY <2>3, <2>7 DEF RequestInv
    <3>2. CASE stopped
      BY <1>0, <3>2
    <3>3. CASE HandsOver(target)
      <4>1. \A p \in Peer : HandsOver(p) => HandsOver(p)' \/ stopped'
        BY <2>5, HandOverStep
      <4>2. PICK p \in Peer : p = target
        BY <2>4
      <4>3. HandsOver(p)' \/ stopped'
        BY <3>3, <4>1, <4>2
      <4>4. QED
        BY <2>3, <4>2, <4>3 DEF HandsOver
    <3>4. QED
      BY <3>1, <3>2, <3>3
  <2>8. Marked(st'[target]) /\ (Marked(st[target]) \/ (ui'.pc = "chatSend" /\ ui'.who = target))
    BY <1>1, <1>5, <2>3, <2>4 DEF Contact
  <2>9. (ui'.pc = "chatSend" /\ ui'.who = target) => HandsOver(target)'
    BY <2>3 DEF HandsOver
  <2>10. QED
    BY <2>6, <2>7, <2>8, <2>9
<1>6. RequestInv'
  BY <1>5 DEF RequestInv, Marked
<1>7. QED
  BY <1>4, <1>6

-----------------------------------------------------------------------------
(***************************************************************************)
(* The theorems.                                                           *)
(***************************************************************************)

\* The node starts with its own contact and empty queues.
LEMMA InitInv == Init => IInv
<1> SUFFICES ASSUME Init PROVE IInv
  OBVIOUS
<1> USE MessagingAssumption
<1>1. PlainType
  <2>1. st \in [Contact -> AnyState]
    BY StateFacts DEF Init, AnyState
  <2>2. Self \in Contact /\ 0 \in 0 .. MaxReceived
    BY DEF Contact
  <2>3. serving \in [Peer -> 0 .. MaxReceived]
    BY <2>2 DEF Init
  <2>4. QED
    BY <2>1, <2>2, <2>3 DEF Init, PlainType, Reasons
<1>2. QueueType
  <2>1. <<>> \in Seq(Nat) /\ 0 \in 0 .. MaxFailures
    OBVIOUS
  <2>2. QED
    BY <2>1 DEF Init, QueueType
<1>3. FlagType
  BY DEF Init, FlagType
<1>4. QueueInv
  <2> SUFFICES ASSUME NEW p \in Peer
               PROVE  InOrder(<<>>, <<>>, <<>>) /\ Counted(<<>>, <<>>, <<>>, 0)
    BY DEF Init, QueueInv
  <2>1. Len(<<>>) = 0
    OBVIOUS
  <2>2. \A j : j \notin 1 .. 0 /\ j \notin 1 .. 0 - 0
    OBVIOUS
  <2>3. QED
    BY <2>1, <2>2 DEF InOrder, Counted
<1>5. WhoInv
  BY DEF Init, WhoInv
<1>6. CurrentInv
  BY StateFacts DEF Init, CurrentInv, Contact
<1>7. KnownInv
  <2>1. Known \subseteq {Self}
    BY DEF Init, Known
  <2>2. \A p \in Peer : ~(serving[p] > 0)
    BY DEF Init
  <2>3. QED
    BY <2>1, <2>2 DEF Init, KnownInv
<1>8. \A p \in Peer : ~Marked(st[p])
  BY StateFacts DEF Init, Contact
<1>9. PendingMarkIsTrue
  BY <1>8 DEF PendingMarkIsTrue, Marked
<1>10. RequestInv
  BY DEF Init, RequestInv
<1>11. QED
  BY <1>1, <1>2, <1>3, <1>4, <1>5, <1>6, <1>7, <1>9, <1>10, TypeSplit DEF IInv

\* Every step keeps the inductive invariant.
LEMMA StepInv == IInv /\ [Next]_vars => IInv'
<1> SUFFICES ASSUME IInv, [Next]_vars PROVE IInv'
  OBVIOUS
<1>1. /\ PlainType /\ QueueType /\ FlagType /\ QueueInv /\ WhoInv /\ CurrentInv /\ KnownInv
      /\ PendingMarkIsTrue /\ RequestInv
  BY TypeSplit DEF IInv
<1>2. IsSelected(st[contactsCurrent])
  BY <1>1 DEF CurrentInv
<1>3. PlainType' /\ QueueType' /\ FlagType' /\ QueueInv'
  BY <1>1, <1>2, PlainStep, QueueStep, FlagStep
<1>4. WhoInv' /\ CurrentInv' /\ KnownInv'
  BY <1>1, WhoStep, CurrentStep, KnownStep
<1>5. PendingMarkIsTrue' /\ RequestInv'
  BY <1>1, MarkStep
<1>6. TypeOK'
  BY <1>3, TypeSplit DEF TypeOK, PlainType, QueueType, FlagType, AnyState, Reasons
<1>7. QED
  BY <1>3, <1>4, <1>5, <1>6 DEF IInv

\* The inductive invariant holds in every state the exchange of messages reaches.
LEMMA InductiveInvariant == Spec => []IInv
BY InitInv, StepInv, PTL DEF Spec

\* The exchange of messages keeps its types: the state of every contact is one of
\* TTContactsState's, and run() works on neighbours it has.
THEOREM TypeCorrect == Spec => []TypeOK
<1>1. IInv => TypeOK
  BY DEF IInv
<1>2. QED
  BY <1>1, InductiveInvariant, PTL

\* A sequence of naturals has the positions 1, 2, ... up to its length.
LEMMA Positions ==
    ASSUME NEW a \in Seq(Nat)
    PROVE  DOMAIN a = 1 .. Len(a) /\ Len(a) \in Nat
           /\ Range(a) = {a[i] : i \in 1 .. Len(a)}
BY DEF Range

\* No message that handleSend() accepts is lost: run() clears the pending messages
\* of a neighbour only after the answer to the request that carried all of them.
THEOREM NothingIsLost == Spec => []NoMessageLost
<1>1. ASSUME IInv PROVE NoMessageLost
  <2> SUFFICES ASSUME NEW p \in Peer, NEW m \in Range(written[p])
               PROVE  m \in Range(arrived[p]) \cup Range(pending[p])
    BY DEF NoMessageLost
  <2> DEFINE w == written[p]
             q == pending[p]
             a == arrived[p]
  <2>1. w \in Seq(Nat) /\ q \in Seq(Nat) /\ a \in Seq(Nat) /\ InOrder(w, q, a)
    BY <1>1 DEF IInv, TypeOK, QueueInv
  <2>2. m \in Range(w)
    OBVIOUS
  <2> HIDE DEF w, q, a
  <2>3. PICK j \in 1 .. Len(w) : w[j] = m
    BY <2>1, <2>2, Positions
  <2>4. m = j /\ m \in 1 .. Len(w)
    BY <2>1, <2>3 DEF InOrder
  <2>5. Len(w) \in Nat /\ Len(q) \in Nat /\ Len(q) <= Len(w)
    BY <2>1, Positions DEF InOrder
  <2>6. CASE m <= Len(w) - Len(q)
    <3>1. m \in 1 .. Len(w) - Len(q)
      BY <2>4, <2>5, <2>6
    <3>2. PICK i \in 1 .. Len(a) : a[i] = m
      BY <2>1, <3>1 DEF InOrder
    <3>3. m \in Range(a)
      BY <2>1, <3>2, Positions
    <3>4. QED
      BY <3>3 DEF a
  <2>7. CASE ~(m <= Len(w) - Len(q))
    <3> DEFINE k == m - (Len(w) - Len(q))
    <3>1. k \in 1 .. Len(q) /\ Len(w) - Len(q) + k = m
      BY <2>4, <2>5, <2>7
    <3> HIDE DEF k
    <3>2. q[k] = m
      BY <2>1, <3>1 DEF InOrder
    <3>3. m \in Range(q)
      BY <2>1, <3>1, <3>2, Positions
    <3>4. QED
      BY <3>3 DEF q
  <2>8. QED
    BY <2>6, <2>7
<1>2. QED
  BY <1>1, InductiveInvariant, PTL

\* Messages arrive in the order in which they were written: a request carries the
\* pending messages from the first on, so one that breaks off leaves no gap.
THEOREM OrderIsKept == Spec => []ArrivesInOrder
<1>1. ASSUME IInv PROVE ArrivesInOrder
  <2> SUFFICES ASSUME NEW p \in Peer, NEW i \in DOMAIN arrived[p], NEW j \in DOMAIN written[p],
                      written[p][j] < arrived[p][i]
               PROVE  \E h \in 1 .. i - 1 : arrived[p][h] = written[p][j]
    BY DEF ArrivesInOrder
  <2> DEFINE w == written[p]
             a == arrived[p]
  <2>1. w \in Seq(Nat) /\ pending[p] \in Seq(Nat) /\ a \in Seq(Nat) /\ InOrder(w, pending[p], a)
    BY <1>1 DEF IInv, TypeOK, QueueInv
  <2>2. i \in DOMAIN a /\ j \in DOMAIN w /\ w[j] < a[i]
    OBVIOUS
  <2> HIDE DEF w, a
  <2>3. i \in 1 .. Len(a) /\ j \in 1 .. Len(w) /\ Len(w) \in Nat
    BY <2>1, <2>2, Positions
  <2>4. w[j] = j /\ a[i] \in 1 .. Len(w)
        /\ \A l \in 1 .. a[i] - 1 : \E h \in 1 .. i - 1 : a[h] = l
    BY <2>1, <2>3 DEF InOrder
  <2>5. j \in 1 .. a[i] - 1
    BY <2>2, <2>3, <2>4
  <2>6. \E h \in 1 .. i - 1 : a[h] = w[j]
    BY <2>4, <2>5
  <2>7. QED
    BY <2>6 DEF w, a
<1>2. QED
  BY <1>1, InductiveInvariant, PTL

\* A peer stores a message again only after a request of ours that failed: an
\* answered request leaves nothing pending that it delivered.
THEOREM RepeatsAreFailures == Spec => []RepeatedOnlyByFailure
<1>1. ASSUME IInv PROVE RepeatedOnlyByFailure
  <2> SUFFICES ASSUME NEW p \in Peer, NEW m \in Range(arrived[p])
               PROVE  Cardinality({i \in DOMAIN arrived[p] : arrived[p][i] = m}) <= 1 + failures[p]
    BY DEF RepeatedOnlyByFailure
  <2> DEFINE w == written[p]
             q == pending[p]
             a == arrived[p]
             f == failures[p]
  <2>1. /\ w \in Seq(Nat) /\ q \in Seq(Nat) /\ a \in Seq(Nat) /\ f \in Nat
        /\ InOrder(w, q, a) /\ Counted(w, q, a, f)
    BY <1>1, MessagingAssumption DEF IInv, TypeOK, QueueInv
  <2>2. m \in Range(a)
    OBVIOUS
  <2> HIDE DEF w, q, a, f
  <2>3. m \in 1 .. Len(w)
    BY <2>1, <2>2, Positions DEF InOrder
  <2>4. Occurrences(a, m) = {i \in DOMAIN a : a[i] = m}
    BY <2>1, Positions DEF Occurrences
  <2>5. Cardinality(Occurrences(a, m)) <= IF m <= Len(w) - Len(q) THEN f + 1 ELSE f
    BY <2>1, <2>3 DEF Counted
  <2>6. Cardinality(Occurrences(a, m)) \in Nat
    BY <2>1, OccurrencesFinite
  <2>7. Cardinality({i \in DOMAIN a : a[i] = m}) <= 1 + f
    BY <2>1, <2>4, <2>5, <2>6
  <2>8. QED
    BY <2>7 DEF a, f
<1>2. QED
  BY <1>1, InductiveInvariant, PTL

\* A contact that the contacts handler displays with pending messages has some in
\* the broadcaster's queue, or one is on its way there.
THEOREM MarkIsTrue == Spec => []PendingMarkIsTrue
<1>1. IInv => PendingMarkIsTrue
  BY DEF IInv
<1>2. QED
  BY <1>1, InductiveInvariant, PTL

\* What StopsOnlyInWindows allows a step.
Window ==
    reason' # reason =>
        \/ reason' = "elsewhere"
        \/ reason' = "receive" /\ \E p \in Peer \cap Known : ~IsActive(st[p])
        \/ reason' \in {"select", "chatReceive"} /\ creating # None

\* A step that stops the node for a reason finds one of the two windows open.
LEMMA WindowStep ==
    ASSUME IInv, [Next]_vars
    PROVE  Window
<1> SUFFICES ASSUME reason' # reason PROVE Window
  BY DEF Window
<1> USE MessagingAssumption
<1>1. PlainType /\ WhoInv /\ CurrentInv /\ KnownInv
  BY TypeSplit DEF IInv
<1>2. \A why : StopFor(why) => reason' = why /\ ~stopped
  BY DEF StopFor
<1>3. ~stopped => ~down
  BY <1>1 DEF CurrentInv
<1>4. contactsCurrent \in Known /\ st[contactsCurrent] \in Sendable
  BY <1>1, StateFacts DEF PlainType, CurrentInv, Known
<1>5. \A c \in Known : ~stopped => c \in chatKnown \/ (creating = c /\ creating # None)
  BY <1>1, <1>3 DEF KnownInv, Known, Contact
<1>6. CASE StopElsewhere
  BY <1>2, <1>6 DEF StopElsewhere, Window
<1>7. CASE SelectChat
  <2>1. StopFor("select") /\ ~(ui.who \in chatKnown /\ ~down)
    BY <1>7 DEF SelectChat, stopVars
  <2>2. ui.who = contactsCurrent
    BY <1>1, <1>7 DEF SelectChat, WhoInv
  <2>3. ~stopped /\ ui.who \notin chatKnown
    BY <1>2, <1>3, <2>1
  <2>4. QED
    BY <1>2, <1>4, <1>5, <2>1, <2>2, <2>3 DEF Window
<1>8. CASE SendContact
  <2>1. ui.pc = "idle"
    BY <1>8 DEF SendContact
  <2>2. StopFor("mismatch") /\ contactsCurrent # chatCurrent
    BY <1>4, <1>8 DEF SendContact, stopVars
  <2>3. ~stopped => contactsCurrent = chatCurrent
    BY <1>1, <2>1 DEF CurrentInv
  <2>4. QED
    BY <1>2, <2>2, <2>3
<1>9. CASE SendChat
  <2>1. ui.pc = "chatSend" /\ StopFor("chatSend") /\ ~(ui.who = chatCurrent /\ ui.who \in chatKnown /\ ~down)
    BY <1>9 DEF SendChat, stopVars
  <2>2. ui.who = contactsCurrent /\ chatCurrent \in chatKnown
        /\ (~stopped => contactsCurrent = chatCurrent)
    BY <1>1, <2>1 DEF WhoInv, CurrentInv
  <2>3. QED
    BY <1>2, <1>3, <2>1, <2>2
<1>10. ASSUME NEW p \in Peer, NEW n \in 1 .. MaxReceived, ReceiveContact(p, n) PROVE Window
  <2>1. StopFor("receive") /\ p \in Known /\ st[p] \notin Receivable
    BY <1>10 DEF ReceiveContact, stopVars
  <2>2. ~IsActive(st[p])
    BY <1>1, <2>1, StateFacts DEF Receivable, Known, PlainType
  <2>3. QED
    BY <1>2, <2>1, <2>2 DEF Window
<1>11. ASSUME NEW p \in Peer, ReceiveChat(p) PROVE Window
  <2>1. StopFor("chatReceive") /\ ~(p \in chatKnown /\ ~down) /\ p \in Known
    BY <1>1, <1>11 DEF ReceiveChat, stopVars, KnownInv
  <2>2. ~stopped /\ p \notin chatKnown
    BY <1>2, <1>3, <2>1
  <2>3. QED
    BY <1>2, <1>5, <2>1, <2>2 DEF Window
<1>12. \/ StopElsewhere \/ SelectChat \/ SendContact \/ SendChat
       \/ \E p \in Peer, n \in 1 .. MaxReceived : ReceiveContact(p, n)
       \/ \E p \in Peer : ReceiveChat(p)
  BY DEF Next, Discovery, TextBox, Run, Server, vars, stopVars, EngineStops, AddContact,
         AddStorage, Activate, Deactivate, DiscoveryFrame, SelectContact, Push, RunReset,
         RunWake, RunTurn, RunPass, RunSkip, RunRequest, RequestFails, RequestAnswered,
         TimerExpires, RunFrame
<1>13. QED
  BY <1>6, <1>7, <1>8, <1>9, <1>10, <1>11, <1>12

\* The node stops by itself only while a contact is between its two creations or
\* when a contact taken for inactive writes; a message of the user never stops it.
THEOREM StopsInWindows == Spec => StopsOnlyInWindows
<1>1. IInv /\ [Next]_vars => [Window]_vars
  BY WindowStep
<1>2. Spec => [][Window]_vars
  BY <1>1, InductiveInvariant, PTL DEF Spec
<1>3. QED
  BY <1>2 DEF StopsOnlyInWindows, Window

=============================================================================
