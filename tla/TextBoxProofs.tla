--------------------------- MODULE TextBoxProofs ---------------------------
(***************************************************************************)
(* Proofs about TextBox, for any lines, attempts and capacity of the pipe: *)
(* the type invariant, DeliveredInOrder, and what a text is cut into.      *)
(***************************************************************************)
EXTENDS TextBox, FiniteSetTheorems, FunctionTheorems, TLAPS

-----------------------------------------------------------------------------
(***************************************************************************)
(* Messages that follow one another.                                       *)
(***************************************************************************)

\* The positions of a concatenation.
LEMMA Positions ==
    ASSUME NEW M, NEW s \in Seq(M), NEW u \in Seq(M)
    PROVE  /\ s \o u \in Seq(M)
           /\ Len(s) \in Nat /\ Len(u) \in Nat
           /\ Len(s \o u) = Len(s) + Len(u)
           /\ \A i \in 1 .. Len(s) : (s \o u)[i] = s[i]
           /\ \A i \in 1 .. Len(u) : (s \o u)[Len(s) + i] = u[i]
OBVIOUS

\* Sequences that agree in every position are the same.
LEMMA SameSequence ==
    ASSUME NEW M, NEW s \in Seq(M), NEW u \in Seq(M), Len(s) = Len(u),
           \A i \in 1 .. Len(s) : s[i] = u[i]
    PROVE  s = u
OBVIOUS

\* The first message of a queue, taken from it.
LEMMA FirstAndRest ==
    ASSUME NEW M, NEW s \in Seq(M), s # <<>>
    PROVE  /\ Head(s) \in M /\ Tail(s) \in Seq(M)
           /\ s = <<Head(s)>> \o Tail(s)
           /\ Len(Tail(s)) = Len(s) - 1
OBVIOUS

\* A message added to a queue.
LEMMA AddLast ==
    ASSUME NEW M, NEW s \in Seq(M), NEW m \in M
    PROVE  /\ Append(s, m) \in Seq(M) /\ <<m>> \in Seq(M)
           /\ Append(s, m) = s \o <<m>>
           /\ Len(Append(s, m)) = Len(s) + 1
OBVIOUS

\* The messages with a callback can be counted.
LEMMA CallbacksFinite ==
    ASSUME NEW s, NEW k \in Nat
    PROVE  /\ IsFiniteSet({j \in 1 .. k : HasCallback(s[j])})
           /\ Callbacks(s, k) \in Nat
           /\ k = 0 => Callbacks(s, k) = 0
<1> DEFINE S == {j \in 1 .. k : HasCallback(s[j])}
<1>1. IsFiniteSet(1 .. k)
  BY FS_Interval
<1>2. S \subseteq 1 .. k
  OBVIOUS
<1>3. IsFiniteSet(S)
  BY <1>1, <1>2, FS_Subset
<1>4. Cardinality(S) \in Nat
  BY <1>3, FS_CardinalityType
<1>5. k = 0 => S = {}
  OBVIOUS
<1>6. k = 0 => Cardinality(S) = 0
  BY <1>5, FS_EmptySet
<1>7. QED
  BY <1>3, <1>4, <1>6 DEF Callbacks

\* Counted in a concatenation: first those of the first part, then those of the
\* second one.
LEMMA CallbacksConcat ==
    ASSUME NEW M, NEW s \in Seq(M), NEW u \in Seq(M)
    PROVE  /\ \A k \in 0 .. Len(s) : Callbacks(s \o u, k) = Callbacks(s, k)
           /\ \A k \in 0 .. Len(u) :
                 Callbacks(s \o u, Len(s) + k) = Callbacks(s, Len(s)) + Callbacks(u, k)
<1> DEFINE c == s \o u
           n == Len(s)
<1>1. /\ n \in Nat /\ Len(u) \in Nat /\ Len(c) = n + Len(u)
      /\ \A i \in 1 .. n : c[i] = s[i]
      /\ \A i \in 1 .. Len(u) : c[n + i] = u[i]
  BY Positions
<1> HIDE DEF c, n
<1>2. ASSUME NEW k \in 0 .. n PROVE Callbacks(c, k) = Callbacks(s, k)
  <2>1. \A j \in 1 .. k : c[j] = s[j]
    BY <1>1
  <2>2. {j \in 1 .. k : HasCallback(c[j])} = {j \in 1 .. k : HasCallback(s[j])}
    BY <2>1
  <2>3. QED
    BY <2>2 DEF Callbacks
<1>3. ASSUME NEW k \in 0 .. Len(u)
      PROVE  Callbacks(c, n + k) = Callbacks(s, n) + Callbacks(u, k)
  <2> DEFINE A == {j \in 1 .. n : HasCallback(s[j])}
             B == {j \in 1 .. k : HasCallback(u[j])}
             D == {j \in n + 1 .. n + k : HasCallback(c[j])}
             f == [j \in B |-> n + j]
  <2>1. IsFiniteSet(A) /\ IsFiniteSet(B)
    <3>1. n \in Nat /\ k \in Nat
      BY <1>1
    <3>2. IsFiniteSet(A)
      BY <3>1, CallbacksFinite
    <3>3. IsFiniteSet(B)
      BY <3>1, CallbacksFinite
    <3>4. QED
      BY <3>2, <3>3
  <2>2. f \in Bijection(B, D)
    <3>1. \A j \in B : n + j \in D
      BY <1>1
    <3>2. \A i, j \in B : n + i = n + j => i = j
      BY <1>1
    <3>3. ASSUME NEW d \in D PROVE \E j \in B : n + j = d
      <4>1. d - n \in 1 .. k /\ n + (d - n) = d
        BY <1>1
      <4>2. u[d - n] = c[d]
        BY <1>1, <4>1
      <4>3. QED
        BY <4>1, <4>2
    <3> HIDE DEF B, D
    <3>4. f \in [B -> D]
      BY <3>1
    <3>5. \A i, j \in B : f[i] = f[j] => i = j
      BY <3>2
    <3>6. \A d \in D : \E j \in B : f[j] = d
      BY <3>3
    <3>7. QED
      BY <3>4, <3>5, <3>6, Fun_IsBij
  <2>3. IsFiniteSet(D) /\ Cardinality(D) = Cardinality(B)
    BY <2>1, <2>2, FS_Bijection DEF ExistsBijection
  <2>4. {j \in 1 .. n + k : HasCallback(c[j])} = A \cup D
    <3>1. n \in Nat /\ k \in Nat
      BY <1>1
    <3>2. \A j \in 1 .. n + k :
             (j \in 1 .. n /\ j \notin n + 1 .. n + k) \/ (j \notin 1 .. n /\ j \in n + 1 .. n + k)
      BY <3>1
    <3>3. \A j : j \in 1 .. n \/ j \in n + 1 .. n + k => j \in 1 .. n + k
      BY <3>1
    <3>4. QED
      BY <1>1, <3>2, <3>3
  <2>5. A \cap D = {}
    BY <1>1
  <2>6. Cardinality(A \cup D) = Cardinality(A) + Cardinality(D) - Cardinality(A \cap D)
    BY <2>1, <2>3, FS_Union
  <2>7. Cardinality(A \cap D) = 0
    BY <2>5, FS_EmptySet
  <2>8. Cardinality(A) \in Nat /\ Cardinality(D) \in Nat
    BY <2>1, <2>3, FS_CardinalityType
  <2>9. Cardinality(A \cup D) = Cardinality(A) + Cardinality(B)
    BY <2>3, <2>6, <2>7, <2>8
  <2>10. QED
    BY <2>4, <2>9 DEF Callbacks
<1>4. QED
  BY <1>2, <1>3 DEF c, n

\* A concatenation follows if its parts do, one after the other.
LEMMA FollowsConcat ==
    ASSUME NEW M, NEW s \in Seq(M), NEW u \in Seq(M), NEW t, NEW n \in Nat
    PROVE  Follows(n, s \o u, t) <=>
              Follows(n, s, t) /\ Follows(n + Callbacks(s, Len(s)), u, t)
<1> DEFINE c == s \o u
           l == Len(s)
<1>1. /\ l \in Nat /\ Len(u) \in Nat /\ Len(c) = l + Len(u)
      /\ \A i \in 1 .. l : c[i] = s[i]
      /\ \A i \in 1 .. Len(u) : c[l + i] = u[i]
  BY Positions
<1>2. \A k \in 0 .. l : Callbacks(c, k) = Callbacks(s, k)
  BY CallbacksConcat
<1>3. \A k \in 0 .. Len(u) : Callbacks(c, l + k) = Callbacks(s, l) + Callbacks(u, k)
  BY CallbacksConcat
<1>4. Callbacks(s, l) \in Nat
  BY <1>1, CallbacksFinite
<1>5. \A k \in 1 .. Len(u) : Callbacks(u, k) \in Nat
  <2>1. \A k \in 1 .. Len(u) : k \in Nat
    BY <1>1
  <2>2. QED
    BY <2>1, CallbacksFinite
<1> HIDE DEF c, l
<1>6. ASSUME Follows(n, c, t) PROVE Follows(n, s, t)
  <2> SUFFICES ASSUME NEW k \in 1 .. l, HasCallback(s[k])
               PROVE  n + Callbacks(s, k) <= Len(t) /\ s[k] = t[n + Callbacks(s, k)]
    BY DEF Follows, l
  <2>1. k \in 1 .. Len(c) /\ k \in 0 .. l /\ c[k] = s[k]
    BY <1>1
  <2>2. QED
    BY <1>2, <1>6, <2>1 DEF Follows
<1>7. ASSUME Follows(n, c, t) PROVE Follows(n + Callbacks(s, l), u, t)
  <2> SUFFICES ASSUME NEW k \in 1 .. Len(u), HasCallback(u[k])
               PROVE  /\ n + Callbacks(s, l) + Callbacks(u, k) <= Len(t)
                      /\ u[k] = t[n + Callbacks(s, l) + Callbacks(u, k)]
    BY DEF Follows
  <2>1. l + k \in 1 .. Len(c) /\ k \in 0 .. Len(u) /\ c[l + k] = u[k]
    BY <1>1
  <2>2. n + Callbacks(c, l + k) = n + Callbacks(s, l) + Callbacks(u, k)
    BY <1>3, <1>4, <1>5, <2>1
  <2>3. n + Callbacks(c, l + k) <= Len(t) /\ c[l + k] = t[n + Callbacks(c, l + k)]
    BY <1>7, <2>1 DEF Follows
  <2>4. QED
    BY <2>1, <2>2, <2>3
<1>8. ASSUME Follows(n, s, t), Follows(n + Callbacks(s, l), u, t) PROVE Follows(n, c, t)
  <2> SUFFICES ASSUME NEW k \in 1 .. Len(c), HasCallback(c[k])
               PROVE  n + Callbacks(c, k) <= Len(t) /\ c[k] = t[n + Callbacks(c, k)]
    BY DEF Follows
  <2>1. CASE k \in 1 .. l
    <3>1. k \in 0 .. l /\ c[k] = s[k]
      BY <1>1, <2>1
    <3>2. n + Callbacks(s, k) <= Len(t) /\ s[k] = t[n + Callbacks(s, k)]
      BY <1>8, <2>1, <3>1 DEF Follows, l
    <3>3. QED
      BY <1>2, <3>1, <3>2
  <2>2. CASE k \notin 1 .. l
    <3> DEFINE i == k - l
    <3>1. i \in 1 .. Len(u) /\ i \in 0 .. Len(u) /\ l + i = k
      BY <1>1, <2>2
    <3> HIDE DEF i
    <3>2. c[k] = u[i]
      BY <1>1, <3>1
    <3>3. n + Callbacks(c, k) = n + Callbacks(s, l) + Callbacks(u, i)
      <4>1. Callbacks(c, l + i) = Callbacks(s, l) + Callbacks(u, i)
        BY <1>3, <3>1
      <4>2. Callbacks(u, i) \in Nat
        BY <1>5, <3>1
      <4>3. QED
        BY <1>4, <3>1, <4>1, <4>2
    <3>4. /\ n + Callbacks(s, l) + Callbacks(u, i) <= Len(t)
          /\ u[i] = t[n + Callbacks(s, l) + Callbacks(u, i)]
      BY <1>8, <3>1, <3>2 DEF Follows
    <3>5. QED
      BY <3>2, <3>3, <3>4
  <2>3. QED
    BY <2>1, <2>2
<1>9. QED
  BY <1>6, <1>7, <1>8 DEF c, l

\* One message: it follows if it is the next one, or has no callback.
LEMMA FollowsOne ==
    ASSUME NEW m, NEW t, NEW n \in Nat
    PROVE  /\ Callbacks(<<m>>, Len(<<m>>)) = IF HasCallback(m) THEN 1 ELSE 0
           /\ Follows(n, <<m>>, t) <=> (HasCallback(m) => n + 1 <= Len(t) /\ m = t[n + 1])
<1>1. Len(<<m>>) = 1 /\ <<m>>[1] = m /\ 1 .. 1 = {1}
  OBVIOUS
<1> DEFINE s == <<m>>
<1>2. Len(s) = 1 /\ s[1] = m /\ 1 .. 1 = {1}
  BY <1>1
<1> HIDE DEF s
<1>3. {j \in 1 .. 1 : HasCallback(s[j])} = IF HasCallback(m) THEN {1} ELSE {}
  BY <1>2
<1>4. Callbacks(s, 1) = IF HasCallback(m) THEN 1 ELSE 0
  BY <1>3, FS_EmptySet, FS_Singleton DEF Callbacks
<1>5. Follows(n, s, t) <=> (HasCallback(m) => n + 1 <= Len(t) /\ m = t[n + 1])
  BY <1>2, <1>4 DEF Follows
<1>6. QED
  BY <1>2, <1>4, <1>5 DEF s

\* No message.
LEMMA FollowsNone ==
    ASSUME NEW t, NEW n \in Nat
    PROVE  Follows(n, <<>>, t) /\ Callbacks(<<>>, Len(<<>>)) = 0
<1>1. Len(<<>>) = 0 /\ 1 .. 0 = {}
  OBVIOUS
<1>2. Callbacks(<<>>, 0) = 0
  BY CallbacksFinite
<1>3. QED
  BY <1>1, <1>2 DEF Follows

\* What follows in t follows in a longer t.
LEMMA FollowsLonger ==
    ASSUME NEW M, NEW s \in Seq(M), NEW t \in Seq(M), NEW x \in Seq(M), NEW n \in Nat,
           Follows(n, s, t)
    PROVE  Follows(n, s, t \o x)
<1>1. /\ Len(s) \in Nat /\ Len(t) \in Nat /\ Len(x) \in Nat /\ Len(t \o x) = Len(t) + Len(x)
      /\ \A i \in 1 .. Len(t) : (t \o x)[i] = t[i]
  BY Positions
<1> SUFFICES ASSUME NEW k \in 1 .. Len(s), HasCallback(s[k])
             PROVE  n + Callbacks(s, k) <= Len(t \o x) /\ s[k] = (t \o x)[n + Callbacks(s, k)]
  BY DEF Follows
<1>2. n + Callbacks(s, k) <= Len(t) /\ s[k] = t[n + Callbacks(s, k)]
  BY DEF Follows
<1> DEFINE S == {j \in 1 .. k : HasCallback(s[j])}
<1>3. k \in Nat /\ k \in S
  BY <1>1
<1>4. IsFiniteSet(S) /\ Callbacks(s, k) \in Nat
  BY <1>3, CallbacksFinite
<1>5. Callbacks(s, k) # 0
  <2>1. S # {}
    BY <1>3
  <2>2. QED
    BY <1>4, <2>1, FS_EmptySet DEF Callbacks
<1>6. n + Callbacks(s, k) \in 1 .. Len(t)
  BY <1>1, <1>2, <1>4, <1>5
<1>7. QED
  BY <1>1, <1>2, <1>6

\* What is added to t follows its end.
LEMMA FollowsEnd ==
    ASSUME NEW M, NEW t \in Seq(M), NEW x \in Seq(M), \A i \in 1 .. Len(x) : HasCallback(x[i])
    PROVE  Follows(Len(t), x, t \o x) /\ Callbacks(x, Len(x)) = Len(x)
<1>1. /\ Len(t) \in Nat /\ Len(x) \in Nat /\ Len(t \o x) = Len(t) + Len(x)
      /\ \A i \in 1 .. Len(x) : (t \o x)[Len(t) + i] = x[i]
  BY Positions
<1>2. ASSUME NEW k \in 0 .. Len(x) PROVE Callbacks(x, k) = k
  <2>1. {j \in 1 .. k : HasCallback(x[j])} = 1 .. k
    BY <1>1
  <2>2. Cardinality(1 .. k) = k
    BY <1>1, FS_Interval
  <2>3. QED
    BY <2>1, <2>2 DEF Callbacks
<1>3. \A k \in 1 .. Len(x) : k \in 0 .. Len(x) /\ Len(t) + k <= Len(t \o x)
  BY <1>1
<1>4. Follows(Len(t), x, t \o x)
  BY <1>1, <1>2, <1>3 DEF Follows
<1>5. Len(x) \in 0 .. Len(x)
  BY <1>1
<1>6. QED
  BY <1>2, <1>4, <1>5

\* All that counts of a concatenation, in one place.
LEMMA ConcatFollows ==
    ASSUME NEW M, NEW s \in Seq(M), NEW u \in Seq(M), NEW t, NEW n \in Nat
    PROVE  /\ s \o u \in Seq(M)
           /\ Callbacks(s, Len(s)) \in Nat /\ Callbacks(u, Len(u)) \in Nat
           /\ Callbacks(s \o u, Len(s \o u)) = Callbacks(s, Len(s)) + Callbacks(u, Len(u))
           /\ Follows(n, s \o u, t) <=>
                 Follows(n, s, t) /\ Follows(n + Callbacks(s, Len(s)), u, t)
<1>1. s \o u \in Seq(M) /\ Len(s) \in Nat /\ Len(u) \in Nat /\ Len(s \o u) = Len(s) + Len(u)
  BY Positions
<1>2. Callbacks(s, Len(s)) \in Nat /\ Callbacks(u, Len(u)) \in Nat
  BY <1>1, CallbacksFinite
<1>3. Len(u) \in 0 .. Len(u)
  BY <1>1
<1>4. Callbacks(s \o u, Len(s) + Len(u)) = Callbacks(s, Len(s)) + Callbacks(u, Len(u))
  BY <1>3, CallbacksConcat
<1>5. Callbacks(s \o u, Len(s \o u)) = Callbacks(s, Len(s)) + Callbacks(u, Len(u))
  BY <1>1, <1>4
<1>6. Follows(n, s \o u, t) <=> Follows(n, s, t) /\ Follows(n + Callbacks(s, Len(s)), u, t)
  BY FollowsConcat
<1>7. QED
  BY <1>1, <1>2, <1>5, <1>6

\* The first message of s is taken: it is the next one or has no callback, and
\* the others follow it.
LEMMA TakeFirst ==
    ASSUME NEW M, NEW s \in Seq(M), NEW x \in Seq(M), s # <<>>, NEW t, NEW n \in Nat,
           Follows(n, s \o x, t)
    PROVE  LET c == IF HasCallback(Head(s)) THEN 1 ELSE 0
           IN  /\ Follows(n + c, Tail(s) \o x, t)
               /\ Callbacks(s \o x, Len(s \o x)) = c + Callbacks(Tail(s) \o x, Len(Tail(s) \o x))
               /\ Callbacks(Tail(s) \o x, Len(Tail(s) \o x)) \in Nat
               /\ HasCallback(Head(s)) => n + 1 <= Len(t) /\ Head(s) = t[n + 1]
<1> DEFINE h == Head(s)
           c == IF HasCallback(h) THEN 1 ELSE 0
           one == <<h>>
           r == Tail(s) \o x
<1>1. h \in M /\ one \in Seq(M) /\ Tail(s) \in Seq(M) /\ r \in Seq(M) /\ c \in Nat
  OBVIOUS
<1>2. s \o x = one \o r
  OBVIOUS
<1>3. Callbacks(one, Len(one)) = c
      /\ (Follows(n, one, t) <=> (HasCallback(h) => n + 1 <= Len(t) /\ h = t[n + 1]))
  BY FollowsOne
<1> HIDE DEF h, c, one, r
<1>4. /\ Callbacks(one \o r, Len(one \o r)) = Callbacks(one, Len(one)) + Callbacks(r, Len(r))
      /\ Callbacks(r, Len(r)) \in Nat
      /\ Follows(n, one \o r, t) <=>
            Follows(n, one, t) /\ Follows(n + Callbacks(one, Len(one)), r, t)
  BY <1>1, ConcatFollows
<1>5. Follows(n + c, r, t) /\ (HasCallback(h) => n + 1 <= Len(t) /\ h = t[n + 1])
  BY <1>2, <1>3, <1>4
<1>6. Callbacks(s \o x, Len(s \o x)) = c + Callbacks(r, Len(r)) /\ Callbacks(r, Len(r)) \in Nat
  BY <1>2, <1>3, <1>4
<1>7. QED
  BY <1>5, <1>6 DEF h, c, r

\* A message that moves from one queue to the next keeps its place.
LEMMA MoveOne ==
    ASSUME NEW M, NEW s \in Seq(M), NEW u \in Seq(M), u # <<>>
    PROVE  /\ Append(s, Head(u)) \in Seq(M) /\ Tail(u) \in Seq(M)
           /\ Append(s, Head(u)) \o Tail(u) = s \o u
OBVIOUS

\* A message without a callback may come in between.
LEMMA InsertOther ==
    ASSUME NEW M, NEW s \in Seq(M), NEW x \in Seq(M), NEW m \in M, ~HasCallback(m), NEW t,
           NEW n \in Nat, Follows(n, s \o x, t)
    PROVE  /\ Follows(n, s \o (<<m>> \o x), t)
           /\ Callbacks(s \o (<<m>> \o x), Len(s \o (<<m>> \o x))) = Callbacks(s \o x, Len(s \o x))
<1> DEFINE one == <<m>>
           k == Callbacks(s, Len(s))
           r == one \o x
<1>1. one \in Seq(M) /\ r \in Seq(M)
  OBVIOUS
<1>2. Callbacks(one, Len(one)) = 0 /\ \A i \in Nat : Follows(i, one, t)
  BY FollowsOne
<1> HIDE DEF one
<1>3. k \in Nat /\ Follows(n, s, t) /\ Follows(n + k, x, t)
      /\ Callbacks(s \o x, Len(s \o x)) = k + Callbacks(x, Len(x))
      /\ Callbacks(x, Len(x)) \in Nat
  BY ConcatFollows
<1> HIDE DEF k
<1>4. n + k \in Nat /\ n + k + 0 = n + k
  BY <1>3
<1>5. Follows(n + k, r, t) /\ Callbacks(r, Len(r)) = Callbacks(x, Len(x))
  <2>1. /\ Callbacks(one \o x, Len(one \o x)) = Callbacks(one, Len(one)) + Callbacks(x, Len(x))
        /\ Follows(n + k, one \o x, t) <=>
              Follows(n + k, one, t) /\ Follows(n + k + Callbacks(one, Len(one)), x, t)
    BY <1>1, <1>4, ConcatFollows
  <2>2. QED
    BY <1>2, <1>3, <1>4, <2>1
<1> HIDE DEF r
<1>6. /\ Callbacks(s \o r, Len(s \o r)) = Callbacks(s, Len(s)) + Callbacks(r, Len(r))
      /\ Follows(n, s \o r, t) <=> Follows(n, s, t) /\ Follows(n + Callbacks(s, Len(s)), r, t)
  BY <1>1, ConcatFollows
<1>7. Follows(n, s \o r, t) /\ Callbacks(s \o r, Len(s \o r)) = Callbacks(s \o x, Len(s \o x))
  BY <1>3, <1>5, <1>6 DEF k
<1>8. QED
  BY <1>7 DEF r, one

\* A message without a callback may come last.
LEMMA AddOther ==
    ASSUME NEW M, NEW s \in Seq(M), NEW m \in M, ~HasCallback(m), NEW t, NEW n \in Nat,
           Follows(n, s, t)
    PROVE  Follows(n, Append(s, m), t)
<1> DEFINE one == <<m>>
<1>1. one \in Seq(M) /\ Append(s, m) = s \o one
  OBVIOUS
<1>2. \A i \in Nat : Follows(i, one, t)
  BY FollowsOne
<1> HIDE DEF one
<1>3. /\ Callbacks(s, Len(s)) \in Nat
      /\ Follows(n, s \o one, t) <=> Follows(n, s, t) /\ Follows(n + Callbacks(s, Len(s)), one, t)
  BY <1>1, ConcatFollows
<1>4. n + Callbacks(s, Len(s)) \in Nat
  BY <1>3
<1>5. QED
  BY <1>1, <1>2, <1>3, <1>4

\* What is typed comes last, on the way as in the order of typing.
LEMMA TypeMore ==
    ASSUME NEW M, NEW s \in Seq(M), NEW t \in Seq(M), NEW x \in Seq(M), NEW n \in Nat,
           \A i \in 1 .. Len(x) : HasCallback(x[i]),
           Follows(n, s, t), n + Callbacks(s, Len(s)) = Len(t)
    PROVE  Follows(n, s \o x, t \o x) /\ n + Callbacks(s \o x, Len(s \o x)) = Len(t \o x)
<1>1. t \o x \in Seq(M) /\ Len(t \o x) = Len(t) + Len(x) /\ Len(t) \in Nat /\ Len(x) \in Nat
  BY Positions
<1>2. Follows(n, s, t \o x)
  BY FollowsLonger
<1>3. Follows(Len(t), x, t \o x) /\ Callbacks(x, Len(x)) = Len(x)
  BY FollowsEnd
<1> DEFINE w == t \o x
<1> HIDE DEF w
<1>4. PICK k \in Nat : k = Callbacks(s, Len(s))
  BY ConcatFollows
<1>5. /\ Callbacks(s \o x, Len(s \o x)) = Callbacks(s, Len(s)) + Callbacks(x, Len(x))
      /\ Follows(n, s \o x, w) <=> Follows(n, s, w) /\ Follows(n + Callbacks(s, Len(s)), x, w)
  BY ConcatFollows
<1>6. Follows(n, s \o x, w)
  BY <1>2, <1>3, <1>5 DEF w
<1>7. Callbacks(s \o x, Len(s \o x)) = k + Len(x) /\ n + k = Len(t)
  BY <1>3, <1>4, <1>5
<1>8. n + (k + Len(x)) = (n + k) + Len(x)
  BY <1>1
<1>9. QED
  BY <1>1, <1>6, <1>7, <1>8 DEF w

\* What has been delivered stays a prefix when more is typed, and when the next
\* message is delivered.
LEMMA PrefixSteps ==
    ASSUME NEW M, NEW d \in Seq(M), NEW t \in Seq(M), IsPrefix(d, t)
    PROVE  /\ \A x \in Seq(M) : IsPrefix(d, t \o x)
           /\ \A m \in M : Len(d) + 1 <= Len(t) /\ m = t[Len(d) + 1] => IsPrefix(d \o <<m>>, t)
<1>1. Len(d) \in Nat /\ Len(t) \in Nat /\ Len(d) <= Len(t) /\ \A i \in 1 .. Len(d) : d[i] = t[i]
  <2>1. /\ Len(d) \in Nat /\ Len(t) \in Nat /\ Len(d) <= Len(t)
        /\ SubSeq(d, 1, Len(d)) = SubSeq(t, 1, Len(d))
    BY DEF IsPrefix
  <2>2. \A i \in 1 .. Len(d) : SubSeq(d, 1, Len(d))[i] = d[i] /\ SubSeq(t, 1, Len(d))[i] = t[i]
    BY <2>1
  <2>3. QED
    BY <2>1, <2>2
<1>2. ASSUME NEW e \in Seq(M), NEW r \in Seq(M), Len(e) <= Len(r),
             \A i \in 1 .. Len(e) : e[i] = r[i]
      PROVE  IsPrefix(e, r)
  <2>1. /\ SubSeq(e, 1, Len(e)) \in Seq(M) /\ SubSeq(r, 1, Len(e)) \in Seq(M)
        /\ Len(SubSeq(e, 1, Len(e))) = Len(e) /\ Len(SubSeq(r, 1, Len(e))) = Len(e)
        /\ \A i \in 1 .. Len(e) : SubSeq(e, 1, Len(e))[i] = e[i] /\ SubSeq(r, 1, Len(e))[i] = r[i]
    BY <1>2
  <2>2. SubSeq(e, 1, Len(e)) = SubSeq(r, 1, Len(e))
    BY <1>2, <2>1, SameSequence
  <2>3. QED
    BY <1>2, <2>2 DEF IsPrefix
<1>3. ASSUME NEW x \in Seq(M) PROVE IsPrefix(d, t \o x)
  <2>1. /\ t \o x \in Seq(M) /\ Len(x) \in Nat /\ Len(t \o x) = Len(t) + Len(x)
        /\ \A i \in 1 .. Len(t) : (t \o x)[i] = t[i]
    BY Positions
  <2>2. Len(d) <= Len(t \o x) /\ \A i \in 1 .. Len(d) : d[i] = (t \o x)[i]
    BY <1>1, <2>1
  <2>3. QED
    BY <1>2, <2>1, <2>2
<1>4. ASSUME NEW m \in M, Len(d) + 1 <= Len(t), m = t[Len(d) + 1] PROVE IsPrefix(d \o <<m>>, t)
  <2>1. <<m>> \in Seq(M) /\ Len(<<m>>) = 1 /\ <<m>>[1] = m
    OBVIOUS
  <2>2. /\ d \o <<m>> \in Seq(M) /\ Len(d \o <<m>>) = Len(d) + 1
        /\ \A i \in 1 .. Len(d) : (d \o <<m>>)[i] = d[i]
        /\ (d \o <<m>>)[Len(d) + 1] = m
    BY <1>1, <2>1, Positions
  <2>3. \A i \in 1 .. Len(d) + 1 : i \in 1 .. Len(d) \/ i = Len(d) + 1
    BY <1>1
  <2>4. \A i \in 1 .. Len(d) + 1 : (d \o <<m>>)[i] = t[i]
    BY <1>1, <1>4, <2>2, <2>3
  <2>5. QED
    BY <1>2, <1>4, <2>2, <2>4
<1>5. QED
  BY <1>3, <1>4

\* A sequence is one of its own elements.
LEMMA OwnElements ==
    ASSUME NEW T, NEW s \in Seq(T)
    PROVE  s \in Seq(Range(s)) /\ Range(s) \subseteq T /\ Range(s) = {s[i] : i \in 1 .. Len(s)}
BY DEF Range

\* The pieces of a text are messages with a callback.
LEMMA PiecesHaveCallbacks ==
    ASSUME NEW data \in Seq(Nat)
    PROVE  \E T : Pieces(data) \in Seq(T) /\ \A m \in T : HasCallback(m)
<1> DEFINE n == Len(data) \div DATA_MAX_LENGTH
           cut == [i \in 1 .. n |->
                      Message("MESSAGE",
                              SubSeq(data, DATA_MAX_LENGTH * (i - 1) + 1, DATA_MAX_LENGTH * i))]
           rest == SubSeq(data, DATA_MAX_LENGTH * n + 1, Len(data))
           T == {cut[i] : i \in 1 .. n} \cup {Message("MESSAGE", rest)}
<1>1. n \in Nat
  BY TextBoxInputAssumption
<1>2. Pieces(data) = cut \o IF rest = <<>> THEN <<>> ELSE <<Message("MESSAGE", rest)>>
  BY DEF Pieces, PiecesWhole
<1>3. \A m \in T : HasCallback(m)
  <2>1. \A x : HasCallback(Message("MESSAGE", x))
    BY DEF HasCallback, Message
  <2>2. \A i \in 1 .. n : \E x : cut[i] = Message("MESSAGE", x)
    OBVIOUS
  <2> HIDE DEF n, cut, rest
  <2>3. QED
    BY <2>1, <2>2
<1>4. DOMAIN cut = 1 .. n
  OBVIOUS
<1> HIDE DEF n, rest
<1>5. cut \in [1 .. n -> T]
  OBVIOUS
<1> HIDE DEF cut
<1>6. cut \in Seq(T)
  BY <1>1, <1>5
<1>7. Message("MESSAGE", rest) \in T
  OBVIOUS
<1> HIDE DEF T
<1>8. <<>> \in Seq(T) /\ <<Message("MESSAGE", rest)>> \in Seq(T)
  BY <1>7
<1>9. Pieces(data) \in Seq(T)
  BY <1>2, <1>6, <1>8
<1>10. QED
  BY <1>3, <1>9

\* What a line asks for is a sequence of messages with a callback.
LEMMA OutcomesHaveCallbacks ==
    ASSUME NEW line \in Lines, NEW messages \in Outcomes(line)
    PROVE  messages \in Seq(Asked) /\ \A m \in Range(messages) : HasCallback(m)
<1>1. \E T : messages \in Seq(T) /\ \A m \in T : HasCallback(m)
  <2>1. \A data : HasCallback(Message("CONTACTS_SELECT", data))
    BY DEF HasCallback, Message
  <2>2. ASSUME NEW data, messages = <<Message("CONTACTS_SELECT", data)>>
        PROVE  \E T : messages \in Seq(T) /\ \A m \in T : HasCallback(m)
    <3>1. messages \in Seq({Message("CONTACTS_SELECT", data)})
      BY <2>2
    <3>2. QED
      BY <2>1, <3>1
  <2>3. CASE messages = <<>>
    <3>1. messages \in Seq({})
      BY <2>3
    <3>2. QED
      BY <3>1
  <2>4. CASE messages = Pieces(line.data)
    BY <2>4, PiecesHaveCallbacks, TextBoxAssumption
  <2>5. \/ messages = <<>> \/ messages = Pieces(line.data)
        \/ \E data : messages = <<Message("CONTACTS_SELECT", data)>>
    BY DEF Outcomes, Queues
  <2>6. QED
    BY <2>2, <2>3, <2>4, <2>5
<1>2. messages \in Seq(Range(messages)) /\ \A m \in Range(messages) : HasCallback(m)
  BY <1>1, OwnElements
<1>3. Range(messages) \subseteq Asked
  BY DEF Asked
<1>4. QED
  BY <1>2, <1>3

\* Every message a line may ask for has a callback.
LEMMA AskedHaveCallbacks == \A m \in Asked : HasCallback(m)
BY OutcomesHaveCallbacks DEF Asked

\* Heartbeats and goodbyes have none, and the handler tells them from the others.
LEMMA OthersHaveNoCallback ==
    /\ ~HasCallback(Heartbeat) /\ ~HasCallback(Goodbye) /\ ~HasCallback(Undefined)
    /\ Heartbeat \notin Asked /\ Goodbye \notin Asked /\ Undefined \notin Asked
<1>1. ~HasCallback(Heartbeat) /\ ~HasCallback(Goodbye) /\ ~HasCallback(Undefined)
  BY DEF HasCallback, Heartbeat, Goodbye, Undefined, Message
<1>2. QED
  BY <1>1, AskedHaveCallbacks

-----------------------------------------------------------------------------
(***************************************************************************)
(* The inductive invariant.                                                *)
(***************************************************************************)
Messages == Asked \cup {Heartbeat, Goodbye}

\* A side that has yet to open the pipe has attempts left, and main() of the
\* textbox has not started before its side is open.
OpenInv ==
    /\ pc["application"] \in {"create", "open"} =>
          pc["main"] = "none" /\ opens["application"] > 0
    /\ pc["handler"] = "open" => opens["handler"] > 0

\* main() has sent all it has taken when it takes more.
BatchInv == pc["main"] \in {"none", "loop"} => batch = <<>>

\* What is in the pipe follows what has been delivered, also behind a stop.
PipeInv ==
    /\ IsPrefix(delivered, typed)
    /\ Follows(Len(delivered), pipe, typed)

Behind == batch \o (mQueued \o pending)

\* The textbox has not stopped, nor given up a send.
Sound == ~stopped["textbox"] /\ pc["main"] # "goodbye"

\* As long, everything typed has been delivered or follows.
AllInv ==
    Sound =>
        /\ Follows(Len(delivered), pipe \o Behind, typed)
        /\ Len(delivered) + Callbacks(pipe \o Behind, Len(pipe \o Behind)) = Len(typed)

IInv == TypeOK /\ OpenInv /\ BatchInv /\ PipeInv /\ AllInv

\* The types of the queues.
QueueType ==
    /\ typed \in Seq(Asked) /\ pending \in Seq(Asked) /\ mQueued \in Seq(Asked)
    /\ delivered \in Seq(Asked)
    /\ batch \in Seq(Asked \cup {Heartbeat})
    /\ pipe \in Seq(Messages)

\* All that is said of the queues.
Ordered == QueueType /\ BatchInv /\ PipeInv /\ AllInv

\* The types of the control.
Places == {"none", "create", "open", "failed", "check", "checked", "blocked", "join",
           "loop", "last", "send", "goodbye", "ended"}

ControlType ==
    /\ stopped \in [{"textbox", "engine"} -> BOOLEAN]
    /\ pc \in [Threads -> Places]

\* What has been typed, queued and sent are all sequences of messages.
LEMMA AllMessages ==
    ASSUME QueueType
    PROVE  /\ typed \in Seq(Messages) /\ pending \in Seq(Messages) /\ mQueued \in Seq(Messages)
           /\ delivered \in Seq(Messages) /\ batch \in Seq(Messages) /\ pipe \in Seq(Messages)
           /\ Behind \in Seq(Messages)
           /\ OnItsWay = pipe \o Behind
           /\ Len(delivered) \in Nat /\ Len(typed) \in Nat
<1>1. /\ typed \in Seq(Messages) /\ pending \in Seq(Messages) /\ mQueued \in Seq(Messages)
      /\ delivered \in Seq(Messages) /\ batch \in Seq(Messages) /\ pipe \in Seq(Messages)
  BY DEF QueueType, Messages
<1> HIDE DEF Messages
<1>2. mQueued \o pending \in Seq(Messages) /\ batch \o (mQueued \o pending) \in Seq(Messages)
  BY <1>1
<1>3. ((pipe \o batch) \o mQueued) \o pending = pipe \o (batch \o (mQueued \o pending))
  <2>1. PICK M, pb, mp : M = Messages /\ pb = pipe \o batch /\ mp = mQueued \o pending
    OBVIOUS
  <2>2. pipe \in Seq(M) /\ batch \in Seq(M) /\ mQueued \in Seq(M) /\ pending \in Seq(M)
    BY <1>1, <2>1
  <2>3. pb \in Seq(M) /\ mp \in Seq(M)
    BY <2>1, <2>2
  <2>4. (pb \o mQueued) \o pending = pb \o (mQueued \o pending)
    BY <2>2, <2>3
  <2>5. (pipe \o batch) \o mp = pipe \o (batch \o mp)
    BY <2>2, <2>3
  <2>6. QED
    BY <2>1, <2>4, <2>5, Zenon
<1>4. QED
  BY <1>1, <1>2, <1>3 DEF Behind, OnItsWay

\* The queues are left alone: what matters of the control may only get weaker.
LEMMA QueuesKept ==
    ASSUME Ordered,
           UNCHANGED <<typed, pending, mQueued, batch, pipe, delivered>>,
           pc'["main"] \in {"none", "loop"} => pc["main"] \in {"none", "loop"},
           Sound' => Sound
    PROVE  Ordered'
<1> USE DEF Ordered
<1>1. QueueType'
  BY DEF QueueType
<1>2. BatchInv' /\ PipeInv'
  <2>1. BatchInv'
    BY DEF BatchInv
  <2>2. PipeInv'
    BY DEF PipeInv
  <2>3. QED
    BY <2>1, <2>2
<1>3. UNCHANGED Behind
  BY DEF Behind
<1>4. AllInv'
  BY <1>3 DEF AllInv
<1>5. QED
  BY <1>1, <1>2, <1>4

\* The next line is read when everything the last one asked for is queued; what
\* it asks for comes behind all that is on its way.
LEMMA ReadLineOrdered ==
    ASSUME Ordered, ControlType, NEW line \in Lines, ReadLine(line)
    PROVE  Ordered'
<1> USE DEF Ordered
<1>1. PICK x \in Outcomes(line) : pending' = x /\ typed' = typed \o x
  BY DEF ReadLine
<1>2. pending = <<>> /\ UNCHANGED <<mQueued, batch, pipe, delivered>>
  BY DEF ReadLine, pipeVars
<1>3. pc'["main"] = pc["main"]
  BY DEF ReadLine, StopBox, Goto, ControlType, Threads, BoxThreads
<1>4. ~stopped'["textbox"] => ~stopped["textbox"]
  BY Zenon DEF ReadLine, StopBox, Goto, ControlType
<1>5. x \in Seq(Asked) /\ x \in Seq(Messages) /\ \A i \in 1 .. Len(x) : HasCallback(x[i])
  <2>1. x \in Seq(Asked)
    BY OutcomesHaveCallbacks
  <2>2. x \in Seq(Messages)
    BY <2>1 DEF Messages
  <2>3. QED
    BY <2>1, <2>2, AskedHaveCallbacks
<1>6. QueueType'
  BY <1>1, <1>2, <1>5 DEF QueueType
<1>7. BatchInv'
  BY <1>2, <1>3 DEF BatchInv
<1>8. /\ typed \in Seq(Messages) /\ pending \in Seq(Messages) /\ mQueued \in Seq(Messages)
      /\ delivered \in Seq(Messages) /\ batch \in Seq(Messages) /\ pipe \in Seq(Messages)
      /\ Behind \in Seq(Messages) /\ Len(delivered) \in Nat
  BY AllMessages
<1>9. PICK n \in Nat : n = Len(delivered)
  BY <1>8
<1>10. ASSUME NEW s \in Seq(Messages), Follows(n, s, typed) PROVE Follows(n, s, typed')
  BY <1>1, <1>5, <1>8, <1>10, FollowsLonger
<1>11. PipeInv'
  <2>1. IsPrefix(delivered, typed)
    BY DEF PipeInv
  <2>2. IsPrefix(delivered, typed \o x)
    BY <1>5, <1>8, <2>1, PrefixSteps
  <2>3. QED
    BY <1>1, <1>2, <1>8, <1>9, <1>10, <2>2 DEF PipeInv
<1>12. AllInv'
  <2> SUFFICES ASSUME Sound' PROVE AllInv'
    BY DEF AllInv
  <2>1. Sound
    BY <1>3, <1>4 DEF Sound
  <2>2. PICK M : M = Messages
    OBVIOUS
  <2>3. PICK s : s = pipe \o Behind
    OBVIOUS
  <2>4. s \in Seq(M) /\ typed \in Seq(M) /\ x \in Seq(M)
    BY <1>5, <1>8, <2>2, <2>3
  <2>5. Follows(n, s, typed) /\ n + Callbacks(s, Len(s)) = Len(typed)
    BY <1>9, <2>1, <2>3 DEF AllInv
  <2>6. Follows(n, s \o x, typed \o x) /\ n + Callbacks(s \o x, Len(s \o x)) = Len(typed \o x)
    BY <1>5, <2>4, <2>5, TypeMore
  <2>7. pipe \o Behind' = s \o x
    <3>1. pipe \in Seq(M) /\ batch \in Seq(M) /\ mQueued \in Seq(M)
      BY <1>8, <2>2
    <3>2. PICK bm : bm = batch \o mQueued
      OBVIOUS
    <3>3. bm \in Seq(M) /\ mQueued \o <<>> = mQueued
      BY <3>1, <3>2
    <3>4. (pipe \o bm) \o x = pipe \o (bm \o x)
      BY <2>4, <3>1, <3>3
    <3>5. (batch \o mQueued) \o x = batch \o (mQueued \o x)
      BY <2>4, <3>1
    <3>6. QED
      BY <1>1, <1>2, <2>3, <3>2, <3>3, <3>4, <3>5, Zenon DEF Behind
  <2>8. QED
    BY <1>1, <1>2, <1>9, <2>6, <2>7 DEF AllInv
<1>13. QED
  BY <1>6, <1>7, <1>11, <1>12

\* A message that is queued keeps its place.
LEMMA QueueMessageOrdered ==
    ASSUME Ordered, QueueMessage
    PROVE  Ordered'
<1> USE DEF Ordered
<1>1. /\ pending # <<>> /\ mQueued' = Append(mQueued, Head(pending)) /\ pending' = Tail(pending)
      /\ UNCHANGED <<typed, batch, pipe, delivered, stopped, pc>>
  BY DEF QueueMessage, QueuedLast, pipeVars
<1>2. mQueued \in Seq(Asked) /\ pending \in Seq(Asked)
  BY DEF QueueType
<1>3. /\ mQueued' \in Seq(Asked) /\ pending' \in Seq(Asked)
      /\ mQueued' \o pending' = mQueued \o pending
  BY <1>1, <1>2, MoveOne
<1>4. QueueType'
  BY <1>1, <1>3 DEF QueueType
<1>5. BatchInv' /\ PipeInv'
  <2>1. BatchInv'
    BY <1>1 DEF BatchInv
  <2>2. PipeInv'
    BY <1>1 DEF PipeInv
  <2>3. QED
    BY <2>1, <2>2
<1>6. UNCHANGED <<Behind, Sound>>
  BY <1>1, <1>3 DEF Behind, Sound
<1>7. AllInv'
  BY <1>1, <1>6 DEF AllInv
<1>8. QED
  BY <1>4, <1>5, <1>7

\* main() takes all there is, or a heartbeat when there is nothing.
LEMMA MainTakeOrdered ==
    ASSUME Ordered, ControlType, MainTake
    PROVE  Ordered'
<1> USE DEF Ordered
<1>1. pc["main"] = "loop" /\ UNCHANGED <<typed, pending, pipe, delivered>>
  BY DEF MainTake, At, inputVars, pipeVars
<1>2. CASE stopped["textbox"]
  <2>1. UNCHANGED <<mQueued, batch, stopped>> /\ pc'["main"] = "goodbye"
    BY <1>2 DEF MainTake, Goto, ControlType, Threads, BoxThreads
  <2>2. ~Sound'
    BY <2>1 DEF Sound
  <2>3. QED
    BY <1>1, <2>1, <2>2, QueuesKept
<1>3. CASE ~stopped["textbox"]
  <2>1. /\ batch' = (IF mQueued = <<>> THEN <<Heartbeat>> ELSE mQueued)
        /\ mQueued' = <<>> /\ UNCHANGED stopped /\ pc'["main"] = "send"
    BY <1>3 DEF MainTake, Goto, TakenAll, ControlType, Threads, BoxThreads
  <2>2. batch = <<>>
    BY <1>1 DEF BatchInv
  <2>3. Sound
    BY <1>1, <1>3 DEF Sound
  <2>4. /\ typed \in Seq(Messages) /\ pending \in Seq(Messages) /\ mQueued \in Seq(Messages)
        /\ pipe \in Seq(Messages) /\ Behind \in Seq(Messages) /\ Len(delivered) \in Nat
    BY AllMessages
  <2>5. PICK n \in Nat : n = Len(delivered)
    BY <2>4
  <2>6. PICK M : M = Messages
    OBVIOUS
  <2>7. pending \in Seq(M) /\ mQueued \in Seq(M) /\ pipe \in Seq(M) /\ batch' \in Seq(M)
    <3>1. pending \in Seq(M) /\ mQueued \in Seq(M) /\ pipe \in Seq(M) /\ Heartbeat \in M
      BY <2>4, <2>6 DEF Messages
    <3>2. QED
      BY <2>1, <3>1
  <2>8. /\ Follows(n, pipe \o Behind, typed)
        /\ n + Callbacks(pipe \o Behind, Len(pipe \o Behind)) = Len(typed)
    BY <2>3, <2>5 DEF AllInv
  <2>9. /\ Follows(n, pipe \o Behind', typed)
        /\ n + Callbacks(pipe \o Behind', Len(pipe \o Behind')) = Len(typed)
    <3>1. CASE mQueued # <<>>
      <4>1. <<>> \o (mQueued \o pending) = mQueued \o (<<>> \o pending)
        BY <2>7
      <4>2. Behind' = Behind
        BY <1>1, <2>1, <2>2, <3>1, <4>1 DEF Behind
      <4>3. QED
        BY <2>8, <4>2
    <3>2. CASE mQueued = <<>>
      <4>1. <<>> \o (<<>> \o pending) = pending
        BY <2>7
      <4>2. Behind = pending
        BY <2>2, <3>2, <4>1 DEF Behind
      <4>3. <<>> \o pending = pending
        BY <2>7
      <4>4. Behind' = <<Heartbeat>> \o pending
        BY <1>1, <2>1, <3>2, <4>3 DEF Behind
      <4>5. Heartbeat \in M /\ ~HasCallback(Heartbeat)
        BY <2>6, OthersHaveNoCallback DEF Messages
      <4>6. PICK r : r = <<Heartbeat>> \o pending
        OBVIOUS
      <4>7. Follows(n, pipe \o pending, typed)
        BY <2>8, <4>2
      <4>8. /\ Follows(n, pipe \o r, typed)
            /\ Callbacks(pipe \o r, Len(pipe \o r))
                  = Callbacks(pipe \o pending, Len(pipe \o pending))
        BY <2>7, <4>5, <4>6, <4>7, InsertOther
      <4>9. QED
        BY <2>8, <4>2, <4>4, <4>6, <4>8
    <3>3. QED
      BY <3>1, <3>2
  <2>10. AllInv'
    BY <1>1, <2>5, <2>9 DEF AllInv
  <2>11. BatchInv' /\ PipeInv'
    <3>1. BatchInv'
      BY <2>1 DEF BatchInv
    <3>2. PipeInv'
      BY <1>1 DEF PipeInv
    <3>3. QED
      BY <3>1, <3>2
  <2>12. QueueType'
    <3>1. mQueued \in Seq(Asked)
      BY DEF QueueType
    <3>2. /\ mQueued \in Seq(Asked \cup {Heartbeat})
          /\ <<Heartbeat>> \in Seq(Asked \cup {Heartbeat})
          /\ <<>> \in Seq(Asked)
      BY <3>1
    <3>3. batch' \in Seq(Asked \cup {Heartbeat}) /\ mQueued' \in Seq(Asked)
      BY <2>1, <3>2
    <3>4. QED
      BY <1>1, <3>3 DEF QueueType
  <2>13. QED
    BY <2>10, <2>11, <2>12
<1>4. QED
  BY <1>2, <1>3

\* main() sends what it has taken, in its order; what it has left is dropped only
\* when the textbox stops.
LEMMA MainSendOrdered ==
    ASSUME Ordered, ControlType, MainSend
    PROVE  Ordered'
<1> USE DEF Ordered
<1>1. pc["main"] = "send" /\ UNCHANGED <<typed, pending, mQueued, delivered>>
  BY DEF MainSend, At, inputVars
<1>2. CASE batch = <<>> \/ stopped["textbox"]
  <2>1. pc'["main"] = "loop" /\ batch' = <<>> /\ UNCHANGED <<pipe, stopped>>
    BY <1>2 DEF MainSend, Goto, ControlType, Threads, BoxThreads
  <2>2. BatchInv'
    BY <2>1 DEF BatchInv
  <2>3. PipeInv'
    BY <1>1, <2>1 DEF PipeInv
  <2>4. QueueType'
    BY <1>1, <2>1 DEF QueueType
  <2>5. AllInv'
    <3>1. CASE stopped["textbox"]
      BY <2>1, <3>1 DEF AllInv, Sound
    <3>2. CASE batch = <<>>
      <4>1. UNCHANGED Behind
        BY <1>1, <2>1, <3>2 DEF Behind
      <4>2. Sound' => Sound
        BY <1>1, <2>1 DEF Sound
      <4>3. QED
        BY <1>1, <2>1, <4>1, <4>2 DEF AllInv
    <3>3. QED
      BY <1>2, <3>1, <3>2
  <2>6. QED
    BY <2>2, <2>3, <2>4, <2>5
<1>3. CASE batch # <<>> /\ ~stopped["textbox"] /\ CanWrite
  <2>1. /\ pipe' = Append(pipe, Head(batch)) /\ batch' = Tail(batch)
        /\ UNCHANGED <<stopped, pc>>
    BY <1>3 DEF MainSend
  <2>2. /\ typed \in Seq(Messages) /\ pending \in Seq(Messages) /\ mQueued \in Seq(Messages)
        /\ batch \in Seq(Messages)
        /\ pipe \in Seq(Messages) /\ Behind \in Seq(Messages) /\ Len(delivered) \in Nat
    BY AllMessages
  <2>3. PICK n \in Nat : n = Len(delivered)
    BY <2>2
  <2>4. /\ pipe' \in Seq(Messages) /\ batch' \in Seq(Messages)
        /\ pipe' \o batch' = pipe \o batch
    <3>1. batch # <<>>
      BY <1>3
    <3>2. PICK M : M = Messages
      OBVIOUS
    <3>3. pipe \in Seq(M) /\ batch \in Seq(M)
      BY <2>2, <3>2
    <3>4. /\ Append(pipe, Head(batch)) \in Seq(M) /\ Tail(batch) \in Seq(M)
          /\ Append(pipe, Head(batch)) \o Tail(batch) = pipe \o batch
      BY <3>1, <3>3
    <3>5. QED
      BY <2>1, <3>2, <3>4
  <2>5. pipe' \o Behind' = pipe \o Behind /\ Behind' \in Seq(Messages)
    <3>1. PICK y : y = mQueued \o pending
      OBVIOUS
    <3>2. PICK a, b, M : a = pipe' /\ b = batch' /\ M = Messages
      OBVIOUS
    <3>3. /\ a \in Seq(M) /\ b \in Seq(M) /\ pipe \in Seq(M) /\ batch \in Seq(M)
          /\ y \in Seq(M)
      BY <2>2, <2>4, <3>1, <3>2
    <3>4. a \o (b \o y) = (a \o b) \o y /\ b \o y \in Seq(M)
      BY <3>3
    <3>5. (pipe \o batch) \o y = pipe \o (batch \o y)
      BY <3>3
    <3>6. QED
      BY <1>1, <2>4, <3>1, <3>2, <3>4, <3>5 DEF Behind
  <2>6. PipeInv'
    <3>1. Sound
      BY <1>1, <1>3 DEF Sound
    <3>2. Follows(n, pipe' \o Behind', typed)
      BY <2>3, <2>5, <3>1 DEF AllInv
    <3>3. Follows(n, pipe', typed)
      BY <2>4, <2>5, <3>2, FollowsConcat
    <3>4. QED
      BY <1>1, <2>3, <3>3 DEF PipeInv
  <2>7. AllInv'
    <3>1. UNCHANGED Sound
      BY <2>1 DEF Sound
    <3>2. QED
      BY <1>1, <2>5, <3>1 DEF AllInv
  <2>8. BatchInv'
    BY <1>1, <2>1 DEF BatchInv
  <2>9. QueueType'
    <3>1. batch' \in Seq(Asked \cup {Heartbeat})
      BY <1>3, <2>1, FirstAndRest DEF QueueType
    <3>2. QED
      BY <1>1, <2>4, <3>1 DEF QueueType
  <2>10. QED
    BY <2>6, <2>7, <2>8, <2>9
<1>4. CASE batch # <<>> /\ ~stopped["textbox"] /\ ~CanWrite
  <2>1. pc'["main"] = "goodbye" /\ UNCHANGED <<pipe, batch, stopped>>
    BY <1>4 DEF MainSend, Goto, ControlType, Threads, BoxThreads
  <2>2. ~Sound'
    BY <2>1 DEF Sound
  <2>3. QED
    BY <1>1, <2>1, <2>2, QueuesKept
<1>5. QED
  BY <1>2, <1>3, <1>4

\* The goodbye is the last message of the textbox.
LEMMA SendGoodbyeOrdered ==
    ASSUME Ordered, ControlType, SendGoodbye
    PROVE  Ordered'
<1> USE DEF Ordered
<1>1. /\ pc["main"] = "goodbye" /\ UNCHANGED <<typed, pending, mQueued, batch, delivered>>
      /\ pipe' = IF CanWrite THEN Append(pipe, Goodbye) ELSE pipe
  BY DEF SendGoodbye, At, inputVars
<1>2. pc'["main"] = "ended"
  BY DEF SendGoodbye, MainEnds, StopBox, ControlType, Threads, BoxThreads
<1>3. stopped'["textbox"]
  BY Zenon DEF SendGoodbye, MainEnds, StopBox, ControlType
<1>4. BatchInv'
  BY <1>2 DEF BatchInv
<1>5. AllInv'
  BY <1>3 DEF AllInv, Sound
<1>6. /\ pipe \in Seq(Messages) /\ Len(delivered) \in Nat
  BY AllMessages
<1>7. Goodbye \in Messages /\ ~HasCallback(Goodbye)
  BY OthersHaveNoCallback DEF Messages
<1>8. QueueType'
  <2>1. Append(pipe, Goodbye) \in Seq(Messages)
    BY <1>6, <1>7, AddLast
  <2>2. pipe' \in Seq(Messages)
    BY <1>1, <1>6, <2>1
  <2>3. QED
    BY <1>1, <2>2 DEF QueueType
<1>9. PipeInv'
  <2>1. Follows(Len(delivered), pipe, typed)
    BY DEF PipeInv
  <2>2. Follows(Len(delivered), Append(pipe, Goodbye), typed)
    BY <1>6, <1>7, <2>1, AddOther
  <2>3. QED
    BY <1>1, <2>1, <2>2 DEF PipeInv
<1>10. QED
  BY <1>4, <1>5, <1>8, <1>9

\* The handler takes the first message of the pipe and calls its callback, if it
\* has one: the next of what has been typed.
LEMMA HandlerReceiveOrdered ==
    ASSUME Ordered, ControlType, HandlerReceive
    PROVE  Ordered'
<1> USE DEF Ordered
<1>1. /\ pipe # <<>> /\ pipe' = Tail(pipe)
      /\ UNCHANGED <<typed, pending, mQueued, batch>>
  BY DEF HandlerReceive, inputVars
<1>2. pc'["main"] = pc["main"]
  BY DEF HandlerReceive, HandlerEnds, HandlerAgain, ControlType, Threads, BoxThreads
<1>3. stopped'["textbox"] = stopped["textbox"]
  <2>1. UNCHANGED stopped \/ stopped' = [stopped EXCEPT !["engine"] = TRUE]
    BY Zenon DEF HandlerReceive, HandlerEnds, HandlerAgain
  <2>2. QED
    BY <2>1 DEF ControlType
<1>4. /\ typed \in Seq(Messages) /\ delivered \in Seq(Messages) /\ batch \in Seq(Messages)
      /\ pipe \in Seq(Messages) /\ Behind \in Seq(Messages) /\ Len(delivered) \in Nat
  BY AllMessages
<1>5. PICK n \in Nat : n = Len(delivered)
  BY <1>4
<1>6. PICK h : h = Head(pipe)
  OBVIOUS
<1>7. h \in Messages /\ pipe' \in Seq(Messages)
  BY <1>1, <1>4, <1>6, FirstAndRest
<1>8. PICK c \in {0, 1} : c = IF HasCallback(h) THEN 1 ELSE 0
  OBVIOUS
<1>9. /\ HasCallback(h) => h \in Asked /\ delivered' = delivered \o <<h>>
      /\ ~HasCallback(h) => delivered' = delivered
  <2>1. CASE h \in Asked
    <3>1. HasCallback(h) /\ h \notin {Goodbye, Undefined} /\ h # Heartbeat
      BY <2>1, AskedHaveCallbacks, OthersHaveNoCallback
    <3>2. delivered' = delivered \o <<h>>
      BY <1>6, <3>1 DEF HandlerReceive, Called
    <3>3. QED
      BY <2>1, <3>1, <3>2
  <2>2. CASE h = Heartbeat
    <3>1. ~HasCallback(h)
      BY <2>2, OthersHaveNoCallback
    <3>2. delivered' = delivered \o <<>> \/ delivered' = delivered
      BY <1>6, <2>2 DEF HandlerReceive, Called
    <3>3. QED
      BY <1>4, <3>1, <3>2
  <2>3. CASE h = Goodbye
    <3>1. ~HasCallback(h)
      BY <2>3, OthersHaveNoCallback
    <3>2. QED
      BY <1>6, <2>3, <3>1 DEF HandlerReceive
  <2>4. QED
    BY <1>7, <2>1, <2>2, <2>3 DEF Messages
<1>10. delivered' \in Seq(Asked) /\ Len(delivered') = n + c
  <2>1. delivered \in Seq(Asked)
    BY DEF QueueType
  <2>2. CASE HasCallback(h)
    BY <1>5, <1>8, <1>9, <2>1, <2>2
  <2>3. CASE ~HasCallback(h)
    BY <1>5, <1>8, <1>9, <2>1, <2>3
  <2>4. QED
    BY <2>2, <2>3
<1>11. ASSUME NEW x \in Seq(Messages), Follows(n, pipe \o x, typed)
       PROVE  /\ Follows(n + c, pipe' \o x, typed)
              /\ Callbacks(pipe \o x, Len(pipe \o x)) = c + Callbacks(pipe' \o x, Len(pipe' \o x))
              /\ Callbacks(pipe' \o x, Len(pipe' \o x)) \in Nat
              /\ HasCallback(h) => n + 1 <= Len(typed) /\ h = typed[n + 1]
  BY <1>1, <1>4, <1>6, <1>8, <1>11, TakeFirst
<1>12. QueueType'
  BY <1>1, <1>7, <1>10 DEF QueueType
<1>13. BatchInv'
  BY <1>1, <1>2 DEF BatchInv
<1>14. PipeInv'
  <2>1. pipe \o <<>> = pipe /\ pipe' \o <<>> = pipe' /\ <<>> \in Seq(Messages)
    BY <1>4, <1>7
  <2>2. Follows(n, pipe \o <<>>, typed) /\ IsPrefix(delivered, typed)
    BY <1>5, <2>1 DEF PipeInv
  <2>3. Follows(n + c, pipe', typed) /\ (HasCallback(h) => n + 1 <= Len(typed) /\ h = typed[n + 1])
    BY <1>11, <2>1, <2>2
  <2>4. IsPrefix(delivered', typed)
    <3>1. CASE HasCallback(h)
      <4>1. Len(delivered) + 1 <= Len(typed) /\ h = typed[Len(delivered) + 1]
        BY <1>5, <2>3, <3>1
      <4>2. IsPrefix(delivered \o <<h>>, typed)
        BY <1>4, <1>7, <2>2, <4>1, PrefixSteps
      <4>3. QED
        BY <1>9, <3>1, <4>2
    <3>2. CASE ~HasCallback(h)
      BY <1>9, <2>2, <3>2
    <3>3. QED
      BY <3>1, <3>2
  <2>5. QED
    BY <1>1, <1>10, <2>3, <2>4 DEF PipeInv
<1>15. AllInv'
  <2> SUFFICES ASSUME Sound PROVE AllInv'
    BY <1>2, <1>3 DEF AllInv, Sound
  <2>1. /\ Follows(n, pipe \o Behind, typed)
        /\ n + Callbacks(pipe \o Behind, Len(pipe \o Behind)) = Len(typed)
    BY <1>5 DEF AllInv
  <2>2. PICK k \in Nat : k = Callbacks(pipe' \o Behind, Len(pipe' \o Behind))
    BY <1>4, <1>11, <2>1
  <2>3. /\ Follows(n + c, pipe' \o Behind, typed)
        /\ Callbacks(pipe \o Behind, Len(pipe \o Behind)) = c + k
    BY <1>4, <1>11, <2>1, <2>2
  <2>4. n + (c + k) = (n + c) + k
    BY <1>8
  <2>5. UNCHANGED Behind
    BY <1>1 DEF Behind
  <2>6. QED
    BY <1>1, <1>10, <2>1, <2>2, <2>3, <2>4, <2>5 DEF AllInv
<1>16. QED
  BY <1>12, <1>13, <1>14, <1>15

\* The other types.
FlagType == {fifo, writerOpen, readerOpen, lost} \subseteq BOOLEAN

CountType ==
    /\ nLines \in 0 .. MaxLines
    /\ try \in 1 .. RECEIVE_TRY_COUNT
    /\ Len(pipe) <= PipeCapacity

OpenType == opens \in [{"application", "handler"} -> 0 .. Attempts]

\* Threads go from place to place, and stops are stored.
LEMMA ControlStep ==
    ASSUME ControlType, [Next]_vars
    PROVE  ControlType'
<1> USE DEF ControlType, Places, Threads, BoxThreads
<1>1. ASSUME nLines < MaxLines, NEW line \in Lines, ReadLine(line) PROVE ControlType'
  BY <1>1 DEF ReadLine, Goto, StopBox
<1>2. CASE MakeFifo
  BY <1>2 DEF MakeFifo, Goto
<1>3. CASE OpenForWriting
  BY <1>3 DEF OpenForWriting
<1>4. CASE OpenForWritingFails
  BY <1>4 DEF OpenForWritingFails, Goto
<1>5. CASE OpenForReading
  BY <1>5 DEF OpenForReading, Goto
<1>6. CASE OpenForReadingFails
  BY <1>6 DEF OpenForReadingFails
<1>7. CASE QueueMessage
  BY <1>7 DEF QueueMessage
<1>8. CASE MainTake
  BY <1>8 DEF MainTake, Goto
<1>9. CASE MainSend
  BY <1>9 DEF MainSend, Goto
<1>10. CASE SendGoodbye
  BY <1>10 DEF SendGoodbye, MainEnds, StopBox, At
<1>11. CASE WaitCheck
  BY <1>11 DEF WaitCheck, Goto
<1>12. CASE WaitBlock
  BY <1>12 DEF WaitBlock, Goto
<1>13. CASE DestroyBox
  BY <1>13 DEF DestroyBox
<1>14. CASE HandlerReceive
  BY <1>14 DEF HandlerReceive, HandlerEnds, HandlerAgain
<1>15. CASE HandlerEndOfFile
  BY <1>15 DEF HandlerEndOfFile, HandlerEnds
<1>16. CASE HandlerReadFails
  BY <1>16 DEF HandlerReadFails, HandlerEnds
<1>17. CASE DestroyHandler
  BY <1>17 DEF DestroyHandler
<1>18. CASE SignalStops
  BY <1>18 DEF SignalStops, StopBox, At
<1>19. CASE EngineStops
  BY <1>19 DEF EngineStops
<1>20. CASE BoxDies
  BY <1>20 DEF BoxDies
<1>21. CASE EngineDies
  BY <1>21 DEF EngineDies
<1>22. CASE UNCHANGED vars
  BY <1>22 DEF vars
<1>23. CASE MakeFifoFails
  BY <1>23 DEF MakeFifoFails, Goto
<1>24. CASE GiveUp
  BY <1>24 DEF GiveUp
<1>25. QED
  BY <1>1, <1>2, <1>3, <1>4, <1>5, <1>6, <1>7, <1>8, <1>9, <1>10, <1>11, <1>12,
     <1>13, <1>14, <1>15, <1>16, <1>17, <1>18, <1>19, <1>20, <1>21, <1>22, <1>23, <1>24
  DEF Next, Main, Application, Handler

\* The flags stay flags.
LEMMA FlagStep ==
    ASSUME FlagType, [Next]_vars
    PROVE  FlagType'
<1> USE DEF FlagType, openVars, inputVars, pipeVars, exchangeVars
<1>1. ASSUME nLines < MaxLines, NEW line \in Lines, ReadLine(line) PROVE FlagType'
  BY <1>1 DEF ReadLine, Goto, StopBox
<1>2. CASE MakeFifo
  BY <1>2 DEF MakeFifo, Goto
<1>3. CASE OpenForWriting
  BY <1>3 DEF OpenForWriting
<1>4. CASE OpenForWritingFails
  BY <1>4 DEF OpenForWritingFails, Goto
<1>5. CASE OpenForReading
  BY <1>5 DEF OpenForReading, Goto
<1>6. CASE OpenForReadingFails
  BY <1>6 DEF OpenForReadingFails
<1>7. CASE QueueMessage
  BY <1>7 DEF QueueMessage
<1>8. CASE MainTake
  BY <1>8 DEF MainTake, Goto
<1>9. CASE MainSend
  BY <1>9 DEF MainSend, Goto
<1>10. CASE SendGoodbye
  BY <1>10 DEF SendGoodbye, MainEnds, StopBox, At
<1>11. CASE WaitCheck
  BY <1>11 DEF WaitCheck, Goto
<1>12. CASE WaitBlock
  BY <1>12 DEF WaitBlock, Goto
<1>13. CASE DestroyBox
  BY <1>13 DEF DestroyBox
<1>14. CASE HandlerReceive
  BY <1>14 DEF HandlerReceive, HandlerEnds, HandlerAgain
<1>15. CASE HandlerEndOfFile
  BY <1>15 DEF HandlerEndOfFile, HandlerEnds
<1>16. CASE HandlerReadFails
  BY <1>16 DEF HandlerReadFails, HandlerEnds
<1>17. CASE DestroyHandler
  BY <1>17 DEF DestroyHandler
<1>18. CASE SignalStops
  BY <1>18 DEF SignalStops, StopBox, At
<1>19. CASE EngineStops
  BY <1>19 DEF EngineStops
<1>20. CASE BoxDies
  BY <1>20 DEF BoxDies
<1>21. CASE EngineDies
  BY <1>21 DEF EngineDies
<1>22. CASE UNCHANGED vars
  BY <1>22 DEF vars
<1>23. CASE MakeFifoFails
  BY <1>23 DEF MakeFifoFails, Goto
<1>24. CASE GiveUp
  BY <1>24 DEF GiveUp
<1>25. QED
  BY <1>1, <1>2, <1>3, <1>4, <1>5, <1>6, <1>7, <1>8, <1>9, <1>10, <1>11, <1>12,
     <1>13, <1>14, <1>15, <1>16, <1>17, <1>18, <1>19, <1>20, <1>21, <1>22, <1>23, <1>24
  DEF Next, Main, Application, Handler

\* The counters stay in their bounds, and a pipe that is full takes no message.
LEMMA CountStep ==
    ASSUME CountType, pipe \in Seq(Messages), [Next]_vars
    PROVE  CountType'
<1> USE TextBoxAssumption DEF CountType, CanWrite, openVars, inputVars, pipeVars, exchangeVars
<1>1. ASSUME nLines < MaxLines, NEW line \in Lines, ReadLine(line) PROVE CountType'
  BY <1>1 DEF ReadLine, Goto, StopBox
<1>2. CASE MakeFifo
  BY <1>2 DEF MakeFifo, Goto
<1>3. CASE OpenForWriting
  BY <1>3 DEF OpenForWriting
<1>4. CASE OpenForWritingFails
  BY <1>4 DEF OpenForWritingFails, Goto
<1>5. CASE OpenForReading
  BY <1>5 DEF OpenForReading, Goto
<1>6. CASE OpenForReadingFails
  BY <1>6 DEF OpenForReadingFails
<1>7. CASE QueueMessage
  BY <1>7 DEF QueueMessage
<1>8. CASE MainTake
  BY <1>8 DEF MainTake, Goto
<1>9. CASE MainSend
  BY <1>9 DEF MainSend, Goto
<1>10. CASE SendGoodbye
  BY <1>10 DEF SendGoodbye, MainEnds, StopBox, At
<1>11. CASE WaitCheck
  BY <1>11 DEF WaitCheck, Goto
<1>12. CASE WaitBlock
  BY <1>12 DEF WaitBlock, Goto
<1>13. CASE DestroyBox
  BY <1>13 DEF DestroyBox
<1>14. CASE HandlerReceive
  BY <1>14 DEF HandlerReceive, HandlerEnds, HandlerAgain
<1>15. CASE HandlerEndOfFile
  BY <1>15 DEF HandlerEndOfFile, HandlerEnds
<1>16. CASE HandlerReadFails
  BY <1>16 DEF HandlerReadFails, HandlerEnds
<1>17. CASE DestroyHandler
  BY <1>17 DEF DestroyHandler
<1>18. CASE SignalStops
  BY <1>18 DEF SignalStops, StopBox, At
<1>19. CASE EngineStops
  BY <1>19 DEF EngineStops
<1>20. CASE BoxDies
  BY <1>20 DEF BoxDies
<1>21. CASE EngineDies
  BY <1>21 DEF EngineDies
<1>22. CASE UNCHANGED vars
  BY <1>22 DEF vars
<1>23. CASE MakeFifoFails
  BY <1>23 DEF MakeFifoFails, Goto
<1>24. CASE GiveUp
  BY <1>24 DEF GiveUp
<1>25. QED
  BY <1>1, <1>2, <1>3, <1>4, <1>5, <1>6, <1>7, <1>8, <1>9, <1>10, <1>11, <1>12,
     <1>13, <1>14, <1>15, <1>16, <1>17, <1>18, <1>19, <1>20, <1>21, <1>22, <1>23, <1>24
  DEF Next, Main, Application, Handler

\* A side uses up its attempts one by one and gives up at the last one.
LEMMA OpenStep ==
    ASSUME ControlType, OpenType, OpenInv, [Next]_vars
    PROVE  OpenType' /\ OpenInv'
<1> USE TextBoxAssumption DEF ControlType, OpenType, OpenInv, Threads, BoxThreads, Places, At,
        openVars, inputVars, pipeVars, exchangeVars
<1>1. ASSUME nLines < MaxLines, NEW line \in Lines, ReadLine(line) PROVE OpenType' /\ OpenInv'
  BY <1>1 DEF ReadLine, Goto, StopBox
<1>2. CASE MakeFifo
  BY <1>2 DEF MakeFifo, Goto
<1>3. CASE OpenForWriting
  BY <1>3 DEF OpenForWriting
<1>4. CASE OpenForWritingFails
  BY <1>4 DEF OpenForWritingFails, Goto
<1>5. CASE OpenForReading
  BY <1>5 DEF OpenForReading, Goto
<1>6. CASE OpenForReadingFails
  BY <1>6 DEF OpenForReadingFails
<1>7. CASE QueueMessage
  BY <1>7 DEF QueueMessage
<1>8. CASE MainTake
  BY <1>8 DEF MainTake, Goto
<1>9. CASE MainSend
  BY <1>9 DEF MainSend, Goto
<1>10. CASE SendGoodbye
  BY <1>10 DEF SendGoodbye, MainEnds, StopBox, At
<1>11. CASE WaitCheck
  BY <1>11 DEF WaitCheck, Goto
<1>12. CASE WaitBlock
  BY <1>12 DEF WaitBlock, Goto
<1>13. CASE DestroyBox
  BY <1>13 DEF DestroyBox
<1>14. CASE HandlerReceive
  BY <1>14 DEF HandlerReceive, HandlerEnds, HandlerAgain
<1>15. CASE HandlerEndOfFile
  BY <1>15 DEF HandlerEndOfFile, HandlerEnds
<1>16. CASE HandlerReadFails
  BY <1>16 DEF HandlerReadFails, HandlerEnds
<1>17. CASE DestroyHandler
  BY <1>17 DEF DestroyHandler
<1>18. CASE SignalStops
  BY <1>18 DEF SignalStops, StopBox, At
<1>19. CASE EngineStops
  BY <1>19 DEF EngineStops
<1>20. CASE BoxDies
  BY <1>20 DEF BoxDies
<1>21. CASE EngineDies
  BY <1>21 DEF EngineDies
<1>22. CASE UNCHANGED vars
  BY <1>22 DEF vars
<1>23. CASE MakeFifoFails
  BY <1>23 DEF MakeFifoFails, Goto
<1>24. CASE GiveUp
  BY <1>24 DEF GiveUp
<1>25. QED
  BY <1>1, <1>2, <1>3, <1>4, <1>5, <1>6, <1>7, <1>8, <1>9, <1>10, <1>11, <1>12,
     <1>13, <1>14, <1>15, <1>16, <1>17, <1>18, <1>19, <1>20, <1>21, <1>22, <1>23, <1>24
  DEF Next, Main, Application, Handler

\* What the steps that leave the queues alone do to main() and to the stop of the
\* textbox.
LEMMA QuietSteps ==
    ASSUME ControlType, OpenInv,
           \/ MakeFifo \/ MakeFifoFails \/ OpenForWriting \/ OpenForWritingFails \/ GiveUp
           \/ OpenForReading \/ OpenForReadingFails
           \/ WaitCheck \/ WaitBlock \/ DestroyBox \/ HandlerEndOfFile
           \/ HandlerReadFails \/ DestroyHandler \/ SignalStops \/ EngineStops \/ BoxDies
           \/ EngineDies \/ UNCHANGED vars
    PROVE  /\ UNCHANGED <<typed, pending, mQueued, batch, pipe, delivered>>
           /\ \/ pc'["main"] = pc["main"]
              \/ pc'["main"] = "ended" /\ stopped'["textbox"]
              \/ pc["main"] = "none" /\ pc'["main"] = "loop"
           /\ stopped["textbox"] => stopped'["textbox"]
<1> USE DEF inputVars, pipeVars, exchangeVars, ControlType, Threads, BoxThreads
<1>1. CASE MakeFifo
  BY <1>1 DEF MakeFifo, Goto
<1>2. CASE OpenForWriting
  BY <1>2 DEF OpenForWriting, At, OpenInv
<1>3. CASE OpenForWritingFails
  BY <1>3 DEF OpenForWritingFails, Goto
<1>4. CASE OpenForReading
  BY <1>4 DEF OpenForReading, Goto
<1>5. CASE OpenForReadingFails
  BY <1>5 DEF OpenForReadingFails
<1>6. CASE WaitCheck
  BY <1>6 DEF WaitCheck, Goto
<1>7. CASE WaitBlock
  BY <1>7 DEF WaitBlock, Goto
<1>8. CASE DestroyBox
  BY <1>8 DEF DestroyBox
<1>9. CASE HandlerEndOfFile
  BY <1>9 DEF HandlerEndOfFile, HandlerEnds
<1>10. CASE HandlerReadFails
  BY <1>10 DEF HandlerReadFails, HandlerEnds
<1>11. CASE DestroyHandler
  BY <1>11 DEF DestroyHandler
<1>12. CASE SignalStops
  BY <1>12 DEF SignalStops, StopBox, At
<1>13. CASE EngineStops
  BY <1>13 DEF EngineStops
<1>14. CASE BoxDies
  BY <1>14 DEF BoxDies
<1>15. CASE EngineDies
  BY <1>15 DEF EngineDies
<1>16. CASE UNCHANGED vars
  BY <1>16 DEF vars
<1>17. CASE MakeFifoFails
  BY <1>17 DEF MakeFifoFails, Goto
<1>18. CASE GiveUp
  BY <1>18 DEF GiveUp
<1>19. QED
  BY <1>1, <1>2, <1>3, <1>4, <1>5, <1>6, <1>7, <1>8, <1>9, <1>10, <1>11,
     <1>12, <1>13, <1>14, <1>15, <1>16, <1>17, <1>18

\* Every step keeps the messages in order.
LEMMA OrderedStep ==
    ASSUME Ordered, ControlType, OpenInv, [Next]_vars
    PROVE  Ordered'
<1>1. ASSUME NEW line \in Lines, ReadLine(line) PROVE Ordered'
  BY <1>1, ReadLineOrdered
<1>2. CASE QueueMessage \/ MainTake \/ MainSend \/ SendGoodbye \/ HandlerReceive
  BY <1>2, QueueMessageOrdered, MainTakeOrdered, MainSendOrdered, SendGoodbyeOrdered,
     HandlerReceiveOrdered
<1>3. CASE \/ MakeFifo \/ MakeFifoFails \/ OpenForWriting \/ OpenForWritingFails \/ GiveUp
           \/ OpenForReading \/ OpenForReadingFails
           \/ WaitCheck \/ WaitBlock \/ DestroyBox \/ HandlerEndOfFile
           \/ HandlerReadFails \/ DestroyHandler \/ SignalStops \/ EngineStops \/ BoxDies
           \/ EngineDies \/ UNCHANGED vars
  <2>1. /\ UNCHANGED <<typed, pending, mQueued, batch, pipe, delivered>>
        /\ \/ pc'["main"] = pc["main"]
           \/ pc'["main"] = "ended" /\ stopped'["textbox"]
           \/ pc["main"] = "none" /\ pc'["main"] = "loop"
        /\ stopped["textbox"] => stopped'["textbox"]
    BY <1>3, QuietSteps
  <2>2. /\ pc'["main"] \in {"none", "loop"} => pc["main"] \in {"none", "loop"}
        /\ Sound' => Sound
    BY <2>1 DEF Sound
  <2>3. QED
    BY <2>1, <2>2, QueuesKept
<1>4. QED
  BY <1>1, <1>2, <1>3 DEF Next, Main, Application, Handler

-----------------------------------------------------------------------------
(***************************************************************************)
(* The theorems.                                                           *)
(***************************************************************************)

\* The invariant, sorted by kind.
LEMMA InvariantParts ==
    IInv <=> ControlType /\ FlagType /\ CountType /\ OpenType /\ OpenInv /\ Ordered
BY DEF IInv, TypeOK, ControlType, Places, FlagType, CountType, OpenType, Ordered, QueueType,
       Messages

\* At the start nothing is typed, and both sides have yet to open the pipe.
LEMMA InitInv == Init => IInv
<1> SUFFICES ASSUME Init PROVE IInv
  OBVIOUS
<1>1. ControlType
  BY DEF Init, ControlType, Places, Threads, BoxThreads
<1>2. FlagType
  BY DEF Init, FlagType
<1>3. CountType /\ OpenType
  BY TextBoxAssumption DEF Init, CountType, OpenType
<1>4. OpenInv
  BY TextBoxAssumption DEF Init, OpenInv, Threads, BoxThreads
<1>5. QueueType
  BY DEF Init, QueueType
<1>6. BatchInv
  BY DEF Init, BatchInv
<1>7. Len(<<>>) = 0 /\ 0 + 0 = 0 /\ <<>> \o <<>> = <<>> /\ IsPrefix(<<>>, <<>>)
  BY DEF IsPrefix
<1>8. Follows(0, <<>>, <<>>) /\ Callbacks(<<>>, Len(<<>>)) = 0
  BY FollowsNone
<1>9. PipeInv
  BY <1>7, <1>8 DEF Init, PipeInv
<1>10. AllInv
  <2>1. pipe \o Behind = <<>> /\ typed = <<>> /\ delivered = <<>>
    BY <1>7 DEF Init, Behind
  <2>2. QED
    BY <1>7, <1>8, <2>1 DEF AllInv
<1>11. QED
  BY <1>1, <1>2, <1>3, <1>4, <1>5, <1>6, <1>9, <1>10, InvariantParts DEF Ordered

\* Every step keeps the invariant.
LEMMA StepInv == IInv /\ [Next]_vars => IInv'
<1> SUFFICES ASSUME IInv, [Next]_vars PROVE IInv'
  OBVIOUS
<1>1. ControlType /\ FlagType /\ CountType /\ OpenType /\ OpenInv /\ Ordered
  BY InvariantParts
<1>2. pipe \in Seq(Messages)
  BY <1>1 DEF Ordered, QueueType
<1>3. ControlType' /\ FlagType' /\ CountType' /\ OpenType' /\ OpenInv' /\ Ordered'
  BY <1>1, <1>2, ControlStep, FlagStep, CountStep, OpenStep, OrderedStep
<1>4. (IInv <=> ControlType /\ FlagType /\ CountType /\ OpenType /\ OpenInv /\ Ordered)'
  BY InvariantParts, PTL
<1>5. QED
  BY <1>3, <1>4

\* IInv is an invariant of the textbox and its handler.
LEMMA InductiveInvariant == Spec => []IInv
BY InitInv, StepInv, PTL DEF Spec

\* The state of the textbox, the pipe and the handler keeps its type: in
\* particular the pipe never holds more than its capacity, and the handler has
\* a failed read left as long as it runs.
THEOREM TypeCorrect == Spec => []TypeOK
<1>1. IInv => TypeOK
  BY DEF IInv
<1>2. QED
  BY <1>1, InductiveInvariant, PTL

\* DeliveredInOrder, for any lines, attempts and capacity of the pipe: the
\* callbacks are called for what has been typed, in that order, once and without
\* gaps, whatever stops, fails or dies; and until the textbox stops or gives up
\* a send nothing that is typed is missing.
THEOREM CallbacksInOrder == Spec => []DeliveredInOrder
<1>1. IInv => DeliveredInOrder
  <2> SUFFICES ASSUME IInv PROVE DeliveredInOrder
    OBVIOUS
  <2>1. Ordered
    BY InvariantParts
  <2>2. OnItsWay = pipe \o Behind
    BY <2>1, AllMessages DEF Ordered
  <2>3. IsPrefix(delivered, typed)
    BY <2>1 DEF Ordered, PipeInv
  <2>4. QED
    BY <2>1, <2>2, <2>3 DEF Ordered, AllInv, Sound, At, DeliveredInOrder
<1>2. QED
  BY <1>1, InductiveInvariant, PTL

-----------------------------------------------------------------------------
(***************************************************************************)
(* TTTextBox::send(): the pieces of a text.                                *)
(***************************************************************************)

\* A text of l characters has room for its full pieces, and its rest is
\* shorter than a piece.
LEMMA FullPieces ==
    ASSUME NEW l \in Nat
    PROVE  LET n == l \div DATA_MAX_LENGTH
           IN /\ n \in Nat
              /\ DATA_MAX_LENGTH * n \in 0 .. l
              /\ l < DATA_MAX_LENGTH * n + DATA_MAX_LENGTH
<1> DEFINE M == DATA_MAX_LENGTH
           n == l \div M
           r == l % M
<1>1. M \in Nat \ {0}
  BY TextBoxInputAssumption
<1>2. n \in Nat /\ r \in 0 .. M - 1 /\ l = M * n + r /\ M * n \in Nat
  BY <1>1
<1> HIDE DEF n, r, M
<1>3. n \in Nat /\ M * n \in 0 .. l /\ l < M * n + M
  BY <1>1, <1>2
<1>4. QED
  BY <1>3 DEF n, M

\* Where the i-th of n full pieces begins and ends.
LEMMA PlaceOfPiece ==
    ASSUME NEW n \in Nat, NEW i \in 1 .. n
    PROVE  /\ DATA_MAX_LENGTH * (i - 1) \in Nat
           /\ DATA_MAX_LENGTH * i = DATA_MAX_LENGTH * (i - 1) + DATA_MAX_LENGTH
           /\ DATA_MAX_LENGTH * i <= DATA_MAX_LENGTH * n
<1> DEFINE M == DATA_MAX_LENGTH
<1>1. M \in Nat
  BY TextBoxInputAssumption
<1> HIDE DEF M
<1>2. i - 1 \in Nat /\ n - i \in Nat /\ i \in Nat
  OBVIOUS
<1>3. M * (i - 1) \in Nat /\ M * (n - i) \in Nat
  BY <1>1, <1>2
<1>4. M * i = M * (i - 1) + M
  BY <1>1, <1>2
<1>5. M * n = M * i + M * (n - i)
  BY <1>1, <1>2
<1>6. QED
  BY <1>1, <1>2, <1>3, <1>4, <1>5 DEF M

\* A part of a text, character by character.
LEMMA PartOfText ==
    ASSUME NEW S, NEW d \in Seq(S), NEW a \in Nat, NEW b \in Nat, a <= b, b <= Len(d)
    PROVE  /\ SubSeq(d, a + 1, b) \in Seq(S)
           /\ Len(SubSeq(d, a + 1, b)) = b - a
           /\ \A j \in 1 .. b - a : SubSeq(d, a + 1, b)[j] = d[a + j]
<1>1. Len(d) \in Nat
  OBVIOUS
<1>2. SubSeq(d, a + 1, b) \in Seq(S) /\ Len(SubSeq(d, a + 1, b)) = b - a
  BY <1>1
<1>3. QED
  BY <1>1, <1>2

\* What TTTextBox::send() queues for a text of any length is the text: message
\* i holds its characters from M * (i - 1) + 1 on, in order, where M is
\* DATA_MAX_LENGTH; no message is empty, every message but the last one is
\* full, and the last one ends where the text ends.
THEOREM PiecesAreTheText ==
    ASSUME NEW S, NEW data \in Seq(S)
    PROVE  LET M == DATA_MAX_LENGTH
               p == Pieces(data)
           IN /\ \A i \in 1 .. Len(p) :
                    /\ p[i].status = "MESSAGE"
                    /\ Len(p[i].data) \in 1 .. M
                    /\ i < Len(p) => Len(p[i].data) = M
                    /\ i = Len(p) => M * (i - 1) + Len(p[i].data) = Len(data)
                    /\ \A j \in 1 .. Len(p[i].data) : p[i].data[j] = data[M * (i - 1) + j]
              /\ p = <<>> => data = <<>>
<1> DEFINE M == DATA_MAX_LENGTH
           l == Len(data)
           n == l \div M
           b == M * n
           T == [status : {"MESSAGE"}, data : Seq(S)]
           cut == [i \in 1 .. n |-> Message("MESSAGE", SubSeq(data, M * (i - 1) + 1, M * i))]
           rest == SubSeq(data, M * n + 1, l)
           end == IF rest = <<>> THEN <<>> ELSE <<Message("MESSAGE", rest)>>
           p == cut \o end
           IsPiece(m, i) ==
               /\ m.status = "MESSAGE"
               /\ Len(m.data) \in 1 .. M
               /\ i < Len(p) => Len(m.data) = M
               /\ i = Len(p) => M * (i - 1) + Len(m.data) = l
               /\ \A j \in 1 .. Len(m.data) : m.data[j] = data[M * (i - 1) + j]
<1>1. M \in Nat \ {0} /\ l \in Nat
  BY TextBoxInputAssumption
<1>2. n \in Nat /\ b \in 0 .. l /\ l < b + M
  BY <1>1, FullPieces
<1>3. Pieces(data) = p
  BY DEF Pieces, PiecesWhole
<1>4. \A i \in 1 .. n : M * (i - 1) \in Nat /\ M * i = M * (i - 1) + M /\ M * i <= b
  BY <1>2, PlaceOfPiece
<1> HIDE DEF M, l, n
<1>5. /\ rest \in Seq(S) /\ Len(rest) = l - b
      /\ \A j \in 1 .. Len(rest) : rest[j] = data[b + j]
  <2>1. b \in Nat /\ b <= l /\ l <= Len(data) /\ l \in Nat
    BY <1>1, <1>2 DEF l
  <2> HIDE DEF b
  <2>2. /\ SubSeq(data, b + 1, l) \in Seq(S) /\ Len(SubSeq(data, b + 1, l)) = l - b
        /\ \A j \in 1 .. l - b : SubSeq(data, b + 1, l)[j] = data[b + j]
    BY <2>1, PartOfText
  <2>3. rest = SubSeq(data, b + 1, l)
    BY DEF b
  <2> HIDE DEF rest
  <2>4. QED
    BY <2>2, <2>3
<1>6. ASSUME NEW i \in 1 .. n
      PROVE  /\ cut[i] \in T /\ Len(cut[i].data) = M
             /\ \A j \in 1 .. M : cut[i].data[j] = data[M * (i - 1) + j]
  <2> DEFINE a == M * (i - 1)
             c == M * i
             x == SubSeq(data, a + 1, c)
  <2>1. a \in Nat /\ c \in Nat /\ c = a + M /\ a <= c /\ c <= Len(data)
    BY <1>1, <1>2, <1>4 DEF l
  <2>2. cut[i] = Message("MESSAGE", x)
    OBVIOUS
  <2> HIDE DEF a, c, cut
  <2>3. x \in Seq(S) /\ Len(x) = c - a /\ \A j \in 1 .. c - a : x[j] = data[a + j]
    BY <2>1, PartOfText
  <2> HIDE DEF x
  <2>4. cut[i] \in T /\ cut[i].data = x
    BY <2>2, <2>3 DEF Message
  <2>5. c - a = M
    BY <1>1, <2>1
  <2>6. QED
    BY <2>3, <2>4, <2>5 DEF a
<1>7. cut \in Seq(T) /\ Len(cut) = n
  <2>1. cut \in [1 .. n -> T]
    <3>1. cut = [i \in 1 .. n |-> cut[i]]
      OBVIOUS
    <3> HIDE DEF cut
    <3>2. QED
      BY <1>6, <3>1
  <2> HIDE DEF cut, T
  <2>2. QED
    BY <1>2, <2>1
<1> HIDE DEF cut, b
<1>8. CASE rest = <<>>
  <2>1. b = l
    <3> HIDE DEF rest
    <3>1. Len(rest) = 0
      BY <1>8
    <3>2. QED
      BY <1>1, <1>2, <1>5, <3>1
  <2>2. p = cut
    <3>1. end = <<>>
      BY <1>8
    <3> HIDE DEF end
    <3>2. QED
      BY <1>7, <3>1
  <2> HIDE DEF p
  <2>3. ASSUME NEW i \in 1 .. n PROVE IsPiece(cut[i], i)
    <3>1. i = n => M * (i - 1) + M = l
      BY <1>4, <2>1 DEF b
    <3>2. Len(p) = n /\ M \in 1 .. M
      BY <1>1, <1>7, <2>2
    <3>3. QED
      BY <1>6, <3>1, <3>2
  <2>4. p = <<>> => data = <<>>
    <3>1. ASSUME p = <<>> PROVE l = 0
      <4>1. n = 0
        BY <1>7, <2>2, <3>1
      <4>2. b = 0
        BY <1>1, <4>1 DEF b
      <4>3. QED
        BY <2>1, <4>2
    <3>2. QED
      BY <3>1 DEF l
  <2>5. \A i \in 1 .. Len(p) : IsPiece(p[i], i)
    BY <1>7, <2>2, <2>3
  <2>6. QED
    BY <1>3, <2>4, <2>5 DEF M, l
<1>9. CASE rest # <<>>
  <2> DEFINE m == Message("MESSAGE", rest)
  <2>1. end = <<m>>
    BY <1>9
  <2>2. m \in T /\ m.data = rest /\ m.status = "MESSAGE"
    <3> HIDE DEF rest
    <3>1. QED
      BY <1>5 DEF Message
  <2>3. Len(rest) \in 1 .. M - 1
    <3>1. Len(rest) # 0
      <4> HIDE DEF rest
      <4>1. QED
        BY <1>5, <1>9
    <3> HIDE DEF rest
    <3>2. QED
      BY <1>1, <1>2, <1>5, <3>1
  <2> HIDE DEF m, end, rest
  <2>4. /\ Len(p) = n + 1 /\ p[n + 1] = m
        /\ \A i \in 1 .. n : p[i] = cut[i]
    BY <1>2, <1>7, <2>1, <2>2
  <2> HIDE DEF p
  <2>5. ASSUME NEW i \in 1 .. n PROVE IsPiece(p[i], i)
    <3>1. i # Len(p) /\ M \in 1 .. M
      BY <1>1, <1>2, <2>4
    <3>2. QED
      BY <1>6, <2>4, <3>1
  <2>6. IsPiece(p[n + 1], n + 1)
    <3>1. M * ((n + 1) - 1) = b
      BY <1>2 DEF b
    <3>2. b + Len(rest) = l
      BY <1>1, <1>2, <1>5
    <3>3. ~(n + 1 < Len(p))
      BY <1>2, <2>4
    <3>4. Len(rest) \in 1 .. M
      BY <1>1, <2>3
    <3>5. QED
      BY <1>5, <2>2, <2>4, <3>1, <3>2, <3>3, <3>4
  <2>7. \A i \in 1 .. Len(p) : IsPiece(p[i], i)
    <3>1. \A i \in 1 .. Len(p) : i \in 1 .. n \/ i = n + 1
      BY <1>2, <2>4
    <3>2. QED
      BY <2>5, <2>6, <3>1
  <2>8. p # <<>>
    BY <1>2, <2>4
  <2>9. QED
    BY <1>3, <2>7, <2>8 DEF M, l
<1>10. QED
  BY <1>8, <1>9

=============================================================================
