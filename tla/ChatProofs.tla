----------------------------- MODULE ChatProofs -----------------------------
(***************************************************************************)
(* Proofs about Chat, for any number of conversations and entries and any  *)
(* lengths of texts, messages and queues: the type invariant, that no      *)
(* message is refused, ScreenWillShowSelection and OneConversationOnScreen.*)
(***************************************************************************)
EXTENDS Chat, FiniteSetTheorems, WellFoundedInduction, TLAPS

-----------------------------------------------------------------------------
(***************************************************************************)
(* Recursive functions.                                                    *)
(***************************************************************************)

\* A set of natural numbers has a smallest one.
LEMMA Smallest ==
    ASSUME NEW T, T \subseteq Nat, T # {}
    PROVE  \E x \in T : \A y \in T : x <= y
<1> DEFINE R == OpToRel(<, Nat)
<1>1. IsWellFoundedOn(R, Nat)
  BY NatLessThanWellFounded
<1>2. \A x, y \in Nat : y < x => <<y, x>> \in R
  BY DEF OpToRel
<1> HIDE DEF R
<1>3. PICK x \in T : \A y \in T : ~(<<y, x>> \in R)
  BY <1>1, WFMin
<1>4. \A y \in T : x <= y
  <2>1. SUFFICES ASSUME NEW y \in T, y < x PROVE FALSE
    BY <1>3
  <2>2. x \in Nat /\ y \in Nat
    OBVIOUS
  <2>3. QED
    BY <1>2, <1>3, <2>1, <2>2
<1>5. QED
  BY <1>4

\* Functions that agree at 0, and at k whenever they agree at k - 1, are the same.
LEMMA SameFunction ==
    ASSUME NEW n \in Nat, NEW f, NEW g,
           f[0] = g[0],
           \A k \in 1 .. n : f[k - 1] = g[k - 1] => f[k] = g[k]
    PROVE  \A k \in 0 .. n : f[k] = g[k]
<1> DEFINE T == {k \in 0 .. n : f[k] # g[k]}
<1>1. SUFFICES ASSUME T # {} PROVE FALSE
  OBVIOUS
<1>2. T \subseteq Nat
  OBVIOUS
<1>3. PICK x \in T : \A y \in T : x <= y
  BY <1>1, <1>2, Smallest
<1>4. x \in 0 .. n /\ f[x] # g[x]
  BY <1>3
<1>5. x \in 1 .. n
  BY <1>4
<1>6. x - 1 \notin T
  BY <1>3, <1>5
<1>7. f[x - 1] = g[x - 1]
  BY <1>5, <1>6
<1>8. QED
  BY <1>4, <1>5, <1>7

\* The values that a start runs through when a function is applied to it for
\* each number up to n.
IsSteps(F, S, n) == F \in [1 .. n -> [S -> S]]

IsIteration(f, F, S, a, n) ==
    /\ f \in [0 .. n -> S]
    /\ f[0] = a
    /\ \A k \in 1 .. n : f[k] = F[k][f[k - 1]]

\* They exist.
LEMMA Iterated ==
    ASSUME NEW S, NEW a \in S, NEW n \in Nat, NEW F, IsSteps(F, S, n)
    PROVE  \E f : IsIteration(f, F, S, a, n)
<1> DEFINE T == {j \in 0 .. n : ~\E f : IsIteration(f, F, S, a, j)}
<1> USE DEF IsSteps, IsIteration
<1>1. SUFFICES T = {}
  OBVIOUS
<1>2. SUFFICES ASSUME T # {} PROVE FALSE
  OBVIOUS
<1>3. T \subseteq Nat
  OBVIOUS
<1>4. PICK x \in T : \A y \in T : x <= y
  BY <1>2, <1>3, Smallest
<1>5. x \in 0 .. n /\ ~\E f : IsIteration(f, F, S, a, x)
  BY <1>4
<1>6. x # 0
  <2>1. IsIteration([k \in 0 .. 0 |-> a], F, S, a, 0)
    OBVIOUS
  <2>2. QED
    BY <1>5, <2>1
<1>7. x - 1 \in 0 .. n /\ x - 1 \notin T
  <2>1. x \in Nat /\ x - 1 \in 0 .. n /\ ~(x <= x - 1)
    BY <1>5, <1>6
  <2> HIDE DEF T
  <2>2. QED
    BY <1>4, <2>1
<1>8. PICK f : IsIteration(f, F, S, a, x - 1)
  BY <1>7
<1> DEFINE g == [k \in 0 .. x |-> IF k = x THEN F[x][f[x - 1]] ELSE f[k]]
<1>9. x \in 1 .. n /\ x \in Nat
  BY <1>5, <1>6
<1>10. f \in [0 .. x - 1 -> S] /\ f[x - 1] \in S
  BY <1>8, <1>9
<1>11. F[x][f[x - 1]] \in S
  <2>1. F[x] \in [S -> S]
    BY <1>9
  <2>2. QED
    BY <2>1, <1>10
<1>12. g \in [0 .. x -> S]
  BY <1>9, <1>10, <1>11
<1>13. g[0] = a
  BY <1>8, <1>9
<1>14. \A k \in 1 .. x : g[k] = F[k][g[k - 1]]
  <2> TAKE k \in 1 .. x
  <2>1. CASE k = x
    BY <2>1, <1>9
  <2>2. CASE k # x
    <3>1. k \in 1 .. x - 1 /\ k \in 0 .. x /\ k - 1 \in 0 .. x /\ k - 1 # x
      BY <2>2, <1>9
    <3>2. g[k] = f[k] /\ g[k - 1] = f[k - 1]
      BY <2>2, <3>1
    <3>3. f[k] = F[k][f[k - 1]]
      BY <1>8, <3>1
    <3>4. QED
      BY <3>2, <3>3
  <2>3. QED
    BY <2>1, <2>2
<1>15. IsIteration(g, F, S, a, x)
  BY <1>12, <1>13, <1>14
<1>16. QED
  BY <1>5, <1>15

\* A function that satisfies the equation of Joined joins the data.
LEMMA JoinedIs ==
    ASSUME NEW chunks, Len(chunks) \in Nat, NEW t,
           t = [k \in 0 .. Len(chunks) |-> IF k = 0 THEN <<>> ELSE t[k - 1] \o chunks[k].data]
    PROVE  Joined(chunks) = t[Len(chunks)]
<1> DEFINE text == CHOOSE f : f = [k \in 0 .. Len(chunks) |->
                                      IF k = 0 THEN <<>> ELSE f[k - 1] \o chunks[k].data]
<1>1. Joined(chunks) = text[Len(chunks)]
  BY DEF Joined
<1>2. text = [k \in 0 .. Len(chunks) |-> IF k = 0 THEN <<>> ELSE text[k - 1] \o chunks[k].data]
  OBVIOUS
<1> HIDE DEF text
<1>3. \A k \in 0 .. Len(chunks) : text[k] = t[k]
  <2>1. text[0] = t[0]
    BY <1>2
  <2>2. ASSUME NEW k \in 1 .. Len(chunks), text[k - 1] = t[k - 1]
        PROVE  text[k] = t[k]
    <3>1. k \in 0 .. Len(chunks) /\ k # 0
      OBVIOUS
    <3>2. text[k] = text[k - 1] \o chunks[k].data
      BY <3>1, <1>2
    <3>3. t[k] = t[k - 1] \o chunks[k].data
      BY <3>1
    <3>4. QED
      BY <2>2, <3>2, <3>3
  <2>3. QED
    BY ONLY Len(chunks) \in Nat, <2>1, <2>2, SameFunction
<1>4. QED
  BY <1>1, <1>3

-----------------------------------------------------------------------------
(***************************************************************************)
(* The types of the window.                                                *)
(***************************************************************************)

\* The data of messages, joined, is a text.
LEMMA JoinedType ==
    ASSUME NEW chunks \in Seq(Messages)
    PROVE  Joined(chunks) \in Seq(Characters)
<1> DEFINE n == Len(chunks)
           S == Seq(Characters)
           F == [k \in 1 .. n |-> [x \in S |-> x \o chunks[k].data]]
<1>1. n \in Nat /\ \A k \in 1 .. n : chunks[k].data \in Seq(Characters)
  BY DEF Messages
<1>2. IsSteps(F, S, n)
  BY <1>1 DEF IsSteps
<1>3. <<>> \in S
  OBVIOUS
<1>4. \E f : IsIteration(f, F, S, <<>>, n)
  <2>1. n \in Nat
    BY <1>1
  <2> HIDE DEF n, S, F
  <2>2. QED
    BY ONLY <2>1, <1>2, <1>3, Iterated
<1>5. PICK f \in [0 .. n -> S] : f[0] = <<>> /\ \A k \in 1 .. n : f[k] = F[k][f[k - 1]]
  BY <1>4 DEF IsIteration
<1>6. \A k \in 1 .. n : f[k] = f[k - 1] \o chunks[k].data
  <2> TAKE k \in 1 .. n
  <2>1. k - 1 \in 0 .. n
    BY <1>1
  <2>2. f[k - 1] \in S
    BY <1>5, <2>1
  <2>3. QED
    BY <1>5, <2>2
<1>7. f = [k \in 0 .. n |-> IF k = 0 THEN <<>> ELSE f[k - 1] \o chunks[k].data]
  <2>1. f = [k \in 0 .. n |-> f[k]]
    BY <1>5
  <2>2. ASSUME NEW k \in 0 .. n
        PROVE  f[k] = IF k = 0 THEN <<>> ELSE f[k - 1] \o chunks[k].data
    <3>1. CASE k = 0
      BY <1>5, <3>1
    <3>2. CASE k # 0
      <4>1. k \in 1 .. n
        BY <1>1, <3>2
      <4>2. f[k] = f[k - 1] \o chunks[k].data
        BY <1>6, <4>1
      <4>3. QED
        BY <3>2, <4>2, Zenon
    <3>3. QED
      BY <3>1, <3>2
  <2>3. QED
    BY <2>1, <2>2, Zenon
<1>8. Joined(chunks) = f[n]
  BY <1>1, <1>7, JoinedIs
<1>9. QED
  BY <1>1, <1>8

\* What handle() does, type by type.
LEMMA HandledIs ==
    ASSUME NEW w, NEW m
    PROVE  /\ m.type = "CLEAR" => Handled(w, m) = [w EXCEPT !.screen = <<>>]
           /\ m.type \in EntryTypes => Handled(w, m) = Printed(w, m)
           /\ m.type \in ChunkTypes => Handled(w, m) = [w EXCEPT !.chunks = Append(@, m)]
           /\ m.type \notin EntryTypes \cup ChunkTypes \cup {"CLEAR"} => Handled(w, m) = w
<1>1. /\ m.type = "CLEAR" => m.type \notin EntryTypes /\ m.type \notin ChunkTypes
      /\ m.type \in EntryTypes => m.type # "CLEAR" /\ m.type \notin ChunkTypes
      /\ m.type \in ChunkTypes => m.type # "CLEAR" /\ m.type \notin EntryTypes
  BY DEF EntryTypes, ChunkTypes
<1>2. QED
  BY <1>1, Zenon DEF Handled

\* A window from its parts.
LEMMA WindowFrom ==
    ASSUME NEW c \in Seq(Messages), NEW d \in Seq(Entries)
    PROVE  [chunks |-> c, screen |-> d] \in WindowStates
BY DEF WindowStates

\* A window that has handled a message is a window.
LEMMA HandledType ==
    ASSUME NEW w \in WindowStates, NEW m \in Messages
    PROVE  Handled(w, m) \in WindowStates
<1>1. w.chunks \in Seq(Messages) /\ w.screen \in Seq(Entries)
  BY DEF WindowStates
<1>2. w = [chunks |-> w.chunks, screen |-> w.screen]
  BY DEF WindowStates
<1>3. m.data \in Seq(Characters)
  BY DEF Messages
<1>4. CASE m.type = "CLEAR"
  <2>1. Handled(w, m) = [w EXCEPT !.screen = <<>>]
    BY <1>4, HandledIs
  <2>2. [w EXCEPT !.screen = <<>>] = [chunks |-> w.chunks, screen |-> <<>>]
    BY <1>2
  <2>3. QED
    <3>1. <<>> \in Seq(Entries)
      OBVIOUS
    <3>2. [chunks |-> w.chunks, screen |-> <<>>] \in WindowStates
      BY <1>1, <3>1, WindowFrom, Zenon
    <3>3. QED
      BY <2>1, <2>2, <3>2, Zenon
<1>5. CASE m.type \in EntryTypes
  <2>1. Joined(w.chunks) \o m.data \in Seq(Characters)
    BY <1>1, <1>3, JoinedType
  <2>2. Message(m.type, Joined(w.chunks) \o m.data) \in Entries
    BY <2>1, <1>5 DEF Message, Entries
  <2>3. Handled(w, m) = Printed(w, m)
    BY <1>5, HandledIs
  <2>4. QED
    BY <1>1, <2>2, <2>3 DEF Printed, WindowStates
<1>6. CASE m.type \in ChunkTypes
  <2>1. Handled(w, m) = [w EXCEPT !.chunks = Append(@, m)]
    BY <1>6, HandledIs
  <2>2. [w EXCEPT !.chunks = Append(@, m)] = [chunks |-> Append(w.chunks, m), screen |-> w.screen]
    BY <1>2
  <2>3. QED
    <3>1. Append(w.chunks, m) \in Seq(Messages)
      BY <1>1
    <3>2. [chunks |-> Append(w.chunks, m), screen |-> w.screen] \in WindowStates
      BY <1>1, <3>1, WindowFrom, Zenon
    <3>3. QED
      BY <2>1, <2>2, <3>2, Zenon
<1>7. CASE m.type \notin EntryTypes \cup ChunkTypes \cup {"CLEAR"}
  BY <1>7, HandledIs
<1>8. QED
  BY <1>4, <1>5, <1>6, <1>7

-----------------------------------------------------------------------------
(***************************************************************************)
(* The windows that a window becomes.                                      *)
(***************************************************************************)

\* The equations of Windows.
AreWindows(f, w, s) == f[0] = w /\ \A k \in 1 .. Len(s) : f[k] = Handled(f[k - 1], s[k])

\* Only one function satisfies them.
LEMMA WindowsAgree ==
    ASSUME NEW w, NEW s, Len(s) \in Nat, NEW f, AreWindows(f, w, s), NEW g, AreWindows(g, w, s)
    PROVE  \A k \in 0 .. Len(s) : f[k] = g[k]
<1>1. f[0] = g[0]
  BY DEF AreWindows
<1>2. \A k \in 1 .. Len(s) : f[k - 1] = g[k - 1] => f[k] = g[k]
  BY DEF AreWindows
<1>3. QED
  BY ONLY Len(s) \in Nat, <1>1, <1>2, SameFunction

\* Windows satisfies its equations.
LEMMA WindowsAre ==
    ASSUME NEW w \in WindowStates, NEW s \in Seq(Messages)
    PROVE  /\ Windows(w, s) \in [0 .. Len(s) -> WindowStates]
           /\ Windows(w, s)[0] = w
           /\ \A k \in 1 .. Len(s) : Windows(w, s)[k] = Handled(Windows(w, s)[k - 1], s[k])
<1> DEFINE n == Len(s)
           F == [k \in 1 .. n |-> [x \in WindowStates |-> Handled(x, s[k])]]
           Is(f) == f = [k \in 0 .. n |-> IF k = 0 THEN w ELSE Handled(f[k - 1], s[k])]
           g == CHOOSE f : Is(f)
<1>1. n \in Nat /\ \A k \in 1 .. n : s[k] \in Messages
  OBVIOUS
<1>2. IsSteps(F, WindowStates, n)
  BY <1>1, HandledType DEF IsSteps
<1>3. \E f : IsIteration(f, F, WindowStates, w, n)
  <2>1. n \in Nat
    BY <1>1
  <2> HIDE DEF n, F
  <2>2. QED
    BY ONLY <2>1, <1>2, w \in WindowStates, Iterated
<1>4. PICK f \in [0 .. n -> WindowStates] : f[0] = w /\ \A k \in 1 .. n : f[k] = F[k][f[k - 1]]
  BY <1>3 DEF IsIteration
<1>5. \A k \in 1 .. n : f[k] = Handled(f[k - 1], s[k])
  <2> TAKE k \in 1 .. n
  <2>1. k - 1 \in 0 .. n
    BY <1>1
  <2>2. f[k - 1] \in WindowStates
    BY <1>4, <2>1
  <2>3. QED
    BY <1>4, <2>2
<1>6. Is(f)
  BY <1>1, <1>4, <1>5
<1>7. Windows(w, s) = g
  BY DEF Windows
<1>8. Is(g)
  BY <1>6
<1> HIDE DEF g
<1>9. g[0] = w /\ \A k \in 1 .. n : g[k] = Handled(g[k - 1], s[k])
  BY <1>1, <1>8
<1>10. \A k \in 0 .. n : f[k] = g[k]
  <2>1. AreWindows(f, w, s) /\ AreWindows(g, w, s)
    BY <1>4, <1>5, <1>9 DEF AreWindows
  <2>2. QED
    BY ONLY Len(s) \in Nat, <2>1, WindowsAgree
<1>11. g \in [0 .. n -> WindowStates]
  BY <1>4, <1>8, <1>10
<1>12. QED
  BY <1>7, <1>9, <1>11

\* Nothing else does.
LEMMA WindowsOnly ==
    ASSUME NEW w \in WindowStates, NEW s \in Seq(Messages), NEW f, AreWindows(f, w, s)
    PROVE  \A k \in 0 .. Len(s) : f[k] = Windows(w, s)[k]
<1>1. AreWindows(Windows(w, s), w, s)
  BY WindowsAre DEF AreWindows
<1>2. QED
  BY <1>1, WindowsAgree

-----------------------------------------------------------------------------
(***************************************************************************)
(* Messages that are handled one after the other without harm.             *)
(***************************************************************************)
After(w, s) == Windows(w, s)[Len(s)]

\* A screen shows nothing or the beginning of a conversation.
Shown(conversations, screen) ==
    screen = <<>> \/ \E id \in 1 .. Len(conversations) : IsPrefix(screen, conversations[id])

\* A window that handles the messages refuses none, and always shows at most
\* one conversation.
Fine(conversations, w, s) ==
    /\ \A k \in 0 .. Len(s) : Shown(conversations, Windows(w, s)[k].screen)
    /\ \A k \in 1 .. Len(s) : ~Refuses(Windows(w, s)[k - 1], s[k])

\* What a window becomes is a window.
LEMMA AfterType ==
    ASSUME NEW w \in WindowStates, NEW s \in Seq(Messages)
    PROVE  After(w, s) \in WindowStates
<1>1. Len(s) \in 0 .. Len(s)
  OBVIOUS
<1>2. QED
  BY <1>1, WindowsAre DEF After

\* The windows of a concatenation.
LEMMA WindowsOfBoth ==
    ASSUME NEW w \in WindowStates, NEW s \in Seq(Messages), NEW u \in Seq(Messages)
    PROVE  /\ \A k \in 0 .. Len(s) : Windows(w, s \o u)[k] = Windows(w, s)[k]
           /\ \A k \in 0 .. Len(u) :
                 Windows(w, s \o u)[Len(s) + k] = Windows(After(w, s), u)[k]
<1> DEFINE f == Windows(w, s \o u)
           g == [k \in 0 .. Len(u) |-> f[Len(s) + k]]
<1>1. /\ s \o u \in Seq(Messages) /\ Len(s \o u) = Len(s) + Len(u)
      /\ Len(s) \in Nat /\ Len(u) \in Nat
      /\ \A k \in 1 .. Len(s) : (s \o u)[k] = s[k]
      /\ \A k \in 1 .. Len(u) : (s \o u)[Len(s) + k] = u[k]
  OBVIOUS
<1>2. f[0] = w /\ \A k \in 1 .. Len(s \o u) : f[k] = Handled(f[k - 1], (s \o u)[k])
  BY <1>1, WindowsAre
<1> HIDE DEF f
<1>3. AreWindows(f, w, s)
  <2>1. ASSUME NEW k \in 1 .. Len(s) PROVE f[k] = Handled(f[k - 1], s[k])
    <3>1. k \in 1 .. Len(s \o u) /\ (s \o u)[k] = s[k]
      BY <1>1
    <3>2. QED
      BY <1>2, <3>1
  <2>2. QED
    BY <1>2, <2>1 DEF AreWindows
<1>4. \A k \in 0 .. Len(s) : f[k] = Windows(w, s)[k]
  BY <1>3, WindowsOnly
<1>5. f[Len(s)] = After(w, s)
  BY <1>1, <1>4 DEF After
<1>6. AreWindows(g, After(w, s), u)
  <2>1. g[0] = After(w, s)
    BY <1>1, <1>5
  <2>2. ASSUME NEW k \in 1 .. Len(u) PROVE g[k] = Handled(g[k - 1], u[k])
    <3>1. /\ Len(s) + k \in 1 .. Len(s \o u) /\ (s \o u)[Len(s) + k] = u[k]
          /\ k \in 0 .. Len(u) /\ k - 1 \in 0 .. Len(u)
          /\ Len(s) + (k - 1) = (Len(s) + k) - 1
      BY <1>1
    <3>2. f[Len(s) + k] = Handled(f[(Len(s) + k) - 1], u[k])
      BY <1>2, <3>1
    <3>3. g[k] = f[Len(s) + k] /\ g[k - 1] = f[(Len(s) + k) - 1]
      BY <3>1
    <3>4. QED
      BY <3>2, <3>3
  <2>3. QED
    BY <2>1, <2>2 DEF AreWindows
<1>7. After(w, s) \in WindowStates
  BY AfterType
<1>8. \A k \in 0 .. Len(u) : g[k] = Windows(After(w, s), u)[k]
  <2> HIDE DEF g
  <2>1. QED
    BY <1>6, <1>7, WindowsOnly
<1>9. QED
  BY <1>4, <1>8 DEF f

\* Messages that follow others.
LEMMA AfterBoth ==
    ASSUME NEW w \in WindowStates, NEW s \in Seq(Messages), NEW u \in Seq(Messages)
    PROVE  After(w, s \o u) = After(After(w, s), u)
<1>1. Len(s \o u) = Len(s) + Len(u) /\ Len(u) \in 0 .. Len(u)
  OBVIOUS
<1>2. QED
  BY <1>1, WindowsOfBoth DEF After

\* A concatenation does no harm when neither part does.
LEMMA FineBoth ==
    ASSUME NEW c, NEW w \in WindowStates, NEW s \in Seq(Messages), NEW u \in Seq(Messages)
    PROVE  Fine(c, w, s \o u) <=> Fine(c, w, s) /\ Fine(c, After(w, s), u)
<1> DEFINE f == Windows(w, s \o u)
           g == Windows(w, s)
           h == Windows(After(w, s), u)
           t == s \o u
<1>1. /\ Len(t) = Len(s) + Len(u)
      /\ Len(s) \in Nat /\ Len(u) \in Nat
      /\ \A k \in 1 .. Len(s) : t[k] = s[k]
      /\ \A k \in 1 .. Len(u) : t[Len(s) + k] = u[k]
  OBVIOUS
<1>2. /\ \A k \in 0 .. Len(s) : f[k] = g[k]
      /\ \A k \in 0 .. Len(u) : f[Len(s) + k] = h[k]
  BY WindowsOfBoth
<1> HIDE DEF f, g, h, t
<1>3. ASSUME Fine(c, w, t) PROVE Fine(c, w, s)
  <2>1. ASSUME NEW k \in 0 .. Len(s) PROVE Shown(c, g[k].screen)
    <3>1. k \in 0 .. Len(t)
      BY <1>1
    <3>2. QED
      BY <1>2, <1>3, <3>1 DEF Fine, f, t
  <2>2. ASSUME NEW k \in 1 .. Len(s) PROVE ~Refuses(g[k - 1], s[k])
    <3>1. k \in 1 .. Len(t) /\ k - 1 \in 0 .. Len(s)
      BY <1>1
    <3>2. ~Refuses(f[k - 1], t[k])
      BY <1>3, <3>1 DEF Fine, f, t
    <3>3. QED
      BY <1>1, <1>2, <3>1, <3>2
  <2>3. QED
    BY <2>1, <2>2 DEF Fine, g
<1>4. ASSUME Fine(c, w, t) PROVE Fine(c, After(w, s), u)
  <2>1. ASSUME NEW k \in 0 .. Len(u) PROVE Shown(c, h[k].screen)
    <3>1. Len(s) + k \in 0 .. Len(t)
      BY <1>1
    <3>2. Shown(c, f[Len(s) + k].screen)
      BY <1>4, <3>1 DEF Fine, f, t
    <3>3. QED
      BY <1>2, <3>2
  <2>2. ASSUME NEW k \in 1 .. Len(u) PROVE ~Refuses(h[k - 1], u[k])
    <3>1. /\ Len(s) + k \in 1 .. Len(t) /\ k - 1 \in 0 .. Len(u)
          /\ (Len(s) + k) - 1 = Len(s) + (k - 1)
      BY <1>1
    <3>2. ~Refuses(f[(Len(s) + k) - 1], t[Len(s) + k])
      BY <1>4, <3>1 DEF Fine, f, t
    <3>3. f[(Len(s) + k) - 1] = h[k - 1] /\ t[Len(s) + k] = u[k]
      BY <1>1, <1>2, <3>1
    <3>4. QED
      BY <3>2, <3>3
  <2>3. QED
    BY <2>1, <2>2 DEF Fine, h
<1>5. ASSUME Fine(c, w, s), Fine(c, After(w, s), u) PROVE Fine(c, w, t)
  <2>1. ASSUME NEW k \in 0 .. Len(t) PROVE Shown(c, f[k].screen)
    <3>1. CASE k <= Len(s)
      <4>1. k \in 0 .. Len(s)
        BY <1>1, <3>1
      <4>2. QED
        BY <1>2, <1>5, <4>1 DEF Fine, g
    <3>2. CASE ~(k <= Len(s))
      <4>1. k - Len(s) \in 0 .. Len(u) /\ Len(s) + (k - Len(s)) = k
        BY <1>1, <3>2
      <4>2. f[k] = h[k - Len(s)]
        BY <1>2, <4>1
      <4>3. QED
        BY <1>5, <4>1, <4>2 DEF Fine, h
    <3>3. QED
      BY <3>1, <3>2
  <2>2. ASSUME NEW k \in 1 .. Len(t) PROVE ~Refuses(f[k - 1], t[k])
    <3>1. CASE k <= Len(s)
      <4>1. k \in 1 .. Len(s) /\ k - 1 \in 0 .. Len(s)
        BY <1>1, <3>1
      <4>2. f[k - 1] = g[k - 1] /\ t[k] = s[k]
        BY <1>1, <1>2, <4>1
      <4>3. QED
        BY <1>5, <4>1, <4>2 DEF Fine, g
    <3>2. CASE ~(k <= Len(s))
      <4> DEFINE j == k - Len(s)
      <4>1. j \in 1 .. Len(u) /\ j - 1 \in 0 .. Len(u) /\ Len(s) + j = k /\ Len(s) + (j - 1) = k - 1
        BY <1>1, <3>2
      <4> HIDE DEF j
      <4>2. f[k - 1] = h[j - 1] /\ t[k] = u[j]
        BY <1>1, <1>2, <4>1
      <4>3. QED
        BY <1>5, <4>1, <4>2 DEF Fine, h
    <3>3. QED
      BY <3>1, <3>2
  <2>3. QED
    BY <2>1, <2>2 DEF Fine, f, t
<1>6. QED
  BY <1>3, <1>4, <1>5 DEF t

\* No message at all.
LEMMA FineNothing ==
    ASSUME NEW c, NEW w \in WindowStates
    PROVE  After(w, <<>>) = w /\ (Fine(c, w, <<>>) <=> Shown(c, w.screen))
<1>1. <<>> \in Seq(Messages) /\ Len(<<>>) = 0
  OBVIOUS
<1>2. Windows(w, <<>>)[0] = w
  BY <1>1, WindowsAre
<1>3. 0 .. Len(<<>>) = {0} /\ 1 .. Len(<<>>) = {}
  BY <1>1
<1>4. QED
  BY <1>1, <1>2, <1>3 DEF Fine, After

\* One message.
LEMMA FineOne ==
    ASSUME NEW c, NEW w \in WindowStates, NEW m \in Messages
    PROVE  /\ After(w, <<m>>) = Handled(w, m)
           /\ Fine(c, w, <<m>>) <=> /\ Shown(c, w.screen)
                                   /\ Shown(c, Handled(w, m).screen)
                                   /\ ~Refuses(w, m)
<1> DEFINE s == <<m>>
           f == Windows(w, s)
<1>1. s \in Seq(Messages) /\ Len(s) = 1 /\ s[1] = m
  OBVIOUS
<1>2. f[0] = w /\ f[1] = Handled(w, m)
  <2>1. f[0] = w /\ \A k \in 1 .. 1 : f[k] = Handled(f[k - 1], s[k])
    BY <1>1, WindowsAre
  <2>2. f[1] = Handled(f[1 - 1], s[1])
    BY <2>1
  <2>3. QED
    BY <1>1, <2>1, <2>2
<1>3. 0 .. Len(s) = {0, 1} /\ 1 .. Len(s) = {1} /\ 1 - 1 = 0
  BY <1>1
<1>4. After(w, s) = Handled(w, m)
  BY <1>1, <1>2 DEF After
<1> HIDE DEF s
<1>5. Fine(c, w, s) <=> Shown(c, w.screen) /\ Shown(c, Handled(w, m).screen) /\ ~Refuses(w, m)
  BY <1>1, <1>2, <1>3 DEF Fine
<1>6. QED
  BY <1>4, <1>5 DEF s

\* The first of several messages.
LEMMA FineFirst ==
    ASSUME NEW c, NEW w \in WindowStates, NEW s \in Seq(Messages), s # <<>>
    PROVE  /\ Head(s) \in Messages /\ Tail(s) \in Seq(Messages)
           /\ Handled(w, Head(s)) \in WindowStates
           /\ After(Handled(w, Head(s)), Tail(s)) = After(w, s)
           /\ Fine(c, w, s) => ~Refuses(w, Head(s)) /\ Fine(c, Handled(w, Head(s)), Tail(s))
<1> DEFINE m == Head(s)
           u == Tail(s)
           o == <<m>>
<1>1. m \in Messages /\ u \in Seq(Messages) /\ o \in Seq(Messages) /\ s = o \o u
  OBVIOUS
<1> HIDE DEF m, u
<1>2. Handled(w, m) \in WindowStates
  BY <1>1, HandledType
<1>3. After(w, o) = Handled(w, m)
  BY <1>1, FineOne
<1>4. Fine(c, w, o) => ~Refuses(w, m)
  BY <1>1, FineOne
<1> HIDE DEF o
<1>5. After(w, s) = After(Handled(w, m), u)
  BY <1>1, <1>3, AfterBoth
<1>6. Fine(c, w, s) => Fine(c, w, o) /\ Fine(c, Handled(w, m), u)
  BY <1>1, <1>3, FineBoth
<1>7. QED
  BY <1>1, <1>2, <1>4, <1>5, <1>6 DEF m, u

-----------------------------------------------------------------------------
(***************************************************************************)
(* The messages of an entry.                                               *)
(***************************************************************************)

\* The full messages of a text do not go beyond it, and leave at most one
\* message of it.
LEMMA FullMessagesFit ==
    ASSUME NEW l \in Nat
    PROVE  /\ FullMessages(l) \in Nat
           /\ MAX_DATA_LENGTH * FullMessages(l) \in 0 .. l
           /\ l - MAX_DATA_LENGTH * FullMessages(l) <= MAX_DATA_LENGTH
<1> DEFINE M == MAX_DATA_LENGTH
           q == l \div M
           r == l % M
<1>1. M \in Nat \ {0}
  BY ChatMessagesAssumption
<1>2. q \in Nat /\ r \in 0 .. M - 1 /\ l = M * q + r /\ M * q \in Nat
  BY <1>1
<1> HIDE DEF q, r, M
<1>3. CASE q # 0 /\ r = 0
  <2>1. FullMessages(l) = q - 1
    BY <1>3 DEF FullMessages, q, r, M
  <2>2. q - 1 \in Nat /\ M * (q - 1) = M * q - M
    BY <1>1, <1>2, <1>3
  <2>3. M * q >= M
    BY <1>1, <1>2, <1>3
  <2>4. QED
    BY <1>1, <1>2, <1>3, <2>1, <2>2, <2>3 DEF M
<1>4. CASE ~(q # 0 /\ r = 0)
  <2>1. FullMessages(l) = q
    BY <1>4 DEF FullMessages, q, r, M
  <2>2. QED
    BY <1>1, <1>2, <2>1 DEF M
<1>5. QED
  BY <1>3, <1>4

\* The places of the chunks in the text.
LEMMA Multiples ==
    ASSUME NEW n \in Nat, NEW k \in 1 .. n
    PROVE  /\ MAX_DATA_LENGTH * (k - 1) \in Nat
           /\ MAX_DATA_LENGTH * k = MAX_DATA_LENGTH * (k - 1) + MAX_DATA_LENGTH
           /\ MAX_DATA_LENGTH * k <= MAX_DATA_LENGTH * n
<1> DEFINE M == MAX_DATA_LENGTH
<1>1. M \in Nat
  BY ChatMessagesAssumption
<1> HIDE DEF M
<1>2. k - 1 \in Nat /\ n - k \in Nat /\ k \in Nat
  OBVIOUS
<1>3. M * (k - 1) \in Nat /\ M * (n - k) \in Nat
  BY <1>1, <1>2
<1>4. M * k = M * (k - 1) + M
  BY <1>1, <1>2
<1>5. M * n = M * k + M * (n - k)
  BY <1>1, <1>2
<1>6. QED
  BY <1>1, <1>2, <1>3, <1>4, <1>5 DEF M

\* A piece of a text, and the text up to it.
LEMMA Piece ==
    ASSUME NEW S, NEW d \in Seq(S), NEW a \in Nat, NEW b \in Nat, a <= b, b <= Len(d)
    PROVE  /\ SubSeq(d, a + 1, b) \in Seq(S)
           /\ Len(SubSeq(d, a + 1, b)) = b - a
           /\ SubSeq(d, 1, a) \o SubSeq(d, a + 1, b) = SubSeq(d, 1, b)
           /\ SubSeq(d, 1, Len(d)) = d
<1>1. Len(d) \in Nat
  OBVIOUS
<1>2. SubSeq(d, a + 1, b) \in Seq(S) /\ Len(SubSeq(d, a + 1, b)) = b - a
  BY <1>1
<1>3. SubSeq(d, 1, a) \o SubSeq(d, a + 1, b) = SubSeq(d, 1, b)
  BY <1>1
<1>4. SubSeq(d, 1, Len(d)) = d
  BY <1>1
<1>5. QED
  BY <1>2, <1>3, <1>4

\* An entry is cut into chunks of its type and a last message; together they
\* hold its text, each at most MAX_DATA_LENGTH characters of it.
LEMMA ChunksAre ==
    ASSUME NEW e \in Entries
    PROVE  \E n \in Nat, P \in Seq(Messages), rest \in Seq(Characters) :
              /\ Len(P) = n
              /\ \A i \in 1 .. n : P[i].type = ChunkType[e.type]
              /\ Message(e.type, rest) \in Messages
              /\ Chunks(e) = P \o <<Message(e.type, rest)>>
              /\ Joined(P) \o rest = e.data
<1> DEFINE M == MAX_DATA_LENGTH
           d == e.data
           n == FullMessages(Len(d))
           P == [i \in 1 .. n |-> Message(ChunkType[e.type], SubSeq(d, M * (i - 1) + 1, M * i))]
           rest == SubSeq(d, M * n + 1, Len(d))
           t == [k \in 0 .. n |-> SubSeq(d, 1, M * k)]
<1>1. e.type \in EntryTypes /\ d \in Seq(Characters) /\ Len(d) \in Nat
  BY DEF Entries
<1>2. M \in Nat \ {0}
  BY ChatMessagesAssumption
<1>3. n \in Nat /\ M * n \in 0 .. Len(d) /\ Len(d) - M * n <= M
  BY <1>1, FullMessagesFit
<1>4. Chunks(e) = P \o <<Message(e.type, rest)>>
  BY DEF Chunks
<1>5. \A k \in 1 .. n : M * (k - 1) \in Nat /\ M * k = M * (k - 1) + M /\ M * k <= M * n
  BY <1>3, Multiples
<1>6. ChunkType[e.type] \in MessageTypes /\ e.type \in MessageTypes
  BY <1>1 DEF ChunkType, MessageTypes, EntryTypes, ChunkTypes
<1> HIDE DEF M, d, n
<1>7. /\ rest \in Seq(Characters) /\ Len(rest) = Len(d) - M * n
      /\ SubSeq(d, 1, M * n) \o rest = d
  <2> DEFINE b == M * n
             l == Len(d)
  <2>1. b \in Nat /\ l \in Nat /\ b <= l /\ l <= Len(d)
    BY <1>1, <1>3
  <2> HIDE DEF b, l
  <2>2. /\ SubSeq(d, b + 1, l) \in Seq(Characters)
        /\ Len(SubSeq(d, b + 1, l)) = l - b
        /\ SubSeq(d, 1, b) \o SubSeq(d, b + 1, l) = SubSeq(d, 1, l)
        /\ SubSeq(d, 1, Len(d)) = d
    BY <1>1, <2>1, Piece
  <2>3. QED
    BY <2>2 DEF b, l
<1>8. Message(e.type, rest) \in Messages
  <2>1. Len(rest) <= M
    BY <1>1, <1>2, <1>3, <1>7
  <2> HIDE DEF rest
  <2>2. QED
    BY <1>6, <1>7, <2>1 DEF Message, Messages, M
<1>9. ASSUME NEW i \in 1 .. n
      PROVE  P[i] \in Messages /\ P[i].type = ChunkType[e.type]
                /\ P[i].data = SubSeq(d, M * (i - 1) + 1, M * i)
  <2> DEFINE a == M * (i - 1)
             b == M * i
             x == SubSeq(d, a + 1, b)
  <2>1. a \in Nat /\ b = a + M /\ b <= Len(d)
    BY <1>1, <1>2, <1>3, <1>5
  <2> HIDE DEF a, b
  <2>2. x \in Seq(Characters) /\ Len(x) = M
    BY <1>1, <1>2, <2>1
  <2>3. P[i] = Message(ChunkType[e.type], x)
    BY DEF a, b
  <2> HIDE DEF x, P
  <2>4. P[i] \in Messages
    BY <1>2, <1>6, <2>2, <2>3 DEF Message, Messages, M
  <2>5. P[i].type = ChunkType[e.type] /\ P[i].data = x
    BY <2>3 DEF Message
  <2>6. QED
    BY <2>4, <2>5 DEF x, a, b
<1>10. P \in Seq(Messages) /\ Len(P) = n
  BY <1>3, <1>9
<1>11. Joined(P) = SubSeq(d, 1, M * n)
  <2>1. t[0] = <<>>
    <3>1. M * 0 = 0
      BY <1>2
    <3>2. SubSeq(d, 1, 0) = <<>>
      BY <1>1
    <3>3. QED
      BY <1>3, <3>1, <3>2
  <2>2. ASSUME NEW k \in 1 .. n PROVE t[k] = t[k - 1] \o P[k].data
    <3> DEFINE a == M * (k - 1)
               b == M * k
    <3>1. a \in Nat /\ b = a + M /\ b <= Len(d) /\ a <= b
      BY <1>1, <1>2, <1>3, <1>5
    <3>2. t[k] = SubSeq(d, 1, b) /\ t[k - 1] = SubSeq(d, 1, a)
      <4>1. k \in 0 .. n /\ k - 1 \in 0 .. n
        BY <1>3
      <4>2. QED
        BY <4>1, Zenon
    <3>3. P[k].data = SubSeq(d, a + 1, b)
      BY <1>9
    <3> HIDE DEF a, b, P, t
    <3>4. SubSeq(d, 1, b) = SubSeq(d, 1, a) \o SubSeq(d, a + 1, b)
      BY <1>1, <1>2, <3>1, Piece
    <3>5. QED
      BY <3>2, <3>3, <3>4
  <2>3. t = [k \in 0 .. Len(P) |-> IF k = 0 THEN <<>> ELSE t[k - 1] \o P[k].data]
    <3>1. t = [k \in 0 .. n |-> t[k]]
      OBVIOUS
    <3> HIDE DEF t, P
    <3>2. ASSUME NEW k \in 0 .. n
          PROVE  t[k] = IF k = 0 THEN <<>> ELSE t[k - 1] \o P[k].data
      <4>1. CASE k = 0
        BY <2>1, <4>1
      <4>2. CASE k # 0
        <5>1. k \in 1 .. n
          BY <1>3, <4>2
        <5>2. t[k] = t[k - 1] \o P[k].data
          BY <2>2, <5>1
        <5>3. QED
          BY <4>2, <5>2, Zenon
      <4>3. QED
        BY <4>1, <4>2
    <3>3. QED
      BY <1>10, <3>1, <3>2, Zenon
  <2>4. t[n] = SubSeq(d, 1, M * n)
    BY <1>3
  <2> HIDE DEF t, P
  <2>5. Joined(P) = t[Len(P)]
    BY <1>3, <1>10, <2>3, JoinedIs
  <2>6. QED
    BY <1>10, <2>4, <2>5
<1>12. Joined(P) \o rest = d
  BY <1>7, <1>11
<1> HIDE DEF P, rest
<1>13. QED
  BY <1>3, <1>4, <1>7, <1>8, <1>9, <1>10, <1>12 DEF d

\* Types of messages that a window may handle between texts.
LEMMA FinePause ==
    ASSUME NEW c, NEW w \in WindowStates, Shown(c, w.screen),
           NEW m \in Messages, m.type \in {"HEARTBEAT", "GOODBYE"}
    PROVE  Handled(w, m) = w /\ ~Refuses(w, m) /\ Fine(c, w, <<m>>) /\ After(w, <<m>>) = w
<1>1. m.type \notin EntryTypes /\ m.type \notin ChunkTypes /\ m.type # "CLEAR"
  BY DEF EntryTypes, ChunkTypes
<1>2. Handled(w, m) = w
  BY <1>1, HandledIs
<1>3. ~Refuses(w, m)
  BY <1>1 DEF Refuses
<1>4. QED
  BY <1>2, <1>3, FineOne

\* A clear between texts.
LEMMA FineClear ==
    ASSUME NEW c, NEW w \in WindowStates, Shown(c, w.screen), w.chunks = <<>>,
           NEW m \in Messages, m.type = "CLEAR"
    PROVE  Fine(c, w, <<m>>) /\ After(w, <<m>>) = EmptyWindow
<1>1. w = [chunks |-> <<>>, screen |-> w.screen]
  BY DEF WindowStates
<1>2. Handled(w, m) = [w EXCEPT !.screen = <<>>]
  BY HandledIs
<1>3. [w EXCEPT !.screen = <<>>] = [chunks |-> <<>>, screen |-> <<>>]
  BY <1>1
<1>4. Handled(w, m) = EmptyWindow
  BY <1>2, <1>3 DEF EmptyWindow
<1>5. ~Refuses(w, m)
  BY DEF Refuses
<1>6. Shown(c, Handled(w, m).screen)
  BY <1>4 DEF EmptyWindow, Shown
<1>7. QED
  BY <1>4, <1>5, <1>6, FineOne

\* Chunks of one type, for a window that has none.
LEMMA FineChunks ==
    ASSUME NEW c, NEW w \in WindowStates, Shown(c, w.screen), w.chunks = <<>>,
           NEW P \in Seq(Messages), NEW type \in ChunkTypes,
           \A i \in 1 .. Len(P) : P[i].type = type
    PROVE  Fine(c, w, P) /\ After(w, P) = [chunks |-> P, screen |-> w.screen]
<1> DEFINE n == Len(P)
           f == [k \in 0 .. n |-> [chunks |-> SubSeq(P, 1, k), screen |-> w.screen]]
<1>1. n \in Nat /\ w = [chunks |-> <<>>, screen |-> w.screen]
  BY DEF WindowStates
<1>2. f[0] = w
  <2>1. SubSeq(P, 1, 0) = <<>>
    OBVIOUS
  <2>2. 0 \in 0 .. n
    BY <1>1
  <2>3. f[0] = [chunks |-> SubSeq(P, 1, 0), screen |-> w.screen]
    BY <2>2, Zenon
  <2> HIDE DEF f
  <2>4. QED
    BY <1>1, <2>1, <2>3
<1>3. ASSUME NEW k \in 1 .. n
      PROVE  f[k] = Handled(f[k - 1], P[k]) /\ ~Refuses(f[k - 1], P[k])
  <2> DEFINE v == [chunks |-> SubSeq(P, 1, k - 1), screen |-> w.screen]
  <2>1. k \in 0 .. n /\ k - 1 \in 0 .. n
    BY <1>1
  <2>2. f[k - 1] = v /\ f[k] = [chunks |-> SubSeq(P, 1, k), screen |-> w.screen]
    BY <2>1, Zenon
  <2>3. P[k].type = type
    OBVIOUS
  <2>4. Handled(v, P[k]) = [v EXCEPT !.chunks = Append(@, P[k])]
    <3> HIDE DEF v
    <3>1. QED
      BY <2>3, HandledIs
  <2>5. Append(SubSeq(P, 1, k - 1), P[k]) = SubSeq(P, 1, k)
    BY <1>1
  <2>6. Handled(v, P[k]) = f[k]
    BY <2>2, <2>4, <2>5
  <2>7. ~Refuses(v, P[k])
    <3>1. type \notin EntryTypes /\ type # "CLEAR"
      BY DEF EntryTypes, ChunkTypes
    <3>2. ASSUME v.chunks # <<>> PROVE Last(v.chunks).type = type
      <4>1. v.chunks = SubSeq(P, 1, k - 1)
        OBVIOUS
      <4>2. k - 1 # 0
        <5>1. SubSeq(P, 1, 0) = <<>>
          OBVIOUS
        <5>2. QED
          BY <3>2, <4>1, <5>1
      <4>3. k - 1 \in 1 .. n /\ Len(SubSeq(P, 1, k - 1)) = k - 1 /\
              SubSeq(P, 1, k - 1)[k - 1] = P[k - 1]
        BY <1>1, <4>2
      <4>4. Last(v.chunks) = P[k - 1]
        BY <4>1, <4>3 DEF Last
      <4>5. QED
        BY <4>3, <4>4
    <3> HIDE DEF v
    <3>3. QED
      BY <2>3, <3>1, <3>2 DEF Refuses
  <2>8. QED
    BY <2>2, <2>6, <2>7
<1>4. f[n] = [chunks |-> P, screen |-> w.screen]
  <2>1. SubSeq(P, 1, n) = P /\ n \in 0 .. n
    BY <1>1
  <2>2. QED
    BY <2>1
<1>5. \A k \in 0 .. n : f[k].screen = w.screen
  OBVIOUS
<1> HIDE DEF f
<1>6. AreWindows(f, w, P)
  BY <1>2, <1>3 DEF AreWindows
<1>7. \A k \in 0 .. n : f[k] = Windows(w, P)[k]
  BY <1>6, WindowsOnly
<1>8. After(w, P) = f[n]
  BY <1>1, <1>7 DEF After
<1>9. Fine(c, w, P)
  <2>1. \A k \in 0 .. n : Shown(c, Windows(w, P)[k].screen)
    BY <1>5, <1>7
  <2>2. ASSUME NEW k \in 1 .. n PROVE ~Refuses(Windows(w, P)[k - 1], P[k])
    <3>1. k - 1 \in 0 .. n
      BY <1>1
    <3>2. QED
      BY <1>3, <1>7, <3>1
  <2>3. QED
    BY <2>1, <2>2 DEF Fine
<1>10. QED
  BY <1>4, <1>8, <1>9

\* The messages of an entry, for a window that has no chunks, print the entry.
LEMMA FineEntry ==
    ASSUME NEW c, NEW w \in WindowStates, Shown(c, w.screen), w.chunks = <<>>,
           NEW e \in Entries, Shown(c, Append(w.screen, e))
    PROVE  /\ Chunks(e) \in Seq(Messages) /\ Chunks(e) # <<>>
           /\ Fine(c, w, Chunks(e))
           /\ After(w, Chunks(e)) = [chunks |-> <<>>, screen |-> Append(w.screen, e)]
<1>1. PICK n \in Nat, P \in Seq(Messages), rest \in Seq(Characters) :
              /\ Len(P) = n
              /\ \A i \in 1 .. n : P[i].type = ChunkType[e.type]
              /\ Message(e.type, rest) \in Messages
              /\ Chunks(e) = P \o <<Message(e.type, rest)>>
              /\ Joined(P) \o rest = e.data
  BY ChunksAre
<1> DEFINE m == Message(e.type, rest)
           v == [chunks |-> P, screen |-> w.screen]
           o == <<m>>
<1>2. e.type \in EntryTypes /\ e = Message(e.type, e.data)
  BY DEF Entries, Message
<1>3. ChunkType[e.type] \in ChunkTypes
  BY <1>2 DEF ChunkType, ChunkTypes, EntryTypes
<1>4. Fine(c, w, P) /\ After(w, P) = v
  BY <1>1, <1>3, FineChunks
<1>5. v \in WindowStates /\ v.screen = w.screen /\ v.chunks = P
  BY <1>4, AfterType
<1>6. m \in Messages /\ m.type = e.type /\ m.data = rest
  BY <1>1 DEF Message
<1>7. Handled(v, m) = [chunks |-> <<>>, screen |-> Append(w.screen, e)]
  <2>1. Handled(v, m) = Printed(v, m)
    <3> HIDE DEF m, v
    <3>1. QED
      BY <1>2, <1>6, HandledIs
  <2>2. Printed(v, m) = [chunks |-> <<>>, screen |-> Append(w.screen, Message(e.type, e.data))]
    <3> HIDE DEF m, v
    <3>1. QED
      BY <1>1, <1>5, <1>6 DEF Printed
  <2>3. QED
    BY <1>2, <2>1, <2>2
<1>8. ~Refuses(v, m)
  <2>1. e.type # "CLEAR" /\ e.type \notin ChunkTypes
    BY <1>2 DEF EntryTypes, ChunkTypes
  <2>2. ASSUME P # <<>> PROVE Last(P).type = ChunkType[e.type]
    <3>1. Len(P) \in 1 .. n
      BY <1>1, <2>2
    <3>2. QED
      BY <1>1, <3>1 DEF Last
  <2> HIDE DEF m, v
  <2>3. QED
    BY <1>5, <1>6, <2>1, <2>2 DEF Refuses
<1>9. Fine(c, v, o) /\ After(v, o) = Handled(v, m)
  <2> HIDE DEF m, v
  <2>1. Shown(c, v.screen)
    BY <1>5
  <2>2. Handled(v, m).screen = Append(w.screen, e)
    BY <1>7
  <2>3. Shown(c, Handled(v, m).screen)
    BY <2>2
  <2>4. QED
    BY <1>5, <1>6, <1>8, <2>1, <2>3, FineOne
<1>10. o \in Seq(Messages) /\ Chunks(e) = P \o o
  BY <1>1
<1>11. P \o o \in Seq(Messages) /\ P \o o # <<>>
  BY <1>1
<1> HIDE DEF o, m, v
<1>12. Fine(c, w, P \o o)
  BY <1>4, <1>9, <1>10, FineBoth
<1>13. After(w, P \o o) = Handled(v, m)
  BY <1>4, <1>9, <1>10, AfterBoth
<1>14. QED
  BY <1>7, <1>10, <1>11, <1>12, <1>13

-----------------------------------------------------------------------------
(***************************************************************************)
(* Threads.                                                                *)
(***************************************************************************)

\* The other threads leave main() where it is, and nobody starts it again.
KeepsMain == pc'["main"] = pc["main"] /\ (stopped["handler"] => stopped'["handler"])

\* A thread goes on to a place of its own.
LEMMA GotoType ==
    ASSUME ThreadType, NEW t \in Threads, NEW place, Goto(t, place),
           place \in IF t = "main" THEN MainPlaces ELSE LoopPlaces
    PROVE  /\ ThreadType' /\ stopped' = stopped /\ pc'[t] = place
           /\ t # "main" => KeepsMain
<1>1. /\ pc' = [pc EXCEPT ![t] = place] /\ try' = [try EXCEPT ![t] = Attempts]
      /\ stopped' = stopped
  BY DEF Goto
<1>2. Attempts \in 1 .. Attempts
  BY ChatAssumption
<1>3. place \in MainPlaces \cup LoopPlaces
  BY DEF MainPlaces, LoopPlaces
<1>4. "main" \in Threads
  BY DEF Threads, HandlerThreads
<1>5. pc' \in [Threads -> MainPlaces \cup LoopPlaces] /\ pc'[t] = place
  BY <1>1, <1>3 DEF ThreadType
<1>6. \A u \in Threads : u # t => pc'[u] = pc[u]
  BY <1>1 DEF ThreadType
<1>7. \A u \in Threads : pc'[u] \in IF u = "main" THEN MainPlaces ELSE LoopPlaces
  BY <1>5, <1>6 DEF ThreadType
<1>8. try' \in [Threads -> 1 .. Attempts]
  BY <1>1, <1>2 DEF ThreadType
<1>9. QED
  BY <1>1, <1>4, <1>5, <1>6, <1>7, <1>8 DEF ThreadType, KeepsMain

\* A thread ends and its process is stopped.
LEMMA EndsType ==
    ASSUME ThreadType, NEW t \in Threads, Ends(t)
    PROVE  /\ ThreadType' /\ pc'[t] = "ended" /\ stopped'[ProcessOf(t)]
           /\ t # "main" => KeepsMain
<1> DEFINE p == ProcessOf(t)
<1>1. /\ pc' = [pc EXCEPT ![t] = "ended"] /\ try' = [try EXCEPT ![t] = Attempts]
      /\ stopped' = [stopped EXCEPT ![p] = TRUE]
  BY DEF Ends
<1>2. Attempts \in 1 .. Attempts
  BY ChatAssumption
<1>3. p \in {"handler", "window"}
  BY DEF ProcessOf
<1> HIDE DEF p
<1>4. "main" \in Threads /\ "ended" \in MainPlaces /\ "ended" \in LoopPlaces
  BY DEF Threads, HandlerThreads, MainPlaces, LoopPlaces
<1>5. pc' \in [Threads -> MainPlaces \cup LoopPlaces] /\ pc'[t] = "ended"
  BY <1>1, <1>4 DEF ThreadType
<1>6. \A u \in Threads : u # t => pc'[u] = pc[u]
  BY <1>1 DEF ThreadType
<1>7. \A u \in Threads : pc'[u] \in IF u = "main" THEN MainPlaces ELSE LoopPlaces
  BY <1>4, <1>5, <1>6 DEF ThreadType
<1>8. try' \in [Threads -> 1 .. Attempts]
  BY <1>1, <1>2 DEF ThreadType
<1>9. stopped' \in [{"handler", "window"} -> BOOLEAN]
  BY <1>1 DEF ThreadType
<1>10. stopped'[p] /\ (stopped["handler"] => stopped'["handler"])
  BY <1>1, <1>3 DEF ThreadType
<1>11. QED
  BY <1>4, <1>5, <1>6, <1>7, <1>8, <1>9, <1>10 DEF ThreadType, KeepsMain, p

\* An attempt is over.
LEMMA TimedOutType ==
    ASSUME ThreadType, NEW t \in Threads, NEW place, TimedOut(t, place),
           place = "send" => t = "main"
    PROVE  /\ ThreadType'
           /\ t # "main" => KeepsMain
           /\ t = "main" /\ place = "send" => stopped' = stopped /\
                pc'["main"] \in {"send", "goodbye"}
           /\ t = "main" /\ place # "send" =>
                 KeepsMain \/ (pc'["main"] = "ended" /\ stopped'["handler"])
<1>1. pc[t] = place
  BY DEF TimedOut, At
<1>2. CASE try[t] > 1
  <2>1. try' = [try EXCEPT ![t] = @ - 1] /\ pc' = pc /\ stopped' = stopped
    BY <1>2 DEF TimedOut
  <2>2. try[t] - 1 \in 1 .. Attempts
    BY <1>2, ChatAssumption DEF ThreadType
  <2>3. try' \in [Threads -> 1 .. Attempts]
    BY <2>1, <2>2 DEF ThreadType
  <2>4. ThreadType' /\ KeepsMain
    BY <2>1, <2>3 DEF ThreadType, KeepsMain
  <2>5. QED
    BY <1>1, <2>1, <2>4
<1>3. CASE ~(try[t] > 1) /\ place = "send"
  <2>1. Goto(t, "goodbye") /\ t = "main"
    BY <1>3 DEF TimedOut
  <2>2. QED
    BY <1>3, <2>1, GotoType DEF MainPlaces
<1>4. CASE ~(try[t] > 1) /\ place # "send"
  <2>1. Ends(t)
    BY <1>4 DEF TimedOut
  <2>2. t = "main" => ProcessOf(t) = "handler"
    BY DEF ProcessOf, HandlerThreads
  <2>3. QED
    BY <1>4, <2>1, <2>2, EndsType
<1>5. QED
  BY <1>2, <1>3, <1>4

\* A loop goes on or ends.
LEMMA AgainType ==
    ASSUME ThreadType, NEW t \in Threads, t # "main", Again(t)
    PROVE  ThreadType' /\ KeepsMain
<1>1. Goto(t, "loop") \/ Ends(t)
  BY DEF Again
<1>2. QED
  BY <1>1, GotoType, EndsType DEF LoopPlaces

-----------------------------------------------------------------------------
(***************************************************************************)
(* Types.                                                                  *)
(***************************************************************************)

\* main() has a batch just while it sends.
BatchInv ==
    /\ pc["main"] \in {"dequeue", "idle"} => batch = <<>>
    /\ pc["main"] = "send" => batch # <<>>

TypeInv == TypeOK /\ BatchInv

\* The messages without data.
LEMMA EmptyMessages ==
    ASSUME NEW type \in MessageTypes
    PROVE  Message(type, <<>>) \in Messages /\ Message(type, <<>>).type = type
<1>1. <<>> \in Seq(Characters) /\ Len(<<>>) <= MAX_DATA_LENGTH
  BY ChatMessagesAssumption
<1>2. QED
  BY <1>1 DEF Message, Messages

\* Heartbeats and goodbyes.
LEMMA Signals ==
    /\ Heartbeat \in Messages /\ Heartbeat.type = "HEARTBEAT"
    /\ Goodbye \in Messages /\ Goodbye.type = "GOODBYE"
BY EmptyMessages DEF Heartbeat, Goodbye, MessageTypes

\* The messages of an entry are messages.
LEMMA ChunksType ==
    ASSUME NEW e \in Entries
    PROVE  Chunks(e) \in Seq(Messages)
<1>1. PICK P \in Seq(Messages), m \in Messages : Chunks(e) = P \o <<m>>
  BY ChunksAre
<1>2. QED
  BY <1>1

\* The number of entries stored.
LEMMA StoredIsNat ==
    ASSUME StorageType
    PROVE  Stored \in Nat
<1> DEFINE Places(id) == {id} \X (1 .. Len(mMessages[id]))
           U == {Places(id) : id \in 1 .. Len(mMessages)}
<1>1. Len(mMessages) \in Nat /\ \A id \in 1 .. Len(mMessages) : Len(mMessages[id]) \in Nat
  BY DEF StorageType
<1>2. IsFiniteSet(U)
  <2>1. IsFiniteSet(1 .. Len(mMessages))
    BY <1>1, FS_Interval
  <2> DEFINE f == [id \in 1 .. Len(mMessages) |-> Places(id)]
  <2>2. f \in Surjection(1 .. Len(mMessages), U)
    BY Zenon DEF Surjection
  <2> HIDE DEF f, U
  <2>3. QED
    BY <2>1, <2>2, FS_Surjection
<1>3. \A x \in U : IsFiniteSet(x)
  <2>1. ASSUME NEW id \in 1 .. Len(mMessages) PROVE IsFiniteSet(Places(id))
    <3>1. IsFiniteSet({id})
      BY FS_Singleton
    <3>2. IsFiniteSet(1 .. Len(mMessages[id]))
      <4> DEFINE n == Len(mMessages[id])
      <4>1. n \in Int
        BY <1>1
      <4> HIDE DEF n
      <4>2. IsFiniteSet(1 .. n)
        BY <4>1, FS_Interval
      <4>3. QED
        BY <4>2 DEF n
    <3>3. QED
      BY <3>1, <3>2, FS_Product
  <2>2. QED
    BY <2>1
<1>4. IsFiniteSet(UNION U)
  BY <1>2, <1>3, FS_UNION
<1>5. Stored = Cardinality(UNION U)
  BY DEF Stored
<1>6. QED
  BY <1>4, <1>5, FS_CardinalityType

\* A text of a new entry.
LEMMA TextType ==
    ASSUME NEW n \in Nat, NEW l \in Lengths, NEW type \in EntryTypes
    PROVE  Message(type, Text(n, l)) \in Entries
<1>1. l \in Nat
  BY ChatAssumption
<1>2. \A i \in 1 .. l : <<n, i>> \in Characters
  BY <1>1 DEF Characters
<1>3. Text(n, l) \in Seq(Characters)
  BY <1>1, <1>2 DEF Text
<1>4. QED
  BY <1>3 DEF Message, Entries

\* It is so at the beginning.
LEMMA TypeInit ==
    ASSUME Init
    PROVE  TypeInv
<1>1. StorageType
  BY ChatAssumption DEF Init, StorageType, NoId
<1>2. QueueType
  BY ChatAssumption DEF Init, QueueType
<1>3. WindowType
  <2>1. <<>> \in Seq(Messages) /\ <<>> \in Seq(Entries)
    OBVIOUS
  <2>2. EmptyWindow \in WindowStates
    BY <2>1, WindowFrom, Zenon DEF EmptyWindow
  <2>3. QED
    BY <2>2 DEF Init, WindowType
<1>4. ThreadType
  <2>1. pc = [t \in Threads |-> IF t = "main" THEN "dequeue" ELSE "loop"]
    BY DEF Init
  <2>2. pc \in [Threads -> MainPlaces \cup LoopPlaces]
    BY <2>1 DEF MainPlaces, LoopPlaces
  <2>3. \A t \in Threads : pc[t] \in IF t = "main" THEN MainPlaces ELSE LoopPlaces
    BY <2>1 DEF MainPlaces, LoopPlaces
  <2>4. try \in [Threads -> 1 .. Attempts]
    BY ChatAssumption DEF Init
  <2>5. stopped \in [{"handler", "window"} -> BOOLEAN]
    BY DEF Init
  <2>6. QED
    BY <2>2, <2>3, <2>4, <2>5 DEF ThreadType
<1>5. BatchInv
  BY DEF Init, BatchInv, Threads, HandlerThreads
<1>6. QED
  BY <1>1, <1>2, <1>3, <1>4, <1>5 DEF TypeInv, TypeOK

\* What the storage becomes.
LEMMA StorageSteps ==
    ASSUME TypeInv, Caller
    PROVE  StorageType' /\ QueueType' /\ UNCHANGED <<batch, primary, windowVars, threadVars>>
<1>1. StorageType /\ QueueType
  BY DEF TypeInv, TypeOK
<1>2. CASE Len(mMessages) < MaxContacts /\ Create
  <2>1. <<>> \in Seq(Entries)
    OBVIOUS
  <2>2. /\ mMessages' = Append(mMessages, <<>>)
        /\ UNCHANGED <<mCurrentId, call, mQueued, batch, primary, secondary, windowVars,
                       threadVars>>
    BY <1>2 DEF Create
  <2>3. Append(mMessages, <<>>) \in Seq(Seq(Entries)) /\
          Len(Append(mMessages, <<>>)) = Len(mMessages) + 1
    BY <1>1, <2>1 DEF StorageType
  <2>4. StorageType'
    BY <1>1, <1>2, <2>2, <2>3, ChatAssumption DEF StorageType
  <2>5. QED
    BY <1>1, <2>2, <2>4 DEF QueueType
<1>3. ASSUME NEW id \in Ids, NEW l \in Lengths, Send(id, l) \/ Receive(id, l)
      PROVE  StorageType' /\ QueueType' /\ UNCHANGED <<batch, primary, windowVars, threadVars>>
  <2>1. PICK type \in EntryTypes, shown \in BOOLEAN :
             Store(id, Message(type, Text(Stored + 1, l)), shown)
    BY <1>3 DEF Send, Receive, EntryTypes, IsShown
  <2> DEFINE e == Message(type, Text(Stored + 1, l))
  <2>2. e \in Entries
    BY <1>1, StoredIsNat, TextType
  <2>3. id \in 1 .. Len(mMessages)
    <3>1. id = mCurrentId \/ id <= Len(mMessages)
      BY <1>3 DEF Send, Receive
    <3>2. id \in Nat \ {0} /\ Len(mMessages) \in Nat /\ mCurrentId \in 0 .. Len(mMessages)
      BY <1>1, ChatAssumption DEF StorageType, Ids
    <3>3. QED
      BY <3>1, <3>2
  <2> HIDE DEF e
  <2>4. mMessages[id] \in Seq(Entries) /\ Append(mMessages[id], e) \in Seq(Entries)
    BY <1>1, <2>2, <2>3 DEF StorageType
  <2>5. /\ mMessages' = [mMessages EXCEPT ![id] = Append(@, e)]
        /\ call' = IF shown THEN <<e>> ELSE <<>>
        /\ UNCHANGED <<mCurrentId, mQueued, batch, primary, secondary, windowVars, threadVars>>
    BY <2>1 DEF Store, e
  <2>6. mMessages' \in Seq(Seq(Entries)) /\ Len(mMessages') = Len(mMessages)
    BY <1>1, <2>3, <2>4, <2>5 DEF StorageType
  <2>7. call' \in Seq(Entries)
    BY <2>2, <2>5
  <2>8. QED
    BY <1>1, <2>5, <2>6, <2>7 DEF StorageType, QueueType
<1>4. ASSUME NEW id \in Ids, Select(id)
      PROVE  StorageType' /\ QueueType' /\ UNCHANGED <<batch, primary, windowVars, threadVars>>
  <2>1. id \in 1 .. Len(mMessages)
    BY <1>1, <1>4, ChatAssumption DEF Select, StorageType, Ids
  <2>2. ClearFirst \in Seq(Messages)
    BY EmptyMessages DEF ClearFirst, MessageTypes
  <2>3. /\ mCurrentId' = id /\ mQueued' = mQueued \o ClearFirst /\ call' = mMessages[id]
        /\ UNCHANGED <<mMessages, batch, primary, secondary, windowVars, threadVars>>
    BY <1>4 DEF Select
  <2>4. mQueued \o ClearFirst \in Seq(Messages)
    BY <1>1, <2>2 DEF QueueType
  <2>5. mMessages[id] \in Seq(Entries)
    BY <1>1, <2>1 DEF StorageType
  <2>6. QED
    BY <1>1, <2>1, <2>3, <2>4, <2>5 DEF StorageType, QueueType
<1>5. QED
  BY <1>2, <1>3, <1>4 DEF Caller

\* The frame of the actions that leave the storage alone.
LEMMA StorageFrame ==
    ASSUME StorageType, UNCHANGED storageVars
    PROVE  StorageType'
BY DEF StorageType, storageVars

\* A message is taken from a queue.
LEMMA Taken ==
    ASSUME NEW q \in Seq(Messages), q # <<>>
    PROVE  /\ Head(q) \in Messages /\ Tail(q) \in Seq(Messages)
           /\ Len(q) <= QueueSize => Len(Tail(q)) <= QueueSize
           /\ Tail(q) = <<>> <=> Len(q) = 1
<1>1. QueueSize \in Nat
  BY ChatAssumption
<1>2. Head(q) \in Messages /\ Tail(q) \in Seq(Messages) /\ Len(Tail(q)) = Len(q) - 1 /\
        Len(q) \in Nat
  OBVIOUS
<1>3. Tail(q) = <<>> <=> Len(Tail(q)) = 0
  <2>1. \A u \in Seq(Messages) : u = <<>> <=> Len(u) = 0
    OBVIOUS
  <2>2. QED
    BY <1>2, <2>1, Zenon
<1>4. QED
  BY <1>1, <1>2, <1>3

\* A message is added to a queue.
LEMMA Added ==
    ASSUME NEW q \in Seq(Messages), NEW m \in Messages
    PROVE  /\ Append(q, m) \in Seq(Messages)
           /\ Len(q) <= QueueSize /\ ~IsFull(q) => Len(Append(q, m)) <= QueueSize
<1>1. QueueSize \in Nat
  BY ChatAssumption
<1>2. Append(q, m) \in Seq(Messages) /\ Len(Append(q, m)) = Len(q) + 1 /\ Len(q) \in Nat
  OBVIOUS
<1>3. QED
  BY <1>1, <1>2 DEF IsFull

\* Every step preserves the types.
LEMMA TypeStep ==
    ASSUME TypeInv, [Next]_vars
    PROVE  TypeInv'
<1>1. StorageType /\ QueueType /\ WindowType /\ ThreadType /\ BatchInv
  BY DEF TypeInv, TypeOK
<1>2. "main" \in Threads /\ "heartbeat" \in Threads /\ "run" \in Threads /\ "beat" \in Threads
  BY DEF Threads, HandlerThreads, WindowThreads
<1>3. CASE Caller
  <2>1. StorageType' /\ QueueType' /\ UNCHANGED <<batch, primary, windowVars, threadVars>>
    BY <1>3, StorageSteps
  <2>2. WindowType' /\ ThreadType' /\ BatchInv'
    BY <1>1, <2>1 DEF WindowType, ThreadType, BatchInv, windowVars, threadVars
  <2>3. QED
    BY <2>1, <2>2 DEF TypeInv, TypeOK
<1>4. CASE Queue
  <2>1. call # <<>> /\ UNCHANGED <<mMessages, mCurrentId, batch, primary, secondary, windowVars,
                 threadVars>>
    BY <1>4 DEF Queue
  <2>2. Head(call) \in Entries /\ Tail(call) \in Seq(Entries) /\ <<>> \in Seq(Entries)
    BY <1>1, <2>1 DEF StorageType
  <2>3. Chunks(Head(call)) \in Seq(Messages)
    BY <2>2, ChunksType
  <2>4. \/ call' = <<>> /\ mQueued' = mQueued
        \/ call' = Tail(call) /\ mQueued' = mQueued \o Chunks(Head(call))
    BY <1>4 DEF Queue, QueuedWhole
  <2>5. call' \in Seq(Entries) /\ mQueued' \in Seq(Messages)
    <3>1. mQueued \in Seq(Messages)
      BY <1>1 DEF QueueType
    <3>2. mQueued \o Chunks(Head(call)) \in Seq(Messages)
      BY <2>3, <3>1
    <3>3. QED
      BY <2>2, <2>4, <3>1, <3>2
  <2>6. StorageType' /\ QueueType'
    BY <1>1, <2>1, <2>5 DEF StorageType, QueueType
  <2>7. WindowType' /\ ThreadType' /\ BatchInv'
    BY <1>1, <2>1 DEF WindowType, ThreadType, BatchInv, windowVars, threadVars
  <2>8. QED
    BY <2>6, <2>7 DEF TypeInv, TypeOK
<1>5. CASE Dequeue
  <2>1. pc["main"] = "dequeue" /\ UNCHANGED <<storageVars, primary, secondary, windowVars>>
    BY <1>5 DEF Dequeue, At
  <2>2. \/ Goto("main", "goodbye") /\ mQueued' = mQueued /\ batch' = batch
        \/ Goto("main", "send") /\ batch' = mQueued /\ mQueued' = <<>> /\ mQueued # <<>>
        \/ Goto("main", "idle") /\ mQueued' = mQueued /\ batch' = batch
    BY <1>5 DEF Dequeue
  <2>3. batch = <<>>
    BY <1>1, <2>1 DEF BatchInv
  <2>4. QueueType'
    <3>1. mQueued' \in Seq(Messages) /\ batch' \in Seq(Messages)
      <4>1. <<>> \in Seq(Messages)
        OBVIOUS
      <4>2. QED
        BY <1>1, <2>2, <4>1 DEF QueueType
    <3>2. QED
      BY <1>1, <2>1, <3>1 DEF QueueType
  <2>5. ThreadType' /\ BatchInv'
    BY <1>1, <1>2, <2>2, <2>3, GotoType DEF MainPlaces, BatchInv
  <2>6. StorageType' /\ WindowType'
    BY <1>1, <2>1, StorageFrame DEF WindowType, windowVars
  <2>7. QED
    BY <2>4, <2>5, <2>6 DEF TypeInv, TypeOK
<1>6. CASE QueueHeartbeat
  <2>1. pc["main"] = "idle" /\ UNCHANGED <<storageVars, batch, primary, secondary, windowVars>>
    BY <1>6 DEF QueueHeartbeat, At
  <2>2. \/ Goto("main", "goodbye") /\ mQueued' = mQueued
        \/ Goto("main", "dequeue") /\ mQueued' = Append(mQueued, Heartbeat)
    BY <1>6 DEF QueueHeartbeat
  <2>3. batch = <<>>
    BY <1>1, <2>1 DEF BatchInv
  <2>4. QueueType'
    <3>1. mQueued' \in Seq(Messages)
      BY <1>1, <2>2, Signals, Added DEF QueueType
    <3>2. QED
      BY <1>1, <2>1, <3>1 DEF QueueType
  <2>5. ThreadType' /\ BatchInv'
    BY <1>1, <1>2, <2>1, <2>2, <2>3, GotoType DEF MainPlaces, BatchInv
  <2>6. StorageType' /\ WindowType'
    BY <1>1, <2>1, StorageFrame DEF WindowType, windowVars
  <2>7. QED
    BY <2>4, <2>5, <2>6 DEF TypeInv, TypeOK
<1>7. CASE MainSend
  <2>1. pc["main"] = "send" /\ UNCHANGED <<storageVars, mQueued, secondary, windowVars>>
    BY <1>7 DEF MainSend, At
  <2>2. batch # <<>> /\ batch \in Seq(Messages) /\ primary \in Seq(Messages)
    BY <1>1, <2>1 DEF BatchInv, QueueType
  <2>3. StorageType' /\ WindowType'
    BY <1>1, <2>1, StorageFrame DEF WindowType, windowVars
  <2>4. CASE ~IsFull(primary) /\ primary' = Append(primary, Head(batch)) /\ batch' = Tail(batch)
                /\ NextMessage
    <3>1. primary' \in Seq(Messages) /\ batch' \in Seq(Messages)
      BY <2>2, <2>4, Taken, Added
    <3>2. Len(primary') <= QueueSize
      BY <1>1, <2>2, <2>4, Taken, Added DEF QueueType
    <3>3. QueueType'
      BY <1>1, <2>1, <3>1, <3>2 DEF QueueType
    <3>4. \/ Goto("main", "dequeue") /\ Len(batch) = 1
          \/ Goto("main", "goodbye")
          \/ Goto("main", "send") /\ Len(batch) # 1
      BY <2>4 DEF NextMessage
    <3>5. (Len(batch) = 1 => batch' = <<>>) /\ (Len(batch) # 1 => batch' # <<>>)
      BY <2>2, <2>4, Taken
    <3>6. ThreadType' /\ BatchInv'
      BY <1>1, <1>2, <3>4, <3>5, GotoType DEF MainPlaces, BatchInv
    <3>7. QED
      BY <2>3, <3>3, <3>6 DEF TypeInv, TypeOK
  <2>5. CASE TimedOut("main", "send") /\ UNCHANGED <<primary, batch>>
    <3>1. ThreadType' /\ pc'["main"] \in {"send", "goodbye"}
      BY <1>1, <1>2, <2>5, TimedOutType
    <3>2. QueueType' /\ BatchInv'
      BY <1>1, <2>1, <2>2, <2>5, <3>1 DEF QueueType, BatchInv
    <3>3. QED
      BY <2>3, <3>1, <3>2 DEF TypeInv, TypeOK
  <2>6. QED
    BY <1>7, <2>4, <2>5 DEF MainSend
<1>8. CASE SendGoodbye
  <2>1. pc["main"] = "goodbye" /\ UNCHANGED <<storageVars, mQueued, batch, secondary, windowVars>>
    BY <1>8 DEF SendGoodbye, At
  <2>2. StorageType' /\ WindowType'
    BY <1>1, <2>1, StorageFrame DEF WindowType, windowVars
  <2>3. CASE ~IsFull(primary) /\ primary' = Append(primary, Goodbye) /\ Ends("main")
    <3>1. primary' \in Seq(Messages) /\ Len(primary') <= QueueSize
      BY <1>1, <2>3, Signals, Added DEF QueueType
    <3>2. ThreadType' /\ BatchInv'
      BY <1>1, <1>2, <2>3, EndsType DEF BatchInv
    <3>3. QED
      BY <1>1, <2>1, <2>2, <3>1, <3>2 DEF QueueType, TypeInv, TypeOK
  <2>4. CASE TimedOut("main", "goodbye") /\ UNCHANGED primary
    <3>1. ThreadType' /\ pc'["main"] \in {"goodbye", "ended"}
      BY <1>1, <1>2, <2>1, <2>4, TimedOutType DEF KeepsMain
    <3>2. QueueType' /\ BatchInv'
      BY <1>1, <2>1, <2>4, <3>1 DEF QueueType, BatchInv
    <3>3. QED
      BY <2>2, <3>1, <3>2 DEF TypeInv, TypeOK
  <2>5. QED
    BY <1>8, <2>3, <2>4 DEF SendGoodbye
<1>9. CASE ReceiveHeartbeat
  <2>1. UNCHANGED <<storageVars, mQueued, batch, primary, windowVars>>
    BY <1>9 DEF ReceiveHeartbeat
  <2>2. \/ secondary # <<>> /\ secondary' = Tail(secondary)
             /\ (Again("heartbeat") \/ Ends("heartbeat"))
        \/ secondary' = secondary /\ TimedOut("heartbeat", "loop")
    BY <1>9 DEF ReceiveHeartbeat
  <2>3. ThreadType' /\ KeepsMain
    BY <1>1, <1>2, <2>2, AgainType, EndsType, TimedOutType
  <2>4. secondary' \in Seq(Messages) /\ Len(secondary') <= QueueSize
    BY <1>1, <2>2, Taken DEF QueueType
  <2>5. QueueType' /\ BatchInv'
    BY <1>1, <2>1, <2>3, <2>4 DEF QueueType, BatchInv, KeepsMain
  <2>6. StorageType' /\ WindowType'
    BY <1>1, <2>1, StorageFrame DEF WindowType, windowVars
  <2>7. QED
    BY <2>3, <2>5, <2>6 DEF TypeInv, TypeOK
<1>10. CASE SendHeartbeat
  <2>1. UNCHANGED <<storageVars, mQueued, batch, primary, windowVars>>
    BY <1>10 DEF SendHeartbeat
  <2>2. \/ ~IsFull(secondary) /\ secondary' = Append(secondary, Heartbeat) /\ Again("beat")
        \/ secondary' = secondary /\ TimedOut("beat", "loop")
    BY <1>10 DEF SendHeartbeat
  <2>3. ThreadType' /\ KeepsMain
    BY <1>1, <1>2, <2>2, AgainType, TimedOutType
  <2>4. secondary' \in Seq(Messages) /\ Len(secondary') <= QueueSize
    BY <1>1, <2>2, Signals, Added DEF QueueType
  <2>5. QueueType' /\ BatchInv'
    BY <1>1, <2>1, <2>3, <2>4 DEF QueueType, BatchInv, KeepsMain
  <2>6. StorageType' /\ WindowType'
    BY <1>1, <2>1, StorageFrame DEF WindowType, windowVars
  <2>7. QED
    BY <2>3, <2>5, <2>6 DEF TypeInv, TypeOK
<1>11. CASE Run
  <2>1. UNCHANGED <<storageVars, mQueued, batch, secondary>>
    BY <1>11 DEF Run
  <2>2. \/ primary # <<>> /\ primary' = Tail(primary)
              /\ (HandleFails(Head(primary)) \/ Handle(Head(primary)))
        \/ TimedOut("run", "loop") /\ UNCHANGED <<primary, windowVars>>
    BY <1>11 DEF Run
  <2>3. ThreadType' /\ KeepsMain
    BY <1>1, <1>2, <2>2, AgainType, EndsType, TimedOutType DEF HandleFails, Handle
  <2>4. primary' \in Seq(Messages) /\ Len(primary') <= QueueSize
    BY <1>1, <2>2, Taken DEF QueueType
  <2>5. QueueType' /\ BatchInv'
    BY <1>1, <2>1, <2>3, <2>4 DEF QueueType, BatchInv, KeepsMain
  <2>6. WindowType'
    <3>1. CASE primary # <<>> /\ HandleFails(Head(primary))
      <4>1. Refuses(window, Head(primary)) \in BOOLEAN
        BY DEF Refuses
      <4>2. QED
        BY <1>1, <3>1, <4>1 DEF HandleFails, WindowType
    <3>2. CASE primary # <<>> /\ Handle(Head(primary))
      <4>1. Head(primary) \in Messages
        BY <1>1, <3>2 DEF QueueType
      <4>2. QED
        BY <1>1, <3>2, <4>1, HandledType DEF Handle, WindowType
    <3>3. CASE UNCHANGED windowVars
      BY <1>1, <3>3 DEF WindowType, windowVars
    <3>4. QED
      BY <2>2, <3>1, <3>2, <3>3
  <2>7. QED
    BY <1>1, <2>1, <2>3, <2>5, <2>6, StorageFrame DEF TypeInv, TypeOK
<1>12. ASSUME NEW t \in Threads, Interrupted(t) PROVE TypeInv'
  <2>1. UNCHANGED <<storageVars, mQueued, batch, primary, secondary, windowVars>>
    BY <1>12 DEF Interrupted
  <2>2. StorageType' /\ QueueType' /\ WindowType'
    BY <1>1, <2>1, StorageFrame DEF QueueType, WindowType, windowVars
  <2>3. \/ Goto(t, "goodbye") /\ pc[t] = "send"
        \/ Ends(t)
    BY <1>12 DEF Interrupted, At
  <2>4. CASE t = "main"
    <3>1. ThreadType' /\ pc'["main"] \in {"goodbye", "ended"}
      BY <1>1, <1>2, <2>3, <2>4, GotoType, EndsType DEF MainPlaces
    <3>2. QED
      BY <2>1, <2>2, <3>1 DEF TypeInv, TypeOK, BatchInv
  <2>5. CASE t # "main"
    <3>1. pc[t] # "send"
      BY <1>1, <2>5 DEF ThreadType, LoopPlaces
    <3>2. ThreadType' /\ KeepsMain
      BY <1>1, <2>3, <2>5, <3>1, EndsType
    <3>3. QED
      BY <1>1, <2>1, <2>2, <3>2 DEF TypeInv, TypeOK, BatchInv, KeepsMain
  <2>6. QED
    BY <2>4, <2>5
<1>13. ASSUME NEW p \in {"handler", "window"}, Stop(p) PROVE TypeInv'
  <2>1. /\ stopped' = [stopped EXCEPT ![p] = TRUE]
        /\ UNCHANGED <<storageVars, mQueued, batch, primary, secondary, windowVars, pc, try>>
    BY <1>13 DEF Stop
  <2>2. stopped' \in [{"handler", "window"} -> BOOLEAN]
    BY <1>1, <2>1 DEF ThreadType
  <2>3. StorageType' /\ QueueType' /\ WindowType' /\ BatchInv'
    BY <1>1, <2>1, StorageFrame DEF QueueType, WindowType, BatchInv, windowVars
  <2>4. ThreadType'
    BY <1>1, <2>1, <2>2 DEF ThreadType
  <2>5. QED
    BY <2>3, <2>4 DEF TypeInv, TypeOK
<1>14. ASSUME NEW p \in {"handler", "window"}, Die(p) PROVE TypeInv'
  <2>1. /\ stopped' = [stopped EXCEPT ![p] = TRUE]
        /\ pc' = [t \in Threads |-> IF ProcessOf(t) = p THEN "ended" ELSE pc[t]]
        /\ call' = IF p = "handler" THEN <<>> ELSE call
        /\ UNCHANGED <<mMessages, mCurrentId, mQueued, batch, primary, secondary, windowVars, try>>
    BY <1>14 DEF Die
  <2>2. stopped' \in [{"handler", "window"} -> BOOLEAN]
    BY <1>1, <2>1 DEF ThreadType
  <2>3. "ended" \in MainPlaces /\ "ended" \in LoopPlaces
    BY DEF MainPlaces, LoopPlaces
  <2>4. \A t \in Threads : pc'[t] = "ended" \/ pc'[t] = pc[t]
    BY <2>1
  <2>5. pc' \in [Threads -> MainPlaces \cup LoopPlaces]
    BY <1>1, <2>1, <2>3 DEF ThreadType
  <2>6. \A t \in Threads : pc'[t] \in IF t = "main" THEN MainPlaces ELSE LoopPlaces
    BY <1>1, <2>3, <2>4 DEF ThreadType
  <2>7. ThreadType'
    BY <1>1, <2>1, <2>2, <2>5, <2>6 DEF ThreadType
  <2>8. StorageType'
    BY <1>1, <2>1 DEF StorageType
  <2>9. QueueType' /\ WindowType' /\ BatchInv'
    BY <1>1, <1>2, <2>1, <2>4 DEF QueueType, WindowType, BatchInv, windowVars
  <2>10. QED
    BY <2>7, <2>8, <2>9 DEF TypeInv, TypeOK
<1>15. CASE UNCHANGED vars
  <2>1. UNCHANGED <<storageVars, mQueued, batch, primary, secondary, windowVars, threadVars>>
    BY <1>15 DEF vars
  <2>2. QED
    BY <1>1, <2>1, StorageFrame
       DEF TypeInv, TypeOK, QueueType, WindowType, ThreadType, BatchInv, windowVars, threadVars
<1>16. QED
  BY <1>3, <1>4, <1>5, <1>6, <1>7, <1>8, <1>9, <1>10, <1>11, <1>12, <1>13, <1>14, <1>15
     DEF Next, Main, Others

\* The type invariant: whatever is queued, sent, stored and printed has its
\* type; no message is longer than MAX_DATA_LENGTH, no queue than QueueSize.
THEOREM TypeCorrect == Spec => []TypeOK
<1>1. Init => TypeInv
  BY TypeInit
<1>2. TypeInv /\ [Next]_vars => TypeInv'
  BY TypeStep
<1>3. TypeInv => TypeOK
  BY DEF TypeInv
<1>4. QED
  BY <1>1, <1>2, <1>3, PTL DEF Spec

-----------------------------------------------------------------------------
(***************************************************************************)
(* What is on its way.                                                     *)
(***************************************************************************)

\* A conversation that begins with another one.
LEMMA Prefix ==
    ASSUME NEW S, NEW s \in Seq(S), NEW t \in Seq(S)
    PROVE  IsPrefix(s, t) <=> Len(s) <= Len(t) /\ \A i \in 1 .. Len(s) : s[i] = t[i]
<1>1. Len(s) \in Nat /\ Len(t) \in Nat
  OBVIOUS
<1>2. ASSUME IsPrefix(s, t), NEW i \in 1 .. Len(s) PROVE s[i] = t[i]
  <2>1. SubSeq(s, 1, Len(s)) = SubSeq(t, 1, Len(s)) /\ Len(s) <= Len(t)
    BY <1>2 DEF IsPrefix
  <2>2. SubSeq(s, 1, Len(s))[i] = s[i]
    BY <1>1
  <2>3. SubSeq(t, 1, Len(s))[i] = t[i]
    BY <1>1, <2>1
  <2>4. QED
    BY <2>1, <2>2, <2>3
<1>3. ASSUME Len(s) <= Len(t), \A i \in 1 .. Len(s) : s[i] = t[i] PROVE IsPrefix(s, t)
  BY <1>1, <1>3 DEF IsPrefix
<1>4. QED
  BY <1>2, <1>3 DEF IsPrefix

\* Conversations that have been added to.
Grown(c, d) == Len(c) <= Len(d) /\ \A id \in 1 .. Len(c) : IsPrefix(c[id], d[id])

\* A screen goes on showing a conversation that is added to.
LEMMA ShownGrown ==
    ASSUME NEW c \in Seq(Seq(Entries)), NEW d \in Seq(Seq(Entries)), Grown(c, d),
           NEW screen \in Seq(Entries), Shown(c, screen)
    PROVE  Shown(d, screen)
<1>1. CASE screen = <<>>
  BY <1>1 DEF Shown
<1>2. CASE screen # <<>>
  <2>1. PICK id \in 1 .. Len(c) : IsPrefix(screen, c[id])
    BY <1>2 DEF Shown
  <2>2. id \in 1 .. Len(d)
    BY <2>1 DEF Grown
  <2>3. c[id] \in Seq(Entries) /\ d[id] \in Seq(Entries)
    BY <2>1, <2>2
  <2>4. IsPrefix(c[id], d[id])
    BY DEF Grown
  <2>5. IsPrefix(screen, d[id])
    <3> DEFINE x == c[id]
               y == d[id]
    <3>1. /\ Len(screen) <= Len(x) /\ \A i \in 1 .. Len(screen) : screen[i] = x[i]
          /\ Len(x) <= Len(y) /\ \A i \in 1 .. Len(x) : x[i] = y[i]
      BY <2>1, <2>3, <2>4, Prefix
    <3>2. Len(screen) \in Nat /\ Len(x) \in Nat /\ Len(y) \in Nat
      BY <2>3
    <3> HIDE DEF x, y
    <3>3. Len(screen) <= Len(y) /\ \A i \in 1 .. Len(screen) : screen[i] = y[i]
      BY <3>1, <3>2
    <3>4. QED
      BY <2>3, <3>3, Prefix DEF y
  <2>6. QED
    BY <2>2, <2>5 DEF Shown
<1>3. QED
  BY <1>1, <1>2

\* Nor do the messages on their way do harm.
LEMMA FineGrown ==
    ASSUME NEW c \in Seq(Seq(Entries)), NEW d \in Seq(Seq(Entries)), Grown(c, d),
           NEW w \in WindowStates, NEW s \in Seq(Messages), Fine(c, w, s)
    PROVE  Fine(d, w, s)
<1>1. ASSUME NEW k \in 0 .. Len(s) PROVE Shown(d, Windows(w, s)[k].screen)
  <2>1. Windows(w, s)[k] \in WindowStates
    BY WindowsAre
  <2>2. Windows(w, s)[k].screen \in Seq(Entries)
    BY <2>1 DEF WindowStates
  <2>3. QED
    BY <2>2, ShownGrown DEF Fine
<1>2. QED
  BY <1>1 DEF Fine

\* The last screen shows a conversation too.
LEMMA FineShown ==
    ASSUME NEW c, NEW w \in WindowStates, NEW s \in Seq(Messages), Fine(c, w, s)
    PROVE  Shown(c, w.screen) /\ Shown(c, After(w, s).screen)
<1>1. Len(s) \in Nat /\ 0 \in 0 .. Len(s) /\ Len(s) \in 0 .. Len(s)
  OBVIOUS
<1>2. Windows(w, s)[0] = w
  BY WindowsAre
<1>3. QED
  BY <1>1, <1>2 DEF Fine, After

\* The messages do no harm, and when they have been handled the screen shows
\* the selected conversation but for what a caller has yet to queue.
Leads(c, w, s, rest, selected) ==
    /\ Fine(c, w, s)
    /\ After(w, s).chunks = <<>>
    /\ After(w, s).screen \o rest = selected

Working == ~stopped["handler"] /\ pc["main"] # "goodbye"

\* What main() has sent does no harm, nor what it is about to send, even when
\* the handler is stopped meanwhile; as long as it works what is queued leads
\* to the selected conversation.
FlowInv ==
    /\ ~refused
    /\ Fine(mMessages, window, primary)
    /\ pc["main"] = "send" => Fine(mMessages, window, primary \o batch)
    /\ Working => Leads(mMessages, window, OnItsWay, call, Selected)

\* The inductive invariant.
IInv == TypeInv /\ FlowInv

\* It is so at the beginning.
LEMMA FlowInit ==
    ASSUME Init
    PROVE  FlowInv
<1>1. /\ mMessages = <<>> /\ window = EmptyWindow /\ primary = <<>> /\ batch = <<>> /\
           mQueued = <<>>
      /\ call = <<>> /\ mCurrentId = NoId /\ ~refused /\ pc["main"] # "send"
  BY DEF Init, Threads, HandlerThreads
<1>2. EmptyWindow \in WindowStates
  BY TypeInit DEF TypeInv, TypeOK, WindowType, Init
<1>3. EmptyWindow.screen = <<>> /\ EmptyWindow.chunks = <<>>
  BY DEF EmptyWindow
<1>4. Fine(<<>>, EmptyWindow, <<>>) /\ After(EmptyWindow, <<>>) = EmptyWindow
  BY <1>2, <1>3, FineNothing DEF Shown
<1>5. OnItsWay = <<>> /\ Selected = <<>> /\ <<>> \o <<>> = <<>>
  BY <1>1 DEF OnItsWay, Selected
<1>6. Leads(<<>>, EmptyWindow, <<>>, <<>>, <<>>)
  BY <1>3, <1>4, <1>5 DEF Leads
<1>7. QED
  BY <1>1, <1>4, <1>5, <1>6 DEF FlowInv

\* A step that leaves what is on its way alone: main() may leave off, and
\* the handler may be stopped.
LEMMA FlowFrame ==
    ASSUME FlowInv,
           UNCHANGED <<mMessages, mCurrentId, mQueued, batch, primary, windowVars>>,
           Working' => Working /\ call' = call,
           pc'["main"] = "send" => pc["main"] = "send"
    PROVE  FlowInv'
<1>1. /\ mMessages' = mMessages /\ window' = window /\ primary' = primary /\ batch' = batch
      /\ refused' = refused
  BY DEF windowVars
<1>2. OnItsWay' = OnItsWay /\ Selected' = Selected
  BY DEF OnItsWay, Selected
<1>3. Working' => Leads(mMessages', window', OnItsWay', call', Selected')
  BY <1>1, <1>2 DEF FlowInv
<1>4. QED
  BY <1>1, <1>3 DEF FlowInv

\* More messages are queued: they lead on from where the others lead.
LEMMA LeadsOn ==
    ASSUME NEW c, NEW w \in WindowStates, NEW s \in Seq(Messages), NEW u \in Seq(Messages),
           Fine(c, w, s), NEW rest, NEW selected, Leads(c, After(w, s), u, rest, selected)
    PROVE  Leads(c, w, s \o u, rest, selected)
<1>1. After(w, s \o u) = After(After(w, s), u)
  BY AfterBoth
<1>2. Fine(c, w, s \o u)
  BY FineBoth DEF Leads
<1>3. QED
  BY <1>1, <1>2 DEF Leads

\* The types that the steps need.
LEMMA FlowTypes ==
    ASSUME TypeInv
    PROVE  /\ mMessages \in Seq(Seq(Entries)) /\ call \in Seq(Entries)
           /\ mCurrentId \in 0 .. Len(mMessages) /\ Len(mMessages) \in Nat
           /\ window \in WindowStates
           /\ primary \in Seq(Messages) /\ batch \in Seq(Messages) /\ mQueued \in Seq(Messages)
           /\ primary \o batch \in Seq(Messages)
           /\ OnItsWay = (primary \o batch) \o mQueued /\ OnItsWay \in Seq(Messages)
           /\ After(window, OnItsWay) \in WindowStates
           /\ After(window, OnItsWay).screen \in Seq(Entries)
<1>1. /\ mMessages \in Seq(Seq(Entries)) /\ call \in Seq(Entries)
      /\ mCurrentId \in 0 .. Len(mMessages) /\ Len(mMessages) \in Nat
      /\ window \in WindowStates
      /\ primary \in Seq(Messages) /\ batch \in Seq(Messages) /\ mQueued \in Seq(Messages)
  BY DEF TypeInv, TypeOK, StorageType, QueueType, WindowType
<1>2. primary \o batch \in Seq(Messages)
  BY <1>1
<1>3. OnItsWay = (primary \o batch) \o mQueued /\ OnItsWay \in Seq(Messages)
  BY <1>1, <1>2 DEF OnItsWay
<1>4. After(window, OnItsWay) \in WindowStates
  BY <1>1, <1>3, AfterType
<1>5. After(window, OnItsWay).screen \in Seq(Entries)
  BY <1>4 DEF WindowStates
<1>6. QED
  BY <1>1, <1>2, <1>3, <1>4, <1>5

\* Joining three sequences.
LEMMA Regroup ==
    ASSUME NEW a \in Seq(Messages), NEW b \in Seq(Messages), NEW c \in Seq(Messages)
    PROVE  (a \o b) \o c = a \o (b \o c)
OBVIOUS

\* A sequence with one more message.
LEMMA AppendIs ==
    ASSUME NEW q \in Seq(Messages), NEW m \in Messages
    PROVE  Append(q, m) = q \o <<m>>
OBVIOUS

\* Queue: the messages of an entry are queued together.
LEMMA FlowQueue ==
    ASSUME TypeInv, FlowInv, Queue
    PROVE  FlowInv'
<1>1. /\ call # <<>>
      /\ UNCHANGED <<mMessages, mCurrentId, batch, primary, secondary, windowVars, threadVars>>
  BY DEF Queue
<1>2. Working' <=> Working
  BY <1>1 DEF Working, threadVars
<1>3. CASE stopped["handler"]
  <2>1. mQueued' = mQueued
    BY <1>3 DEF Queue
  <2>2. ~Working'
    BY <1>2, <1>3 DEF Working
  <2>3. QED
    BY <1>1, <2>1, <2>2, FlowFrame DEF threadVars
<1>4. CASE ~stopped["handler"]
  <2> DEFINE e == Head(call)
             w == After(window, OnItsWay)
  <2>1. call' = Tail(call) /\ mQueued' = mQueued \o Chunks(e)
    BY <1>4 DEF Queue, QueuedWhole
  <2>2. e \in Entries /\ Tail(call) \in Seq(Entries) /\ call = <<e>> \o Tail(call)
    BY <1>1, FlowTypes
  <2>3. Chunks(e) \in Seq(Messages)
    BY <2>2, ChunksType
  <2>4. OnItsWay' = OnItsWay \o Chunks(e)
    BY <1>1, <2>1, <2>3, FlowTypes, Regroup DEF OnItsWay
  <2>5. Selected' = Selected
    BY <1>1 DEF Selected
  <2> HIDE DEF e, w
  <2>6. ASSUME Working
        PROVE  Leads(mMessages, window, OnItsWay \o Chunks(e), Tail(call), Selected)
    <3>1. w \in WindowStates /\ w.screen \in Seq(Entries)
      BY FlowTypes DEF w
    <3>2. Fine(mMessages, window, OnItsWay) /\ w.chunks = <<>> /\ w.screen \o call = Selected
      BY <2>6 DEF FlowInv, Leads, w
    <3>3. Shown(mMessages, w.screen)
      BY <3>2, FlowTypes, FineShown DEF w
    <3> DEFINE d == w.screen
               r == Tail(call)
    <3>4. d \o (<<e>> \o r) = Append(d, e) \o r /\ Append(d, e) \in Seq(Entries)
      <4>1. d \in Seq(Entries) /\ r \in Seq(Entries)
        BY <2>2, <3>1
      <4> HIDE DEF d, r
      <4>2. QED
        BY <2>2, <4>1
    <3>5. Append(d, e) \o r = Selected
      BY <2>2, <3>2, <3>4
    <3>6. Shown(mMessages, Append(d, e))
      <4> DEFINE x == Append(d, e)
      <4>1. x \in Seq(Entries) /\ r \in Seq(Entries) /\ x # <<>>
        BY <2>2, <3>1, <3>4
      <4> HIDE DEF x, r
      <4>2. x \o r # <<>> /\ IsPrefix(x, x \o r)
        <5>1. x \o r \in Seq(Entries) /\ Len(x) <= Len(x \o r) /\
                \A i \in 1 .. Len(x) : x[i] = (x \o r)[i]
          BY <4>1
        <5>2. x \o r # <<>>
          BY <4>1
        <5>3. QED
          BY <4>1, <5>1, <5>2, Prefix
      <4>3. mCurrentId # NoId
        BY <3>5, <4>2 DEF Selected, x
      <4>4. mCurrentId \in 1 .. Len(mMessages) /\ Selected = mMessages[mCurrentId]
        BY <4>3, FlowTypes DEF Selected, NoId
      <4>5. QED
        BY <3>5, <4>2, <4>4 DEF Shown, x
    <3>7. /\ Fine(mMessages, w, Chunks(e))
          /\ After(w, Chunks(e)) = [chunks |-> <<>>, screen |-> Append(d, e)]
      BY <2>2, <3>1, <3>2, <3>3, <3>6, FineEntry
    <3>8. Leads(mMessages, w, Chunks(e), Tail(call), Selected)
      <4> DEFINE v == After(w, Chunks(e))
                 x == Append(d, e)
      <4>1. v.chunks = <<>> /\ v.screen = x
        BY <3>7
      <4>2. x \o r = Selected
        BY <3>5
      <4> HIDE DEF v, x
      <4>3. v.screen \o r = Selected
        BY <4>1, <4>2, Zenon
      <4>4. QED
        BY <3>7, <4>1, <4>3, Zenon DEF Leads, v
    <3>9. QED
      BY <2>3, <3>2, <3>8, FlowTypes, LeadsOn DEF w
  <2>7. Working' => Leads(mMessages', window', OnItsWay', call', Selected')
    BY <1>1, <1>2, <2>1, <2>4, <2>5, <2>6 DEF windowVars
  <2>8. QED
    BY <1>1, <2>7 DEF FlowInv, windowVars, threadVars
<1>5. QED
  BY <1>3, <1>4

\* main() takes what is queued, or finds nothing or the stop.
LEMMA FlowDequeue ==
    ASSUME TypeInv, FlowInv, Dequeue
    PROVE  FlowInv'
<1>1. pc["main"] = "dequeue" /\ UNCHANGED <<storageVars, primary, secondary, windowVars>>
  BY DEF Dequeue, At
<1>2. ThreadType /\ "main" \in Threads /\ batch = <<>>
  BY <1>1 DEF TypeInv, TypeOK, BatchInv, Threads, HandlerThreads
<1>3. /\ Goto("main", "goodbye") => stopped' = stopped /\ pc'["main"] = "goodbye"
      /\ Goto("main", "send") => stopped' = stopped /\ pc'["main"] = "send"
      /\ Goto("main", "idle") => stopped' = stopped /\ pc'["main"] = "idle"
  BY <1>2, GotoType DEF MainPlaces
<1>4. CASE stopped["handler"]
  <2>1. Goto("main", "goodbye") /\ mQueued' = mQueued /\ batch' = batch
    BY <1>4 DEF Dequeue
  <2>2. ~Working' /\ pc'["main"] # "send"
    BY <1>3, <2>1 DEF Working
  <2>3. QED
    BY <1>1, <2>1, <2>2, FlowFrame DEF storageVars
<1>5. CASE ~stopped["handler"] /\ mQueued = <<>>
  <2>1. Goto("main", "idle") /\ mQueued' = mQueued /\ batch' = batch
    BY <1>5 DEF Dequeue
  <2>2. Working /\ pc'["main"] # "send" /\ call' = call
    BY <1>1, <1>3, <1>5, <2>1 DEF Working, storageVars
  <2>3. QED
    BY <1>1, <2>1, <2>2, FlowFrame DEF storageVars
<1>6. CASE ~stopped["handler"] /\ mQueued # <<>>
  <2>1. Goto("main", "send") /\ batch' = mQueued /\ mQueued' = <<>>
    BY <1>6 DEF Dequeue
  <2>2. Working
    BY <1>1, <1>6 DEF Working
  <2>3. primary \o mQueued = OnItsWay /\ (primary \o mQueued) \o <<>> = OnItsWay
    <3> DEFINE p == primary
               q == mQueued
    <3>1. p \in Seq(Messages) /\ q \in Seq(Messages)
      BY FlowTypes
    <3> HIDE DEF p, q
    <3>2. (p \o <<>>) \o q = p \o q /\ (p \o q) \o <<>> = p \o q
      BY <3>1
    <3>3. QED
      BY <1>2, <3>2 DEF OnItsWay, p, q
  <2>4. /\ primary' \o batch' = OnItsWay /\ OnItsWay' = OnItsWay
        /\ Selected' = Selected /\ call' = call
        /\ mMessages' = mMessages /\ window' = window /\ primary' = primary /\ refused' = refused
    BY <1>1, <2>1, <2>3 DEF OnItsWay, Selected, storageVars, windowVars
  <2>5. Leads(mMessages, window, OnItsWay, call, Selected)
    BY <2>2 DEF FlowInv
  <2>6. Fine(mMessages, window, OnItsWay)
    BY <2>5 DEF Leads
  <2>7. QED
    BY <2>4, <2>5, <2>6 DEF FlowInv
<1>7. QED
  BY <1>4, <1>5, <1>6

\* main() queues a heartbeat.
LEMMA FlowQueueHeartbeat ==
    ASSUME TypeInv, FlowInv, QueueHeartbeat
    PROVE  FlowInv'
<1>1. pc["main"] = "idle" /\ UNCHANGED <<storageVars, batch, primary, secondary, windowVars>>
  BY DEF QueueHeartbeat, At
<1>2. ThreadType /\ "main" \in Threads
  BY DEF TypeInv, TypeOK, Threads, HandlerThreads
<1>3. /\ Goto("main", "goodbye") => stopped' = stopped /\ pc'["main"] = "goodbye"
      /\ Goto("main", "dequeue") => stopped' = stopped /\ pc'["main"] = "dequeue"
  BY <1>2, GotoType DEF MainPlaces
<1>4. CASE stopped["handler"]
  <2>1. Goto("main", "goodbye") /\ mQueued' = mQueued
    BY <1>4 DEF QueueHeartbeat
  <2>2. ~Working' /\ pc'["main"] # "send"
    BY <1>3, <2>1 DEF Working
  <2>3. QED
    BY <1>1, <2>1, <2>2, FlowFrame DEF storageVars
<1>5. CASE ~stopped["handler"]
  <2> DEFINE w == After(window, OnItsWay)
             o == <<Heartbeat>>
  <2>1. Goto("main", "dequeue") /\ mQueued' = mQueued \o o
    BY <1>5, FlowTypes, Signals, AppendIs DEF QueueHeartbeat
  <2>2. Working /\ pc'["main"] # "send"
    BY <1>1, <1>3, <1>5, <2>1 DEF Working
  <2>3. o \in Seq(Messages)
    BY Signals
  <2> HIDE DEF o
  <2>4. OnItsWay' = OnItsWay \o o
    BY <1>1, <2>1, <2>3, FlowTypes, Regroup DEF OnItsWay
  <2>5. /\ Selected' = Selected /\ call' = call
        /\ mMessages' = mMessages /\ window' = window /\ primary' = primary /\ refused' = refused
    BY <1>1 DEF Selected, storageVars, windowVars
  <2>6. Leads(mMessages, window, OnItsWay, call, Selected)
    BY <2>2 DEF FlowInv
  <2>7. w \in WindowStates /\ Fine(mMessages, window, OnItsWay)
    BY <2>6, FlowTypes DEF Leads
  <2>8. Shown(mMessages, w.screen)
    BY <2>7, FlowTypes, FineShown
  <2>9. Fine(mMessages, w, o) /\ After(w, o) = w
    BY <2>7, <2>8, Signals, FinePause DEF o
  <2>10. Leads(mMessages, w, o, call, Selected)
    BY <2>6, <2>9 DEF Leads
  <2> HIDE DEF w
  <2>11. Leads(mMessages, window, OnItsWay \o o, call, Selected)
    BY <2>3, <2>7, <2>10, FlowTypes, LeadsOn DEF w
  <2>12. QED
    BY <2>2, <2>4, <2>5, <2>11 DEF FlowInv
<1>6. QED
  BY <1>4, <1>5

\* main() sends a message of its batch, or waits for a full queue.
LEMMA FlowMainSend ==
    ASSUME TypeInv, FlowInv, MainSend
    PROVE  FlowInv'
<1>1. pc["main"] = "send" /\ UNCHANGED <<storageVars, mQueued, secondary, windowVars>>
  BY DEF MainSend, At
<1>2. ThreadType /\ "main" \in Threads /\ batch # <<>>
  BY <1>1 DEF TypeInv, TypeOK, BatchInv, Threads, HandlerThreads
<1>3. CASE primary' = Append(primary, Head(batch)) /\ batch' = Tail(batch) /\ NextMessage
  <2>1. stopped' = stopped /\ (Working' => Working)
    <3>1. Goto("main", "dequeue") \/ Goto("main", "goodbye") \/ Goto("main", "send")
      BY <1>3 DEF NextMessage
    <3>2. stopped' = stopped
      BY <1>2, <3>1, GotoType DEF MainPlaces
    <3>3. QED
      BY <1>1, <3>2 DEF Working
  <2>2. /\ primary' \in Seq(Messages) /\ batch' \in Seq(Messages)
        /\ primary' \o batch' = primary \o batch
    <3> DEFINE p == primary
               b == batch
    <3>1. p \in Seq(Messages) /\ b \in Seq(Messages) /\ b # <<>>
      BY <1>2, FlowTypes
    <3> HIDE DEF p, b
    <3>2. Head(b) \in Messages /\ Tail(b) \in Seq(Messages) /\ Append(p, Head(b)) \in Seq(Messages)
      BY <3>1
    <3>3. Append(p, Head(b)) \o Tail(b) = p \o b
      BY <3>1
    <3>4. QED
      BY <1>3, <3>2, <3>3 DEF p, b
  <2>3. Fine(mMessages, window, primary \o batch)
    BY <1>1 DEF FlowInv
  <2>4. Fine(mMessages, window, primary')
    BY <2>2, <2>3, FlowTypes, FineBoth
  <2>5. /\ OnItsWay' = OnItsWay /\ Selected' = Selected /\ call' = call
        /\ mMessages' = mMessages /\ window' = window /\ refused' = refused
    BY <1>1, <2>2 DEF OnItsWay, Selected, storageVars, windowVars
  <2>6. Working' => Leads(mMessages', window', OnItsWay', call', Selected')
    BY <2>1, <2>5 DEF FlowInv
  <2>7. QED
    BY <2>2, <2>3, <2>4, <2>5, <2>6 DEF FlowInv
<1>4. CASE TimedOut("main", "send") /\ UNCHANGED <<primary, batch>>
  <2>1. stopped' = stopped /\ pc'["main"] \in {"send", "goodbye"}
    BY <1>2, <1>4, TimedOutType
  <2>2. Working' => Working /\ call' = call
    BY <1>1, <2>1 DEF Working, storageVars
  <2>3. QED
    BY <1>1, <1>4, <2>2, FlowFrame DEF storageVars
<1>5. QED
  BY <1>3, <1>4 DEF MainSend

\* main() says goodbye.
LEMMA FlowSendGoodbye ==
    ASSUME TypeInv, FlowInv, SendGoodbye
    PROVE  FlowInv'
<1>1. pc["main"] = "goodbye" /\ UNCHANGED <<storageVars, mQueued, batch, secondary, windowVars>>
  BY DEF SendGoodbye, At
<1>2. ThreadType /\ "main" \in Threads
  BY DEF TypeInv, TypeOK, Threads, HandlerThreads
<1>3. CASE primary' = Append(primary, Goodbye) /\ Ends("main")
  <2> DEFINE w == After(window, primary)
             o == <<Goodbye>>
  <2>1. pc'["main"] = "ended" /\ stopped'["handler"]
    BY <1>2, <1>3, EndsType DEF ProcessOf, HandlerThreads
  <2>2. primary' = primary \o o /\ o \in Seq(Messages)
    BY <1>3, FlowTypes, Signals
  <2>3. w \in WindowStates /\ Fine(mMessages, window, primary)
    BY FlowTypes, AfterType DEF FlowInv
  <2>4. Shown(mMessages, w.screen)
    BY <2>3, FlowTypes, FineShown
  <2>5. Fine(mMessages, w, o)
    BY <2>3, <2>4, Signals, FinePause
  <2> HIDE DEF o
  <2>6. Fine(mMessages, window, primary \o o)
    BY <2>2, <2>3, <2>5, FlowTypes, FineBoth
  <2>7. QED
    BY <1>1, <2>1, <2>2, <2>6 DEF FlowInv, Working, storageVars, windowVars
<1>4. CASE TimedOut("main", "goodbye") /\ UNCHANGED primary
  <2>1. KeepsMain \/ (pc'["main"] = "ended" /\ stopped'["handler"])
    BY <1>2, <1>4, TimedOutType
  <2>2. ~Working' /\ pc'["main"] # "send"
    BY <1>1, <2>1 DEF Working, KeepsMain
  <2>3. QED
    BY <1>1, <1>4, <2>2, FlowFrame DEF storageVars
<1>5. QED
  BY <1>3, <1>4 DEF SendGoodbye

\* The first message of a queue is handled, more messages behind the queue.
LEMMA FineTaken ==
    ASSUME NEW c, NEW w \in WindowStates, NEW p \in Seq(Messages), p # <<>>, NEW u \in Seq(Messages)
    PROVE  /\ Fine(c, w, p \o u) => Fine(c, Handled(w, Head(p)), Tail(p) \o u)
           /\ After(Handled(w, Head(p)), Tail(p) \o u) = After(w, p \o u)
<1> DEFINE s == p \o u
<1>1. s \in Seq(Messages) /\ s # <<>> /\ Head(s) = Head(p) /\ Tail(s) = Tail(p) \o u
  OBVIOUS
<1> HIDE DEF s
<1>2. /\ Fine(c, w, s) => Fine(c, Handled(w, Head(s)), Tail(s))
      /\ After(Handled(w, Head(s)), Tail(s)) = After(w, s)
  BY <1>1, FineFirst
<1>3. QED
  BY <1>1, <1>2 DEF s

\* run() handles a message or waits for one.
LEMMA FlowRun ==
    ASSUME TypeInv, FlowInv, Run
    PROVE  FlowInv'
<1>1. UNCHANGED <<storageVars, mQueued, batch, secondary>>
  BY DEF Run
<1>2. ThreadType /\ "run" \in Threads
  BY DEF TypeInv, TypeOK, Threads, WindowThreads
<1>3. KeepsMain
  <2>1. Again("run") \/ Ends("run") \/ TimedOut("run", "loop")
    BY DEF Run, HandleFails, Handle
  <2>2. QED
    BY <1>2, <2>1, AgainType, EndsType, TimedOutType
<1>4. (Working' => Working) /\ pc'["main"] = pc["main"] /\ call' = call
  BY <1>1, <1>3 DEF Working, KeepsMain, storageVars
<1>5. CASE primary # <<>> /\ primary' = Tail(primary)
              /\ (HandleFails(Head(primary)) \/ Handle(Head(primary)))
  <2> DEFINE m == Head(primary)
             v == Handled(window, m)
  <2>1. m \in Messages
    BY <1>5, FlowTypes
  <2>2. Fine(mMessages, window, primary) /\ ~refused
    BY DEF FlowInv
  <2>3. ~Refuses(window, m) /\ Fine(mMessages, v, Tail(primary))
    BY <1>5, <2>2, FlowTypes, FineFirst
  <2>4. Shown(mMessages, window.screen)
    BY <2>2, FlowTypes, FineShown
  <2>5. window' = v /\ ~refused'
    <3> HIDE DEF m
    <3>1. CASE Handle(m)
      BY <2>2, <3>1 DEF Handle
    <3>2. CASE HandleFails(m)
      <4>1. Leaves(m) /\ refused' = Refuses(window, m) /\ window' = window
        BY <2>3, <3>2 DEF HandleFails
      <4>2. m.type = "GOODBYE"
        BY <2>1, <4>1 DEF Leaves, Messages
      <4>3. v = window
        BY <2>1, <2>4, <4>2, FlowTypes, FinePause
      <4>4. QED
        BY <2>3, <4>1, <4>3
    <3>3. QED
      BY <1>5, <3>1, <3>2 DEF m
  <2>6. pc["main"] = "send" => Fine(mMessages, v, Tail(primary) \o batch)
    BY <1>5, FlowTypes, FineTaken DEF FlowInv
  <2>7. ASSUME Working
        PROVE  Leads(mMessages, v, Tail(primary) \o batch \o mQueued, call, Selected)
    <3> DEFINE p == primary
               t == Tail(primary)
               u == batch \o mQueued
    <3>1. p \in Seq(Messages) /\ p # <<>> /\ t \in Seq(Messages) /\ u \in Seq(Messages)
      BY <1>5, FlowTypes
    <3>2. (p \o batch) \o mQueued = p \o u /\ (t \o batch) \o mQueued = t \o u
      <4> HIDE DEF p, t
      <4>1. QED
        BY <3>1, FlowTypes, Regroup
    <3>3. Leads(mMessages, window, p \o u, call, Selected)
      BY <2>7, <3>2, FlowTypes DEF FlowInv
    <3> HIDE DEF u
    <3>4. /\ Fine(mMessages, window, p \o u) => Fine(mMessages, v, t \o u)
          /\ After(v, t \o u) = After(window, p \o u)
      BY <3>1, FlowTypes, FineTaken
    <3>5. Leads(mMessages, v, t \o u, call, Selected)
      BY <3>3, <3>4 DEF Leads
    <3>6. QED
      BY <3>2, <3>5
  <2>8. /\ mMessages' = mMessages /\ batch' = batch /\ Selected' = Selected
        /\ OnItsWay' = Tail(primary) \o batch \o mQueued
    BY <1>1, <1>5 DEF OnItsWay, Selected, storageVars
  <2> HIDE DEF v
  <2>9. QED
    BY <1>4, <1>5, <2>3, <2>5, <2>6, <2>7, <2>8 DEF FlowInv
<1>6. CASE UNCHANGED <<primary, windowVars>>
  BY <1>1, <1>4, <1>6, FlowFrame DEF storageVars
<1>7. QED
  BY <1>5, <1>6 DEF Run

\* An entry is stored, and about to be queued when it is shown.
LEMMA FlowStore ==
    ASSUME TypeInv, FlowInv, Free, NEW id \in 1 .. Len(mMessages), NEW e \in Entries,
           Store(id, e, mCurrentId = id)
    PROVE  FlowInv'
<1> DEFINE c == mMessages
           d == [c EXCEPT ![id] = Append(@, e)]
           x == c[id]
<1>1. /\ mMessages' = d /\ call' = IF mCurrentId = id THEN <<e>> ELSE <<>>
      /\ UNCHANGED <<mCurrentId, mQueued, batch, primary, secondary, windowVars, threadVars>>
  BY DEF Store
<1>2. c \in Seq(Seq(Entries)) /\ x \in Seq(Entries) /\ Append(x, e) \in Seq(Entries)
  BY FlowTypes
<1>3. /\ d \in Seq(Seq(Entries)) /\ Len(d) = Len(c) /\ d[id] = Append(x, e)
      /\ \A i \in 1 .. Len(c) : i # id => d[i] = c[i]
  BY <1>2
<1>4. Grown(c, d)
  <2>1. IsPrefix(x, Append(x, e))
    <3>1. Len(x) <= Len(Append(x, e)) /\ \A i \in 1 .. Len(x) : x[i] = Append(x, e)[i]
      <4> HIDE DEF x
      <4>1. QED
        BY <1>2
    <3>2. QED
      BY <1>2, <3>1, Prefix
  <2>2. \A y \in Seq(Entries) : IsPrefix(y, y)
    BY Prefix
  <2>3. Len(c) <= Len(d)
    BY <1>2, <1>3
  <2>4. ASSUME NEW i \in 1 .. Len(c) PROVE IsPrefix(c[i], d[i])
    <3>1. CASE i = id
      BY <1>3, <2>1, <3>1
    <3>2. CASE i # id
      <4>1. c[i] \in Seq(Entries)
        BY <1>2
      <4>2. QED
        BY <1>3, <2>2, <3>2, <4>1
    <3>3. QED
      BY <3>1, <3>2
  <2>5. QED
    BY <2>3, <2>4 DEF Grown
<1> HIDE DEF c, d, x
<1>5. \A s \in Seq(Messages) : Fine(c, window, s) => Fine(d, window, s)
  BY <1>2, <1>3, <1>4, FlowTypes, FineGrown
<1>6. OnItsWay' = OnItsWay /\ window' = window /\ (Working' <=> Working)
  BY <1>1 DEF OnItsWay, Working, windowVars, threadVars
<1>7. ASSUME Working PROVE Leads(d, window, OnItsWay, call', Selected')
  <2> DEFINE w == After(window, OnItsWay)
  <2>1. call = <<>>
    BY DEF Free
  <2>2. Fine(c, window, OnItsWay) /\ w.chunks = <<>> /\ w.screen \o <<>> = Selected
    BY <1>7, <2>1 DEF FlowInv, Leads, c
  <2>3. w.screen = Selected /\ w.screen \in Seq(Entries)
    <3>1. w.screen \in Seq(Entries)
      BY FlowTypes
    <3> HIDE DEF w
    <3>2. QED
      BY <2>2, <3>1
  <2>4. Fine(d, window, OnItsWay)
    BY <1>5, <2>2, FlowTypes
  <2>5. id # NoId /\ mCurrentId \in 0 .. Len(c)
    BY FlowTypes DEF NoId, c
  <2> HIDE DEF w
  <2>6. CASE mCurrentId = id
    <3>1. w.screen = x
      BY <2>3, <2>5, <2>6 DEF Selected, c, x
    <3>2. Selected' = Append(x, e) /\ call' = <<e>>
      BY <1>1, <1>3, <2>5, <2>6 DEF Selected
    <3>3. x \o <<e>> = Append(x, e)
      BY <1>2
    <3>4. w.screen \o call' = Selected'
      BY <3>1, <3>2, <3>3
    <3>5. QED
      BY <2>2, <2>4, <3>4 DEF Leads, w
  <2>7. CASE mCurrentId # id
    <3>1. Selected' = Selected /\ call' = <<>>
      <4>1. CASE mCurrentId = NoId
        BY <1>1, <2>7, <4>1 DEF Selected
      <4>2. CASE mCurrentId # NoId
        <5>1. mCurrentId \in 1 .. Len(c)
          BY <2>5, <4>2 DEF NoId
        <5>2. d[mCurrentId] = c[mCurrentId]
          BY <1>3, <2>7, <5>1
        <5>3. QED
          BY <1>1, <2>7, <4>2, <5>2 DEF Selected, c
      <4>3. QED
        BY <4>1, <4>2
    <3>2. w.screen \o call' = Selected'
      BY <2>2, <3>1
    <3>3. QED
      BY <2>2, <2>4, <3>2 DEF Leads, w
  <2>8. QED
    BY <2>6, <2>7
<1>8. Fine(d, window, primary) /\ (pc["main"] = "send" => Fine(d, window, primary \o batch)) /\
        ~refused
  BY <1>5, FlowTypes DEF FlowInv, c
<1>9. QED
  BY <1>1, <1>6, <1>7, <1>8 DEF FlowInv, windowVars, threadVars

\* A conversation begins.
LEMMA FlowCreate ==
    ASSUME TypeInv, FlowInv, Create
    PROVE  FlowInv'
<1> DEFINE c == mMessages
           d == Append(c, <<>>)
<1>1. /\ mMessages' = d
      /\ UNCHANGED <<mCurrentId, call, mQueued, batch, primary, secondary, windowVars, threadVars>>
  BY DEF Create
<1>2. c \in Seq(Seq(Entries)) /\ <<>> \in Seq(Entries) /\ mCurrentId \in 0 .. Len(c)
  BY FlowTypes
<1>3. d \in Seq(Seq(Entries)) /\ Len(d) = Len(c) + 1 /\ \A i \in 1 .. Len(c) : d[i] = c[i]
  BY <1>2
<1> HIDE DEF c, d
<1>4. Grown(c, d)
  <2>1. \A y \in Seq(Entries) : IsPrefix(y, y)
    BY Prefix
  <2>2. \A i \in 1 .. Len(c) : c[i] \in Seq(Entries)
    BY <1>2
  <2>3. Len(c) <= Len(d)
    BY <1>2, <1>3
  <2>4. QED
    BY <1>3, <2>1, <2>2, <2>3 DEF Grown
<1>5. \A s \in Seq(Messages) : Fine(c, window, s) => Fine(d, window, s)
  BY <1>2, <1>3, <1>4, FlowTypes, FineGrown
<1>6. Selected' = Selected
  <2>1. CASE mCurrentId = NoId
    BY <1>1, <2>1 DEF Selected
  <2>2. CASE mCurrentId # NoId
    <3>1. mCurrentId \in 1 .. Len(c)
      BY <1>2, <2>2 DEF NoId
    <3>2. QED
      BY <1>1, <1>3, <2>2, <3>1 DEF Selected, c
  <2>3. QED
    BY <2>1, <2>2
<1>7. OnItsWay' = OnItsWay /\ (Working' <=> Working)
  BY <1>1 DEF OnItsWay, Working, threadVars
<1>8. ASSUME Working PROVE Leads(d, window, OnItsWay, call, Selected)
  <2>1. Leads(c, window, OnItsWay, call, Selected)
    BY <1>8 DEF FlowInv, c
  <2>2. QED
    BY <1>5, <2>1, FlowTypes DEF Leads
<1>9. Fine(d, window, primary) /\ (pc["main"] = "send" => Fine(d, window, primary \o batch)) /\
        ~refused
  BY <1>5, FlowTypes DEF FlowInv, c
<1>10. QED
  BY <1>1, <1>6, <1>7, <1>8, <1>9 DEF FlowInv, windowVars, threadVars

\* Another conversation is selected.
LEMMA FlowSelect ==
    ASSUME TypeInv, FlowInv, NEW id \in Ids, Select(id)
    PROVE  FlowInv'
<1> DEFINE w == After(window, OnItsWay)
           o == ClearFirst
<1>1. /\ call = <<>> /\ id <= Len(mMessages) /\ mCurrentId' = id
      /\ mQueued' = mQueued \o o /\ call' = mMessages[id]
      /\ UNCHANGED <<mMessages, batch, primary, secondary, windowVars, threadVars>>
  BY DEF Select, Free
<1>2. o \in Seq(Messages)
  BY EmptyMessages DEF ClearFirst, MessageTypes
<1>3. id # NoId /\ id \in 1 .. Len(mMessages)
  BY <1>1, FlowTypes, ChatAssumption DEF Ids, NoId
<1>4. Selected' = mMessages[id]
  BY <1>1, <1>3 DEF Selected
<1>5. mMessages[id] \in Seq(Entries)
  BY <1>3, FlowTypes
<1>6. Working' <=> Working
  BY <1>1 DEF Working, threadVars
<1> HIDE DEF o
<1>7. OnItsWay' = OnItsWay \o o
  BY <1>1, <1>2, FlowTypes, Regroup DEF OnItsWay
<1>8. ASSUME Working PROVE Leads(mMessages, window, OnItsWay \o o, mMessages[id], mMessages[id])
  <2>1. w \in WindowStates /\ w.screen \in Seq(Entries)
    BY FlowTypes
  <2>2. Fine(mMessages, window, OnItsWay) /\ w.chunks = <<>> /\ w.screen \o call = Selected
    BY <1>8 DEF FlowInv, Leads
  <2>3. Shown(mMessages, w.screen)
    BY <2>2, FlowTypes, FineShown
  <2> HIDE DEF w
  <2>4. w.screen = Selected
    BY <1>1, <2>1, <2>2
  <2>5. Fine(mMessages, w, o) /\ After(w, o).chunks = <<>> /\ After(w, o).screen = <<>>
    <3>1. CASE mCurrentId = NoId
      <4>1. o = <<>> /\ w.screen = <<>>
        BY <2>4, <3>1 DEF o, ClearFirst, Selected
      <4>2. QED
        BY <2>1, <2>2, <2>3, <4>1, FineNothing
    <3>2. CASE mCurrentId # NoId
      <4>1. o = <<Message("CLEAR", <<>>)>>
        BY <3>2 DEF o, ClearFirst
      <4>2. Message("CLEAR", <<>>) \in Messages /\ Message("CLEAR", <<>>).type = "CLEAR"
        BY EmptyMessages DEF MessageTypes
      <4>3. Fine(mMessages, w, o) /\ After(w, o) = EmptyWindow
        BY <2>1, <2>2, <2>3, <4>1, <4>2, FineClear
      <4>4. QED
        BY <4>3 DEF EmptyWindow
    <3>3. QED
      BY <3>1, <3>2
  <2>6. <<>> \o mMessages[id] = mMessages[id]
    BY <1>5
  <2>7. Leads(mMessages, w, o, mMessages[id], mMessages[id])
    BY <2>5, <2>6 DEF Leads
  <2>8. QED
    BY <1>2, <2>2, <2>7, FlowTypes, LeadsOn DEF w
<1>9. Working' => Leads(mMessages', window', OnItsWay', call', Selected')
  BY <1>1, <1>4, <1>6, <1>7, <1>8 DEF windowVars
<1>10. QED
  BY <1>1, <1>9 DEF FlowInv, windowVars, threadVars

\* Every step preserves FlowInv.
LEMMA FlowStep ==
    ASSUME TypeInv, FlowInv, [Next]_vars
    PROVE  FlowInv'
<1>1. ThreadType /\ StorageType
  BY DEF TypeInv, TypeOK
<1>2. "main" \in Threads /\ "heartbeat" \in Threads /\ "beat" \in Threads
  BY DEF Threads, HandlerThreads, WindowThreads
<1>3. CASE Caller
  <2>1. ASSUME NEW id \in Ids, NEW l \in Lengths, Send(id, l) PROVE FlowInv'
    <3> DEFINE e == Message("SENDER", Text(Stored + 1, l))
    <3>1. Free /\ mCurrentId = id /\ Store(id, e, TRUE)
      BY <2>1 DEF Send
    <3>2. e \in Entries
      BY <1>1, StoredIsNat, TextType DEF EntryTypes
    <3>3. id \in 1 .. Len(mMessages)
      BY <3>1, FlowTypes, ChatAssumption DEF Ids
    <3> HIDE DEF e
    <3>4. Store(id, e, mCurrentId = id)
      BY <3>1 DEF Store
    <3>5. QED
      BY <3>1, <3>2, <3>3, <3>4, FlowStore
  <2>2. ASSUME NEW id \in Ids, NEW l \in Lengths, Receive(id, l) PROVE FlowInv'
    <3> DEFINE e == Message("RECEIVER", Text(Stored + 1, l))
    <3>1. Free /\ id <= Len(mMessages) /\ Store(id, e, mCurrentId = id)
      BY <2>2 DEF Receive, IsShown
    <3>2. e \in Entries
      BY <1>1, StoredIsNat, TextType DEF EntryTypes
    <3>3. id \in 1 .. Len(mMessages)
      BY <3>1, FlowTypes, ChatAssumption DEF Ids
    <3> HIDE DEF e
    <3>4. QED
      BY <3>1, <3>2, <3>3, FlowStore
  <2>3. QED
    BY <1>3, <2>1, <2>2, FlowCreate, FlowSelect DEF Caller
<1>4. CASE Queue
  BY <1>4, FlowQueue
<1>5. CASE Main
  BY <1>5, FlowDequeue, FlowQueueHeartbeat, FlowMainSend, FlowSendGoodbye DEF Main
<1>6. CASE Run
  BY <1>6, FlowRun
<1>7. CASE ReceiveHeartbeat \/ SendHeartbeat
  <2>1. UNCHANGED <<storageVars, mQueued, batch, primary, windowVars>>
    BY <1>7 DEF ReceiveHeartbeat, SendHeartbeat
  <2>2. KeepsMain
    <3>1. \/ Again("heartbeat") \/ Ends("heartbeat") \/ TimedOut("heartbeat", "loop")
          \/ Again("beat") \/ TimedOut("beat", "loop")
      BY <1>7 DEF ReceiveHeartbeat, SendHeartbeat
    <3>2. QED
      BY <1>1, <1>2, <3>1, AgainType, EndsType, TimedOutType
  <2>3. QED
    BY <2>1, <2>2, FlowFrame DEF KeepsMain, Working, storageVars
<1>8. ASSUME NEW t \in Threads, Interrupted(t) PROVE FlowInv'
  <2>1. UNCHANGED <<storageVars, mQueued, batch, primary, secondary, windowVars>>
    BY <1>8 DEF Interrupted
  <2>2. (Goto(t, "goodbye") /\ pc[t] = "send") \/ Ends(t)
    BY <1>8 DEF Interrupted, At
  <2>3. CASE t = "main"
    <3>1. pc'["main"] = "goodbye" \/ (pc'["main"] = "ended" /\ stopped'["handler"])
      BY <1>1, <1>2, <2>2, <2>3, GotoType, EndsType DEF MainPlaces, ProcessOf, HandlerThreads
    <3>2. ~Working' /\ pc'["main"] # "send"
      BY <3>1 DEF Working
    <3>3. QED
      BY <2>1, <3>2, FlowFrame DEF storageVars
  <2>4. CASE t # "main"
    <3>1. pc[t] # "send"
      BY <1>1, <2>4 DEF ThreadType, LoopPlaces
    <3>2. KeepsMain
      BY <1>1, <2>2, <2>4, <3>1, EndsType
    <3>3. QED
      BY <2>1, <3>2, FlowFrame DEF KeepsMain, Working, storageVars
  <2>5. QED
    BY <2>3, <2>4
<1>9. ASSUME NEW p \in {"handler", "window"}, Stop(p) PROVE FlowInv'
  <2>1. /\ stopped' = [stopped EXCEPT ![p] = TRUE]
        /\ UNCHANGED <<storageVars, mQueued, batch, primary, secondary, windowVars, pc, try>>
    BY <1>9 DEF Stop
  <2>2. KeepsMain
    BY <1>1, <2>1 DEF ThreadType, KeepsMain
  <2>3. QED
    BY <2>1, <2>2, FlowFrame DEF KeepsMain, Working, storageVars
<1>10. ASSUME NEW p \in {"handler", "window"}, Die(p) PROVE FlowInv'
  <2>1. /\ stopped' = [stopped EXCEPT ![p] = TRUE]
        /\ pc' = [t \in Threads |-> IF ProcessOf(t) = p THEN "ended" ELSE pc[t]]
        /\ call' = IF p = "handler" THEN <<>> ELSE call
        /\ UNCHANGED <<mMessages, mCurrentId, mQueued, batch, primary, secondary, windowVars, try>>
    BY <1>10 DEF Die
  <2>2. pc'["main"] = "ended" \/ pc'["main"] = pc["main"]
    BY <1>2, <2>1
  <2>3. p = "window" => pc'["main"] = pc["main"] /\ call' = call
    BY <1>2, <2>1 DEF ProcessOf, HandlerThreads
  <2>4. p = "handler" => stopped'["handler"]
    BY <1>1, <2>1 DEF ThreadType
  <2>5. stopped["handler"] => stopped'["handler"]
    BY <1>1, <2>1 DEF ThreadType
  <2>6. Working' => Working /\ call' = call
    BY <2>3, <2>4, <2>5 DEF Working
  <2>7. pc'["main"] = "send" => pc["main"] = "send"
    BY <2>2
  <2>8. QED
    BY <2>1, <2>6, <2>7, FlowFrame
<1>11. CASE UNCHANGED vars
  <2>1. UNCHANGED <<storageVars, mQueued, batch, primary, secondary, windowVars, threadVars>>
    BY <1>11 DEF vars
  <2>2. QED
    BY <2>1, FlowFrame DEF Working, storageVars, threadVars
<1>12. QED
  BY <1>3, <1>4, <1>5, <1>6, <1>7, <1>8, <1>9, <1>10, <1>11 DEF Next, Others

\* The inductive invariant holds.
LEMMA Invariance == Spec => []IInv
<1>1. Init => IInv
  BY TypeInit, FlowInit DEF IInv
<1>2. IInv /\ [Next]_vars => IInv'
  BY TypeStep, FlowStep DEF IInv
<1>3. QED
  BY <1>1, <1>2, PTL DEF Spec

\* While the handler runs the window refuses nothing and its screen, once it
\* has handled what main() and the callers have on its way, shows the selected
\* conversation: for any number of conversations and entries, any lengths of
\* texts, messages and queues, with stops, deaths and failures at any moment.
THEOREM SelectionIsShown == Spec => []ScreenWillShowSelection
<1>1. IInv => ScreenWillShowSelection
  <2>1. SUFFICES ASSUME TypeInv, FlowInv, Working
                 PROVE  /\ ~refused
                        /\ \A k \in 1 .. Len(OnItsWay) :
                              ~Refuses(Windows(window, OnItsWay)[k - 1], OnItsWay[k])
                        /\ Windows(window, OnItsWay)[Len(OnItsWay)].chunks = <<>>
                        /\ Windows(window, OnItsWay)[Len(OnItsWay)].screen \o call = Selected
    BY Zenon DEF IInv, Working, ScreenWillShowSelection, At
  <2>2. ~refused /\ Leads(mMessages, window, OnItsWay, call, Selected)
    BY <2>1 DEF FlowInv
  <2>3. QED
    BY <2>2 DEF Leads, Fine, After
<1>2. QED
  BY <1>1, Invariance, PTL

\* No message is ever refused, whenever the handler or the window is stopped
\* or dies: handle() never sees chunks of two texts or a clear between chunks.
THEOREM NothingIsRefused == Spec => []~refused
<1>1. IInv => ~refused
  BY DEF IInv, FlowInv
<1>2. QED
  BY <1>1, Invariance, PTL

\* The screen is always a prefix of one conversation, also after stops and
\* deaths in the middle of a selection.
THEOREM OneConversation == Spec => []OneConversationOnScreen
<1>1. IInv => OneConversationOnScreen
  <2>1. SUFFICES ASSUME TypeInv, FlowInv PROVE OneConversationOnScreen
    BY DEF IInv
  <2>2. Fine(mMessages, window, primary)
    BY <2>1 DEF FlowInv
  <2>3. Shown(mMessages, window.screen)
    BY <2>1, <2>2, FlowTypes, FineShown
  <2>4. QED
    BY <2>3 DEF Shown, OneConversationOnScreen
<1>2. QED
  BY <1>1, Invariance, PTL

=============================================================================
