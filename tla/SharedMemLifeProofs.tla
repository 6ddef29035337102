------------------------ MODULE SharedMemLifeProofs ------------------------
(***************************************************************************)
(* Proofs about SharedMemLife, for any set of owners, any number of        *)
(* attempts and of creations: the type invariant, OwnerKeepsItsNames,      *)
(* OpenedIsConnected and NothingLeftBehind.                                *)
(***************************************************************************)
EXTENDS SharedMemLife, TLAPS

(***************************************************************************)
(* The inductive invariant.                                                *)
(***************************************************************************)

\* What the flags of an owner say at each step of create() and destroy().
MadeInv ==
    \A o \in Owners :
        /\ pc[o] \in {"size", "produced", "consumed", "alive"} => "memory" \in made[o]
        /\ pc[o] \in {"none", "memory"} => made[o] = {}
        /\ pc[o] = "destroy2" => "memory" \notin made[o]
        /\ pc[o] = "destroy3" => made[o] \subseteq {"produced"}

\* Creations are numbered in the order in which they begin, each has one owner.
GenInv ==
    /\ \A o \in Owners :
          /\ gen[o] <= created
          /\ pc[o] # "none" => gen[o] # None
    /\ \A o, p \in Owners : gen[o] = gen[p] /\ gen[o] # None => o = p
    /\ oGen <= created

\* While a clean owner has the memory, nobody else has made anything, and the
\* names are its own as far as create() has come.
CleanInv ==
    \A o \in Owners :
        clean[o] /\ pc[o] \in {"size", "produced", "consumed", "alive"} =>
            /\ \A p \in Owners \ {o} : made[p] = {}
            /\ names["memory"] = gen[o]
            /\ names["produced"] = IF pc[o] \in {"size", "produced"} THEN None ELSE gen[o]
            /\ names["consumed"] = IF pc[o] = "alive" THEN gen[o] ELSE None

\* Nobody gets at a semaphore before the memory of its creation has its size.
SizedInv ==
    /\ \A o \in Owners : pc[o] \in {"produced", "consumed"} => gen[o] \in sized
    /\ \A n \in Semaphores :
          /\ names[n] # None => names[n] \in sized
          /\ held[n] # None => held[n] \in sized

\* Until an owner dies, every name has somebody who will remove it.
NamedInv ==
    ~died => \A n \in Names : names[n] # None => \E o \in Owners : n \in made[o]

\* What open() has found so far, when it began beside a clean owner that is
\* still alive; a creation that is over is never alive again.
OpenInv ==
    /\ oPc = "none" => (oGen = None /\ \A n \in Names : held[n] = None)
    /\ oPc = "opened" => \A n \in Names : held[n] # None
    /\ oGen # None => \A o \in Owners :
          gen[o] = oGen => pc[o] \notin {"memory", "size", "produced", "consumed"}
    /\ (oGen # None /\ Clean(oGen)) => \A n \in Names : held[n] \in {None, oGen}

IInv ==
    /\ TypeOK
    /\ MadeInv
    /\ GenInv
    /\ CleanInv
    /\ SizedInv
    /\ NamedInv
    /\ OpenInv

-----------------------------------------------------------------------------
\* The order of the steps of create().
LEMMA NextStepIs ==
    /\ NextStep("memory") = "size"
    /\ NextStep("size") = "produced"
    /\ NextStep("produced") = "consumed"
    /\ NextStep("consumed") = "alive"
BY DEF NextStep

\* Creations are natural numbers, and None is not one of them.
LEMMA CreationsAreNumbers ==
    /\ {None} \cup Creations = 0 .. MaxCreations
    /\ \A g \in Creations : g \in Nat /\ g # None
    /\ None \notin Creations
BY SharedMemLifeAssumption DEF None, Creations

\* The creations of a started owner and of an open() are in range.
LEMMA StartRange ==
    ASSUME created \in {None} \cup Creations, created < MaxCreations
    PROVE  created + 1 \in Creations
BY SharedMemLifeAssumption DEF None, Creations

\* Nobody has called create() yet.
LEMMA InitInv == Init => IInv
<1> SUFFICES ASSUME Init PROVE IInv
  OBVIOUS
<1> USE DEF Init
<1>1. /\ names \in [Names -> {None} \cup Creations]
      /\ held \in [Names -> {None} \cup Creations]
      /\ gen \in [Owners -> {None} \cup Creations]
      /\ sized \subseteq Creations
      /\ created \in {None} \cup Creations
      /\ oGen \in {None} \cup Creations
      /\ oTry \in 1 .. Attempts
  BY SharedMemLifeAssumption DEF None
<1>2. /\ pc \in [Owners -> {"none", "size", "alive", "destroy", "destroy2", "destroy3"} \cup Names]
      /\ made \in [Owners -> SUBSET Names]
      /\ oPc \in {"none", "opened", "failed", "check"} \cup Names
      /\ \A o \in Owners : pc[o] = "none" => made[o] = {}
  OBVIOUS
<1>3. clean \in [Owners -> BOOLEAN] /\ died \in BOOLEAN
  OBVIOUS
<1>4. TypeOK
  BY <1>1, <1>2, <1>3 DEF TypeOK
<1>5. MadeInv /\ CleanInv
  BY DEF MadeInv, CleanInv
<1>6. GenInv /\ SizedInv
  BY DEF GenInv, SizedInv, None, Semaphores
<1>7. NamedInv
  BY DEF NamedInv
<1>8. OpenInv
  BY DEF OpenInv
<1>9. QED
  BY <1>4, <1>5, <1>6, <1>7, <1>8 DEF IInv

-----------------------------------------------------------------------------
(***************************************************************************)
(* The types.                                                              *)
(***************************************************************************)
Places == {"none", "size", "alive", "destroy", "destroy2", "destroy3"} \cup Names
Numbers == {None} \cup Creations

\* The types, but for the flags clean and died.
PlainType ==
    /\ names \in [Names -> Numbers]
    /\ sized \subseteq Creations
    /\ created \in Numbers
    /\ pc \in [Owners -> Places]
    /\ gen \in [Owners -> Numbers]
    /\ made \in [Owners -> SUBSET Names]
    /\ oPc \in {"none", "opened", "failed", "check"} \cup Names
    /\ oTry \in 1 .. Attempts
    /\ held \in [Names -> Numbers]
    /\ oGen \in Numbers

\* The type invariant is the plain types and the flags.
LEMMA TypeSplit ==
    /\ TypeOK => PlainType /\ clean \in [Owners -> BOOLEAN] /\ died \in BOOLEAN
    /\ (PlainType /\ clean \in [Owners -> BOOLEAN] /\ died \in BOOLEAN /\ MadeInv) => TypeOK
BY DEF TypeOK, PlainType, Places, Numbers, MadeInv

\* The flags stay flags.
LEMMA FlagsInv ==
    ASSUME clean \in [Owners -> BOOLEAN], died \in BOOLEAN, [Next]_vars
    PROVE  clean' \in [Owners -> BOOLEAN] /\ died' \in BOOLEAN
<1>1. died' \in {died, TRUE}
  BY DEF Next, vars, ownerVars, Start, CreateMemory, SetSize, CreateSemaphore, End,
         Destroy, Unlink, Die, OpenBegins, OpenName, Open, OpenCheck
<1>2. \/ clean' = clean
      \/ \E o \in Owners : clean' = [clean EXCEPT ![o] = Alone(o)]
  BY DEF Next, vars, ownerVars, Start, CreateMemory, SetSize, CreateSemaphore, End,
         Destroy, Unlink, Die, OpenBegins, OpenName, Open, OpenCheck
<1>3. \A o \in Owners : Alone(o) \in BOOLEAN
  BY DEF Alone
<1>4. clean' \in [Owners -> BOOLEAN]
  BY <1>2, <1>3
<1>5. QED
  BY <1>1, <1>4

\* The steps of one owner, and of open().
OwnerStep(o) ==
    \/ Start(o) \/ CreateMemory(o) \/ SetSize(o)
    \/ \E n \in Semaphores : CreateSemaphore(o, n)
    \/ End(o) \/ Destroy(o) \/ Die(o)

OpenStep == OpenBegins \/ OpenName \/ OpenCheck

\* Each step of an owner keeps the plain types.
LEMMA OwnerType ==
    ASSUME PlainType, GenInv, NEW o \in Owners, OwnerStep(o)
    PROVE  PlainType'
<1> USE NextStepIs DEF PlainType, Places, Names, Semaphores, openVars
<1>1. CASE Start(o)
  <2>1. created + 1 \in Creations
    BY <1>1, StartRange DEF Start, Numbers
  <2>2. QED
    BY <1>1, <2>1 DEF Start, Numbers
<1>2. CASE CreateMemory(o)
  BY <1>2 DEF CreateMemory
<1>3. CASE SetSize(o)
  <2>1. gen[o] \in Creations
    BY <1>3 DEF SetSize, GenInv, Numbers
  <2>2. QED
    BY <1>3, <2>1 DEF SetSize
<1>4. CASE \E n \in Semaphores : CreateSemaphore(o, n)
  <2>1. PICK n \in {"produced", "consumed"} : CreateSemaphore(o, n)
    BY <1>4
  <2>2. /\ pc' \in [Owners -> Places]
        /\ names' \in [Names -> Numbers]
        /\ made' \in [Owners -> SUBSET Names]
    BY <2>1 DEF CreateSemaphore
  <2>3. QED
    BY <2>1, <2>2 DEF CreateSemaphore
<1>5. CASE End(o)
  BY <1>5 DEF End
<1>6. CASE Destroy(o)
  <2>1. PICK n \in Names, after \in Places : \E step \in Places : Unlink(o, step, n, after)
    BY <1>6 DEF Destroy
  <2>2. QED
    BY <2>1 DEF Unlink, Numbers
<1>7. CASE Die(o)
  BY <1>7 DEF Die
<1>8. QED
  BY <1>1, <1>2, <1>3, <1>4, <1>5, <1>6, <1>7 DEF OwnerStep

\* Each step of open() keeps the plain types.
LEMMA OpenType ==
    ASSUME PlainType, OpenStep
    PROVE  PlainType'
<1> USE DEF PlainType, ownerVars, Names
<1>1. CASE OpenBegins
  BY <1>1 DEF OpenBegins, Numbers
<1>2. CASE OpenName
  BY <1>2 DEF OpenName, Open
<1>3. CASE OpenCheck
  <2>1. oTry' \in 1 .. Attempts
    BY <1>3, SharedMemLifeAssumption DEF OpenCheck, OpenFails
  <2>2. QED
    BY <1>3, <2>1 DEF OpenCheck
<1>4. QED
  BY <1>1, <1>2, <1>3 DEF OpenStep

-----------------------------------------------------------------------------
(***************************************************************************)
(* The owners.                                                             *)
(***************************************************************************)

\* What a step of an owner does to the other owners' state: nothing.
LEMMA OthersUnchanged ==
    ASSUME PlainType, NEW o \in Owners, OwnerStep(o), NEW p \in Owners, p # o
    PROVE  pc'[p] = pc[p] /\ gen'[p] = gen[p] /\ made'[p] = made[p]
BY DEF PlainType, OwnerStep, Start, CreateMemory, SetSize, CreateSemaphore, End,
       Destroy, Unlink, Die

\* The flags of the owner that makes a step follow its steps.
LEMMA OwnerMade ==
    ASSUME PlainType, MadeInv, NEW o \in Owners, OwnerStep(o)
    PROVE  MadeInv'
<1> USE NextStepIs DEF PlainType, MadeInv, Names, Semaphores
<1>1. CASE Start(o)
  BY <1>1 DEF Start
<1>2. CASE CreateMemory(o)
  BY <1>2 DEF CreateMemory
<1>3. CASE SetSize(o)
  BY <1>3 DEF SetSize
<1>4. CASE \E n \in Semaphores : CreateSemaphore(o, n)
  BY <1>4 DEF CreateSemaphore
<1>5. CASE End(o)
  BY <1>5 DEF End
<1>6. CASE Destroy(o)
  BY <1>6 DEF Destroy, Unlink
<1>7. CASE Die(o)
  BY <1>7 DEF Die
<1>8. QED
  BY <1>1, <1>2, <1>3, <1>4, <1>5, <1>6, <1>7 DEF OwnerStep

\* Numbers of creations only grow.
LEMMA OwnerGen ==
    ASSUME PlainType, GenInv, NEW o \in Owners, OwnerStep(o)
    PROVE  GenInv'
<1>0. created \in Nat /\ oGen \in Nat /\ \A p \in Owners : gen[p] \in Nat
  BY CreationsAreNumbers DEF PlainType, Numbers
<1>1. CASE Start(o)
  BY <1>0, <1>1 DEF Start, GenInv, PlainType, openVars, None
<1>2. CASE ~Start(o)
  <2>1. created' = created /\ gen' = gen /\ oGen' = oGen
    BY <1>2 DEF OwnerStep, CreateMemory, SetSize, CreateSemaphore, End, Destroy, Unlink,
                Die, openVars
  <2>2. \A p \in Owners : pc'[p] # "none" => pc[p] # "none"
    BY <1>2 DEF PlainType, OwnerStep, CreateMemory, SetSize, CreateSemaphore, End,
                Destroy, Unlink, Die, Semaphores, Names
  <2>3. QED
    BY <2>1, <2>2 DEF GenInv
<1>3. QED
  BY <1>1, <1>2

\* Until an owner dies, every name has somebody who will remove it.
LEMMA OwnerNamed ==
    ASSUME PlainType, MadeInv, NamedInv, NEW o \in Owners, OwnerStep(o)
    PROVE  NamedInv'
<1> SUFFICES ASSUME ~died', NEW n \in Names, names'[n] # None
             PROVE  \E p \in Owners : n \in made'[p]
  BY DEF NamedInv
<1>1. CASE Die(o)
  BY <1>1 DEF Die
<1>2. CASE ~Die(o)
  <2>1. ~died
    BY <1>2 DEF OwnerStep, Start, CreateMemory, SetSize, CreateSemaphore, End,
                Destroy, Unlink
  <2>2. names[n] # None => \E p \in Owners : n \in made[p]
    BY <2>1 DEF NamedInv
  <2>3. \/ n \in made'[o]
        \/ /\ names[n] # None
           /\ n \in made[o] => n \in made'[o]
    <3> USE DEF PlainType
    <3>1. CASE Start(o) \/ SetSize(o) \/ End(o)
      BY <3>1 DEF Start, SetSize, End
    <3>2. CASE CreateMemory(o)
      BY <3>2 DEF CreateMemory, MadeInv
    <3>3. CASE \E m \in Semaphores : CreateSemaphore(o, m)
      BY <3>3 DEF CreateSemaphore, Semaphores
    <3>4. CASE Destroy(o)
      <4>1. PICK m \in Names : \E step, after : Unlink(o, step, m, after)
        BY <3>4 DEF Destroy, Names
      <4>2. QED
        BY <4>1 DEF Unlink, Unlinks
    <3>5. QED
      BY <1>2, <3>1, <3>2, <3>3, <3>4 DEF OwnerStep
  <2>4. QED
    BY <2>2, <2>3, OthersUnchanged
<1>3. QED
  BY <1>1, <1>2

\* The names are those of owner o, as far as its create() has come.
Keeps(o) ==
    /\ \A p \in Owners \ {o} : made[p] = {}
    /\ names["memory"] = gen[o]
    /\ names["produced"] = IF pc[o] \in {"size", "produced"} THEN None ELSE gen[o]
    /\ names["consumed"] = IF pc[o] = "alive" THEN gen[o] ELSE None

Holding(o) == pc[o] \in {"size", "produced", "consumed", "alive"}

\* An owner that finds the memory's name free and is alone keeps the names.
LEMMA MemoryClean ==
    ASSUME PlainType, clean \in [Owners -> BOOLEAN], GenInv, CleanInv,
           NEW o \in Owners, CreateMemory(o), names["memory"] = None
    PROVE  CleanInv'
<1>1. /\ names' = [names EXCEPT !["memory"] = gen[o]]
      /\ made' = [made EXCEPT ![o] = {"memory"}]
      /\ pc' = [pc EXCEPT ![o] = "size"]
      /\ gen' = gen
  BY NextStepIs DEF CreateMemory
<1>2. clean' = [clean EXCEPT ![o] = Alone(o)]
  BY DEF CreateMemory
<1>3. SUFFICES ASSUME NEW p \in Owners, clean'[p], Holding(p)'
               PROVE  Keeps(p)'
  BY DEF CleanInv, Keeps, Holding
<1>4. CASE p = o
  <2>1. Alone(o)
    <3>1. clean'[o] = Alone(o)
      BY <1>2
    <3>2. clean'[o]
      BY <1>3, <1>4
    <3>3. QED
      BY <3>1, <3>2
  <2>2. QED
    BY <1>1, <1>4, <2>1 DEF Alone, Keeps, PlainType, Names, Semaphores
<1>5. CASE p # o
  <2>1. clean'[p] = clean[p]
    BY <1>2, <1>5
  <2>2. clean[p] /\ Holding(p)
    BY <1>1, <1>3, <1>5, <2>1 DEF Holding, PlainType
  <2>3. names["memory"] = gen[p] /\ gen[p] # None
    BY <2>2 DEF CleanInv, Holding, GenInv
  <2>4. QED
    BY <2>3
<1>6. QED
  BY <1>4, <1>5

\* A clean owner goes on with create() and finds each semaphore free.
LEMMA HolderClean ==
    ASSUME PlainType, NEW o \in Owners, OwnerStep(o),
           Holding(o), Keeps(o), Holding(o)'
    PROVE  Keeps(o)'
<1> USE NextStepIs DEF PlainType, Holding, Keeps, Names, Semaphores
<1>1. CASE SetSize(o)
  BY <1>1 DEF SetSize
<1>2. CASE \E n \in Semaphores : CreateSemaphore(o, n)
  <2>1. CASE CreateSemaphore(o, "produced")
    BY <2>1 DEF CreateSemaphore, None
  <2>2. CASE CreateSemaphore(o, "consumed")
    BY <2>2 DEF CreateSemaphore, None
  <2>3. QED
    BY <1>2, <2>1, <2>2
<1>3. ~Start(o) /\ ~CreateMemory(o) /\ ~End(o) /\ ~Destroy(o) /\ ~Die(o)
  BY DEF Start, CreateMemory, End, Destroy, Unlink, Die
<1>4. QED
  BY <1>1, <1>2, <1>3 DEF OwnerStep

\* Another process of the same name takes nothing away from a clean owner:
\* it has made nothing, so it removes nothing.
LEMMA OtherClean ==
    ASSUME PlainType, MadeInv, GenInv, NEW o \in Owners, OwnerStep(o),
           NEW p \in Owners, p # o, Holding(p), Keeps(p)
    PROVE  Keeps(p)'
<1>1. made[o] = {} /\ ~Holding(o) /\ names["memory"] # None
  BY DEF Keeps, MadeInv, Holding, GenInv
<1>2. pc'[p] = pc[p] /\ gen'[p] = gen[p]
  BY OthersUnchanged
<1>3. names' = names /\ made'[o] = {}
  <2> USE DEF PlainType
  <2>1. CASE Start(o) \/ End(o)
    BY <1>1, <2>1 DEF Start, End
  <2>2. CASE CreateMemory(o)
    BY <1>1, <2>2 DEF CreateMemory
  <2>3. CASE Destroy(o)
    BY <1>1, <2>3 DEF Destroy, Unlink, Unlinks
  <2>4. CASE Die(o)
    BY <1>1, <2>4 DEF Die
  <2>5. ~SetSize(o) /\ \A n \in Semaphores : ~CreateSemaphore(o, n)
    BY <1>1 DEF SetSize, CreateSemaphore, Holding, Semaphores, Names
  <2>6. QED
    BY <2>1, <2>2, <2>3, <2>4, <2>5 DEF OwnerStep
<1>4. \A q \in Owners \ {p} : made'[q] = {}
  BY <1>3, OthersUnchanged DEF Keeps
<1>5. QED
  BY <1>2, <1>3, <1>4 DEF Keeps

\* Clean owners keep their names through every step of every owner.
LEMMA OwnerClean ==
    ASSUME PlainType, clean \in [Owners -> BOOLEAN], MadeInv, GenInv, CleanInv,
           NEW o \in Owners, OwnerStep(o)
    PROVE  CleanInv'
<1>1. CASE CreateMemory(o) /\ names["memory"] = None
  BY <1>1, MemoryClean
<1>2. CASE ~(CreateMemory(o) /\ names["memory"] = None)
  <2>1. clean' = clean
    BY <1>2 DEF OwnerStep, Start, CreateMemory, SetSize, CreateSemaphore, End,
                Destroy, Unlink, Die
  <2>2. SUFFICES ASSUME NEW p \in Owners, clean'[p], Holding(p)'
                 PROVE  Keeps(p)'
    BY DEF CleanInv, Keeps, Holding
  <2>3. Holding(p)
    <3>1. CASE p # o
      BY <2>2, <3>1, OthersUnchanged DEF Holding
    <3>2. CASE p = o
      BY <1>2, <2>2, <3>2 DEF PlainType, Holding, OwnerStep, Start, CreateMemory,
           SetSize, CreateSemaphore, End, Destroy, Unlink, Die, Semaphores, Names
    <3>3. QED
      BY <3>1, <3>2
  <2>4. Keeps(p)
    BY <2>1, <2>2, <2>3 DEF CleanInv, Keeps, Holding
  <2>5. QED
    BY <2>2, <2>3, <2>4, HolderClean, OtherClean
<1>3. QED
  BY <1>1, <1>2

\* A semaphore gets its name after the memory has got its size.
LEMMA OwnerSized ==
    ASSUME PlainType, SizedInv, NEW o \in Owners, OwnerStep(o)
    PROVE  SizedInv'
<1> USE NextStepIs DEF PlainType, Names, Semaphores
<1>0. held' = held
  BY DEF OwnerStep, Start, CreateMemory, SetSize, CreateSemaphore, End, Destroy,
         Unlink, Die, openVars
<1>1. CASE Start(o) \/ End(o) \/ Die(o)
  BY <1>0, <1>1 DEF Start, End, Die, SizedInv
<1>2. CASE CreateMemory(o)
  BY <1>0, <1>2 DEF CreateMemory, SizedInv
<1>3. CASE SetSize(o)
  BY <1>0, <1>3 DEF SetSize, SizedInv
<1>4. CASE \E n \in Semaphores : CreateSemaphore(o, n)
  <2>1. PICK n \in {"produced", "consumed"} : CreateSemaphore(o, n)
    BY <1>4
  <2>2. gen[o] \in sized /\ sized' = sized /\ gen' = gen
    BY <2>1 DEF CreateSemaphore, SizedInv
  <2>3. \A m \in Semaphores : names'[m] \in {names[m], gen[o]}
    BY <2>1 DEF CreateSemaphore
  <2>4. \A p \in Owners : pc'[p] \in {"produced", "consumed"} => gen[p] \in sized
    BY <2>1, <2>2 DEF CreateSemaphore, SizedInv
  <2>5. QED
    BY <1>0, <2>2, <2>3, <2>4 DEF SizedInv
<1>5. CASE Destroy(o)
  <2>1. sized' = sized /\ gen' = gen /\ \A m \in Names : names'[m] \in {names[m], None}
    BY <1>5 DEF Destroy, Unlink
  <2>2. \A p \in Owners : pc'[p] \in {"produced", "consumed"} => pc[p] = pc'[p]
    BY <1>5 DEF Destroy, Unlink
  <2>3. QED
    BY <1>0, <2>1, <2>2 DEF SizedInv
<1>6. QED
  BY <1>1, <1>2, <1>3, <1>4, <1>5 DEF OwnerStep

\* A creation that an open() has seen complete does not become alive again.
LEMMA OwnerOpen ==
    ASSUME PlainType, clean \in [Owners -> BOOLEAN], GenInv, OpenInv,
           NEW o \in Owners, OwnerStep(o)
    PROVE  OpenInv'
<1> DEFINE Busy == {"memory", "size", "produced", "consumed"}
<1>0. UNCHANGED <<oPc, oTry, held, oGen>>
  BY DEF OwnerStep, Start, CreateMemory, SetSize, CreateSemaphore, End, Destroy,
         Unlink, Die, openVars
<1>1. oGen # None => \A p \in Owners : gen'[p] = oGen =>
          gen[p] = oGen /\ pc'[p] \notin Busy
  <2> SUFFICES ASSUME oGen # None, NEW p \in Owners, gen'[p] = oGen
               PROVE  gen[p] = oGen /\ pc'[p] \notin Busy
    OBVIOUS
  <2>1. CASE Start(o)
    <3>1. created \in Nat /\ oGen \in Nat /\ oGen <= created
      BY CreationsAreNumbers DEF PlainType, Numbers, GenInv
    <3>2. p # o
      BY <2>1, <3>1 DEF Start, PlainType
    <3>3. QED
      BY <3>2, OthersUnchanged DEF OpenInv
  <2>2. CASE ~Start(o)
    <3>1. gen' = gen
      BY <2>2 DEF OwnerStep, CreateMemory, SetSize, CreateSemaphore, End, Destroy, Unlink, Die
    <3>2. pc'[p] \in Busy => pc[p] \in Busy
      BY <2>2, NextStepIs DEF PlainType, OwnerStep, CreateMemory, SetSize,
           CreateSemaphore, End, Destroy, Unlink, Die, Semaphores, Names
    <3>3. QED
      BY <3>1, <3>2 DEF OpenInv
  <2>3. QED
    BY <2>1, <2>2
<1>2. (oGen # None /\ Clean(oGen)') => Clean(oGen)
  <2> SUFFICES ASSUME oGen # None, NEW p \in Owners,
                      gen'[p] = oGen, pc'[p] = "alive", clean'[p]
               PROVE  Clean(oGen)
    BY <1>0 DEF Clean
  <2>1. gen[p] = oGen /\ pc[p] \notin Busy
    BY <1>1 DEF OpenInv
  <2>2. p # o
    BY <2>1, NextStepIs DEF PlainType, OwnerStep, Start, CreateMemory, SetSize, CreateSemaphore,
         End, Destroy, Unlink, Die, Semaphores, Names
  <2>3. pc[p] = "alive"
    BY <2>2, OthersUnchanged
  <2>4. clean' = clean \/ clean' = [clean EXCEPT ![o] = Alone(o)]
    BY DEF OwnerStep, Start, CreateMemory, SetSize, CreateSemaphore, End,
           Destroy, Unlink, Die
  <2>5. clean[p]
    BY <2>2, <2>4
  <2>6. QED
    BY <2>1, <2>3, <2>5 DEF Clean
<1>3. (oGen' # None /\ Clean(oGen)') => \A n \in Names : held'[n] \in {None, oGen'}
  BY <1>0, <1>2 DEF OpenInv
<1>4. QED
  BY <1>0, <1>1, <1>3 DEF OpenInv

-----------------------------------------------------------------------------
(***************************************************************************)
(* open().                                                                 *)
(***************************************************************************)

\* open() leaves the owners and their names alone.
LEMMA OpenLeavesOwners ==
    ASSUME OpenStep
    PROVE  UNCHANGED <<names, sized, created, pc, gen, made, clean, died>>
BY DEF OpenStep, OpenBegins, OpenName, Open, OpenCheck, ownerVars

\* What open() finds is sized, and belongs to the clean owner that is alive.
LEMMA OpenKeeps ==
    ASSUME PlainType, GenInv, CleanInv, SizedInv, OpenInv, OpenStep
    PROVE  GenInv' /\ SizedInv' /\ OpenInv'
<1>0. UNCHANGED <<names, sized, created, pc, gen, made, clean, died>>
  BY OpenLeavesOwners
<1>1. \A g : Clean(g)' <=> Clean(g)
  BY <1>0 DEF Clean
<1>2. \A g : Clean(g) => g \in Numbers /\ g # None /\ g <= created /\ \A n \in Names : names[n] = g
  BY DEF Clean, CleanInv, PlainType, GenInv, Names
<1>3. CASE OpenBegins
  <2>1. held' = held /\ oPc' = "produced" /\ \A n \in Names : held[n] = None
    BY <1>3 DEF OpenBegins, OpenInv
  <2>2. oGen' = None \/ Clean(oGen')
    BY <1>3 DEF OpenBegins
  <2>3. oGen' # None => \A o \in Owners : gen[o] = oGen' =>
            pc[o] \notin {"memory", "size", "produced", "consumed"}
    BY <2>2 DEF Clean, GenInv
  <2>4. oGen' <= created
    BY <1>2, <2>2, CreationsAreNumbers DEF PlainType, Numbers, None
  <2>5. GenInv'
    BY <1>0, <2>4 DEF GenInv
  <2>6. SizedInv'
    BY <1>0, <2>1 DEF SizedInv
  <2>7. OpenInv'
    BY <1>0, <2>1, <2>3 DEF OpenInv
  <2>8. QED
    BY <2>5, <2>6, <2>7
<1>4. CASE OpenName
  <2>1. PICK n \in Names : \E after \in {"consumed", "memory", "check"} : Open(n, after)
    BY <1>4 DEF OpenName, Names
  <2>2. /\ oGen' = oGen
        /\ oPc' \notin {"none", "opened"}
        /\ oPc # "none"
        /\ \A m \in Names : held'[m] \in {held[m], names[m]}
    BY <2>1 DEF Open, Names, PlainType
  <2>3. GenInv'
    BY <1>0, <2>2 DEF GenInv
  <2>4. SizedInv'
    BY <1>0, <2>2 DEF SizedInv, Semaphores
  <2>5. (oGen # None /\ Clean(oGen)) => \A m \in Names : held'[m] \in {None, oGen}
    BY <1>2, <2>2 DEF OpenInv
  <2>6. OpenInv'
    BY <1>0, <1>1, <2>2, <2>5 DEF OpenInv
  <2>7. QED
    BY <2>3, <2>4, <2>6
<1>5. CASE OpenCheck
  <2>1. /\ oGen' = oGen /\ held' = held
        /\ oPc' # "none"
        /\ oPc' = "opened" => \A n \in Names : held[n] # None
    BY <1>5 DEF OpenCheck
  <2>2. GenInv' /\ SizedInv'
    BY <1>0, <2>1 DEF GenInv, SizedInv
  <2>3. OpenInv'
    BY <1>0, <1>1, <2>1 DEF OpenInv
  <2>4. QED
    BY <2>2, <2>3
<1>6. QED
  BY <1>3, <1>4, <1>5 DEF OpenStep

-----------------------------------------------------------------------------
\* Each step of an owner or of open() preserves the inductive invariant.
LEMMA StepInv == IInv /\ [Next]_vars => IInv'
<1> SUFFICES ASSUME IInv, [Next]_vars PROVE IInv'
  OBVIOUS
<1>0. /\ PlainType /\ clean \in [Owners -> BOOLEAN] /\ died \in BOOLEAN
      /\ MadeInv /\ GenInv /\ CleanInv /\ SizedInv /\ NamedInv /\ OpenInv
  BY TypeSplit DEF IInv
<1>1. clean' \in [Owners -> BOOLEAN] /\ died' \in BOOLEAN
  BY <1>0, FlagsInv
<1>2. CASE \E o \in Owners : OwnerStep(o)
  <2>1. PICK o \in Owners : OwnerStep(o)
    BY <1>2
  <2>2. PlainType' /\ MadeInv' /\ GenInv'
    BY <1>0, <2>1, OwnerType, OwnerMade, OwnerGen
  <2>3. CleanInv' /\ SizedInv' /\ NamedInv' /\ OpenInv'
    BY <1>0, <2>1, OwnerClean, OwnerSized, OwnerNamed, OwnerOpen
  <2>4. TypeOK'
    BY <1>1, <2>2, TypeSplit DEF PlainType, TypeOK, Places, Numbers, MadeInv
  <2>5. QED
    BY <2>2, <2>3, <2>4 DEF IInv
<1>3. CASE OpenStep
  <2>1. UNCHANGED <<names, sized, created, pc, gen, made, clean, died>>
    BY <1>3, OpenLeavesOwners
  <2>2. MadeInv' /\ CleanInv' /\ NamedInv'
    BY <1>0, <2>1 DEF MadeInv, CleanInv, NamedInv
  <2>3. PlainType' /\ GenInv' /\ SizedInv' /\ OpenInv'
    BY <1>0, <1>3, OpenType, OpenKeeps
  <2>4. TypeOK'
    BY <1>1, <2>2, <2>3 DEF PlainType, TypeOK, Places, Numbers, MadeInv
  <2>5. QED
    BY <2>2, <2>3, <2>4 DEF IInv
<1>4. CASE UNCHANGED vars
  BY <1>4 DEF IInv, TypeOK, MadeInv, GenInv, CleanInv, SizedInv, NamedInv, OpenInv, Clean,
              vars, ownerVars, openVars
<1>5. QED
  BY <1>2, <1>3, <1>4 DEF Next, OwnerStep, OpenStep

\* The processes never leave the inductive invariant.
LEMMA InductiveInvariant == Spec => []IInv
BY InitInv, StepInv, PTL DEF Spec

-----------------------------------------------------------------------------
\* The type invariant of the names and of their users.
THEOREM TypeCorrect == Spec => []TypeOK
<1>1. IInv => TypeOK
  BY DEF IInv
<1>2. QED
  BY <1>1, InductiveInvariant, PTL

\* However many processes create and clean up under one name, an owner that
\* was alone when it created the memory keeps its three names while alive.
THEOREM NamesAreKept == Spec => []OwnerKeepsItsNames
<1>1. IInv => OwnerKeepsItsNames
  BY DEF IInv, CleanInv, OwnerKeepsItsNames, Names
<1>2. QED
  BY <1>1, InductiveInvariant, PTL

\* Whoever opens the objects of a clean owner that stays alive is connected to
\* it, and three objects of one creation are complete.
THEOREM OpenedConnects == Spec => []OpenedIsConnected
<1>1. IInv => OpenedIsConnected
  <2> SUFFICES ASSUME IInv, oPc = "opened" PROVE OpenedIsConnected
    BY DEF OpenedIsConnected
  <2>1. \A n \in Names : held[n] # None
    BY DEF IInv, OpenInv
  <2>2. oGen # None /\ Clean(oGen) => \A n \in Names : held[n] = oGen
    BY <2>1 DEF IInv, OpenInv
  <2>3. held["produced"] \in sized
    BY <2>1 DEF IInv, SizedInv, Semaphores, Names
  <2>4. (\A m, n \in Names : held[m] = held[n]) => held["memory"] \in sized
    BY <2>3 DEF Names
  <2>5. QED
    BY <2>2, <2>4 DEF OpenedIsConnected
<1>2. QED
  BY <1>1, InductiveInvariant, PTL

\* When nobody has died, the end of the last owner leaves no name behind.
THEOREM NamesAreRemoved == Spec => []NothingLeftBehind
<1>1. IInv => NothingLeftBehind
  BY DEF IInv, TypeOK, NamedInv, NothingLeftBehind
<1>2. QED
  BY <1>1, InductiveInvariant, PTL

=============================================================================
