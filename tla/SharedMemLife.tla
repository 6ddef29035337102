--------------------------- MODULE SharedMemLife ----------------------------
(***************************************************************************)
(* The names of TTUtilsSharedMem: create() and destroy() of the processes  *)
(* that own them, one after the other or at the same time, and open() of   *)
(* the other side.  A process may die at any moment and may be started     *)
(* again.  A name refers to the object of one creation, which is numbered; *)
(* an object outlives its name in the process that has opened it.          *)
(***************************************************************************)
EXTENDS Integers

CONSTANTS
    Owners,         \* processes that call create()
    Attempts,       \* attempts of open()
    MaxCreations    \* bound on the calls of create()

ASSUME SharedMemLifeAssumption ==
    /\ Attempts \in Nat \ {0}
    /\ MaxCreations \in Nat

VARIABLES
    names,      \* the creation whose object each name refers to, or None
    sized,      \* the creations whose memory has got its size
    created,    \* the number of creations
    pc,         \* where each owner is
    gen,        \* its latest creation
    made,       \* the names it has created: the three flags
    clean,      \* no semaphore and no other owner was left when it created the memory
    died,       \* some owner has ended without destroy()
    oPc,        \* where open() is
    oTry,       \* the attempts it has left
    held,       \* the objects it has opened
    oGen        \* the creation that was complete and clean when it began

ownerVars == <<created, pc, gen, made, clean, died>>
openVars == <<oPc, oTry, held, oGen>>
vars == <<names, sized, ownerVars, openVars>>

None == 0
Names == {"memory", "produced", "consumed"}
Semaphores == Names \ {"memory"}
Creations == 1 .. MaxCreations

Init ==
    /\ names = [n \in Names |-> None]
    /\ sized = {} /\ created = 0
    /\ pc = [o \in Owners |-> "none"]
    /\ gen = [o \in Owners |-> None]
    /\ made = [o \in Owners |-> {}]
    /\ clean = [o \in Owners |-> FALSE] /\ died = FALSE
    /\ oPc = "none" /\ oTry = Attempts
    /\ held = [n \in Names |-> None] /\ oGen = None

-----------------------------------------------------------------------------
(***************************************************************************)
(* create().                                                               *)
(***************************************************************************)
Start(o) ==
    /\ pc[o] = "none"
    /\ created < MaxCreations
    /\ created' = created + 1
    /\ gen' = [gen EXCEPT ![o] = created + 1]
    /\ pc' = [pc EXCEPT ![o] = "memory"]
    /\ UNCHANGED <<names, sized, made, clean, died, openVars>>

\* The step of create() that follows one; with the size set last.
NextStepSizeLast(step) ==
    [memory |-> "produced", produced |-> "consumed", consumed |-> "size", size |-> "alive"][step]

NextStep(step) ==
    [memory |-> "size", size |-> "produced", produced |-> "consumed", consumed |-> "alive"][step]

\* Nothing of another creation is around.
Alone(o) == (\A n \in Semaphores : names[n] = None) /\ (\A p \in Owners \ {o} : made[p] = {})

\* shm_open with O_EXCL.
CreateMemory(o) ==
    /\ pc[o] = "memory"
    /\ IF names["memory"] = None
       THEN /\ names' = [names EXCEPT !["memory"] = gen[o]]
            /\ made' = [made EXCEPT ![o] = {"memory"}]
            /\ clean' = [clean EXCEPT ![o] = Alone(o)]
            /\ pc' = [pc EXCEPT ![o] = NextStep("memory")]
       ELSE /\ pc' = [pc EXCEPT ![o] = "destroy"]
            /\ UNCHANGED <<names, made, clean>>
    /\ UNCHANGED <<sized, created, gen, died, openVars>>

\* ftruncate and mmap.
SetSize(o) ==
    /\ pc[o] = "size"
    /\ sized' = sized \cup {gen[o]}
    /\ pc' = [pc EXCEPT ![o] = NextStep("size")]
    /\ UNCHANGED <<names, created, gen, made, clean, died, openVars>>

\* sem_open with O_CREAT alone: a semaphore that is there is taken over.
CreateSemaphore(o, n) ==
    /\ pc[o] = n
    /\ names' = IF names[n] = None THEN [names EXCEPT ![n] = gen[o]] ELSE names
    /\ made' = [made EXCEPT ![o] = @ \cup {n}]
    /\ pc' = [pc EXCEPT ![o] = NextStep(n)]
    /\ UNCHANGED <<sized, created, gen, clean, died, openVars>>

\* A system call of create() fails, or the work is done: the destructor runs.
End(o) ==
    /\ pc[o] \in {"memory", "size", "alive"} \cup Semaphores
    /\ pc' = [pc EXCEPT ![o] = "destroy"]
    /\ UNCHANGED <<names, sized, created, gen, made, clean, died, openVars>>

-----------------------------------------------------------------------------
(***************************************************************************)
(* destroy(), and the end of a process without it.                         *)
(***************************************************************************)
\* The flags are not looked at.
UnlinksEverything(o, n) == TRUE

\* The semaphores have no flags of their own.
UnlinksMemory(o, n) == n = "memory" /\ n \in made[o]

Unlinks(o, n) == n \in made[o]

\* The names are removed one after the other.
Unlink(o, step, n, after) ==
    /\ pc[o] = step
    /\ names' = IF Unlinks(o, n) THEN [names EXCEPT ![n] = None] ELSE names
    /\ made' = [made EXCEPT ![o] = @ \ {n}]
    /\ pc' = [pc EXCEPT ![o] = after]
    /\ UNCHANGED <<sized, created, gen, clean, died, openVars>>

Destroy(o) ==
    \/ Unlink(o, "destroy", "memory", "destroy2")
    \/ Unlink(o, "destroy2", "consumed", "destroy3")
    \/ Unlink(o, "destroy3", "produced", "none")

Die(o) ==
    /\ pc[o] # "none"
    /\ pc' = [pc EXCEPT ![o] = "none"]
    /\ made' = [made EXCEPT ![o] = {}]
    /\ died' = TRUE
    /\ UNCHANGED <<names, sized, created, gen, clean, openVars>>

-----------------------------------------------------------------------------
(***************************************************************************)
(* open().                                                                 *)
(***************************************************************************)
Clean(g) == \E o \in Owners : gen[o] = g /\ pc[o] = "alive" /\ clean[o]

\* One process opens, at any moment.
OpenBegins ==
    /\ oPc = "none"
    /\ oPc' = "produced"
    /\ \E g \in {None} \cup Creations :
          /\ oGen' = g
          /\ IF g = None THEN \A h \in Creations : ~Clean(h) ELSE Clean(g)
    /\ UNCHANGED <<names, sized, ownerVars, oTry, held>>

\* One name of an attempt, unless an earlier attempt has opened it.
Open(n, after) ==
    /\ oPc = n
    /\ held' = IF held[n] = None THEN [held EXCEPT ![n] = names[n]] ELSE held
    /\ oPc' = after
    /\ UNCHANGED <<names, sized, ownerVars, oTry, oGen>>

OpenName ==
    \/ Open("produced", "consumed")
    \/ Open("consumed", "memory")
    \/ Open("memory", "check")

OpenFails == oTry = 1

\* Everything is there, or another attempt follows, or there is none left.
OpenCheck ==
    /\ oPc = "check"
    /\ IF \A n \in Names : held[n] # None THEN oPc' = "opened" /\ UNCHANGED oTry
       ELSE IF OpenFails THEN oPc' = "failed" /\ UNCHANGED oTry
       ELSE oPc' = "produced" /\ oTry' = oTry - 1
    /\ UNCHANGED <<names, sized, ownerVars, held, oGen>>

Next ==
    \/ \E o \in Owners :
          \/ Start(o) \/ CreateMemory(o) \/ SetSize(o)
          \/ \E n \in Semaphores : CreateSemaphore(o, n)
          \/ End(o) \/ Destroy(o) \/ Die(o)
    \/ OpenBegins \/ OpenName \/ OpenCheck

Spec == Init /\ [][Next]_vars

-----------------------------------------------------------------------------
TypeOK ==
    /\ names \in [Names -> {None} \cup Creations]
    /\ sized \subseteq Creations
    /\ created \in {None} \cup Creations
    /\ pc \in [Owners -> {"none", "size", "alive", "destroy", "destroy2", "destroy3"} \cup Names]
    /\ gen \in [Owners -> {None} \cup Creations]
    /\ made \in [Owners -> SUBSET Names]
    /\ clean \in [Owners -> BOOLEAN] /\ died \in BOOLEAN
    /\ oPc \in {"none", "opened", "failed", "check"} \cup Names
    /\ oTry \in 1 .. Attempts
    /\ held \in [Names -> {None} \cup Creations]
    /\ oGen \in {None} \cup Creations
    /\ \A o \in Owners : pc[o] = "none" => made[o] = {}

\* An owner that was alone when it created the memory has its own three objects
\* behind the names for as long as it is alive: another process of the same
\* name, which fails at O_EXCL and cleans up, takes none of them away.  (One
\* that takes over the semaphores of a process that died in destroy() or is
\* still in it has no such promise.)
OwnerKeepsItsNames ==
    \A o \in Owners : pc[o] = "alive" /\ clean[o] => \A n \in Names : names[n] = gen[o]

\* Who opens the objects of a clean owner that stays alive is connected to it,
\* and three objects of one creation, clean or not, are complete: the memory
\* has its size before the semaphores can be found, so the first access does
\* not fault.
OpenedIsConnected ==
    oPc = "opened" =>
        /\ oGen # None /\ Clean(oGen) => \A n \in Names : held[n] = oGen
        /\ (\A m, n \in Names : held[m] = held[n]) => held["memory"] \in sized

\* When nobody has died, the end of the last owner leaves no name behind.
NothingLeftBehind ==
    ~died /\ (\A o \in Owners : pc[o] = "none") => \A n \in Names : names[n] = None

=============================================================================
