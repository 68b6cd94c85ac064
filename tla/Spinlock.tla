------------------------------ MODULE Spinlock ------------------------------
(***************************************************************************)
(* The kernel's spinning locks (kernel/spinlock.c) as the CPUs execute     *)
(* them: acquire and release are broken at every point where another CPU,  *)
(* or an interrupt on the same CPU, can get in between.                     *)
(*                                                                         *)
(* On each CPU a thread runs kernel code that nests locks in lock order,    *)
(* and whenever SSTATUS.SIE is set an interrupt may suspend it and run a    *)
(* handler (kerneltrap -> clockintr, uartintr, virtio_disk_intr) that takes *)
(* locks of its own before it returns.                                      *)
(***************************************************************************)
EXTENDS Naturals, FiniteSets

CONSTANTS CPU,           \* the harts
          Lock,          \* the locks, numbered in the order code nests them
          HandlerLock,   \* the locks an interrupt handler starts with
          NoCpu          \* lk->cpu == 0

ASSUME LockAssumption == /\ Lock \subseteq Nat /\ Lock # {}
                         /\ IsFiniteSet(Lock)
                         /\ HandlerLock \subseteq Lock
                         /\ NoCpu \notin CPU

Context == CPU \X {"thread", "handler"}

VARIABLES locked,  \* lk->locked
          owner,   \* lk->cpu
          noff,    \* mycpu()->noff
          intena,  \* mycpu()->intena
          sie,     \* interrupts enabled: intr_get()
          run,     \* which of its contexts the CPU executes
          pc,      \* where each context is
          arg,     \* the lock its acquire or release works on
          old,     \* push_off's local variable
          holds    \* the locks whose acquire returned in this context

vars == <<locked, owner, noff, intena, sie, run, pc, arg, old, holds>>

PC == {"idle", "run", "push", "off", "check", "spin", "setcpu",
       "release", "clear", "unlock", "pop", "panic"}

Init == /\ locked = [l \in Lock |-> FALSE]
        /\ owner = [l \in Lock |-> NoCpu]
        /\ noff = [c \in CPU |-> 0]
        /\ intena = [c \in CPU |-> FALSE]
        /\ sie = [c \in CPU |-> TRUE]
        /\ run = [c \in CPU |-> "thread"]
        /\ pc = [t \in Context |-> IF t[2] = "thread" THEN "run" ELSE "idle"]
        /\ arg = [t \in Context |-> CHOOSE l \in Lock : TRUE]
        /\ old = [t \in Context |-> FALSE]
        /\ holds = [t \in Context |-> {}]

At(t, s) == pc[t] = s /\ run[t[1]] = t[2]
Goto(t, s) == pc' = [pc EXCEPT ![t] = s]

Holding(c, l) == locked[l] /\ owner[l] = c

-----------------------------------------------------------------------------
(* acquire(lk): the caller nests locks in increasing order only.            *)
CallAcquire(t, l) ==
    /\ At(t, "run")
    /\ \A m \in holds[t] : m < l
    /\ t[2] = "handler" /\ holds[t] = {} => l \in HandlerLock
    /\ arg' = [arg EXCEPT ![t] = l]
    /\ Goto(t, "push")
    /\ UNCHANGED <<locked, owner, noff, intena, sie, run, old, holds>>

(* push_off: read intr_get(), and an interrupt may still come ...           *)
PushRead(t) ==
    /\ At(t, "push")
    /\ old' = [old EXCEPT ![t] = sie[t[1]]]
    /\ Goto(t, "off")
    /\ UNCHANGED <<locked, owner, noff, intena, sie, run, arg, holds>>

(* What push_off saves, and the mistake of saving it at every level.        *)
AlwaysSaved(t) == old[t]
SavedIntena(t) == IF noff[t[1]] = 0 THEN old[t] ELSE intena[t[1]]

(* ... until intr_off(); the rest of push_off cannot be interrupted.        *)
PushOff(t) ==
    LET c == t[1] IN
    /\ At(t, "off")
    /\ sie' = [sie EXCEPT ![c] = FALSE]
    /\ intena' = [intena EXCEPT ![c] = SavedIntena(t)]
    /\ noff' = [noff EXCEPT ![c] = @ + 1]
    /\ Goto(t, "check")
    /\ UNCHANGED <<locked, owner, run, arg, old, holds>>

Check(t) ==
    /\ At(t, "check")
    /\ Goto(t, IF Holding(t[1], arg[t]) THEN "panic" ELSE "spin")
    /\ UNCHANGED <<locked, owner, noff, intena, sie, run, arg, old, holds>>

(* The amoswap that finds the lock free; one that finds it taken stutters.  *)
(* IgnoreLocked: the store is done whatever was read.                       *)
IgnoreLocked(t) == TRUE
FoundFree(t) == ~locked[arg[t]]

TestAndSet(t) ==
    /\ At(t, "spin")
    /\ FoundFree(t)
    /\ locked' = [locked EXCEPT ![arg[t]] = TRUE]
    /\ Goto(t, "setcpu")
    /\ UNCHANGED <<owner, noff, intena, sie, run, arg, old, holds>>

SetCpu(t) ==
    /\ At(t, "setcpu")
    /\ owner' = [owner EXCEPT ![arg[t]] = t[1]]
    /\ holds' = [holds EXCEPT ![t] = @ \cup {arg[t]}]
    /\ Goto(t, "run")
    /\ UNCHANGED <<locked, noff, intena, sie, run, arg, old>>

-----------------------------------------------------------------------------
(* release(lk): in any order among the locks held.                          *)
CallRelease(t, l) ==
    /\ At(t, "run")
    /\ l \in holds[t]
    /\ arg' = [arg EXCEPT ![t] = l]
    /\ Goto(t, "release")
    /\ UNCHANGED <<locked, owner, noff, intena, sie, run, old, holds>>

ReleaseCheck(t) ==
    /\ At(t, "release")
    /\ Goto(t, IF Holding(t[1], arg[t]) THEN "clear" ELSE "panic")
    /\ UNCHANGED <<locked, owner, noff, intena, sie, run, arg, old, holds>>

(* lk->cpu = 0, and the mistake of leaving it alone.                        *)
KeepCpu(l) == owner[l]
Cleared(l) == NoCpu

ClearCpu(t) ==
    /\ At(t, "clear")
    /\ owner' = [owner EXCEPT ![arg[t]] = Cleared(arg[t])]
    /\ Goto(t, "unlock")
    /\ UNCHANGED <<locked, noff, intena, sie, run, arg, old, holds>>

Unlock(t) ==
    /\ At(t, "unlock")
    /\ locked' = [locked EXCEPT ![arg[t]] = FALSE]
    /\ holds' = [holds EXCEPT ![t] = @ \ {arg[t]}]
    /\ Goto(t, "pop")
    /\ UNCHANGED <<owner, noff, intena, sie, run, arg, old>>

(* Mistakes: popping two levels, turning interrupts on at every level.      *)
PopTwo(c) == noff[c] - 2
PopOne(c) == noff[c] - 1
EveryPop(c) == intena[c]
LastPop(c) == noff[c] = 1 /\ intena[c]

PopOff(t) ==
    LET c == t[1] IN
    /\ At(t, "pop")
    /\ IF sie[c] \/ noff[c] < 1
       THEN /\ Goto(t, "panic")
            /\ UNCHANGED <<noff, sie>>
       ELSE /\ noff' = [noff EXCEPT ![c] = PopOne(c)]
            /\ sie' = IF LastPop(c) THEN [sie EXCEPT ![c] = TRUE] ELSE sie
            /\ Goto(t, "run")
    /\ UNCHANGED <<locked, owner, intena, run, arg, old, holds>>

-----------------------------------------------------------------------------
(* Trap entry clears SIE and sret restores it.  kerneltrap always returns   *)
(* to the code it interrupted; what it may do in between (yield) is the     *)
(* business of Proc.                                                        *)
Interrupt(c) ==
    /\ sie[c]
    /\ run[c] = "thread"
    /\ run' = [run EXCEPT ![c] = "handler"]
    /\ sie' = [sie EXCEPT ![c] = FALSE]
    /\ Goto(<<c, "handler">>, "run")
    /\ UNCHANGED <<locked, owner, noff, intena, arg, old, holds>>

ReturnFromTrap(c) ==
    LET t == <<c, "handler">> IN
    /\ At(t, "run")
    /\ holds[t] = {}
    /\ run' = [run EXCEPT ![c] = "thread"]
    /\ sie' = [sie EXCEPT ![c] = TRUE]
    /\ Goto(t, "idle")
    /\ UNCHANGED <<locked, owner, noff, intena, arg, old, holds>>

Step(t) == \/ \E l \in Lock : CallAcquire(t, l) \/ CallRelease(t, l)
           \/ PushRead(t) \/ PushOff(t) \/ Check(t) \/ TestAndSet(t)
           \/ SetCpu(t)
           \/ ReleaseCheck(t) \/ ClearCpu(t) \/ Unlock(t) \/ PopOff(t)

Next == \/ \E t \in Context : Step(t)
        \/ \E c \in CPU : Interrupt(c) \/ ReturnFromTrap(c)

Spec == Init /\ [][Next]_vars

-----------------------------------------------------------------------------
TypeOK == /\ locked \in [Lock -> BOOLEAN]
          /\ owner \in [Lock -> CPU \cup {NoCpu}]
          /\ noff \in [CPU -> Nat]
          /\ intena \in [CPU -> BOOLEAN]
          /\ sie \in [CPU -> BOOLEAN]
          /\ run \in [CPU -> {"thread", "handler"}]
          /\ pc \in [Context -> PC]
          /\ arg \in [Context -> Lock]
          /\ old \in [Context -> BOOLEAN]
          /\ holds \in [Context -> SUBSET Lock]

(* t is inside l's critical section: from the winning amoswap to the        *)
(* store that frees the lock.                                               *)
Inside(t, l) == l \in holds[t] \/ (pc[t] = "setcpu" /\ arg[t] = l)

(* No two contexts, on two CPUs or on one, are inside the same lock.        *)
MutualExclusion ==
    \A t, u \in Context, l \in Lock : Inside(t, l) /\ Inside(u, l) => t = u

(* A CPU never takes an interrupt while code on it holds a lock, so a       *)
(* handler never spins for a lock of the thread it interrupted.             *)
InterruptsOff ==
    \A t \in Context, l \in Lock : Inside(t, l) => ~sie[t[1]]

(* None of the panics of acquire, release and pop_off is reachable: holding *)
(* answers exactly whether this CPU has the lock even while other CPUs are  *)
(* between their two stores, and noff counts the nesting.                   *)
NoPanic == \A t \in Context : pc[t] # "panic"

(* Once the last lock is released the interrupt state is what it was before *)
(* the first was acquired, interrupts in between notwithstanding.           *)
IntenaRestored ==
    \A c \in CPU : pc[<<c, "thread">>] = "run" /\ run[c] = "thread" =>
                       (sie[c] <=> holds[<<c, "thread">>] = {})

(* The handlers and threads see locks that are taken and dropped in one     *)
(* step each: Spinlock implements Mutex.                                    *)
Abstract == INSTANCE Mutex
    WITH holder <- [l \in Lock |-> {t \in Context : Inside(t, l)}]
Refines == Abstract!Spec
===============================================================================
