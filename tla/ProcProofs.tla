------------------------------ MODULE ProcProofs ------------------------------
(***************************************************************************)
(* Proofs about module Proc, for any number of slots and harts and with     *)
(* preemption wherever the kernel holds no lock.                            *)
(*                                                                         *)
(* What makes the process table sound is spread over the locks, the stacks  *)
(* and the places of the processes, and none of it is inductive alone.      *)
(*   Stacks    who is on which CPU, and in what state;                      *)
(*   LockHeld  what a CPU holds, read off from where its process is;        *)
(*   Returns, Loops, Forks  what a place in the code says of the local      *)
(*             variables, also across a preemption;                         *)
(*   Family    parents are alive, and an exit has given away the children   *)
(*             its loop has passed;                                         *)
(*   Zombies   the same for the loop of wait, and the wakeups of exit: a    *)
(*             parent that sleeps has no zombie, or is just being woken.    *)
(* StacksKept, FamilyKept and ZombiesKept say once what most steps need.    *)
(***************************************************************************)
EXTENDS Proc, TLAPS

(* Where a process is in its kernel code, also while it is switched away.   *)
Place(p) == IF pc[p] = "sched" THEN ret[p] ELSE pc[p]

WaitLocked == {"reparent", "wakeinit", "wakeparent", "zombie", "scan", "sleep"}
Exiting    == {"exit", "reparent", "wakeinit", "wakeparent", "zombie"}
ForkPC     == {"copy", "setparent", "setrun"}
Living     == {"RUNNABLE", "RUNNING", "SLEEPING"}
Looping    == {"fork", "reparent", "wakeinit", "scan"} \cup ForkPC

(* A process is on the stack of at most one CPU.  There it is RUNNING, but  *)
(* on its way into and out of sched, when the CPU holds its lock; elsewhere *)
(* it waits in sched.                                                       *)
Stacks ==
    /\ \A c \in CPU : cur[c] \in {None, cproc[c]}
    /\ \A c, d \in CPU : cproc[c] = cproc[d] /\ cproc[c] # None => c = d
    /\ \A c \in CPU : cproc[c] # None =>
          /\ pc[cproc[c]] = "sched" => /\ plock[cproc[c]] = c
                                       /\ Alive(cproc[c]) \/ state[cproc[c]] = "ZOMBIE"
          /\ pc[cproc[c]] # "sched" => state[cproc[c]] = "RUNNING" /\ cur[c] # None
          /\ cur[c] = None => state[cproc[c]] # "RUNNING"
    /\ \A p \in Slot : (\A c \in CPU : cur[c] # p) => pc[p] = "sched" /\ state[p] # "RUNNING"

(* Which p->lock a CPU holds: that of the process it switches or puts to    *)
(* sleep, or of the one it is about to create; and when it has wait_lock.   *)
LockHeld ==
    /\ \A q \in Slot, c \in CPU :
          plock[q] = c <=> \/ cproc[c] = q /\ pc[q] \in {"sched", "dosleep"}
                           \/ \E p \in Slot : cur[c] = p /\ pc[p] = "copy" /\ idx[p] = q
    /\ \A c \in CPU : wlock = c <=> \E p \in Slot : cur[c] = p /\ pc[p] \in WaitLocked

(* sched returns to a place without locks; who is not alive is nowhere.     *)
Returns ==
    \A p \in Slot : /\ ret[p] \in {"user", "slept"} \cup Unlocked
                    /\ pc[p] # "sched" => ret[p] = "user"
                    /\ ~Alive(p) => pc[p] = "sched" /\ ret[p] = "user"

Loops ==
    \A p \in Slot : /\ Place(p) \notin Looping => idx[p] = 1
                    /\ pc[p] \in {"wakeinit"} \cup ForkPC => idx[p] \in Slot
                    /\ pc[p] \notin {"wakeinit", "wakeparent"} => jdx[p] = 1

(* A USED slot is that of one fork.                                         *)
Forks ==
    /\ \A p \in Slot : Place(p) \in ForkPC => idx[p] \in Slot /\ state[idx[p]] = "USED"
    /\ \A p, r \in Slot : Place(p) \in ForkPC /\ Place(r) \in ForkPC /\ idx[p] = idx[r]
                            => p = r
    /\ \A q \in Slot : state[q] = "USED" =>
          \E p \in Slot : Place(p) \in ForkPC /\ idx[p] = q
    /\ \A p \in Slot : Place(p) = "setrun" => parent[idx[p]] = p

(* Parents are alive; an exit leaves no child behind.                       *)
Family ==
    /\ Alive(initproc) /\ parent[initproc] = None
    /\ \A q \in Slot : parent[q] # None => parent[q] # q /\ Alive(parent[q])
    /\ \A q \in Slot \ {initproc} : Alive(q) \/ state[q] = "ZOMBIE" => parent[q] # None
    /\ \A p \in Slot : Place(p) \in Exiting => p # initproc
    /\ \A p, q \in Slot : parent[q] = p =>
          /\ pc[p] = "reparent" => q >= idx[p]
          /\ pc[p] = "wakeinit" => q > idx[p]
          /\ pc[p] \notin {"wakeparent", "zombie"}

(* A parent that sleeps, or is about to with wait_lock given up, has no     *)
(* zombie child, unless init is just about to be woken.                     *)
Dozing(p) == state[p] = "SLEEPING" \/ pc[p] = "dosleep"
Zombies ==
    /\ \A p \in Slot : state[p] = "SLEEPING" => chan[p] = p
    /\ \A p, q \in Slot : parent[q] = p /\ state[q] = "ZOMBIE" =>
          /\ Dozing(p) => /\ p = initproc
                          /\ \E x \in Slot : pc[x] = "wakeinit" /\ jdx[x] <= initproc
          /\ pc[p] = "scan" => q >= idx[p]
          /\ pc[p] # "sleep"
    /\ \A p, q \in Slot :
          /\ parent[q] = p
          /\ pc[q] = "zombie" \/ (pc[q] = "wakeparent" /\ jdx[q] > p)
          => ~Dozing(p)

IInv == /\ TypeOK /\ Stacks /\ LockHeld /\ Returns /\ Loops /\ Forks /\ Family
        /\ Zombies

-----------------------------------------------------------------------------
LEMMA Constants ==
    /\ NoCpu \notin CPU /\ Preemptible \subseteq Unlocked
    /\ None \notin Slot /\ initproc \in Slot
    /\ NPROC \in Nat /\ Slot \subseteq Nat
    /\ \A i \in Nat : i \in Slot <=> 1 <= i /\ i <= NPROC
  BY ProcAssumption DEF Slot, None, initproc

(* A process on a CPU is on no other.                                       *)
LEMMA Here ==
    ASSUME IInv, NEW p \in Slot, NEW c \in CPU, cur[c] = p
    PROVE  /\ cproc[c] = p
           /\ \A d \in CPU : cur[d] = p \/ cproc[d] = p => d = c
           /\ pc[p] # "sched" => state[p] = "RUNNING"
           /\ pc[p] = "sched" => plock[p] = c
           /\ pc[p] = "dosleep" => plock[p] = c
  BY Constants DEF IInv, Stacks, LockHeld, TypeOK

(* A slot that is not in use, or not yet run: no CPU is on its stack, and   *)
(* nobody's parent is there.                                                *)
LEMMA Unborn ==
    ASSUME IInv, NEW q \in Slot, state[q] \in {"UNUSED", "USED"}
    PROVE  /\ pc[q] = "sched" /\ ret[q] = "user" /\ q # initproc
           /\ \A d \in CPU : cproc[d] # q /\ cur[d] # q
           /\ \A r \in Slot : parent[r] # q
<1> USE Constants DEF IInv
<1>1. ~Alive(q) /\ state[q] # "ZOMBIE"
  BY DEF Alive
<1>2. pc[q] = "sched" /\ ret[q] = "user" /\ q # initproc
  BY <1>1 DEF Returns, Family
<1>3. \A d \in CPU : cproc[d] # q
  BY <1>1 DEF Stacks
<1>4. \A d \in CPU : cur[d] # q
  BY <1>3 DEF Stacks
<1>5. \A r \in Slot : parent[r] # q
  BY <1>1 DEF Family
<1> QED
  BY <1>2, <1>3, <1>4, <1>5

(* The child of a fork in progress.                                         *)
LEMMA NewChild ==
    ASSUME IInv, NEW p \in Slot, NEW c \in CPU, cur[c] = p, pc[p] \in ForkPC
    PROVE  /\ idx[p] \in Slot /\ idx[p] # p /\ state[idx[p]] = "USED"
           /\ pc[p] = "copy" => plock[idx[p]] = c
           /\ Place(p) = pc[p]
<1> USE Constants DEF IInv
<1>1. Place(p) = pc[p]
  BY DEF Place, ForkPC
<1>2. idx[p] \in Slot /\ state[idx[p]] = "USED"
  BY <1>1 DEF Forks
<1>3. state[p] = "RUNNING"
  BY Here DEF ForkPC
<1>4. pc[p] = "copy" => plock[idx[p]] = c
  BY <1>2 DEF LockHeld
<1> QED
  BY <1>1, <1>2, <1>3, <1>4

(* Whose lock is free is not switching and not being created.               *)
LEMMA FreeIs ==
    ASSUME IInv, NEW q \in Slot, Free(q)
    PROVE  /\ \A d \in CPU : cproc[d] = q => cur[d] = q /\ state[q] = "RUNNING"
                                            /\ pc[q] \notin {"sched", "dosleep"}
           /\ \A d \in CPU : cur[d] = q => state[q] = "RUNNING"
                                            /\ pc[q] \notin {"sched", "dosleep"}
           /\ \A p \in Slot, d \in CPU : cur[d] = p /\ pc[p] = "copy" => idx[p] # q
           /\ pc[q] # "dosleep"
<1> USE Constants DEF IInv
<1>1. \A d \in CPU : plock[q] # d
  BY DEF Free
<1>2. \A d \in CPU : cproc[d] = q => cur[d] = q /\ state[q] = "RUNNING"
                                     /\ pc[q] \notin {"sched", "dosleep"}
  BY <1>1 DEF LockHeld, Stacks
<1>3. \A d \in CPU : cur[d] = q => cproc[d] = q
  BY DEF Stacks
<1>4. pc[q] # "dosleep"
  BY <1>2, <1>3 DEF Stacks
<1> QED
  BY <1>1, <1>2, <1>3, <1>4 DEF LockHeld

LEMMA TypeOKStep == IInv /\ Next => TypeOK'
<1> SUFFICES ASSUME IInv, Next PROVE TypeOK'
  OBVIOUS
<1> USE Constants DEF TypeOK, States, PC, Loops, Returns, Unlocked, At, Goto, Free, table, locks, cpus, local, IInv
<1>1. ASSUME NEW c \in CPU, SchedBack(c) PROVE TypeOK'
  BY <1>1 DEF SchedBack
<1>2. ASSUME NEW c \in CPU, NEW p \in Slot, SchedRun(c, p) PROVE TypeOK'
  BY <1>2 DEF SchedRun
<1>3. ASSUME NEW p \in Slot, NEW c \in CPU, SwitchOut(p, c) PROVE TypeOK'
  BY <1>3 DEF SwitchOut
<1>4. ASSUME NEW p \in Slot, NEW c \in CPU, Resume(p, c) PROVE TypeOK'
  BY <1>4 DEF Resume
<1>5. ASSUME NEW p \in Slot, NEW c \in CPU, Yield(p, c) PROVE TypeOK'
  BY <1>5 DEF Yield, HoldOverSwitch
<1>6. ASSUME NEW p \in Slot, NEW c \in CPU, ForkScan(p, c) PROVE TypeOK'
  BY <1>6 DEF ForkScan, Return
<1>7. ASSUME NEW p \in Slot, NEW c \in CPU, ForkFail(p, c) PROVE TypeOK'
  <2>1. idx[p] \in Slot
    BY <1>7, NewChild DEF ForkFail, ForkPC
  <2>2. /\ state' \in [Slot -> States] /\ killed' \in [Slot -> BOOLEAN]
        /\ chan' \in [Slot -> Slot \cup {None}] /\ \A q \in Slot : chan'[q] \in {None, q}
        /\ parent' \in [Slot -> Slot \cup {None}]
    BY <1>7, <2>1 DEF ForkFail, FreeProc
  <2>3. plock' \in [Slot -> CPU \cup {NoCpu}] /\ pc' \in [Slot -> PC]
        /\ idx' \in [Slot -> 1..(NPROC + 1)]
    BY <1>7, <2>1 DEF ForkFail, Return
  <2> QED
    BY <1>7, <2>2, <2>3 DEF ForkFail
<1>8. ASSUME NEW p \in Slot, NEW c \in CPU, ForkCopy(p, c) PROVE TypeOK'
  BY <1>8 DEF ForkCopy
<1>9. ASSUME NEW p \in Slot, NEW c \in CPU, ForkSetParent(p, c) PROVE TypeOK'
  BY <1>9 DEF ForkSetParent
<1>10. ASSUME NEW p \in Slot, NEW c \in CPU, ForkSetRunnable(p, c) PROVE TypeOK'
  BY <1>10 DEF ForkSetRunnable, Return
<1>11. ASSUME NEW p \in Slot, NEW c \in CPU, Exit(p, c) PROVE TypeOK'
  BY <1>11 DEF Exit
<1>12. ASSUME NEW p \in Slot, NEW c \in CPU, Reparent(p, c) PROVE TypeOK'
  BY <1>12 DEF Reparent, Child, AfterAdoption
<1>13. ASSUME NEW p \in Slot, NEW c \in CPU, WakeInit(p, c) PROVE TypeOK'
  BY <1>13 DEF WakeInit, WakeOne
<1>14. ASSUME NEW p \in Slot, NEW c \in CPU, WakeParent(p, c) PROVE TypeOK'
  BY <1>14 DEF WakeParent, WakeOne, ExitChannel
<1>15. ASSUME NEW p \in Slot, NEW c \in CPU, Zombie(p, c) PROVE TypeOK'
  BY <1>15 DEF Zombie
<1>16. ASSUME NEW p \in Slot, NEW c \in CPU, Wait(p, c) PROVE TypeOK'
  BY <1>16 DEF Wait
<1>17. ASSUME NEW p \in Slot, NEW c \in CPU, WaitSkip(p, c) PROVE TypeOK'
  BY <1>17 DEF WaitSkip
<1>18. ASSUME NEW p \in Slot, NEW c \in CPU, WaitReap(p, c) PROVE TypeOK'
  BY <1>18 DEF WaitReap, FoundZombie, ChildLocked, FreeProc, Return
<1>19. ASSUME NEW p \in Slot, NEW c \in CPU, WaitFault(p, c) PROVE TypeOK'
  BY <1>19 DEF WaitFault, FoundZombie, ChildLocked, Return
<1>20. ASSUME NEW p \in Slot, NEW c \in CPU, WaitNone(p, c) PROVE TypeOK'
  BY <1>20 DEF WaitNone, Return
<1>21. ASSUME NEW p \in Slot, NEW c \in CPU, WaitSleep(p, c) PROVE TypeOK'
  BY <1>21 DEF WaitSleep
<1>22. ASSUME NEW p \in Slot, NEW c \in CPU, Sleep(p, c) PROVE TypeOK'
  BY <1>22 DEF Sleep
<1>23. ASSUME NEW p \in Slot, NEW c \in CPU, DoSleep(p, c) PROVE TypeOK'
  BY <1>23 DEF DoSleep
<1>24. ASSUME NEW p \in Slot, NEW c \in CPU, CallFork(p, c) PROVE TypeOK'
  BY <1>24 DEF CallFork
<1>25. ASSUME NEW p \in Slot, NEW c \in CPU, CallWait(p, c) PROVE TypeOK'
  BY <1>25 DEF CallWait
<1>26. ASSUME NEW p \in Slot, NEW c \in CPU, CallExit(p, c) PROVE TypeOK'
  BY <1>26 DEF CallExit
<1>27. ASSUME NEW p \in Slot, NEW c \in CPU, NEW q \in Slot, Kill(p, c, q) PROVE TypeOK'
  BY <1>27 DEF Kill
<1> QED
  BY <1>1, <1>2, <1>3, <1>4, <1>5, <1>6, <1>7, <1>8, <1>9, <1>10, <1>11,
     <1>12, <1>13, <1>14, <1>15, <1>16, <1>17, <1>18, <1>19, <1>20, <1>21,
     <1>22, <1>23, <1>24, <1>25, <1>26, <1>27 DEF Next, Switch, Syscall

(* A step that keeps who is on which stack and the locks and states of those *)
(* who are on one.                                                          *)
LEMMA StacksKept ==
    ASSUME IInv, NEW p \in Slot, NEW c \in CPU,
           cur[c] = p, pc[p] # "sched", pc'[p] # "sched", UNCHANGED <<cur, cproc>>,
           \A q \in Slot : pc'[q] = pc[q] \/ q = p,
           \A q \in Slot : \/ state'[q] = state[q] /\ plock'[q] = plock[q]
                           \/ state'[q] # "RUNNING" /\ \A d \in CPU : cproc[d] # q
    PROVE  Stacks'
<1> USE Constants DEF IInv, TypeOK
<1>1. /\ \A d \in CPU : cur'[d] \in {None, cproc'[d]}
      /\ \A d, e \in CPU : cproc'[d] = cproc'[e] /\ cproc'[d] # None => d = e
  BY DEF Stacks
<1>2. ASSUME NEW d \in CPU, cproc[d] # None
      PROVE  /\ pc'[cproc[d]] = "sched" => /\ plock'[cproc[d]] = d
                                           /\ Alive(cproc[d])' \/ state'[cproc[d]] = "ZOMBIE"
             /\ pc'[cproc[d]] # "sched" => state'[cproc[d]] = "RUNNING" /\ cur'[d] # None
             /\ cur'[d] = None => state'[cproc[d]] # "RUNNING"
  <2>1. /\ cproc[d] \in Slot
        /\ state'[cproc[d]] = state[cproc[d]] /\ plock'[cproc[d]] = plock[cproc[d]]
    BY <1>2
  <2>2. pc'[cproc[d]] = pc[cproc[d]] \/ cproc[d] = p
    BY <2>1
  <2>3. CASE cproc[d] = p
    <3>1. cproc[c] = p /\ state[p] = "RUNNING" /\ d = c
      BY <2>3, Here
    <3> QED
      BY <2>1, <2>3, <3>1
  <2>4. CASE pc'[cproc[d]] = pc[cproc[d]]
    BY <1>2, <2>1, <2>4 DEF Stacks, Alive
  <2> QED
    BY <2>2, <2>3, <2>4
<1>3. ASSUME NEW q \in Slot, \A d \in CPU : cur[d] # q
      PROVE  pc'[q] = "sched" /\ state'[q] # "RUNNING"
  BY <1>3 DEF Stacks
<1> QED
  BY <1>1, <1>2, <1>3 DEF Stacks

LEMMA StacksStep == IInv /\ Next => Stacks'
<1> SUFFICES ASSUME IInv, Next PROVE Stacks'
  OBVIOUS
<1> USE Constants, Here DEF Stacks, Alive, LockHeld, TypeOK, At, Goto, Free, table, locks, cpus, local, IInv
<1>1. ASSUME NEW c \in CPU, SchedBack(c) PROVE Stacks'
  BY <1>1 DEF SchedBack
<1>2. ASSUME NEW c \in CPU, NEW p \in Slot, SchedRun(c, p) PROVE Stacks'
  BY <1>2 DEF SchedRun
<1>3. ASSUME NEW p \in Slot, NEW c \in CPU, SwitchOut(p, c) PROVE Stacks'
  BY <1>3 DEF SwitchOut
<1>4. ASSUME NEW p \in Slot, NEW c \in CPU, Resume(p, c) PROVE Stacks'
  <2>1. pc'[p] \notin {"sched", "dosleep"} /\ state[p] = "RUNNING" /\ cproc[c] = p
    BY <1>4 DEF Resume, Returns, Unlocked
  <2> QED
    BY <1>4, <2>1 DEF Resume
<1>5. ASSUME NEW p \in Slot, NEW c \in CPU, Yield(p, c) PROVE Stacks'
  BY <1>5 DEF Yield, HoldOverSwitch
<1>6. ASSUME NEW p \in Slot, NEW c \in CPU, ForkScan(p, c) PROVE Stacks'
  <2>1. ASSUME NEW q \in Slot, state'[q] # state[q] \/ plock'[q] # plock[q]
        PROVE  (\A d \in CPU : cproc[d] # q) /\ state'[q] = "USED"
    <3>1. q = idx[p] /\ state[q] = "UNUSED" /\ state'[q] = "USED"
      BY <1>6, <2>1 DEF ForkScan, Return
    <3> QED
      BY <3>1, Unborn
  <2>2. /\ cur[c] = p /\ pc[p] # "sched" /\ pc'[p] # "sched" /\ UNCHANGED <<cur, cproc>>
        /\ \A q \in Slot : q # p => pc'[q] = pc[q]
    BY <1>6 DEF ForkScan, Return
  <2> QED
    BY <2>1, <2>2, StacksKept
<1>7. ASSUME NEW p \in Slot, NEW c \in CPU, ForkFail(p, c) PROVE Stacks'
  <2>1. idx[p] \in Slot /\ \A d \in CPU : cproc[d] # idx[p]
    BY <1>7, NewChild, Unborn DEF ForkFail, ForkPC
  <2>2. /\ \A q \in Slot : q # idx[p] => state'[q] = state[q] /\ plock'[q] = plock[q]
        /\ pc[p] = "copy" /\ pc'[p] = "user" /\ \A q \in Slot : q # p => pc'[q] = pc[q]
        /\ UNCHANGED <<cur, cproc>> /\ cur[c] = p /\ state'[idx[p]] = "UNUSED"
    BY <1>7, <2>1 DEF ForkFail, FreeProc, Return
  <2> QED
    BY <2>1, <2>2, StacksKept
<1>8. ASSUME NEW p \in Slot, NEW c \in CPU, ForkCopy(p, c) PROVE Stacks'
  <2>1. /\ idx[p] \in Slot /\ idx[p] # p /\ \A d \in CPU : cproc[d] # idx[p]
        /\ pc[idx[p]] = "sched" /\ state[idx[p]] = "USED"
    BY <1>8, NewChild, Unborn DEF ForkCopy, ForkPC
  <2>2. /\ \A q \in Slot : q # idx[p] => plock'[q] = plock[q]
        /\ pc[p] = "copy" /\ pc'[p] = "setparent"
        /\ \A q \in Slot : q # p => pc'[q] = pc[q]
        /\ UNCHANGED <<cur, cproc, state>> /\ cur[c] = p
    BY <1>8, <2>1 DEF ForkCopy
  <2>3. ASSUME NEW q \in Slot
        PROVE  \/ state'[q] = state[q] /\ plock'[q] = plock[q]
               \/ state'[q] # "RUNNING" /\ \A d \in CPU : cproc[d] # q
    <3>1. CASE q = idx[p]
      BY <2>1, <2>2, <3>1
    <3>2. CASE q # idx[p]
      BY <2>2, <3>2
    <3> QED
      BY <3>1, <3>2
  <2> QED
    BY <2>2, <2>3, StacksKept
<1>9. ASSUME NEW p \in Slot, NEW c \in CPU, ForkSetParent(p, c) PROVE Stacks'
  BY <1>9 DEF ForkSetParent
<1>10. ASSUME NEW p \in Slot, NEW c \in CPU, ForkSetRunnable(p, c) PROVE Stacks'
  <2>1. idx[p] \in Slot /\ \A d \in CPU : cproc[d] # idx[p]
    BY <1>10, NewChild, Unborn DEF ForkSetRunnable, ForkPC
  <2>2. /\ \A q \in Slot : q # idx[p] => state'[q] = state[q]
        /\ pc[p] = "setrun" /\ pc'[p] = "user" /\ \A q \in Slot : q # p => pc'[q] = pc[q]
        /\ UNCHANGED <<cur, cproc, plock>> /\ cur[c] = p /\ state'[idx[p]] = "RUNNABLE"
    BY <1>10, <2>1 DEF ForkSetRunnable, Return
  <2>3. ASSUME NEW q \in Slot
        PROVE  \/ state'[q] = state[q] /\ plock'[q] = plock[q]
               \/ state'[q] # "RUNNING" /\ \A d \in CPU : cproc[d] # q
    <3>1. CASE q = idx[p]
      BY <2>1, <2>2, <3>1
    <3>2. CASE q # idx[p]
      BY <2>2, <3>2
    <3> QED
      BY <3>1, <3>2
  <2> QED
    BY <2>2, <2>3, StacksKept
<1>11. ASSUME NEW p \in Slot, NEW c \in CPU, Exit(p, c) PROVE Stacks'
  BY <1>11 DEF Exit
<1>12. ASSUME NEW p \in Slot, NEW c \in CPU, Reparent(p, c) PROVE Stacks'
  <2>1. /\ pc[p] = "reparent" /\ pc'[p] \in {"reparent", "wakeparent", "wakeinit"}
        /\ \A q \in Slot : q # p => pc'[q] = pc[q]
        /\ UNCHANGED <<state, plock, cur, cproc>> /\ cur[c] = p
    BY <1>12 DEF Reparent, AfterAdoption
  <2> QED
    BY <2>1, StacksKept
<1>13. ASSUME NEW p \in Slot, NEW c \in CPU, WakeInit(p, c) PROVE Stacks'
  <2>1. /\ pc[p] = "wakeinit" /\ pc'[p] \in {"wakeinit", "reparent"}
        /\ \A q \in Slot : q # p => pc'[q] = pc[q]
        /\ UNCHANGED <<plock, cur, cproc>> /\ cur[c] = p
    BY <1>13 DEF WakeInit
  <2>2. ASSUME NEW q \in Slot, state'[q] # state[q]
        PROVE  state'[q] = "RUNNABLE" /\ \A d \in CPU : cproc[d] # q
    <3>1. state[q] = "SLEEPING" /\ state'[q] = "RUNNABLE" /\ q # p /\ Free(q)
      BY <1>13, <2>2 DEF WakeInit, WakeOne
    <3> QED
      BY <3>1, FreeIs
  <2> QED
    BY <2>1, <2>2, StacksKept
<1>14. ASSUME NEW p \in Slot, NEW c \in CPU, WakeParent(p, c) PROVE Stacks'
  <2>1. /\ pc[p] = "wakeparent" /\ pc'[p] \in {"wakeparent", "zombie"}
        /\ \A q \in Slot : q # p => pc'[q] = pc[q]
        /\ UNCHANGED <<plock, cur, cproc>> /\ cur[c] = p
    BY <1>14 DEF WakeParent
  <2>2. ASSUME NEW q \in Slot, state'[q] # state[q]
        PROVE  state'[q] = "RUNNABLE" /\ \A d \in CPU : cproc[d] # q
    <3>1. state[q] = "SLEEPING" /\ state'[q] = "RUNNABLE" /\ q # p /\ Free(q)
      BY <1>14, <2>2 DEF WakeParent, WakeOne
    <3> QED
      BY <3>1, FreeIs
  <2> QED
    BY <2>1, <2>2, StacksKept
<1>15. ASSUME NEW p \in Slot, NEW c \in CPU, Zombie(p, c) PROVE Stacks'
  BY <1>15 DEF Zombie
<1>16. ASSUME NEW p \in Slot, NEW c \in CPU, Wait(p, c) PROVE Stacks'
  BY <1>16 DEF Wait
<1>17. ASSUME NEW p \in Slot, NEW c \in CPU, WaitSkip(p, c) PROVE Stacks'
  BY <1>17 DEF WaitSkip
<1>18. ASSUME NEW p \in Slot, NEW c \in CPU, WaitReap(p, c) PROVE Stacks'
  BY <1>18 DEF WaitReap, FoundZombie, ChildLocked, FreeProc, Return
<1>19. ASSUME NEW p \in Slot, NEW c \in CPU, WaitFault(p, c) PROVE Stacks'
  BY <1>19 DEF WaitFault, FoundZombie, ChildLocked, Return
<1>20. ASSUME NEW p \in Slot, NEW c \in CPU, WaitNone(p, c) PROVE Stacks'
  BY <1>20 DEF WaitNone, Return
<1>21. ASSUME NEW p \in Slot, NEW c \in CPU, WaitSleep(p, c) PROVE Stacks'
  BY <1>21 DEF WaitSleep
<1>22. ASSUME NEW p \in Slot, NEW c \in CPU, Sleep(p, c) PROVE Stacks'
  BY <1>22 DEF Sleep
<1>23. ASSUME NEW p \in Slot, NEW c \in CPU, DoSleep(p, c) PROVE Stacks'
  BY <1>23 DEF DoSleep
<1>24. ASSUME NEW p \in Slot, NEW c \in CPU, CallFork(p, c) PROVE Stacks'
  BY <1>24 DEF CallFork
<1>25. ASSUME NEW p \in Slot, NEW c \in CPU, CallWait(p, c) PROVE Stacks'
  BY <1>25 DEF CallWait
<1>26. ASSUME NEW p \in Slot, NEW c \in CPU, CallExit(p, c) PROVE Stacks'
  BY <1>26 DEF CallExit
<1>27. ASSUME NEW p \in Slot, NEW c \in CPU, NEW q \in Slot, Kill(p, c, q) PROVE Stacks'
  BY <1>27 DEF Kill
<1> QED
  BY <1>1, <1>2, <1>3, <1>4, <1>5, <1>6, <1>7, <1>8, <1>9, <1>10, <1>11,
     <1>12, <1>13, <1>14, <1>15, <1>16, <1>17, <1>18, <1>19, <1>20, <1>21,
     <1>22, <1>23, <1>24, <1>25, <1>26, <1>27 DEF Next, Switch, Syscall

LEMMA LockHeldStep == IInv /\ Next => LockHeld'
<1> SUFFICES ASSUME IInv, Next PROVE LockHeld'
  OBVIOUS
<1> USE Constants, Here DEF LockHeld, WaitLocked, Stacks, TypeOK, At, Goto, Free, table, locks, cpus, local, IInv
<1>1. ASSUME NEW c \in CPU, SchedBack(c) PROVE LockHeld'
  BY <1>1 DEF SchedBack
<1>2. ASSUME NEW c \in CPU, NEW p \in Slot, SchedRun(c, p) PROVE LockHeld'
  BY <1>2 DEF SchedRun
<1>3. ASSUME NEW p \in Slot, NEW c \in CPU, SwitchOut(p, c) PROVE LockHeld'
  BY <1>3 DEF SwitchOut
<1>4. ASSUME NEW p \in Slot, NEW c \in CPU, Resume(p, c) PROVE LockHeld'
  <2>1. /\ pc[p] = "sched" /\ pc'[p] \in {"user", "wait"} \cup Unlocked /\ cproc[c] = p
        /\ \A q \in Slot : q # p => pc'[q] = pc[q] /\ plock'[q] = plock[q]
        /\ plock'[p] = NoCpu /\ cur[c] = p /\ UNCHANGED <<cur, cproc, wlock, idx>>
    BY <1>4 DEF Resume, Returns, Unlocked
  <2>2. pc'[p] \notin WaitLocked /\ pc'[p] \notin {"sched", "dosleep", "copy"}
    BY <2>1 DEF Unlocked
  <2>3. ASSUME NEW q \in Slot, NEW d \in CPU
        PROVE  plock'[q] = d <=>
                  \/ cproc'[d] = q /\ pc'[q] \in {"sched", "dosleep"}
                  \/ \E r \in Slot : cur'[d] = r /\ pc'[r] = "copy" /\ idx'[r] = q
    <3>1. (\E r \in Slot : cur'[d] = r /\ pc'[r] = "copy" /\ idx'[r] = q)
             <=> (\E r \in Slot : cur[d] = r /\ pc[r] = "copy" /\ idx[r] = q)
      BY <2>1, <2>2
    <3>2. CASE q = p
      <4>1. ~\E r \in Slot : cur[d] = r /\ pc[r] = "copy" /\ idx[r] = p
        <5>1. SUFFICES ASSUME NEW r \in Slot, cur[d] = r, pc[r] = "copy", idx[r] = p
                       PROVE  FALSE
          OBVIOUS
        <5>2. plock[p] = d /\ plock[p] = c
          BY <2>1, <5>1
        <5> QED
          BY <2>1, <5>1, <5>2
      <4> QED
        BY <2>1, <2>2, <3>1, <3>2, <4>1
    <3>3. CASE q # p
      BY <2>1, <3>1, <3>3
    <3> QED
      BY <3>2, <3>3
  <2>4. ASSUME NEW d \in CPU
        PROVE  wlock' = d <=> \E r \in Slot : cur'[d] = r /\ pc'[r] \in WaitLocked
    BY <2>1, <2>2
  <2> QED
    BY <2>3, <2>4
<1>5. ASSUME NEW p \in Slot, NEW c \in CPU, Yield(p, c) PROVE LockHeld'
  <2>1. /\ pc[p] \in {"user"} \cup Unlocked /\ pc'[p] = "sched" /\ cproc[c] = p
        /\ \A q \in Slot : q # p => pc'[q] = pc[q] /\ plock'[q] = plock[q]
        /\ plock'[p] = c /\ cur[c] = p /\ UNCHANGED <<cur, cproc, wlock, idx>>
        /\ Free(p)
    BY <1>5 DEF Yield, HoldOverSwitch
  <2>2. pc[p] \notin WaitLocked /\ pc[p] \notin {"sched", "dosleep", "copy"}
    BY <2>1 DEF Unlocked
  <2>3. \A q \in Slot, d \in CPU :
           plock'[q] = d <=> \/ cproc'[d] = q /\ pc'[q] \in {"sched", "dosleep"}
                             \/ \E r \in Slot : cur'[d] = r /\ pc'[r] = "copy" /\ idx'[r] = q
    <3> USE DEF Free
    <3> QED
      BY <2>1, <2>2
  <2> QED
    BY <2>1, <2>2, <2>3
<1>6. ASSUME NEW p \in Slot, NEW c \in CPU, ForkScan(p, c) PROVE LockHeld'
  BY <1>6 DEF ForkScan, Return
<1>7. ASSUME NEW p \in Slot, NEW c \in CPU, ForkFail(p, c) PROVE LockHeld'
  BY <1>7 DEF ForkFail, FreeProc, Return
<1>8. ASSUME NEW p \in Slot, NEW c \in CPU, ForkCopy(p, c) PROVE LockHeld'
  <2>1. /\ idx[p] \in Slot /\ idx[p] # p /\ pc[idx[p]] = "sched"
        /\ \A d \in CPU : cproc[d] # idx[p] /\ cur[d] # idx[p]
    BY <1>8, NewChild, Unborn DEF ForkCopy, ForkPC
  <2>2. /\ \A q \in Slot : q # idx[p] => plock'[q] = plock[q]
        /\ plock'[idx[p]] = NoCpu
        /\ pc[p] = "copy" /\ pc'[p] = "setparent"
        /\ \A q \in Slot : q # p => pc'[q] = pc[q]
        /\ UNCHANGED <<cur, cproc, wlock, idx>> /\ cur[c] = p
    BY <1>8, <2>1 DEF ForkCopy
  <2> QED
    BY <2>1, <2>2
<1>9. ASSUME NEW p \in Slot, NEW c \in CPU, ForkSetParent(p, c) PROVE LockHeld'
  BY <1>9 DEF ForkSetParent
<1>10. ASSUME NEW p \in Slot, NEW c \in CPU, ForkSetRunnable(p, c) PROVE LockHeld'
  BY <1>10 DEF ForkSetRunnable, Return
<1>11. ASSUME NEW p \in Slot, NEW c \in CPU, Exit(p, c) PROVE LockHeld'
  BY <1>11 DEF Exit
<1>12. ASSUME NEW p \in Slot, NEW c \in CPU, Reparent(p, c) PROVE LockHeld'
  BY <1>12 DEF Reparent, Child, AfterAdoption
<1>13. ASSUME NEW p \in Slot, NEW c \in CPU, WakeInit(p, c) PROVE LockHeld'
  BY <1>13 DEF WakeInit, WakeOne
<1>14. ASSUME NEW p \in Slot, NEW c \in CPU, WakeParent(p, c) PROVE LockHeld'
  BY <1>14 DEF WakeParent, WakeOne, ExitChannel
<1>15. ASSUME NEW p \in Slot, NEW c \in CPU, Zombie(p, c) PROVE LockHeld'
  BY <1>15 DEF Zombie
<1>16. ASSUME NEW p \in Slot, NEW c \in CPU, Wait(p, c) PROVE LockHeld'
  BY <1>16 DEF Wait
<1>17. ASSUME NEW p \in Slot, NEW c \in CPU, WaitSkip(p, c) PROVE LockHeld'
  BY <1>17 DEF WaitSkip
<1>18. ASSUME NEW p \in Slot, NEW c \in CPU, WaitReap(p, c) PROVE LockHeld'
  BY <1>18 DEF WaitReap, FoundZombie, ChildLocked, FreeProc, Return
<1>19. ASSUME NEW p \in Slot, NEW c \in CPU, WaitFault(p, c) PROVE LockHeld'
  BY <1>19 DEF WaitFault, FoundZombie, ChildLocked, Return
<1>20. ASSUME NEW p \in Slot, NEW c \in CPU, WaitNone(p, c) PROVE LockHeld'
  BY <1>20 DEF WaitNone, Return
<1>21. ASSUME NEW p \in Slot, NEW c \in CPU, WaitSleep(p, c) PROVE LockHeld'
  BY <1>21 DEF WaitSleep
<1>22. ASSUME NEW p \in Slot, NEW c \in CPU, Sleep(p, c) PROVE LockHeld'
  BY <1>22 DEF Sleep
<1>23. ASSUME NEW p \in Slot, NEW c \in CPU, DoSleep(p, c) PROVE LockHeld'
  BY <1>23 DEF DoSleep
<1>24. ASSUME NEW p \in Slot, NEW c \in CPU, CallFork(p, c) PROVE LockHeld'
  BY <1>24 DEF CallFork
<1>25. ASSUME NEW p \in Slot, NEW c \in CPU, CallWait(p, c) PROVE LockHeld'
  BY <1>25 DEF CallWait
<1>26. ASSUME NEW p \in Slot, NEW c \in CPU, CallExit(p, c) PROVE LockHeld'
  BY <1>26 DEF CallExit
<1>27. ASSUME NEW p \in Slot, NEW c \in CPU, NEW q \in Slot, Kill(p, c, q) PROVE LockHeld'
  BY <1>27 DEF Kill
<1> QED
  BY <1>1, <1>2, <1>3, <1>4, <1>5, <1>6, <1>7, <1>8, <1>9, <1>10, <1>11,
     <1>12, <1>13, <1>14, <1>15, <1>16, <1>17, <1>18, <1>19, <1>20, <1>21,
     <1>22, <1>23, <1>24, <1>25, <1>26, <1>27 DEF Next, Switch, Syscall

LEMMA ReturnsStep == IInv /\ Next => Returns'
<1> SUFFICES ASSUME IInv, Next PROVE Returns'
  OBVIOUS
<1> USE Constants, Here DEF Returns, Alive, Unlocked, TypeOK, At, Goto, Free, table, locks, cpus, local, IInv
<1>1. ASSUME NEW c \in CPU, SchedBack(c) PROVE Returns'
  BY <1>1 DEF SchedBack
<1>2. ASSUME NEW c \in CPU, NEW p \in Slot, SchedRun(c, p) PROVE Returns'
  BY <1>2 DEF SchedRun
<1>3. ASSUME NEW p \in Slot, NEW c \in CPU, SwitchOut(p, c) PROVE Returns'
  BY <1>3 DEF SwitchOut
<1>4. ASSUME NEW p \in Slot, NEW c \in CPU, Resume(p, c) PROVE Returns'
  BY <1>4 DEF Resume
<1>5. ASSUME NEW p \in Slot, NEW c \in CPU, Yield(p, c) PROVE Returns'
  <2>1. pc[p] \in {"user"} \cup Unlocked
    BY <1>5 DEF Yield
  <2>2. /\ pc'[p] = "sched" /\ state'[p] = "RUNNABLE" /\ ret'[p] = pc[p]
        /\ \A q \in Slot : q # p => state'[q] = state[q] /\ ret'[q] = ret[q] /\ pc'[q] = pc[q]
    BY <1>5 DEF Yield
  <2> QED
    BY <2>1, <2>2
<1>6. ASSUME NEW p \in Slot, NEW c \in CPU, ForkScan(p, c) PROVE Returns'
  BY <1>6 DEF ForkScan, Return
<1>7. ASSUME NEW p \in Slot, NEW c \in CPU, ForkFail(p, c) PROVE Returns'
  <2>1. idx[p] \in Slot /\ idx[p] # p /\ pc[idx[p]] = "sched" /\ ret[idx[p]] = "user"
    BY <1>7, NewChild, Unborn DEF ForkFail, ForkPC
  <2>2. /\ pc[p] = "copy" /\ pc'[p] = "user" /\ \A q \in Slot : q # p => pc'[q] = pc[q]
        /\ \A q \in Slot : q # idx[p] => state'[q] = state[q]
        /\ state'[idx[p]] = "UNUSED" /\ ret' = ret
    BY <1>7, <2>1 DEF ForkFail, FreeProc, Return
  <2> QED
    BY <2>1, <2>2
<1>8. ASSUME NEW p \in Slot, NEW c \in CPU, ForkCopy(p, c) PROVE Returns'
  BY <1>8 DEF ForkCopy
<1>9. ASSUME NEW p \in Slot, NEW c \in CPU, ForkSetParent(p, c) PROVE Returns'
  BY <1>9 DEF ForkSetParent
<1>10. ASSUME NEW p \in Slot, NEW c \in CPU, ForkSetRunnable(p, c) PROVE Returns'
  BY <1>10 DEF ForkSetRunnable, Return
<1>11. ASSUME NEW p \in Slot, NEW c \in CPU, Exit(p, c) PROVE Returns'
  BY <1>11 DEF Exit
<1>12. ASSUME NEW p \in Slot, NEW c \in CPU, Reparent(p, c) PROVE Returns'
  BY <1>12 DEF Reparent, Child, AfterAdoption
<1>13. ASSUME NEW p \in Slot, NEW c \in CPU, WakeInit(p, c) PROVE Returns'
  BY <1>13 DEF WakeInit, WakeOne
<1>14. ASSUME NEW p \in Slot, NEW c \in CPU, WakeParent(p, c) PROVE Returns'
  BY <1>14 DEF WakeParent, WakeOne, ExitChannel
<1>15. ASSUME NEW p \in Slot, NEW c \in CPU, Zombie(p, c) PROVE Returns'
  BY <1>15 DEF Zombie
<1>16. ASSUME NEW p \in Slot, NEW c \in CPU, Wait(p, c) PROVE Returns'
  BY <1>16 DEF Wait
<1>17. ASSUME NEW p \in Slot, NEW c \in CPU, WaitSkip(p, c) PROVE Returns'
  BY <1>17 DEF WaitSkip
<1>18. ASSUME NEW p \in Slot, NEW c \in CPU, WaitReap(p, c) PROVE Returns'
  BY <1>18 DEF WaitReap, FoundZombie, ChildLocked, FreeProc, Return
<1>19. ASSUME NEW p \in Slot, NEW c \in CPU, WaitFault(p, c) PROVE Returns'
  BY <1>19 DEF WaitFault, FoundZombie, ChildLocked, Return
<1>20. ASSUME NEW p \in Slot, NEW c \in CPU, WaitNone(p, c) PROVE Returns'
  BY <1>20 DEF WaitNone, Return
<1>21. ASSUME NEW p \in Slot, NEW c \in CPU, WaitSleep(p, c) PROVE Returns'
  BY <1>21 DEF WaitSleep
<1>22. ASSUME NEW p \in Slot, NEW c \in CPU, Sleep(p, c) PROVE Returns'
  BY <1>22 DEF Sleep
<1>23. ASSUME NEW p \in Slot, NEW c \in CPU, DoSleep(p, c) PROVE Returns'
  BY <1>23 DEF DoSleep
<1>24. ASSUME NEW p \in Slot, NEW c \in CPU, CallFork(p, c) PROVE Returns'
  BY <1>24 DEF CallFork
<1>25. ASSUME NEW p \in Slot, NEW c \in CPU, CallWait(p, c) PROVE Returns'
  BY <1>25 DEF CallWait
<1>26. ASSUME NEW p \in Slot, NEW c \in CPU, CallExit(p, c) PROVE Returns'
  BY <1>26 DEF CallExit
<1>27. ASSUME NEW p \in Slot, NEW c \in CPU, NEW q \in Slot, Kill(p, c, q) PROVE Returns'
  BY <1>27 DEF Kill
<1> QED
  BY <1>1, <1>2, <1>3, <1>4, <1>5, <1>6, <1>7, <1>8, <1>9, <1>10, <1>11,
     <1>12, <1>13, <1>14, <1>15, <1>16, <1>17, <1>18, <1>19, <1>20, <1>21,
     <1>22, <1>23, <1>24, <1>25, <1>26, <1>27 DEF Next, Switch, Syscall

LEMMA LoopsStep == IInv /\ Next => Loops'
<1> SUFFICES ASSUME IInv, Next PROVE Loops'
  OBVIOUS
<1> USE Constants, Here DEF Loops, Place, Looping, ForkPC, TypeOK, Returns, Unlocked, At, Goto, Free, table, locks, cpus, local, IInv
<1>1. ASSUME NEW c \in CPU, SchedBack(c) PROVE Loops'
  BY <1>1 DEF SchedBack
<1>2. ASSUME NEW c \in CPU, NEW p \in Slot, SchedRun(c, p) PROVE Loops'
  BY <1>2 DEF SchedRun
<1>3. ASSUME NEW p \in Slot, NEW c \in CPU, SwitchOut(p, c) PROVE Loops'
  BY <1>3 DEF SwitchOut
<1>4. ASSUME NEW p \in Slot, NEW c \in CPU, Resume(p, c) PROVE Loops'
  <2>1. /\ pc[p] = "sched" /\ pc'[p] = IF ret[p] = "slept" THEN "wait" ELSE ret[p]
        /\ ret'[p] = "user" /\ ret[p] \in {"user", "slept"} \cup Unlocked
        /\ \A q \in Slot : q # p => pc'[q] = pc[q] /\ ret'[q] = ret[q]
        /\ UNCHANGED <<idx, jdx>>
    BY <1>4 DEF Resume
  <2>2. pc'[p] # "sched" /\ pc'[p] \notin {"wakeinit", "copy"}
    BY <2>1
  <2>3. jdx[p] = 1
    BY <2>1
  <2>4. pc'[p] \notin Looping => idx[p] = 1
    <3>1. pc'[p] \notin Looping => ret[p] \notin Looping
      BY <2>1
    <3> QED
      BY <3>1, <2>1
  <2>5. pc'[p] \in ForkPC => idx[p] \in Slot
    <3>1. pc'[p] \in ForkPC => ret[p] \in ForkPC
      BY <2>1
    <3> QED
      BY <3>1, <2>1 DEF IInv, Forks
  <2>6. ASSUME NEW q \in Slot, q # p
        PROVE  /\ Place(q)' \notin Looping => idx'[q] = 1
               /\ pc'[q] \in {"wakeinit"} \cup ForkPC => idx'[q] \in Slot
               /\ pc'[q] \notin {"wakeinit", "wakeparent"} => jdx'[q] = 1
    BY <2>1, <2>6
  <2> QED
    BY <2>1, <2>2, <2>3, <2>4, <2>5, <2>6
<1>5. ASSUME NEW p \in Slot, NEW c \in CPU, Yield(p, c) PROVE Loops'
  BY <1>5 DEF Yield, HoldOverSwitch
<1>6. ASSUME NEW p \in Slot, NEW c \in CPU, ForkScan(p, c) PROVE Loops'
  BY <1>6 DEF ForkScan, Return
<1>7. ASSUME NEW p \in Slot, NEW c \in CPU, ForkFail(p, c) PROVE Loops'
  BY <1>7 DEF ForkFail, FreeProc, Return
<1>8. ASSUME NEW p \in Slot, NEW c \in CPU, ForkCopy(p, c) PROVE Loops'
  <2>1. /\ idx[p] \in Slot /\ idx[p] # p /\ pc[idx[p]] = "sched" /\ ret[idx[p]] = "user"
    BY <1>8, NewChild, Unborn DEF ForkCopy, ForkPC
  <2>2. /\ pc[p] = "copy" /\ pc'[p] = "setparent"
        /\ \A q \in Slot : q # p => pc'[q] = pc[q]
        /\ UNCHANGED <<ret, idx, jdx>>
    BY <1>8, <2>1 DEF ForkCopy
  <2> QED
    BY <2>1, <2>2
<1>9. ASSUME NEW p \in Slot, NEW c \in CPU, ForkSetParent(p, c) PROVE Loops'
  BY <1>9 DEF ForkSetParent
<1>10. ASSUME NEW p \in Slot, NEW c \in CPU, ForkSetRunnable(p, c) PROVE Loops'
  BY <1>10 DEF ForkSetRunnable, Return
<1>11. ASSUME NEW p \in Slot, NEW c \in CPU, Exit(p, c) PROVE Loops'
  BY <1>11 DEF Exit
<1>12. ASSUME NEW p \in Slot, NEW c \in CPU, Reparent(p, c) PROVE Loops'
  BY <1>12 DEF Reparent, Child, AfterAdoption
<1>13. ASSUME NEW p \in Slot, NEW c \in CPU, WakeInit(p, c) PROVE Loops'
  BY <1>13 DEF WakeInit, WakeOne
<1>14. ASSUME NEW p \in Slot, NEW c \in CPU, WakeParent(p, c) PROVE Loops'
  BY <1>14 DEF WakeParent, WakeOne, ExitChannel
<1>15. ASSUME NEW p \in Slot, NEW c \in CPU, Zombie(p, c) PROVE Loops'
  BY <1>15 DEF Zombie
<1>16. ASSUME NEW p \in Slot, NEW c \in CPU, Wait(p, c) PROVE Loops'
  BY <1>16 DEF Wait
<1>17. ASSUME NEW p \in Slot, NEW c \in CPU, WaitSkip(p, c) PROVE Loops'
  BY <1>17 DEF WaitSkip
<1>18. ASSUME NEW p \in Slot, NEW c \in CPU, WaitReap(p, c) PROVE Loops'
  BY <1>18 DEF WaitReap, FoundZombie, ChildLocked, FreeProc, Return
<1>19. ASSUME NEW p \in Slot, NEW c \in CPU, WaitFault(p, c) PROVE Loops'
  BY <1>19 DEF WaitFault, FoundZombie, ChildLocked, Return
<1>20. ASSUME NEW p \in Slot, NEW c \in CPU, WaitNone(p, c) PROVE Loops'
  BY <1>20 DEF WaitNone, Return
<1>21. ASSUME NEW p \in Slot, NEW c \in CPU, WaitSleep(p, c) PROVE Loops'
  BY <1>21 DEF WaitSleep
<1>22. ASSUME NEW p \in Slot, NEW c \in CPU, Sleep(p, c) PROVE Loops'
  BY <1>22 DEF Sleep
<1>23. ASSUME NEW p \in Slot, NEW c \in CPU, DoSleep(p, c) PROVE Loops'
  BY <1>23 DEF DoSleep
<1>24. ASSUME NEW p \in Slot, NEW c \in CPU, CallFork(p, c) PROVE Loops'
  BY <1>24 DEF CallFork
<1>25. ASSUME NEW p \in Slot, NEW c \in CPU, CallWait(p, c) PROVE Loops'
  BY <1>25 DEF CallWait
<1>26. ASSUME NEW p \in Slot, NEW c \in CPU, CallExit(p, c) PROVE Loops'
  BY <1>26 DEF CallExit
<1>27. ASSUME NEW p \in Slot, NEW c \in CPU, NEW q \in Slot, Kill(p, c, q) PROVE Loops'
  BY <1>27 DEF Kill
<1> QED
  BY <1>1, <1>2, <1>3, <1>4, <1>5, <1>6, <1>7, <1>8, <1>9, <1>10, <1>11,
     <1>12, <1>13, <1>14, <1>15, <1>16, <1>17, <1>18, <1>19, <1>20, <1>21,
     <1>22, <1>23, <1>24, <1>25, <1>26, <1>27 DEF Next, Switch, Syscall

LEMMA ForksStep == IInv /\ Next => Forks'
<1> SUFFICES ASSUME IInv, Next PROVE Forks'
  OBVIOUS
<1> USE Constants, Here DEF Forks, Place, ForkPC, TypeOK, Returns, Alive, At, Goto, Free, table, locks, cpus, local, IInv
<1>1. ASSUME NEW c \in CPU, SchedBack(c) PROVE Forks'
  BY <1>1 DEF SchedBack
<1>2. ASSUME NEW c \in CPU, NEW p \in Slot, SchedRun(c, p) PROVE Forks'
  BY <1>2 DEF SchedRun
<1>3. ASSUME NEW p \in Slot, NEW c \in CPU, SwitchOut(p, c) PROVE Forks'
  BY <1>3 DEF SwitchOut
<1>4. ASSUME NEW p \in Slot, NEW c \in CPU, Resume(p, c) PROVE Forks'
  BY <1>4 DEF Resume
<1>5. ASSUME NEW p \in Slot, NEW c \in CPU, Yield(p, c) PROVE Forks'
  BY <1>5 DEF Yield, HoldOverSwitch
<1>6. ASSUME NEW p \in Slot, NEW c \in CPU, ForkScan(p, c) PROVE Forks'
  BY <1>6 DEF ForkScan, Return
<1>7. ASSUME NEW p \in Slot, NEW c \in CPU, ForkFail(p, c) PROVE Forks'
  BY <1>7 DEF ForkFail, FreeProc, Return
<1>8. ASSUME NEW p \in Slot, NEW c \in CPU, ForkCopy(p, c) PROVE Forks'
  BY <1>8 DEF ForkCopy
<1>9. ASSUME NEW p \in Slot, NEW c \in CPU, ForkSetParent(p, c) PROVE Forks'
  BY <1>9 DEF ForkSetParent
<1>10. ASSUME NEW p \in Slot, NEW c \in CPU, ForkSetRunnable(p, c) PROVE Forks'
  BY <1>10 DEF ForkSetRunnable, Return
<1>11. ASSUME NEW p \in Slot, NEW c \in CPU, Exit(p, c) PROVE Forks'
  BY <1>11 DEF Exit
<1>12. ASSUME NEW p \in Slot, NEW c \in CPU, Reparent(p, c) PROVE Forks'
  BY <1>12 DEF Reparent, Child, AfterAdoption
<1>13. ASSUME NEW p \in Slot, NEW c \in CPU, WakeInit(p, c) PROVE Forks'
  BY <1>13 DEF WakeInit, WakeOne
<1>14. ASSUME NEW p \in Slot, NEW c \in CPU, WakeParent(p, c) PROVE Forks'
  BY <1>14 DEF WakeParent, WakeOne, ExitChannel
<1>15. ASSUME NEW p \in Slot, NEW c \in CPU, Zombie(p, c) PROVE Forks'
  BY <1>15 DEF Zombie
<1>16. ASSUME NEW p \in Slot, NEW c \in CPU, Wait(p, c) PROVE Forks'
  BY <1>16 DEF Wait
<1>17. ASSUME NEW p \in Slot, NEW c \in CPU, WaitSkip(p, c) PROVE Forks'
  BY <1>17 DEF WaitSkip
<1>18. ASSUME NEW p \in Slot, NEW c \in CPU, WaitReap(p, c) PROVE Forks'
  BY <1>18 DEF WaitReap, FoundZombie, ChildLocked, FreeProc, Return
<1>19. ASSUME NEW p \in Slot, NEW c \in CPU, WaitFault(p, c) PROVE Forks'
  BY <1>19 DEF WaitFault, FoundZombie, ChildLocked, Return
<1>20. ASSUME NEW p \in Slot, NEW c \in CPU, WaitNone(p, c) PROVE Forks'
  BY <1>20 DEF WaitNone, Return
<1>21. ASSUME NEW p \in Slot, NEW c \in CPU, WaitSleep(p, c) PROVE Forks'
  BY <1>21 DEF WaitSleep
<1>22. ASSUME NEW p \in Slot, NEW c \in CPU, Sleep(p, c) PROVE Forks'
  BY <1>22 DEF Sleep
<1>23. ASSUME NEW p \in Slot, NEW c \in CPU, DoSleep(p, c) PROVE Forks'
  BY <1>23 DEF DoSleep
<1>24. ASSUME NEW p \in Slot, NEW c \in CPU, CallFork(p, c) PROVE Forks'
  BY <1>24 DEF CallFork
<1>25. ASSUME NEW p \in Slot, NEW c \in CPU, CallWait(p, c) PROVE Forks'
  BY <1>25 DEF CallWait
<1>26. ASSUME NEW p \in Slot, NEW c \in CPU, CallExit(p, c) PROVE Forks'
  BY <1>26 DEF CallExit
<1>27. ASSUME NEW p \in Slot, NEW c \in CPU, NEW q \in Slot, Kill(p, c, q) PROVE Forks'
  BY <1>27 DEF Kill
<1> QED
  BY <1>1, <1>2, <1>3, <1>4, <1>5, <1>6, <1>7, <1>8, <1>9, <1>10, <1>11,
     <1>12, <1>13, <1>14, <1>15, <1>16, <1>17, <1>18, <1>19, <1>20, <1>21,
     <1>22, <1>23, <1>24, <1>25, <1>26, <1>27 DEF Next, Switch, Syscall

(* A step that leaves the parents alone, and who is alive or a zombie.       *)
LEMMA FamilyKept ==
    ASSUME IInv, UNCHANGED parent,
           \A q \in Slot : /\ state'[q] \in Living <=> state[q] \in Living
                           /\ state'[q] = "ZOMBIE" => state[q] = "ZOMBIE",
           \A q \in Slot : Place(q)' \in Exiting => Place(q) \in Exiting \/ q # initproc,
           \A p, q \in Slot : parent[q] = p =>
              /\ pc'[p] = "reparent" => q >= idx'[p]
              /\ pc'[p] = "wakeinit" => q > idx'[p]
              /\ pc'[p] \notin {"wakeparent", "zombie"}
    PROVE  Family'
<1> USE Constants DEF IInv, TypeOK
<1>1. Alive(initproc)' /\ parent'[initproc] = None
  BY DEF Family, Alive, Living
<1>2. ASSUME NEW q \in Slot, parent'[q] # None
      PROVE  parent'[q] # q /\ Alive(parent[q])'
  <2>1. parent[q] # q /\ Alive(parent[q]) /\ parent[q] \in Slot
    BY <1>2 DEF Family
  <2>2. Alive(parent[q])'
    <3>1. PICK r \in Slot : r = parent[q]
      BY <2>1
    <3>2. Alive(r) /\ parent'[q] = r
      BY <2>1, <3>1
    <3>3. state'[r] \in Living
      BY <3>2 DEF Alive, Living
    <3> QED
      BY <3>2, <3>3 DEF Alive, Living
  <2> QED
    BY <2>1, <2>2
<1>3. ASSUME NEW q \in Slot \ {initproc}, Alive(q)' \/ state'[q] = "ZOMBIE"
      PROVE  parent'[q] # None
  BY <1>3 DEF Family, Alive, Living
<1>4. ASSUME NEW q \in Slot, Place(q)' \in Exiting PROVE q # initproc
  BY <1>4 DEF Family
<1> QED
  BY <1>1, <1>2, <1>3, <1>4 DEF Family, Alive, Living

LEMMA FamilyStep == IInv /\ Next => Family'
<1> SUFFICES ASSUME IInv, Next PROVE Family'
  OBVIOUS
<1> USE Constants, Here DEF Family, Place, Exiting, Alive, Living, TypeOK, Returns, Loops, Looping, Unlocked, At, Goto, Free, table, locks, cpus, local, IInv
<1>1. ASSUME NEW c \in CPU, SchedBack(c) PROVE Family'
  BY <1>1 DEF SchedBack
<1>2. ASSUME NEW c \in CPU, NEW p \in Slot, SchedRun(c, p) PROVE Family'
  BY <1>2 DEF SchedRun
<1>3. ASSUME NEW p \in Slot, NEW c \in CPU, SwitchOut(p, c) PROVE Family'
  BY <1>3 DEF SwitchOut
<1>4. ASSUME NEW p \in Slot, NEW c \in CPU, Resume(p, c) PROVE Family'
  <2>1. /\ pc[p] = "sched" /\ pc'[p] = IF ret[p] = "slept" THEN "wait" ELSE ret[p]
        /\ ret'[p] = "user" /\ ret[p] \in {"user", "slept"} \cup Unlocked
        /\ \A q \in Slot : q # p => pc'[q] = pc[q] /\ ret'[q] = ret[q]
        /\ UNCHANGED <<idx, state, parent>>
    BY <1>4 DEF Resume
  <2>2. pc'[p] \notin {"reparent", "wakeinit", "wakeparent", "zombie"}
    BY <2>1
  <2>3. \A q \in Slot : Place(q)' \in Exiting => Place(q) \in Exiting
    BY <2>1, <2>2
  <2>4. \A r, q \in Slot : parent[q] = r =>
           /\ pc'[r] = "reparent" => q >= idx'[r]
           /\ pc'[r] = "wakeinit" => q > idx'[r]
           /\ pc'[r] \notin {"wakeparent", "zombie"}
    BY <2>1, <2>2
  <2> QED
    BY <2>1, <2>3, <2>4, FamilyKept
<1>5. ASSUME NEW p \in Slot, NEW c \in CPU, Yield(p, c) PROVE Family'
  BY <1>5 DEF Yield, HoldOverSwitch
<1>6. ASSUME NEW p \in Slot, NEW c \in CPU, ForkScan(p, c) PROVE Family'
  <2>1. /\ pc[p] = "fork" /\ pc'[p] \in {"fork", "user", "copy"}
        /\ \A q \in Slot : q # p => pc'[q] = pc[q] /\ idx'[q] = idx[q]
        /\ \A q \in Slot : \/ state'[q] = state[q]
                           \/ state[q] = "UNUSED" /\ state'[q] = "USED"
        /\ UNCHANGED <<parent, ret>>
    BY <1>6 DEF ForkScan, Return
  <2>2. \A q \in Slot : /\ state'[q] \in Living <=> state[q] \in Living
                        /\ state'[q] = "ZOMBIE" => state[q] = "ZOMBIE"
    BY <2>1
  <2>3. \A q \in Slot : Place(q)' \in Exiting => Place(q) \in Exiting \/ q # initproc
    BY <2>1
  <2>4. \A r, q \in Slot : parent[q] = r =>
           /\ pc'[r] = "reparent" => q >= idx'[r]
           /\ pc'[r] = "wakeinit" => q > idx'[r]
           /\ pc'[r] \notin {"wakeparent", "zombie"}
    BY <2>1
  <2> QED
    BY <2>1, <2>2, <2>3, <2>4, FamilyKept
<1>7. ASSUME NEW p \in Slot, NEW c \in CPU, ForkFail(p, c) PROVE Family'
  <2>1. /\ idx[p] \in Slot /\ idx[p] # p /\ idx[p] # initproc /\ state[idx[p]] = "USED"
        /\ \A r \in Slot : parent[r] # idx[p]
    BY <1>7, NewChild, Unborn DEF ForkFail, ForkPC
  <2>2. /\ pc[p] = "copy" /\ pc'[p] = "user"
        /\ \A q \in Slot : q # p => pc'[q] = pc[q] /\ idx'[q] = idx[q]
        /\ \A q \in Slot : q # idx[p] => state'[q] = state[q] /\ parent'[q] = parent[q]
        /\ state'[idx[p]] = "UNUSED" /\ parent'[idx[p]] = None
        /\ UNCHANGED ret
    BY <1>7, <2>1 DEF ForkFail, FreeProc, Return
  <2>3. Alive(initproc)' /\ parent'[initproc] = None
    BY <2>1, <2>2
  <2>4. ASSUME NEW q \in Slot, parent'[q] # None
        PROVE  parent'[q] # q /\ Alive(parent[q])' /\ parent'[q] = parent[q]
    <3>1. q # idx[p] /\ parent[q] # None /\ parent[q] # idx[p]
      BY <2>1, <2>2, <2>4
    <3>2. parent[q] # q /\ Alive(parent[q]) /\ parent[q] \in Slot
      BY <3>1
    <3>3. PICK r \in Slot : r = parent[q]
      BY <3>2
    <3>4. parent'[q] = parent[q] /\ state'[r] = state[r]
      BY <2>2, <3>1, <3>3
    <3>5. Alive(parent[q])'
      BY <3>2, <3>3, <3>4
    <3> QED
      BY <3>2, <3>4, <3>5
  <2>5. ASSUME NEW q \in Slot \ {initproc}, Alive(q)' \/ state'[q] = "ZOMBIE"
        PROVE  parent'[q] # None
    <3>1. q # idx[p]
      BY <2>2, <2>5
    <3> QED
      BY <2>2, <2>5, <3>1
  <2>6. ASSUME NEW q \in Slot, Place(q)' \in Exiting PROVE q # initproc
    BY <2>2, <2>6
  <2>7. ASSUME NEW r \in Slot, NEW q \in Slot, parent'[q] = r
        PROVE  /\ pc'[r] = "reparent" => q >= idx'[r]
               /\ pc'[r] = "wakeinit" => q > idx'[r]
               /\ pc'[r] \notin {"wakeparent", "zombie"}
    <3>1. parent[q] = r
      BY <2>1, <2>2, <2>7
    <3> QED
      BY <2>2, <3>1
  <2> QED
    BY <2>3, <2>4, <2>5, <2>6, <2>7
<1>8. ASSUME NEW p \in Slot, NEW c \in CPU, ForkCopy(p, c) PROVE Family'
  BY <1>8 DEF ForkCopy
<1>9. ASSUME NEW p \in Slot, NEW c \in CPU, ForkSetParent(p, c) PROVE Family'
  <2>1. /\ idx[p] \in Slot /\ idx[p] # p /\ idx[p] # initproc
        /\ \A r \in Slot : parent[r] # idx[p]
    BY <1>9, NewChild, Unborn DEF ForkSetParent, ForkPC
  <2>2. state[p] = "RUNNING"
    BY <1>9 DEF ForkSetParent
  <2>3. /\ pc[p] = "setparent" /\ pc'[p] = "setrun"
        /\ \A q \in Slot : q # p => pc'[q] = pc[q]
        /\ \A q \in Slot : q # idx[p] => parent'[q] = parent[q]
        /\ parent'[idx[p]] = p /\ UNCHANGED <<ret, idx, state>>
    BY <1>9, <2>1 DEF ForkSetParent
  <2>4. Alive(initproc)' /\ parent'[initproc] = None
    BY <2>1, <2>3
  <2>5. ASSUME NEW q \in Slot, parent'[q] # None
        PROVE  parent'[q] # q /\ Alive(parent[q])'
    <3>1. CASE q = idx[p]
      BY <2>1, <2>2, <2>3, <3>1
    <3>2. CASE q # idx[p]
      BY <2>3, <2>5, <3>2
    <3> QED
      BY <3>1, <3>2
  <2>6. ASSUME NEW q \in Slot \ {initproc}, Alive(q)' \/ state'[q] = "ZOMBIE"
        PROVE  parent'[q] # None
    <3>1. CASE q = idx[p]
      BY <2>3, <3>1
    <3>2. CASE q # idx[p]
      BY <2>3, <2>6, <3>2
    <3> QED
      BY <3>1, <3>2
  <2>7. ASSUME NEW q \in Slot, Place(q)' \in Exiting PROVE q # initproc
    BY <2>3, <2>7
  <2>8. ASSUME NEW r \in Slot, NEW q \in Slot, parent'[q] = r
        PROVE  /\ pc'[r] = "reparent" => q >= idx'[r]
               /\ pc'[r] = "wakeinit" => q > idx'[r]
               /\ pc'[r] \notin {"wakeparent", "zombie"}
    <3>1. CASE r = p
      BY <2>3, <3>1
    <3>2. CASE r # p
      <4>1. parent[q] = r /\ pc'[r] = pc[r]
        BY <2>3, <2>8, <3>2
      <4> QED
        BY <2>3, <4>1
    <3> QED
      BY <3>1, <3>2
  <2> QED
    BY <2>4, <2>5, <2>6, <2>7, <2>8
<1>10. ASSUME NEW p \in Slot, NEW c \in CPU, ForkSetRunnable(p, c) PROVE Family'
  <2>1. /\ idx[p] \in Slot /\ idx[p] # p /\ idx[p] # initproc /\ parent[idx[p]] = p
        /\ state[idx[p]] = "USED"
    BY <1>10, NewChild, Unborn DEF ForkSetRunnable, ForkPC, Forks
  <2>2. /\ pc[p] = "setrun" /\ pc'[p] = "user"
        /\ \A q \in Slot : q # p => pc'[q] = pc[q] /\ idx'[q] = idx[q]
        /\ \A q \in Slot : q # idx[p] => state'[q] = state[q]
        /\ state'[idx[p]] = "RUNNABLE" /\ UNCHANGED <<ret, parent>>
    BY <1>10, <2>1 DEF ForkSetRunnable, Return
  <2>3. \A q \in Slot : Alive(q) => Alive(q)'
    <3>1. ASSUME NEW q \in Slot, Alive(q) PROVE Alive(q)'
      <4>1. q # idx[p]
        BY <2>1, <3>1
      <4> QED
        BY <2>2, <3>1, <4>1
    <3> QED
      BY <3>1
  <2>4. Alive(initproc)' /\ parent'[initproc] = None
    BY <2>1, <2>2, <2>3
  <2>5. ASSUME NEW q \in Slot, parent'[q] # None
        PROVE  parent'[q] # q /\ Alive(parent[q])'
    <3>1. parent[q] # q /\ Alive(parent[q]) /\ parent[q] \in Slot /\ parent'[q] = parent[q]
      BY <2>2, <2>5
    <3> QED
      BY <2>3, <3>1
  <2>6. ASSUME NEW q \in Slot \ {initproc}, Alive(q)' \/ state'[q] = "ZOMBIE"
        PROVE  parent'[q] # None
    <3>1. CASE q = idx[p]
      BY <2>1, <2>2, <3>1
    <3>2. CASE q # idx[p]
      BY <2>2, <2>6, <3>2
    <3> QED
      BY <3>1, <3>2
  <2>7. ASSUME NEW q \in Slot, Place(q)' \in Exiting PROVE q # initproc
    BY <2>2, <2>7
  <2>8. ASSUME NEW r \in Slot, NEW q \in Slot, parent'[q] = r
        PROVE  /\ pc'[r] = "reparent" => q >= idx'[r]
               /\ pc'[r] = "wakeinit" => q > idx'[r]
               /\ pc'[r] \notin {"wakeparent", "zombie"}
    BY <2>2, <2>8
  <2> QED
    BY <2>4, <2>5, <2>6, <2>7, <2>8
<1>11. ASSUME NEW p \in Slot, NEW c \in CPU, Exit(p, c) PROVE Family'
  <2>1. /\ pc[p] = "exit" /\ pc'[p] = "reparent"
        /\ \A q \in Slot : q # p => pc'[q] = pc[q]
        /\ UNCHANGED <<parent, ret, idx, state>>
    BY <1>11 DEF Exit
  <2>2. \A q \in Slot : /\ state'[q] \in Living <=> state[q] \in Living
                        /\ state'[q] = "ZOMBIE" => state[q] = "ZOMBIE"
    BY <2>1
  <2>3. \A q \in Slot : Place(q)' \in Exiting => Place(q) \in Exiting \/ q # initproc
    BY <2>1
  <2>4. \A r, q \in Slot : parent[q] = r =>
           /\ pc'[r] = "reparent" => q >= idx'[r]
           /\ pc'[r] = "wakeinit" => q > idx'[r]
           /\ pc'[r] \notin {"wakeparent", "zombie"}
    <3>1. Place(p) \notin Looping
      BY <2>1 DEF ForkPC
    <3>2. idx'[p] = 1
      BY <2>1, <3>1
    <3>3. \A q \in Slot : q >= 1
      BY DEF Slot
    <3> QED
      BY <2>1, <3>2, <3>3
  <2> QED
    BY <2>1, <2>2, <2>3, <2>4, FamilyKept
<1>12. ASSUME NEW p \in Slot, NEW c \in CPU, Reparent(p, c) PROVE Family'
  BY <1>12 DEF Reparent, Child, AfterAdoption
<1>13. ASSUME NEW p \in Slot, NEW c \in CPU, WakeInit(p, c) PROVE Family'
  <2>1. /\ pc[p] = "wakeinit"
        /\ \/ pc'[p] = "wakeinit" /\ idx'[p] = idx[p]
           \/ pc'[p] = "reparent" /\ idx'[p] = idx[p] + 1
        /\ \A q \in Slot : q # p => pc'[q] = pc[q] /\ idx'[q] = idx[q]
        /\ \A q \in Slot : \/ state'[q] = state[q]
                           \/ state[q] = "SLEEPING" /\ state'[q] = "RUNNABLE"
        /\ UNCHANGED <<parent, ret>>
    BY <1>13 DEF WakeInit, WakeOne
  <2>2. \A q \in Slot : /\ state'[q] \in Living <=> state[q] \in Living
                        /\ state'[q] = "ZOMBIE" => state[q] = "ZOMBIE"
    BY <2>1
  <2>3. \A q \in Slot : Place(q)' \in Exiting => Place(q) \in Exiting \/ q # initproc
    BY <2>1
  <2>4. \A r, q \in Slot : parent[q] = r =>
           /\ pc'[r] = "reparent" => q >= idx'[r]
           /\ pc'[r] = "wakeinit" => q > idx'[r]
           /\ pc'[r] \notin {"wakeparent", "zombie"}
    <3>1. ASSUME NEW r \in Slot, NEW q \in Slot, parent[q] = r
          PROVE  /\ pc'[r] = "reparent" => q >= idx'[r]
                 /\ pc'[r] = "wakeinit" => q > idx'[r]
                 /\ pc'[r] \notin {"wakeparent", "zombie"}
      <4>1. CASE r # p
        BY <2>1, <3>1, <4>1
      <4>2. CASE r = p
        <5>1. q > idx[p] /\ q \in Nat /\ idx[p] \in Nat
          BY <2>1, <3>1, <4>2
        <5>2. q >= idx[p] + 1
          BY <5>1
        <5> QED
          BY <2>1, <4>2, <5>1, <5>2
      <4> QED
        BY <4>1, <4>2
    <3> QED
      BY <3>1
  <2> QED
    BY <2>1, <2>2, <2>3, <2>4, FamilyKept
<1>14. ASSUME NEW p \in Slot, NEW c \in CPU, WakeParent(p, c) PROVE Family'
  <2>1. /\ pc[p] = "wakeparent" /\ pc'[p] \in {"wakeparent", "zombie"}
        /\ \A q \in Slot : q # p => pc'[q] = pc[q]
        /\ \A q \in Slot : \/ state'[q] = state[q]
                           \/ state[q] = "SLEEPING" /\ state'[q] = "RUNNABLE"
        /\ UNCHANGED <<parent, ret, idx>>
    BY <1>14 DEF WakeParent, WakeOne
  <2>2. \A q \in Slot : /\ state'[q] \in Living <=> state[q] \in Living
                        /\ state'[q] = "ZOMBIE" => state[q] = "ZOMBIE"
    BY <2>1
  <2>3. \A q \in Slot : Place(q)' \in Exiting => Place(q) \in Exiting \/ q # initproc
    BY <2>1
  <2>4. \A r, q \in Slot : parent[q] = r =>
           /\ pc'[r] = "reparent" => q >= idx'[r]
           /\ pc'[r] = "wakeinit" => q > idx'[r]
           /\ pc'[r] \notin {"wakeparent", "zombie"}
    BY <2>1
  <2> QED
    BY <2>1, <2>2, <2>3, <2>4, FamilyKept
<1>15. ASSUME NEW p \in Slot, NEW c \in CPU, Zombie(p, c) PROVE Family'
  BY <1>15 DEF Zombie
<1>16. ASSUME NEW p \in Slot, NEW c \in CPU, Wait(p, c) PROVE Family'
  BY <1>16 DEF Wait
<1>17. ASSUME NEW p \in Slot, NEW c \in CPU, WaitSkip(p, c) PROVE Family'
  BY <1>17 DEF WaitSkip
<1>18. ASSUME NEW p \in Slot, NEW c \in CPU, WaitReap(p, c) PROVE Family'
  BY <1>18 DEF WaitReap, FoundZombie, ChildLocked, FreeProc, Return
<1>19. ASSUME NEW p \in Slot, NEW c \in CPU, WaitFault(p, c) PROVE Family'
  BY <1>19 DEF WaitFault, FoundZombie, ChildLocked, Return
<1>20. ASSUME NEW p \in Slot, NEW c \in CPU, WaitNone(p, c) PROVE Family'
  BY <1>20 DEF WaitNone, Return
<1>21. ASSUME NEW p \in Slot, NEW c \in CPU, WaitSleep(p, c) PROVE Family'
  BY <1>21 DEF WaitSleep
<1>22. ASSUME NEW p \in Slot, NEW c \in CPU, Sleep(p, c) PROVE Family'
  BY <1>22 DEF Sleep
<1>23. ASSUME NEW p \in Slot, NEW c \in CPU, DoSleep(p, c) PROVE Family'
  BY <1>23 DEF DoSleep
<1>24. ASSUME NEW p \in Slot, NEW c \in CPU, CallFork(p, c) PROVE Family'
  BY <1>24 DEF CallFork
<1>25. ASSUME NEW p \in Slot, NEW c \in CPU, CallWait(p, c) PROVE Family'
  BY <1>25 DEF CallWait
<1>26. ASSUME NEW p \in Slot, NEW c \in CPU, CallExit(p, c) PROVE Family'
  BY <1>26 DEF CallExit
<1>27. ASSUME NEW p \in Slot, NEW c \in CPU, NEW q \in Slot, Kill(p, c, q) PROVE Family'
  BY <1>27 DEF Kill
<1> QED
  BY <1>1, <1>2, <1>3, <1>4, <1>5, <1>6, <1>7, <1>8, <1>9, <1>10, <1>11,
     <1>12, <1>13, <1>14, <1>15, <1>16, <1>17, <1>18, <1>19, <1>20, <1>21,
     <1>22, <1>23, <1>24, <1>25, <1>26, <1>27 DEF Next, Switch, Syscall

(* wait_lock has one holder.                                                *)
LEMMA WaitLockAlone ==
    ASSUME IInv, NEW p \in Slot, NEW q \in Slot, pc[p] \in WaitLocked, pc[q] \in WaitLocked
    PROVE  p = q
<1> USE Constants DEF IInv
<1>1. PICK c \in CPU : cur[c] = p
  BY DEF Stacks, WaitLocked
<1>2. PICK d \in CPU : cur[d] = q
  BY DEF Stacks, WaitLocked
<1>3. wlock = c /\ wlock = d
  BY <1>1, <1>2 DEF LockHeld
<1> QED
  BY <1>1, <1>2, <1>3

(* A step that makes no zombie, puts nobody to sleep and leaves the loops   *)
(* of exit and wait where they are.                                         *)
Undisturbed ==
    \A q \in Slot :
       /\ parent'[q] = parent[q] \/ (pc'[q] = "sched" /\ state'[q] # "ZOMBIE")
       /\ state'[q] = "SLEEPING" => state[q] = "SLEEPING" /\ chan'[q] = chan[q]
       /\ state'[q] = "ZOMBIE" => state[q] = "ZOMBIE"
       /\ \/ pc'[q] = pc[q] /\ jdx'[q] = jdx[q]
          \/ /\ pc[q] # "wakeinit"
             /\ pc'[q] \notin {"wakeparent", "zombie", "sleep", "dosleep"}
       /\ pc'[q] = "scan" => pc[q] = "scan" /\ idx'[q] = idx[q]

LEMMA ZombiesKept ==
    ASSUME IInv, Undisturbed
    PROVE  Zombies'
<1> USE Constants DEF IInv, TypeOK, Undisturbed, Dozing
<1>1. \A q \in Slot : state'[q] = "SLEEPING" => chan'[q] = q
  BY DEF Zombies
<1>2. \A q \in Slot : Dozing(q)' => Dozing(q)
  OBVIOUS
<1>3. ASSUME NEW r \in Slot, NEW q \in Slot, parent'[q] = r, state'[q] = "ZOMBIE"
      PROVE  /\ Dozing(r)' => /\ r = initproc
                              /\ \E x \in Slot : pc'[x] = "wakeinit" /\ jdx'[x] <= initproc
             /\ pc'[r] = "scan" => q >= idx'[r]
             /\ pc'[r] # "sleep"
  <2>1. parent[q] = r /\ state[q] = "ZOMBIE"
    BY <1>3
  <2>2. ASSUME Dozing(r)'
        PROVE  r = initproc /\ \E x \in Slot : pc'[x] = "wakeinit" /\ jdx'[x] <= initproc
    <3>1. r = initproc /\ \E x \in Slot : pc[x] = "wakeinit" /\ jdx[x] <= initproc
      BY <1>2, <2>1, <2>2 DEF Zombies
    <3>2. PICK x \in Slot : pc[x] = "wakeinit" /\ jdx[x] <= initproc
      BY <3>1
    <3>3. pc'[x] = "wakeinit" /\ jdx'[x] <= initproc
      BY <3>2
    <3> QED
      BY <3>1, <3>3
  <2>3. (pc[r] = "scan" => q >= idx[r]) /\ pc[r] # "sleep"
    BY <2>1 DEF Zombies
  <2> QED
    BY <2>2, <2>3
<1>4. ASSUME NEW r \in Slot, NEW q \in Slot, parent'[q] = r,
             pc'[q] = "zombie" \/ (pc'[q] = "wakeparent" /\ jdx'[q] > r)
      PROVE  ~Dozing(r)'
  <2>1. pc[q] = pc'[q] /\ jdx[q] = jdx'[q] /\ parent[q] = r
    BY <1>4
  <2>2. ~Dozing(r)
    BY <1>4, <2>1 DEF Zombies
  <2> QED
    BY <1>2, <2>2
<1> QED
  BY <1>1, <1>3, <1>4 DEF Zombies

LEMMA ZombiesStep == IInv /\ Next => Zombies'
<1> SUFFICES ASSUME IInv, Next PROVE Zombies'
  OBVIOUS
<1> USE Constants, Here DEF Dozing, TypeOK, At, Goto, Free, table, locks, cpus, local, IInv
<1>1. ASSUME NEW c \in CPU, SchedBack(c) PROVE Zombies'
  <2>8. Undisturbed
    BY <1>1 DEF SchedBack, Undisturbed
  <2> QED
    BY <2>8, ZombiesKept
<1>2. ASSUME NEW c \in CPU, NEW p \in Slot, SchedRun(c, p) PROVE Zombies'
  <2>8. Undisturbed
    BY <1>2 DEF SchedRun, Undisturbed
  <2> QED
    BY <2>8, ZombiesKept
<1>3. ASSUME NEW p \in Slot, NEW c \in CPU, SwitchOut(p, c) PROVE Zombies'
  <2>8. Undisturbed
    BY <1>3 DEF SwitchOut, Undisturbed
  <2> QED
    BY <2>8, ZombiesKept
<1>4. ASSUME NEW p \in Slot, NEW c \in CPU, Resume(p, c) PROVE Zombies'
  <2>1. /\ pc[p] = "sched" /\ pc'[p] = IF ret[p] = "slept" THEN "wait" ELSE ret[p]
        /\ ret[p] \in {"user", "slept"} \cup Unlocked /\ state[p] = "RUNNING"
        /\ \A q \in Slot : q # p => pc'[q] = pc[q] /\ chan'[q] = chan[q]
        /\ UNCHANGED <<state, parent, idx, jdx>>
    BY <1>4 DEF Resume, Returns
  <2>2. pc'[p] \in {"user"} \cup Unlocked
    BY <2>1 DEF Unlocked
  <2>8. Undisturbed
    BY <2>1, <2>2 DEF Unlocked, Undisturbed
  <2> QED
    BY <2>8, ZombiesKept
<1>5. ASSUME NEW p \in Slot, NEW c \in CPU, Yield(p, c) PROVE Zombies'
  <2>8. Undisturbed
    BY <1>5 DEF Yield, Unlocked, Undisturbed
  <2> QED
    BY <2>8, ZombiesKept
<1>6. ASSUME NEW p \in Slot, NEW c \in CPU, ForkScan(p, c) PROVE Zombies'
  <2>8. Undisturbed
    BY <1>6 DEF ForkScan, Return, Undisturbed
  <2> QED
    BY <2>8, ZombiesKept
<1>7. ASSUME NEW p \in Slot, NEW c \in CPU, ForkFail(p, c) PROVE Zombies'
  <2>1. idx[p] \in Slot /\ idx[p] # p /\ pc[idx[p]] = "sched"
    BY <1>7, NewChild, Unborn DEF ForkFail, ForkPC
  <2>2. /\ pc[p] = "copy" /\ pc'[p] = "user"
        /\ \A q \in Slot : q # p => pc'[q] = pc[q] /\ idx'[q] = idx[q]
        /\ \A q \in Slot : q # idx[p] => /\ state'[q] = state[q] /\ parent'[q] = parent[q]
                                         /\ chan'[q] = chan[q]
        /\ state'[idx[p]] = "UNUSED" /\ UNCHANGED jdx
    BY <1>7, <2>1 DEF ForkFail, FreeProc, Return
  <2>8. Undisturbed
    BY <2>1, <2>2 DEF Undisturbed
  <2> QED
    BY <2>8, ZombiesKept
<1>8. ASSUME NEW p \in Slot, NEW c \in CPU, ForkCopy(p, c) PROVE Zombies'
  <2>1. idx[p] \in Slot /\ idx[p] # p /\ pc[idx[p]] = "sched"
    BY <1>8, NewChild, Unborn DEF ForkCopy, ForkPC
  <2>2. /\ pc[p] = "copy" /\ pc'[p] = "setparent"
        /\ \A q \in Slot : q # p => pc'[q] = pc[q]
        /\ UNCHANGED <<state, chan, parent, idx, jdx>>
    BY <1>8, <2>1 DEF ForkCopy
  <2>8. Undisturbed
    BY <2>2 DEF Undisturbed
  <2> QED
    BY <2>8, ZombiesKept
<1>9. ASSUME NEW p \in Slot, NEW c \in CPU, ForkSetParent(p, c) PROVE Zombies'
  <2>1. idx[p] \in Slot /\ idx[p] # p /\ pc[idx[p]] = "sched" /\ state[idx[p]] = "USED"
    BY <1>9, NewChild, Unborn DEF ForkSetParent, ForkPC
  <2>2. /\ pc[p] = "setparent" /\ pc'[p] = "setrun"
        /\ \A q \in Slot : q # p => pc'[q] = pc[q]
        /\ \A q \in Slot : q # idx[p] => parent'[q] = parent[q]
        /\ UNCHANGED <<state, chan, idx, jdx>>
    BY <1>9, <2>1 DEF ForkSetParent
  <2>8. Undisturbed
    BY <2>1, <2>2 DEF Undisturbed
  <2> QED
    BY <2>8, ZombiesKept
<1>10. ASSUME NEW p \in Slot, NEW c \in CPU, ForkSetRunnable(p, c) PROVE Zombies'
  <2>1. idx[p] \in Slot
    BY <1>10, NewChild DEF ForkSetRunnable, ForkPC
  <2>2. /\ pc[p] = "setrun" /\ pc'[p] = "user"
        /\ \A q \in Slot : q # p => pc'[q] = pc[q] /\ idx'[q] = idx[q]
        /\ \A q \in Slot : q # idx[p] => state'[q] = state[q]
        /\ state'[idx[p]] = "RUNNABLE" /\ UNCHANGED <<parent, chan, jdx>>
    BY <1>10, <2>1 DEF ForkSetRunnable, Return
  <2>8. Undisturbed
    BY <2>1, <2>2 DEF Undisturbed
  <2> QED
    BY <2>8, ZombiesKept
<1>11. ASSUME NEW p \in Slot, NEW c \in CPU, Exit(p, c) PROVE Zombies'
  <2>8. Undisturbed
    BY <1>11 DEF Exit, Undisturbed
  <2> QED
    BY <2>8, ZombiesKept
<1>12. ASSUME NEW p \in Slot, NEW c \in CPU, Reparent(p, c) PROVE Zombies'
  <2>1. /\ pc[p] = "reparent" /\ cur[c] = p /\ p # initproc /\ state[p] = "RUNNING" /\ jdx[p] = 1
    BY <1>12 DEF Reparent, Family, Place, Exiting, Loops
  <2>2. /\ pc'[p] \in {"reparent", "wakeinit", "wakeparent"}
        /\ \A q \in Slot : q # p => pc'[q] = pc[q]
        /\ \A q \in Slot : \/ parent'[q] = parent[q]
                           \/ parent'[q] = initproc /\ pc'[p] = "wakeinit"
        /\ UNCHANGED <<state, chan, jdx>>
    BY <1>12 DEF Reparent, AfterAdoption
  <2>3. \A x \in Slot : pc[x] \in WaitLocked => x = p
    BY <2>1, WaitLockAlone DEF WaitLocked
  <2>4. \A q \in Slot : (Dozing(q)' => Dozing(q)) /\ pc'[q] \notin {"scan", "sleep", "zombie"}
    BY <2>1, <2>2, <2>3 DEF WaitLocked
  <2>5. ASSUME NEW q \in Slot, state'[q] = "SLEEPING" PROVE chan'[q] = q
    BY <2>2, <2>5 DEF Zombies
  <2>6. ASSUME NEW r \in Slot, NEW q \in Slot, parent'[q] = r, state'[q] = "ZOMBIE"
        PROVE  /\ Dozing(r)' => /\ r = initproc
                                /\ \E x \in Slot : pc'[x] = "wakeinit" /\ jdx'[x] <= initproc
               /\ pc'[r] = "scan" => q >= idx'[r]
               /\ pc'[r] # "sleep"
    <3>1. CASE parent[q] = r
      <4>1. ~Dozing(r)
        BY <2>1, <2>2, <2>3, <2>6, <3>1 DEF Zombies, WaitLocked
      <4> QED
        BY <2>4, <4>1
    <3>2. CASE parent[q] # r
      <4>1. r = initproc /\ pc'[p] = "wakeinit"
        BY <2>2, <2>6, <3>2
      <4>2. pc'[p] = "wakeinit" /\ jdx'[p] <= initproc
        BY <2>1, <2>2, <4>1 DEF initproc
      <4> QED
        BY <2>4, <4>1, <4>2
    <3> QED
      BY <3>1, <3>2
  <2>7. ASSUME NEW r \in Slot, NEW q \in Slot, parent'[q] = r,
               pc'[q] = "zombie" \/ (pc'[q] = "wakeparent" /\ jdx'[q] > r)
        PROVE  ~Dozing(r)'
    <3>1. q = p
      BY <2>2, <2>3, <2>4, <2>7 DEF WaitLocked
    <3>2. jdx'[p] = 1 /\ r >= 1
      BY <2>1, <2>2 DEF Slot
    <3> QED
      BY <2>4, <2>7, <3>1, <3>2
  <2> QED
    BY <2>5, <2>6, <2>7 DEF Zombies
<1>13. ASSUME NEW p \in Slot, NEW c \in CPU, WakeInit(p, c) PROVE Zombies'
  <2>1. pc[p] = "wakeinit" /\ cur[c] = p /\ p # initproc /\ state[p] = "RUNNING"
    BY <1>13 DEF WakeInit, Family, Place, Exiting
  <2>2. /\ pc'[p] \in {"wakeinit", "reparent"}
        /\ \A q \in Slot : q # p => pc'[q] = pc[q] /\ jdx'[q] = jdx[q] /\ idx'[q] = idx[q]
        /\ \A q \in Slot : \/ state'[q] = state[q]
                           \/ state[q] = "SLEEPING" /\ state'[q] = "RUNNABLE"
        /\ UNCHANGED <<parent, chan>>
    BY <1>13 DEF WakeInit, WakeOne
  <2>3. \A x \in Slot : pc[x] \in WaitLocked => x = p
    BY <2>1, WaitLockAlone DEF WaitLocked
  <2>4. \A q \in Slot : /\ Dozing(q)' => Dozing(q)
                        /\ pc'[q] \notin {"scan", "sleep", "zombie", "wakeparent"}
    BY <2>1, <2>2, <2>3 DEF WaitLocked
  <2>5. jdx[p] <= initproc => ~Dozing(initproc)'
    <3>1. HAVE jdx[p] <= initproc
    <3>2. jdx[p] = 1 /\ 1 <= NPROC /\ initproc = 1
      BY <3>1 DEF initproc
    <3>3. WakeOne(p, initproc) /\ pc' = pc
      BY <1>13, <3>2 DEF WakeInit
    <3>4. Free(initproc)
      BY <2>1, <3>2, <3>3 DEF WakeOne
    <3>5. pc[initproc] # "dosleep"
      BY <3>4, FreeIs
    <3>6. state[initproc] = "SLEEPING" => state'[initproc] = "RUNNABLE"
      BY <2>1, <3>2, <3>3 DEF WakeOne, Zombies
    <3>7. state[initproc] # "SLEEPING" => state'[initproc] # "SLEEPING"
      BY <2>2
    <3> QED
      BY <3>3, <3>5, <3>6, <3>7
  <2>6. ASSUME NEW q \in Slot, state'[q] = "SLEEPING" PROVE chan'[q] = q
    BY <2>2, <2>6 DEF Zombies
  <2>7. ASSUME NEW r \in Slot, NEW q \in Slot, parent'[q] = r, state'[q] = "ZOMBIE"
        PROVE  /\ Dozing(r)' => /\ r = initproc
                                /\ \E x \in Slot : pc'[x] = "wakeinit" /\ jdx'[x] <= initproc
               /\ pc'[r] = "scan" => q >= idx'[r]
               /\ pc'[r] # "sleep"
    <3>1. ASSUME Dozing(r)' PROVE FALSE
      <4>1. Dozing(r) /\ parent[q] = r /\ state[q] = "ZOMBIE"
        BY <2>2, <2>4, <2>7, <3>1
      <4>2. r = initproc /\ \E x \in Slot : pc[x] = "wakeinit" /\ jdx[x] <= initproc
        BY <4>1 DEF Zombies
      <4>3. jdx[p] <= initproc
        BY <2>3, <4>2 DEF WaitLocked
      <4> QED
        BY <2>5, <3>1, <4>2, <4>3
    <3> QED
      BY <2>4, <3>1
  <2>8. ASSUME NEW r \in Slot, NEW q \in Slot, parent'[q] = r,
               pc'[q] = "zombie" \/ (pc'[q] = "wakeparent" /\ jdx'[q] > r)
        PROVE  ~Dozing(r)'
    BY <2>4, <2>8
  <2> QED
    BY <2>6, <2>7, <2>8 DEF Zombies
<1>14. ASSUME NEW p \in Slot, NEW c \in CPU, WakeParent(p, c) PROVE Zombies'
  <2>1. pc[p] = "wakeparent" /\ cur[c] = p
    BY <1>14 DEF WakeParent
  <2>2. /\ pc'[p] \in {"wakeparent", "zombie"}
        /\ \A q \in Slot : q # p => pc'[q] = pc[q]
        /\ \A q \in Slot : \/ state'[q] = state[q]
                           \/ state[q] = "SLEEPING" /\ state'[q] = "RUNNABLE"
        /\ UNCHANGED <<parent, chan>>
    BY <1>14 DEF WakeParent, WakeOne
  <2>3. \A x \in Slot : pc[x] \in WaitLocked => x = p
    BY <2>1, WaitLockAlone DEF WaitLocked
  <2>4. \A q \in Slot : /\ Dozing(q)' => Dozing(q)
                        /\ pc'[q] \notin {"scan", "sleep"}
    BY <2>1, <2>2, <2>3 DEF WaitLocked
  <2>5. ASSUME NEW q \in Slot, state'[q] = "SLEEPING" PROVE chan'[q] = q
    BY <2>2, <2>5 DEF Zombies
  <2>6. ASSUME NEW r \in Slot, NEW q \in Slot, parent'[q] = r, state'[q] = "ZOMBIE"
        PROVE  /\ Dozing(r)' => /\ r = initproc
                                /\ \E x \in Slot : pc'[x] = "wakeinit" /\ jdx'[x] <= initproc
               /\ pc'[r] = "scan" => q >= idx'[r]
               /\ pc'[r] # "sleep"
    <3>1. parent[q] = r /\ state[q] = "ZOMBIE"
      BY <2>2, <2>6
    <3>2. ~Dozing(r)
      BY <2>1, <2>3, <3>1 DEF Zombies, WaitLocked
    <3> QED
      BY <2>4, <3>2
  <2>7. ASSUME NEW r \in Slot, NEW q \in Slot, parent'[q] = r,
               pc'[q] = "zombie" \/ (pc'[q] = "wakeparent" /\ jdx'[q] > r)
        PROVE  ~Dozing(r)'
    <3>1. q = p /\ parent[p] = r
      BY <2>2, <2>3, <2>7 DEF WaitLocked
    <3>2. r # p
      BY <3>1 DEF Family
    <3>3. CASE jdx[p] > r
      BY <2>1, <2>4, <3>1, <3>3 DEF Zombies
    <3>4. CASE jdx[p] <= r
      <4>1. r <= NPROC /\ r \in Nat /\ jdx[p] \in Nat
        OBVIOUS
      <4>2. jdx[p] <= NPROC
        BY <3>4, <4>1
      <4>3. WakeOne(p, r) /\ pc' = pc
        BY <1>14, <3>1, <4>2 DEF WakeParent, ExitChannel
      <4>4. jdx'[p] = jdx[p] + 1
        BY <4>3 DEF WakeOne
      <4>5. jdx[p] = r
        BY <2>1, <2>7, <3>1, <3>4, <4>1, <4>3, <4>4
      <4>6. Free(r)
        BY <3>2, <4>3, <4>5 DEF WakeOne
      <4>7. pc[r] # "dosleep"
        BY <4>6, FreeIs
      <4>8. state[r] = "SLEEPING" => state'[r] = "RUNNABLE"
        BY <3>2, <4>3, <4>5 DEF WakeOne, Zombies
      <4>9. state[r] # "SLEEPING" => state'[r] # "SLEEPING"
        BY <2>2
      <4> QED
        BY <4>3, <4>7, <4>8, <4>9
    <3> QED
      BY <3>3, <3>4
  <2> QED
    BY <2>5, <2>6, <2>7 DEF Zombies
<1>15. ASSUME NEW p \in Slot, NEW c \in CPU, Zombie(p, c) PROVE Zombies'
  <2>1. pc[p] = "zombie" /\ cur[c] = p
    BY <1>15 DEF Zombie
  <2>2. /\ pc'[p] = "sched" /\ state'[p] = "ZOMBIE"
        /\ \A q \in Slot : q # p => pc'[q] = pc[q] /\ state'[q] = state[q]
        /\ UNCHANGED <<parent, chan>>
    BY <1>15 DEF Zombie
  <2>3. \A x \in Slot : pc[x] \in WaitLocked => x = p
    BY <2>1, WaitLockAlone DEF WaitLocked
  <2>4. \A q \in Slot : /\ Dozing(q)' => Dozing(q)
                        /\ pc'[q] \notin {"scan", "sleep", "zombie", "wakeparent"}
    BY <2>1, <2>2, <2>3 DEF WaitLocked
  <2>5. ASSUME NEW q \in Slot, state'[q] = "SLEEPING" PROVE chan'[q] = q
    BY <2>2, <2>5 DEF Zombies
  <2>6. ASSUME NEW r \in Slot, NEW q \in Slot, parent'[q] = r, state'[q] = "ZOMBIE"
        PROVE  /\ Dozing(r)' => /\ r = initproc
                                /\ \E x \in Slot : pc'[x] = "wakeinit" /\ jdx'[x] <= initproc
               /\ pc'[r] = "scan" => q >= idx'[r]
               /\ pc'[r] # "sleep"
    <3>1. ~Dozing(r)
      <4>1. CASE q = p
        BY <2>1, <2>2, <2>6, <4>1 DEF Zombies
      <4>2. CASE q # p
        BY <2>1, <2>2, <2>3, <2>6, <4>2 DEF Zombies, WaitLocked
      <4> QED
        BY <4>1, <4>2
    <3> QED
      BY <2>4, <3>1
  <2>7. ASSUME NEW r \in Slot, NEW q \in Slot, parent'[q] = r,
               pc'[q] = "zombie" \/ (pc'[q] = "wakeparent" /\ jdx'[q] > r)
        PROVE  ~Dozing(r)'
    BY <2>4, <2>7
  <2> QED
    BY <2>5, <2>6, <2>7 DEF Zombies
<1>16. ASSUME NEW p \in Slot, NEW c \in CPU, Wait(p, c) PROVE Zombies'
  <2>1. /\ pc[p] = "wait" /\ pc'[p] = "scan"
        /\ \A q \in Slot : q # p => pc'[q] = pc[q]
        /\ UNCHANGED <<state, parent, chan, idx, jdx>>
    BY <1>16 DEF Wait
  <2>2. idx[p] = 1
    <3>1. Place(p) \notin Looping
      BY <2>1 DEF Place, Looping, ForkPC
    <3> QED
      BY <3>1 DEF Loops
  <2>3. \A q \in Slot : Dozing(q)' <=> Dozing(q)
    BY <2>1
  <2>4. \A q \in Slot : q >= 1
    BY DEF Slot
  <2>5. ASSUME NEW q \in Slot, state'[q] = "SLEEPING" PROVE chan'[q] = q
    BY <2>1, <2>5 DEF Zombies
  <2>6. ASSUME NEW r \in Slot, NEW q \in Slot, parent'[q] = r, state'[q] = "ZOMBIE"
        PROVE  /\ Dozing(r)' => /\ r = initproc
                                /\ \E x \in Slot : pc'[x] = "wakeinit" /\ jdx'[x] <= initproc
               /\ pc'[r] = "scan" => q >= idx'[r]
               /\ pc'[r] # "sleep"
    <3>1. parent[q] = r /\ state[q] = "ZOMBIE"
      BY <2>1, <2>6
    <3>2. Dozing(r)' => r = initproc /\ \E x \in Slot : pc'[x] = "wakeinit" /\ jdx'[x] <= initproc
      <4>1. HAVE Dozing(r)'
      <4>2. r = initproc
        BY <2>3, <3>1, <4>1 DEF Zombies
      <4>3. PICK x \in Slot : pc[x] = "wakeinit" /\ jdx[x] <= initproc
        BY <2>3, <3>1, <4>1 DEF Zombies
      <4>4. pc'[x] = "wakeinit" /\ jdx'[x] <= initproc
        BY <2>1, <4>3
      <4> QED
        BY <4>2, <4>4
    <3>3. pc'[r] = "scan" => q >= idx'[r]
      <4>1. CASE r = p
        BY <2>1, <2>2, <2>4, <4>1
      <4>2. CASE r # p
        BY <2>1, <3>1, <4>2 DEF Zombies
      <4> QED
        BY <4>1, <4>2
    <3>4. pc'[r] # "sleep"
      BY <2>1, <3>1 DEF Zombies
    <3> QED
      BY <3>2, <3>3, <3>4
  <2>7. ASSUME NEW r \in Slot, NEW q \in Slot, parent'[q] = r,
               pc'[q] = "zombie" \/ (pc'[q] = "wakeparent" /\ jdx'[q] > r)
        PROVE  ~Dozing(r)'
    BY <2>1, <2>3, <2>7 DEF Zombies
  <2> QED
    BY <2>5, <2>6, <2>7 DEF Zombies
<1>17. ASSUME NEW p \in Slot, NEW c \in CPU, WaitSkip(p, c) PROVE Zombies'
  <2>1. /\ pc[p] = "scan" /\ cur[c] = p /\ idx[p] \in Slot
        /\ ~(parent[idx[p]] = p /\ state[idx[p]] = "ZOMBIE")
        /\ idx'[p] = idx[p] + 1 /\ \A q \in Slot : q # p => idx'[q] = idx[q]
        /\ UNCHANGED <<state, parent, chan, pc, jdx>>
    BY <1>17 DEF WaitSkip
  <2>2. \A x \in Slot : pc[x] \in WaitLocked => x = p
    BY <2>1, WaitLockAlone DEF WaitLocked
  <2>3. \A q \in Slot : Dozing(q)' <=> Dozing(q)
    BY <2>1
  <2>4. ASSUME NEW q \in Slot, state'[q] = "SLEEPING" PROVE chan'[q] = q
    BY <2>1, <2>4 DEF Zombies
  <2>5. ASSUME NEW r \in Slot, NEW q \in Slot, parent'[q] = r, state'[q] = "ZOMBIE"
        PROVE  /\ Dozing(r)' => /\ r = initproc
                                /\ \E x \in Slot : pc'[x] = "wakeinit" /\ jdx'[x] <= initproc
               /\ pc'[r] = "scan" => q >= idx'[r]
               /\ pc'[r] # "sleep"
    <3>1. parent[q] = r /\ state[q] = "ZOMBIE"
      BY <2>1, <2>5
    <3>2. ~Dozing(r) /\ pc[r] # "sleep"
      BY <2>1, <2>2, <3>1 DEF Zombies, WaitLocked
    <3>3. pc'[r] = "scan" => q >= idx'[r]
      <4>1. CASE r = p
        <5>1. q >= idx[p] /\ q # idx[p]
          BY <2>1, <3>1, <4>1 DEF Zombies
        <5>2. q >= idx[p] + 1
          BY <2>1, <5>1
        <5> QED
          BY <2>1, <4>1, <5>2
      <4>2. CASE r # p
        BY <2>1, <2>2, <4>2 DEF WaitLocked
      <4> QED
        BY <4>1, <4>2
    <3> QED
      BY <2>1, <2>3, <3>2, <3>3
  <2>6. ASSUME NEW r \in Slot, NEW q \in Slot, parent'[q] = r,
               pc'[q] = "zombie" \/ (pc'[q] = "wakeparent" /\ jdx'[q] > r)
        PROVE  ~Dozing(r)'
    BY <2>1, <2>3, <2>6 DEF Zombies
  <2> QED
    BY <2>4, <2>5, <2>6 DEF Zombies
<1>18. ASSUME NEW p \in Slot, NEW c \in CPU, WaitReap(p, c) PROVE Zombies'
  <2>1. idx[p] \in Slot /\ state[idx[p]] = "ZOMBIE" /\ pc[idx[p]] = "sched" /\ pc[p] = "scan"
    BY <1>18 DEF WaitReap, FoundZombie, Returns, Alive
  <2>2. /\ idx[p] # p /\ pc'[p] = "user"
        /\ \A q \in Slot : q # p => pc'[q] = pc[q] /\ idx'[q] = idx[q]
        /\ \A q \in Slot : q # idx[p] => /\ state'[q] = state[q] /\ parent'[q] = parent[q]
                                         /\ chan'[q] = chan[q]
        /\ state'[idx[p]] = "UNUSED" /\ UNCHANGED jdx
    BY <1>18, <2>1 DEF WaitReap, FreeProc, Return
  <2>8. Undisturbed
    BY <2>1, <2>2 DEF Undisturbed
  <2> QED
    BY <2>8, ZombiesKept
<1>19. ASSUME NEW p \in Slot, NEW c \in CPU, WaitFault(p, c) PROVE Zombies'
  <2>8. Undisturbed
    BY <1>19 DEF WaitFault, FoundZombie, Return, Undisturbed
  <2> QED
    BY <2>8, ZombiesKept
<1>20. ASSUME NEW p \in Slot, NEW c \in CPU, WaitNone(p, c) PROVE Zombies'
  <2>8. Undisturbed
    BY <1>20 DEF WaitNone, Return, Undisturbed
  <2> QED
    BY <2>8, ZombiesKept
<1>21. ASSUME NEW p \in Slot, NEW c \in CPU, WaitSleep(p, c) PROVE Zombies'
  <2>1. /\ pc[p] = "scan" /\ cur[c] = p /\ idx[p] > NPROC /\ pc'[p] = "sleep"
        /\ \A q \in Slot : q # p => pc'[q] = pc[q]
        /\ UNCHANGED <<state, parent, chan, jdx>>
    BY <1>21 DEF WaitSleep
  <2>2. \A x \in Slot : pc[x] \in WaitLocked => x = p
    BY <2>1, WaitLockAlone DEF WaitLocked
  <2>3. \A q \in Slot : Dozing(q)' <=> Dozing(q)
    BY <2>1
  <2>4. ASSUME NEW q \in Slot, state'[q] = "SLEEPING" PROVE chan'[q] = q
    BY <2>1, <2>4 DEF Zombies
  <2>5. ASSUME NEW r \in Slot, NEW q \in Slot, parent'[q] = r, state'[q] = "ZOMBIE"
        PROVE  /\ Dozing(r)' => /\ r = initproc
                                /\ \E x \in Slot : pc'[x] = "wakeinit" /\ jdx'[x] <= initproc
               /\ pc'[r] = "scan" => q >= idx'[r]
               /\ pc'[r] # "sleep"
    <3>1. parent[q] = r /\ state[q] = "ZOMBIE"
      BY <2>1, <2>5
    <3>2. ~Dozing(r)
      BY <2>1, <2>2, <3>1 DEF Zombies, WaitLocked
    <3>3. r # p
      <4>1. q <= NPROC /\ q \in Nat /\ idx[p] \in Nat
        OBVIOUS
      <4> QED
        BY <2>1, <3>1, <4>1 DEF Zombies
    <3>4. pc'[r] \notin {"scan", "sleep"}
      BY <2>1, <2>2, <3>3 DEF WaitLocked
    <3> QED
      BY <2>3, <3>2, <3>4
  <2>6. ASSUME NEW r \in Slot, NEW q \in Slot, parent'[q] = r,
               pc'[q] = "zombie" \/ (pc'[q] = "wakeparent" /\ jdx'[q] > r)
        PROVE  ~Dozing(r)'
    BY <2>1, <2>3, <2>6 DEF Zombies
  <2> QED
    BY <2>4, <2>5, <2>6 DEF Zombies
<1>22. ASSUME NEW p \in Slot, NEW c \in CPU, Sleep(p, c) PROVE Zombies'
  <2>1. /\ pc[p] = "sleep" /\ cur[c] = p /\ pc'[p] = "dosleep"
        /\ \A q \in Slot : q # p => pc'[q] = pc[q]
        /\ UNCHANGED <<state, parent, chan, jdx>>
    BY <1>22 DEF Sleep
  <2>2. \A x \in Slot : pc[x] \in WaitLocked => x = p
    BY <2>1, WaitLockAlone DEF WaitLocked
  <2>3. \A q \in Slot : q # p => (Dozing(q)' <=> Dozing(q))
    BY <2>1
  <2>4. \A q \in Slot : pc'[q] \notin {"scan", "sleep", "zombie", "wakeparent"}
    BY <2>1, <2>2 DEF WaitLocked
  <2>5. ASSUME NEW q \in Slot, state'[q] = "SLEEPING" PROVE chan'[q] = q
    BY <2>1, <2>5 DEF Zombies
  <2>6. ASSUME NEW r \in Slot, NEW q \in Slot, parent'[q] = r, state'[q] = "ZOMBIE"
        PROVE  /\ Dozing(r)' => /\ r = initproc
                                /\ \E x \in Slot : pc'[x] = "wakeinit" /\ jdx'[x] <= initproc
               /\ pc'[r] = "scan" => q >= idx'[r]
               /\ pc'[r] # "sleep"
    <3>1. parent[q] = r /\ state[q] = "ZOMBIE"
      BY <2>1, <2>6
    <3>2. r # p
      BY <2>1, <3>1 DEF Zombies
    <3>3. ~Dozing(r)
      BY <2>1, <2>2, <3>1 DEF Zombies, WaitLocked
    <3> QED
      BY <2>3, <2>4, <3>2, <3>3
  <2>7. ASSUME NEW r \in Slot, NEW q \in Slot, parent'[q] = r,
               pc'[q] = "zombie" \/ (pc'[q] = "wakeparent" /\ jdx'[q] > r)
        PROVE  ~Dozing(r)'
    BY <2>4, <2>7
  <2> QED
    BY <2>5, <2>6, <2>7 DEF Zombies
<1>23. ASSUME NEW p \in Slot, NEW c \in CPU, DoSleep(p, c) PROVE Zombies'
  <2>1. /\ pc[p] = "dosleep" /\ cur[c] = p /\ pc'[p] = "sched" /\ chan'[p] = p
        /\ state[p] = "RUNNING" /\ state'[p] = "SLEEPING"
        /\ \A q \in Slot : q # p => pc'[q] = pc[q] /\ chan'[q] = chan[q] /\ state'[q] = state[q]
        /\ UNCHANGED <<parent, idx, jdx>>
    BY <1>23 DEF DoSleep
  <2>2. \A q \in Slot : Dozing(q)' <=> Dozing(q)
    BY <2>1
  <2>3. ASSUME NEW q \in Slot, state'[q] = "SLEEPING" PROVE chan'[q] = q
    BY <2>1, <2>3 DEF Zombies
  <2>4. ASSUME NEW r \in Slot, NEW q \in Slot, parent'[q] = r, state'[q] = "ZOMBIE"
        PROVE  /\ Dozing(r)' => /\ r = initproc
                                /\ \E x \in Slot : pc'[x] = "wakeinit" /\ jdx'[x] <= initproc
               /\ pc'[r] = "scan" => q >= idx'[r]
               /\ pc'[r] # "sleep"
    <3>1. parent[q] = r /\ state[q] = "ZOMBIE"
      BY <2>1, <2>4
    <3>2. ASSUME Dozing(r)'
          PROVE  r = initproc /\ \E x \in Slot : pc'[x] = "wakeinit" /\ jdx'[x] <= initproc
      <4>1. r = initproc
        BY <2>2, <3>1, <3>2 DEF Zombies
      <4>2. PICK x \in Slot : pc[x] = "wakeinit" /\ jdx[x] <= initproc
        BY <2>2, <3>1, <3>2 DEF Zombies
      <4>3. pc'[x] = "wakeinit" /\ jdx'[x] <= initproc
        BY <2>1, <4>2
      <4> QED
        BY <4>1, <4>3
    <3>3. (pc'[r] = "scan" => q >= idx'[r]) /\ pc'[r] # "sleep"
      BY <2>1, <3>1 DEF Zombies
    <3> QED
      BY <3>2, <3>3
  <2>5. ASSUME NEW r \in Slot, NEW q \in Slot, parent'[q] = r,
               pc'[q] = "zombie" \/ (pc'[q] = "wakeparent" /\ jdx'[q] > r)
        PROVE  ~Dozing(r)'
    BY <2>1, <2>2, <2>5 DEF Zombies
  <2> QED
    BY <2>3, <2>4, <2>5 DEF Zombies
<1>24. ASSUME NEW p \in Slot, NEW c \in CPU, CallFork(p, c) PROVE Zombies'
  <2>8. Undisturbed
    BY <1>24 DEF CallFork, Undisturbed
  <2> QED
    BY <2>8, ZombiesKept
<1>25. ASSUME NEW p \in Slot, NEW c \in CPU, CallWait(p, c) PROVE Zombies'
  <2>8. Undisturbed
    BY <1>25 DEF CallWait, Undisturbed
  <2> QED
    BY <2>8, ZombiesKept
<1>26. ASSUME NEW p \in Slot, NEW c \in CPU, CallExit(p, c) PROVE Zombies'
  <2>8. Undisturbed
    BY <1>26 DEF CallExit, Undisturbed
  <2> QED
    BY <2>8, ZombiesKept
<1>27. ASSUME NEW p \in Slot, NEW c \in CPU, NEW q \in Slot, Kill(p, c, q) PROVE Zombies'
  <2>8. Undisturbed
    BY <1>27 DEF Kill, Undisturbed
  <2> QED
    BY <2>8, ZombiesKept
<1> QED
  BY <1>1, <1>2, <1>3, <1>4, <1>5, <1>6, <1>7, <1>8, <1>9, <1>10, <1>11,
     <1>12, <1>13, <1>14, <1>15, <1>16, <1>17, <1>18, <1>19, <1>20, <1>21,
     <1>22, <1>23, <1>24, <1>25, <1>26, <1>27 DEF Next, Switch, Syscall

-----------------------------------------------------------------------------
LEMMA InitInv == Init => IInv
<1> SUFFICES ASSUME Init PROVE IInv
  OBVIOUS
<1> USE Constants DEF Init
<1>1. TypeOK
  BY DEF TypeOK, States, PC
<1>2. Stacks /\ LockHeld
  BY DEF Stacks, LockHeld
<1>3. Returns /\ Loops /\ Forks
  BY DEF Returns, Loops, Forks, Place, Looping, ForkPC, Alive
<1>4. Family /\ Zombies
  BY DEF Family, Zombies, Place, Exiting, Alive, Dozing
<1> QED
  BY <1>1, <1>2, <1>3, <1>4 DEF IInv

LEMMA StepInv == IInv /\ [Next]_vars => IInv'
<1> SUFFICES ASSUME IInv, [Next]_vars PROVE IInv'
  OBVIOUS
<1>1. CASE Next
  BY <1>1, TypeOKStep, StacksStep, LockHeldStep, ReturnsStep, LoopsStep, ForksStep,
     FamilyStep, ZombiesStep DEF IInv
<1>2. CASE UNCHANGED vars
  <2> USE <1>2 DEF vars, table, locks, cpus, local, IInv
  <2>1. TypeOK'
    BY DEF TypeOK
  <2>2. Stacks' /\ LockHeld'
    BY DEF Stacks, LockHeld, Alive, WaitLocked
  <2>3. Returns' /\ Loops' /\ Forks'
    BY DEF Returns, Loops, Forks, Place, Alive
  <2>4. Family'
    BY DEF Family, Place, Alive
  <2>5. Zombies'
    BY DEF Zombies, Dozing
  <2> QED
    BY <2>1, <2>2, <2>3, <2>4, <2>5
<1> QED
  BY <1>1, <1>2

(* The invariant holds of every behaviour, with any number of slots and     *)
(* harts and with preemption wherever no lock is held.                      *)
THEOREM Invariant == Spec => []IInv
  BY InitInv, StepInv, PTL DEF Spec

(* The process table and the state of the CPUs stay well typed.             *)
THEOREM TypeCorrect == Spec => []TypeOK
<1>1. IInv => TypeOK
  BY DEF IInv
<1> QED
  BY <1>1, Invariant, PTL

LEMMA StacksSafe == IInv => OneCpuPerStack /\ SchedDiscipline
<1> SUFFICES ASSUME IInv PROVE OneCpuPerStack /\ SchedDiscipline
  OBVIOUS
<1> USE Constants DEF IInv
<1>1. OneCpuPerStack
  <2>1. ASSUME NEW c \in CPU, NEW d \in CPU, cur[c] # None, cur[c] = cur[d] PROVE c = d
    <3>1. PICK p \in Slot : cur[c] = p /\ cur[d] = p
      BY <2>1 DEF TypeOK
    <3> QED
      BY <3>1, Here
  <2>2. ASSUME NEW c \in CPU, cur[c] # None
        PROVE  state[cur[c]] = "RUNNING" \/ plock[cur[c]] = c
    <3>1. PICK p \in Slot : cur[c] = p
      BY <2>2 DEF TypeOK
    <3> QED
      BY <3>1, Here
  <2> QED
    BY <2>1, <2>2 DEF OneCpuPerStack
<1>2. ASSUME NEW p \in Slot, NEW c \in CPU, At(p, c, "sched")
      PROVE  {q \in Slot : plock[q] = c} = {p} /\ wlock # c
  <2>1. cproc[c] = p /\ plock[p] = c /\ cur[c] = p /\ pc[p] = "sched"
    BY <1>2, Here DEF At
  <2>2. ASSUME NEW q \in Slot, plock[q] = c PROVE q = p
    <3>1. \/ cproc[c] = q
          \/ \E r \in Slot : cur[c] = r /\ pc[r] = "copy"
      BY <2>2 DEF LockHeld
    <3> QED
      BY <2>1, <3>1
  <2>3. wlock # c
    BY <2>1 DEF LockHeld, WaitLocked
  <2> QED
    BY <2>1, <2>2, <2>3
<1> QED
  BY <1>1, <1>2 DEF SchedDiscipline

(* A kernel stack is run by one CPU at a time, and a CPU that enters sched  *)
(* holds the lock of its process and no other: the hand-over of p->lock     *)
(* through swtch is sound, and sched cannot panic.                          *)
THEOREM StacksAndLocks == Spec => []KernelStacks
<1>1. IInv => KernelStacks
  BY StacksSafe DEF KernelStacks, IInv
<1> QED
  BY <1>1, Invariant, PTL

LEMMA ChildrenSafe == IInv => NoLostWakeup /\ NoOrphan /\ NoSlotLeak
<1> SUFFICES ASSUME IInv PROVE NoLostWakeup /\ NoOrphan /\ NoSlotLeak
  OBVIOUS
<1> USE Constants DEF IInv
<1>1. ASSUME wlock = NoCpu, NEW x \in Slot PROVE pc[x] \notin WaitLocked
  <2>1. ASSUME pc[x] \in WaitLocked PROVE FALSE
    <3>1. PICK c \in CPU : cur[c] = x
      BY <2>1 DEF Stacks, WaitLocked
    <3>2. wlock = c
      BY <2>1, <3>1 DEF LockHeld
    <3> QED
      BY <1>1, <3>2
  <2> QED
    BY <2>1
<1>2. NoLostWakeup
  <2>1. ASSUME wlock = NoCpu, NEW p \in Slot, NEW q \in Slot,
               state[p] = "SLEEPING", parent[q] = p, state[q] = "ZOMBIE"
        PROVE  FALSE
    BY <1>1, <2>1 DEF Zombies, Dozing, WaitLocked
  <2> QED
    BY <2>1 DEF NoLostWakeup
<1>3. NoOrphan
  BY DEF NoOrphan, Family
<1>4. NoSlotLeak
  <2>1. ASSUME NEW q \in Slot, state[q] = "USED"
        PROVE  \E p \in Slot : Alive(p) /\ Forking(p, q)
    <3>1. PICK p \in Slot : Place(p) \in ForkPC /\ idx[p] = q
      BY <2>1 DEF Forks
    <3>2. Alive(p)
      BY <3>1 DEF Returns, Place, ForkPC
    <3>3. ret[p] # "copy"
      BY DEF Returns, Unlocked
    <3> QED
      BY <3>1, <3>2, <3>3 DEF Forking, Place, ForkPC
  <2> QED
    BY <2>1 DEF NoSlotLeak
<1> QED
  BY <1>2, <1>3, <1>4

(* No exit is missed by a parent asleep in wait, its own child's or one it  *)
(* inherited; whoever can run or is a zombie has a living parent; and a     *)
(* slot that is USED belongs to a fork in progress.                         *)
THEOREM ChildrenSound == Spec => []ChildrenKept
<1>1. IInv => ChildrenKept
  BY ChildrenSafe DEF ChildrenKept
<1> QED
  BY <1>1, Invariant, PTL
===============================================================================
