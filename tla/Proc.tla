-------------------------------- MODULE Proc --------------------------------
(***************************************************************************)
(* The process table and the round-robin scheduler (kernel/proc.c): fork,  *)
(* exit, wait, kill, yield, sleep, wakeup, sched and scheduler, run by      *)
(* several CPUs that switch between kernel threads.                         *)
(*                                                                         *)
(* A lock is taken and dropped in one step (module Spinlock shows that it   *)
(* may be seen so).  A critical section that takes one p->lock and no other *)
(* lock is one step, enabled when the lock is free; the sections that       *)
(* overlap others keep their locks over several steps: wait_lock in exit    *)
(* and wait, np->lock while fork copies memory, and above all the p->lock   *)
(* that travels from one kernel thread to another across swtch.             *)
(***************************************************************************)
EXTENDS Naturals, FiniteSets

CONSTANTS NPROC,        \* slots of the process table
          CPU,          \* the harts
          NoCpu,        \* lk->cpu of a free lock
          Preemptible   \* where a timer interrupt may find kernel code

(* The points at which kernel code holds no lock.                           *)
Unlocked == {"fork", "setparent", "setrun", "exit", "wait"}

ASSUME ProcAssumption == /\ NPROC \in Nat \ {0}
                         /\ NoCpu \notin CPU
                         /\ Preemptible \subseteq Unlocked

Slot == 1..NPROC
None == 0                \* a null struct proc *
initproc == 1            \* userinit takes the first slot

VARIABLES state, chan, killed, parent,  \* the fields of struct proc
          plock,    \* the CPU that holds p->lock, or NoCpu
          wlock,    \* the CPU that holds wait_lock, or NoCpu
          cproc,    \* c->proc
          cur,      \* whose kernel stack c executes on; None: its scheduler
          pc,       \* where each process is in its kernel code
          idx,      \* its loop variable pp; in fork, np
          jdx,      \* the loop variable of the wakeup it calls
          ret       \* where it goes on when sched returns

table == <<state, chan, killed, parent>>
locks == <<plock, wlock>>
cpus  == <<cproc, cur>>
local == <<pc, idx, jdx, ret>>
vars  == <<table, locks, cpus, local>>

States == {"UNUSED", "USED", "SLEEPING", "RUNNABLE", "RUNNING", "ZOMBIE"}

PC == {"user", "sched", "slept", "fork", "copy", "setparent", "setrun",
       "exit", "reparent", "wakeinit", "wakeparent", "zombie",
       "wait", "scan", "sleep", "dosleep"}

At(p, c, s) == cur[c] = p /\ pc[p] = s
Goto(p, s) == pc' = [pc EXCEPT ![p] = s]
(* Back to user mode.  A loop variable is reset when its loop is left.      *)
Return(p) == Goto(p, "user") /\ idx' = [idx EXCEPT ![p] = 1]
Free(p) == plock[p] = NoCpu
HasKids(p) == \E q \in Slot : parent[q] = p

(* userinit: the first process is runnable, its context set to forkret.     *)
Init == /\ state = [p \in Slot |-> IF p = initproc THEN "RUNNABLE" ELSE "UNUSED"]
        /\ chan = [p \in Slot |-> None]
        /\ killed = [p \in Slot |-> FALSE]
        /\ parent = [p \in Slot |-> None]
        /\ plock = [p \in Slot |-> NoCpu]
        /\ wlock = NoCpu
        /\ cproc = [c \in CPU |-> None]
        /\ cur = [c \in CPU |-> None]
        /\ pc = [p \in Slot |-> "sched"]
        /\ idx = [p \in Slot |-> 1]
        /\ jdx = [p \in Slot |-> 1]
        /\ ret = [p \in Slot |-> "user"]

-----------------------------------------------------------------------------
(* scheduler(): the loop over the table.  Between two turns of the loop     *)
(* anything may happen to the slots it has passed, so any runnable slot may *)
(* be the next it finds; that it gets round to each is left to fairness.    *)
(* The winner's lock stays held over swtch; the process releases it         *)
(* (Resume) and takes it again before it comes back (SchedBack).            *)
SchedRun(c, p) ==
    /\ cur[c] = None /\ cproc[c] = None
    /\ Free(p) /\ state[p] = "RUNNABLE"
    /\ plock' = [plock EXCEPT ![p] = c]
    /\ state' = [state EXCEPT ![p] = "RUNNING"]
    /\ cproc' = [cproc EXCEPT ![c] = p]
    /\ cur' = [cur EXCEPT ![c] = p]
    /\ UNCHANGED <<chan, killed, parent, wlock, local>>

SchedBack(c) ==
    /\ cur[c] = None /\ cproc[c] # None
    /\ cproc' = [cproc EXCEPT ![c] = None]
    /\ plock' = [plock EXCEPT ![cproc[c]] = NoCpu]
    /\ UNCHANGED <<table, wlock, cur, local>>

(* sched(): swtch to the CPU's scheduler, p->lock still held.               *)
SwitchOut(p, c) ==
    /\ At(p, c, "sched") /\ state[p] # "RUNNING"
    /\ cur' = [cur EXCEPT ![c] = None]
    /\ UNCHANGED <<table, locks, cproc, local>>

(* What follows swtch in yield, sleep and forkret: the tidying of sleep and *)
(* the release of p->lock.                                                  *)
Resume(p, c) ==
    /\ At(p, c, "sched") /\ state[p] = "RUNNING"
    /\ chan' = IF ret[p] = "slept" THEN [chan EXCEPT ![p] = None] ELSE chan
    /\ plock' = [plock EXCEPT ![p] = NoCpu]
    /\ Goto(p, IF ret[p] = "slept" THEN "wait" ELSE ret[p])
    /\ ret' = [ret EXCEPT ![p] = "user"]
    /\ UNCHANGED <<state, killed, parent, wlock, cpus, idx, jdx>>

-----------------------------------------------------------------------------
(* Timer interrupts.  In user mode usertrap looks at killed before it       *)
(* yields; in the kernel kerneltrap yields wherever interrupts are enabled, *)
(* which is wherever no lock is held.                                       *)

(* p->lock from before the switch to after it, and the mistake of letting   *)
(* it go before swtch.                                                      *)
DropBeforeSwitch(p, c) == plock
HoldOverSwitch(p, c) == [plock EXCEPT ![p] = c]

Yield(p, c) ==
    /\ \/ At(p, c, "user") /\ ~killed[p]
       \/ cur[c] = p /\ pc[p] \in Preemptible
    /\ Free(p)
    /\ plock' = HoldOverSwitch(p, c)
    /\ state' = [state EXCEPT ![p] = "RUNNABLE"]
    /\ ret' = [ret EXCEPT ![p] = pc[p]]
    /\ Goto(p, "sched")
    /\ UNCHANGED <<chan, killed, parent, wlock, cpus, idx, jdx>>

(* System calls start when usertrap finds the process not killed; a killed  *)
(* process exits at its next trap.  init never exits (it would panic).      *)
CallFork(p, c) ==
    /\ At(p, c, "user") /\ ~killed[p]
    /\ Goto(p, "fork")
    /\ UNCHANGED <<table, locks, cpus, idx, jdx, ret>>

CallWait(p, c) ==
    /\ At(p, c, "user") /\ ~killed[p]
    /\ Goto(p, "wait")
    /\ UNCHANGED <<table, locks, cpus, idx, jdx, ret>>

CallExit(p, c) ==
    /\ At(p, c, "user") /\ p # initproc
    /\ Goto(p, "exit")
    /\ UNCHANGED <<table, locks, cpus, idx, jdx, ret>>

-----------------------------------------------------------------------------
(* kill(pid) stops at the first slot with that pid.  A pid of 0 names the   *)
(* slots that are not in use.  User programs do not kill init.              *)
KillTarget(q) == /\ q # initproc
                 /\ state[q] = "UNUSED" => \A r \in 1..(q - 1) : state[r] # "UNUSED"

Kill(p, c, q) ==
    /\ At(p, c, "user") /\ ~killed[p]
    /\ Free(q) /\ KillTarget(q)
    /\ killed' = [killed EXCEPT ![q] = TRUE]
    /\ state' = IF state[q] = "SLEEPING"
                THEN [state EXCEPT ![q] = "RUNNABLE"] ELSE state
    /\ UNCHANGED <<chan, parent, locks, cpus, local>>

-----------------------------------------------------------------------------
(* fork(): allocproc's scan ...                                             *)
ForkScan(p, c) ==
    /\ At(p, c, "fork")
    /\ IF idx[p] > NPROC
       THEN Return(p) /\ UNCHANGED <<state, plock>>
       ELSE /\ Free(idx[p])
            /\ IF state[idx[p]] = "UNUSED"
               THEN /\ state' = [state EXCEPT ![idx[p]] = "USED"]
                    /\ plock' = [plock EXCEPT ![idx[p]] = c]
                    /\ Goto(p, "copy")
                    /\ UNCHANGED idx
               ELSE /\ idx' = [idx EXCEPT ![p] = @ + 1]
                    /\ UNCHANGED <<state, plock, pc>>
    /\ UNCHANGED <<chan, killed, parent, wlock, cpus, jdx, ret>>

(* freeproc(q).                                                             *)
FreeProc(q) ==
    /\ state' = [state EXCEPT ![q] = "UNUSED"]
    /\ chan' = [chan EXCEPT ![q] = None]
    /\ killed' = [killed EXCEPT ![q] = FALSE]
    /\ parent' = [parent EXCEPT ![q] = None]

(* ... an allocation that fails (kalloc, proc_pagetable or uvmcopy) ...     *)
ForkFail(p, c) ==
    /\ At(p, c, "copy")
    /\ FreeProc(idx[p])
    /\ plock' = [plock EXCEPT ![idx[p]] = NoCpu]
    /\ Return(p)
    /\ UNCHANGED <<wlock, cpus, jdx, ret>>

(* ... or the copy done, np->lock released, the parent set under wait_lock  *)
(* and the child made runnable under its own lock.                          *)
ForkCopy(p, c) ==
    /\ At(p, c, "copy")
    /\ plock' = [plock EXCEPT ![idx[p]] = NoCpu]
    /\ pc' = [pc EXCEPT ![p] = "setparent", ![idx[p]] = "sched"]
    /\ ret' = [ret EXCEPT ![idx[p]] = "user"]
    /\ UNCHANGED <<table, wlock, cpus, idx, jdx>>

ForkSetParent(p, c) ==
    /\ At(p, c, "setparent") /\ wlock = NoCpu
    /\ parent' = [parent EXCEPT ![idx[p]] = p]
    /\ Goto(p, "setrun")
    /\ UNCHANGED <<state, chan, killed, locks, cpus, idx, jdx, ret>>

ForkSetRunnable(p, c) ==
    /\ At(p, c, "setrun") /\ Free(idx[p])
    /\ state' = [state EXCEPT ![idx[p]] = "RUNNABLE"]
    /\ Return(p)
    /\ UNCHANGED <<chan, killed, parent, locks, cpus, jdx, ret>>

-----------------------------------------------------------------------------
(* exit(): under wait_lock, give the children to init and wake the parent.  *)
Exit(p, c) ==
    /\ At(p, c, "exit") /\ wlock = NoCpu
    /\ wlock' = c
    /\ Goto(p, "reparent")
    /\ UNCHANGED <<table, plock, cpus, idx, jdx, ret>>

Child(p, q) == parent[q] = p
AfterAdoption(p) == "wakeinit"

Reparent(p, c) ==
    /\ At(p, c, "reparent")
    /\ IF idx[p] > NPROC
       THEN /\ Goto(p, "wakeparent")
            /\ idx' = [idx EXCEPT ![p] = 1]
            /\ UNCHANGED parent
       ELSE IF Child(p, idx[p])
       THEN /\ parent' = [parent EXCEPT ![idx[p]] = initproc]
            /\ Goto(p, AfterAdoption(p))
            /\ UNCHANGED idx
       ELSE /\ idx' = [idx EXCEPT ![p] = @ + 1]
            /\ UNCHANGED <<parent, pc>>
    /\ UNCHANGED <<state, chan, killed, locks, cpus, jdx, ret>>

(* One turn of wakeup(ch): it skips the caller.                             *)
WakeOne(p, ch) ==
    LET q == jdx[p] IN
    /\ q # p => Free(q)
    /\ state' = IF q # p /\ state[q] = "SLEEPING" /\ chan[q] = ch
                THEN [state EXCEPT ![q] = "RUNNABLE"] ELSE state
    /\ jdx' = [jdx EXCEPT ![p] = @ + 1]

WakeInit(p, c) ==
    /\ At(p, c, "wakeinit")
    /\ IF jdx[p] > NPROC
       THEN /\ Goto(p, "reparent")
            /\ idx' = [idx EXCEPT ![p] = @ + 1]
            /\ jdx' = [jdx EXCEPT ![p] = 1]
            /\ UNCHANGED state
       ELSE WakeOne(p, initproc) /\ UNCHANGED <<pc, idx>>
    /\ UNCHANGED <<chan, killed, parent, locks, cpus, ret>>

(* wakeup(p->parent), and the mistake of waking p's own channel.            *)
OwnChannel(p) == p
ExitChannel(p) == parent[p]

WakeParent(p, c) ==
    /\ At(p, c, "wakeparent")
    /\ IF jdx[p] > NPROC
       THEN /\ Goto(p, "zombie")
            /\ jdx' = [jdx EXCEPT ![p] = 1]
            /\ UNCHANGED state
       ELSE WakeOne(p, ExitChannel(p)) /\ UNCHANGED pc
    /\ UNCHANGED <<chan, killed, parent, locks, cpus, idx, ret>>

(* p->lock is held until SchedBack, so that wait cannot free this stack.    *)
Zombie(p, c) ==
    /\ At(p, c, "zombie") /\ Free(p)
    /\ plock' = [plock EXCEPT ![p] = c]
    /\ state' = [state EXCEPT ![p] = "ZOMBIE"]
    /\ wlock' = NoCpu
    /\ Goto(p, "sched")
    /\ UNCHANGED <<chan, killed, parent, cpus, idx, jdx, ret>>

-----------------------------------------------------------------------------
(* wait() and waitx(): scan for a zombie child under wait_lock.             *)
Wait(p, c) ==
    /\ At(p, c, "wait") /\ wlock = NoCpu
    /\ wlock' = c
    /\ Goto(p, "scan")
    /\ UNCHANGED <<table, plock, cpus, idx, jdx, ret>>

WaitSkip(p, c) ==
    /\ At(p, c, "scan") /\ idx[p] <= NPROC
    /\ parent[idx[p]] = p => Free(idx[p]) /\ state[idx[p]] # "ZOMBIE"
    /\ idx' = [idx EXCEPT ![p] = @ + 1]
    /\ UNCHANGED <<table, locks, cpus, pc, jdx, ret>>

(* acquire(&pp->lock).                                                      *)
ChildLocked(q) == Free(q)

FoundZombie(p, c) == /\ At(p, c, "scan") /\ idx[p] <= NPROC
                     /\ parent[idx[p]] = p
                     /\ ChildLocked(idx[p]) /\ state[idx[p]] = "ZOMBIE"

WaitReap(p, c) ==
    /\ FoundZombie(p, c)
    /\ FreeProc(idx[p])
    /\ wlock' = NoCpu
    /\ Return(p)
    /\ UNCHANGED <<plock, cpus, jdx, ret>>

(* copyout to a bad address.  init passes 0, for which nothing is copied;   *)
(* and the mistake of not looking at that.                                  *)
AlwaysCopies(p) == TRUE
Copies(p) == p # initproc

WaitFault(p, c) ==
    /\ FoundZombie(p, c) /\ Copies(p)
    /\ wlock' = NoCpu
    /\ Return(p)
    /\ UNCHANGED <<table, plock, cpus, jdx, ret>>

(* killed(p), and the mistake of not looking.                               *)
NeverDying(p) == FALSE
Dying(p) == killed[p]

WaitNone(p, c) ==
    /\ At(p, c, "scan") /\ idx[p] > NPROC
    /\ \/ ~HasKids(p)
       \/ Free(p) /\ Dying(p)
    /\ wlock' = NoCpu
    /\ Return(p)
    /\ UNCHANGED <<table, plock, cpus, jdx, ret>>

WaitSleep(p, c) ==
    /\ At(p, c, "scan") /\ idx[p] > NPROC
    /\ HasKids(p) /\ Free(p) /\ ~Dying(p)
    /\ Goto(p, "sleep")
    /\ idx' = [idx EXCEPT ![p] = 1]
    /\ UNCHANGED <<table, locks, cpus, jdx, ret>>

(* sleep(p, &wait_lock): p->lock first, then the caller's lock goes.        *)
Sleep(p, c) ==
    /\ At(p, c, "sleep") /\ Free(p)
    /\ plock' = [plock EXCEPT ![p] = c]
    /\ wlock' = NoCpu
    /\ Goto(p, "dosleep")
    /\ UNCHANGED <<table, cpus, idx, jdx, ret>>

(* The channel is p itself, not its parent.                                 *)
DoSleep(p, c) ==
    /\ At(p, c, "dosleep")
    /\ chan' = [chan EXCEPT ![p] = p]
    /\ state' = [state EXCEPT ![p] = "SLEEPING"]
    /\ ret' = [ret EXCEPT ![p] = "slept"]
    /\ Goto(p, "sched")
    /\ UNCHANGED <<killed, parent, locks, cpus, idx, jdx>>

-----------------------------------------------------------------------------
(* The steps of the system call a process is in.                            *)
Syscall(p, c) ==
    \/ ForkScan(p, c) \/ ForkFail(p, c) \/ ForkCopy(p, c)
    \/ ForkSetParent(p, c) \/ ForkSetRunnable(p, c)
    \/ Exit(p, c) \/ Reparent(p, c) \/ WakeInit(p, c) \/ WakeParent(p, c)
    \/ Zombie(p, c)
    \/ Wait(p, c) \/ WaitSkip(p, c) \/ WaitReap(p, c) \/ WaitFault(p, c)
    \/ WaitNone(p, c) \/ WaitSleep(p, c) \/ Sleep(p, c) \/ DoSleep(p, c)

Switch(p, c) == SwitchOut(p, c) \/ Resume(p, c)

Next == \/ \E c \in CPU : SchedBack(c)
        \/ \E p \in Slot, c \in CPU :
              \/ SchedRun(c, p) \/ Switch(p, c) \/ Yield(p, c)
              \/ Syscall(p, c) \/ CallFork(p, c) \/ CallWait(p, c)
              \/ CallExit(p, c)
              \/ \E q \in Slot : Kill(p, c, q)

Spec == Init /\ [][Next]_vars

(* A CPU keeps executing; its scheduler's loop gets round to every runnable *)
(* slot; timer interrupts keep preempting whoever runs, but a time slice is *)
(* many steps long, so each system call advances all the same; and init's   *)
(* loop (user/init.c) comes back to wait.                                   *)
CpuStep(c) == \/ SchedBack(c)
              \/ \E p \in Slot : \/ SchedRun(c, p) \/ Switch(p, c)
                                 \/ Syscall(p, c) \/ Yield(p, c)
                                 \/ killed[p] /\ CallExit(p, c)

Fairness ==
    \A c \in CPU :
       /\ WF_vars(CpuStep(c))
       /\ \A p \in Slot : SF_vars(SchedRun(c, p)) /\ SF_vars(Syscall(p, c))
       /\ SF_vars(\E p \in Slot : Yield(p, c))
       /\ SF_vars(CallWait(initproc, c))

FairSpec == Spec /\ Fairness

-----------------------------------------------------------------------------
TypeOK == /\ state \in [Slot -> States]
          /\ chan \in [Slot -> Slot \cup {None}]
          /\ \A p \in Slot : chan[p] \in {None, p}
          /\ killed \in [Slot -> BOOLEAN]
          /\ parent \in [Slot -> Slot \cup {None}]
          /\ plock \in [Slot -> CPU \cup {NoCpu}]
          /\ wlock \in CPU \cup {NoCpu}
          /\ cproc \in [CPU -> Slot \cup {None}]
          /\ cur \in [CPU -> Slot \cup {None}]
          /\ pc \in [Slot -> PC]
          /\ idx \in [Slot -> 1..(NPROC + 1)]
          /\ jdx \in [Slot -> 1..(NPROC + 1)]
          /\ ret \in [Slot -> PC]

(* A kernel stack never carries two CPUs, and a process that is runnable or *)
(* asleep is off its stack unless its lock is still held for the switch.    *)
OneCpuPerStack ==
    /\ \A c, d \in CPU : cur[c] # None /\ cur[c] = cur[d] => c = d
    /\ \A c \in CPU : cur[c] # None =>
          state[cur[c]] = "RUNNING" \/ plock[cur[c]] = c

(* sched's panics: a switching process holds its own lock and nothing else. *)
SchedDiscipline ==
    \A p \in Slot, c \in CPU : At(p, c, "sched") =>
        /\ {q \in Slot : plock[q] = c} = {p}
        /\ wlock # c

(* Once wait_lock is free, no process sleeps in wait with a zombie child,   *)
(* its own or one it inherited.                                             *)
NoLostWakeup ==
    wlock = NoCpu =>
        \A p, q \in Slot :
            state[p] = "SLEEPING" /\ chan[p] = p /\ parent[q] = p =>
                state[q] # "ZOMBIE"

(* Every process that can run, and every zombie, has a parent that is alive *)
(* to wait for it.                                                          *)
Alive(p) == state[p] \in {"RUNNABLE", "RUNNING", "SLEEPING"}
NoOrphan ==
    wlock = NoCpu =>
        \A p \in Slot \ {initproc} : Alive(p) \/ state[p] = "ZOMBIE" =>
            parent[p] # None /\ Alive(parent[p])

(* A slot marked USED belongs to a fork in progress: none leaks.            *)
Forking(p, q) ==
    /\ idx[p] = q
    /\ \/ pc[p] \in {"copy", "setparent", "setrun"}
       \/ pc[p] = "sched" /\ ret[p] \in {"setparent", "setrun"}
NoSlotLeak == \A q \in Slot : state[q] = "USED" =>
                  \E p \in Slot : Alive(p) /\ Forking(p, q)

(* A kernel stack is run by one CPU at a time, and sched finds exactly the  *)
(* locks held that it demands, over every hand-over of p->lock.             *)
KernelStacks == TypeOK /\ OneCpuPerStack /\ SchedDiscipline

(* No exit is missed by a parent that sleeps in wait, no child is left      *)
(* without a parent that can wait for it, and no slot is lost.              *)
ChildrenKept == NoLostWakeup /\ NoOrphan /\ NoSlotLeak

(* A killed process dies, unless kill set the flag between wait's look at   *)
(* it and its sleep: then it may sleep until a child exits.                 *)
KillDelivered ==
    \A p \in Slot \ {initproc} :
        /\ killed[p] /\ Alive(p)
        /\ state[p] # "SLEEPING" /\ pc[p] \notin {"sleep", "dosleep"}
        ~> ~Alive(p)

(* init's loop never leaves the first of its zombies, in table order, where *)
(* it is.  (A later one may wait for ever if the earlier slot is reused and *)
(* is a zombie again each time init looks.)                                 *)
FirstZombie(p) ==
    /\ state[p] = "ZOMBIE" /\ parent[p] = initproc
    /\ \A q \in 1..(p - 1) : ~(state[q] = "ZOMBIE" /\ parent[q] = initproc)
InitReaps == \A p \in Slot \ {initproc} : []<>~FirstZombie(p)
===============================================================================
