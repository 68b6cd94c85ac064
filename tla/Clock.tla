-------------------------------- MODULE Clock --------------------------------
(***************************************************************************)
(* Ticks and what depends on them: the clock interrupt on hart 0, which    *)
(* charges running time to processes and wakes sleepers (trap.c, proc.c),  *)
(* sys_sleep, waitx, and the FCFS scheduler, which runs the process with   *)
(* the earliest creation tick and does not preempt it.                     *)
(*                                                                         *)
(* tickslock and the p->locks that are held from one step to another are   *)
(* variables; a section that takes one p->lock only is one step, enabled   *)
(* when the lock is free.  That wait_lock keeps fork, exit and waitx apart *)
(* is the subject of Proc; here the first process is everybody's parent,   *)
(* as in user/schedulertest.c.  ticks does not wrap.                       *)
(***************************************************************************)
EXTENDS Integers

CONSTANTS NPROC, NHARTS,
          Naps,      \* process -> the n it may give to sleep
          MaxTicks   \* bound

ClockConstants ==
    /\ NPROC \in Nat \ {0} /\ NHARTS \in Nat \ {0}
    /\ Naps \in [1 .. NPROC -> SUBSET Nat]

VARIABLES ticks,
          tickslock, \* the hart that holds it, or Nobody
          state, clktik, rtime, etime, killed,   \* fields of struct proc
          plock,     \* process -> the hart that holds its lock, or Nobody
          chan,      \* process -> what it sleeps on: "ticks", "child", ""
          nap,       \* process -> [at, ticks0, n]: where it is in sys_sleep
          hart,      \* hart -> [at, run, idx, min, min_time]
          clock,     \* clockintr: [at, idx]
          since      \* history: hart -> the processes runnable since its scan began

cvars == <<ticks, tickslock, state, clktik, rtime, etime, killed, plock, chan, nap, hart, clock, since>>

Slots  == 1 .. NPROC
Harts  == 0 .. NHARTS - 1
Nobody == -1
Parent == 1
Idle(at, p) == [at |-> at, run |-> p, idx |-> 1, min |-> 0, min_time |-> 0]
Awake  == [at |-> "user", ticks0 |-> 0, n |-> 0]

Init == /\ ticks = 0 /\ tickslock = Nobody
        /\ state = [p \in Slots |-> IF p = Parent THEN "RUNNABLE" ELSE "UNUSED"]
        /\ clktik = [p \in Slots |-> 0] /\ rtime = [p \in Slots |-> 0] /\ etime = [p \in Slots |-> 0]
        /\ killed = [p \in Slots |-> FALSE]
        /\ plock = [p \in Slots |-> Nobody]
        /\ chan = [p \in Slots |-> ""]
        /\ nap = [p \in Slots |-> Awake]
        /\ hart = [c \in Harts |-> Idle("sched", 0)]
        /\ clock = [at |-> "off", idx |-> 1]
        /\ since = [c \in Harts |-> {}]

-----------------------------------------------------------------------------
(* While clockintr runs, hart 0 does nothing else. *)

Free(p)  == plock[p] = Nobody
Works(c, at) == hart[c].at = at /\ ~ (c = 0 /\ clock.at # "off")

\* p runs on hart c, in user mode or in sys_sleep.
Runs(c, p, at) == Works(c, "run") /\ hart[c].run = p /\ nap[p].at = at

ToScheduler(c) == hart' = [hart EXCEPT ![c] = Idle("sched", 0)]

-----------------------------------------------------------------------------
(* scheduler, FCFS. *)

ScanStart(c) ==
    /\ Works(c, "sched")
    /\ hart' = [hart EXCEPT ![c].at = "scan", ![c].idx = 1, ![c].min = 0, ![c].min_time = ticks + 1]
    /\ since' = [since EXCEPT ![c] = {p \in Slots : state[p] = "RUNNABLE"}]
    /\ UNCHANGED <<ticks, tickslock, state, clktik, rtime, etime, killed, plock, chan, nap, clock>>

\* Mutant: the last candidate wins.
AnyTime(c, p) == state[p] = "RUNNABLE"

Earlier(c, p) == state[p] = "RUNNABLE" /\ clktik[p] < hart[c].min_time

\* The candidate's lock is held while the locks of later processes are taken.
ScanLook(c) ==
    LET p == hart[c].idx
        m == hart[c].min
    IN  /\ Works(c, "scan") /\ p \in Slots /\ Free(p)
        /\ IF Earlier(c, p)
           THEN /\ plock' = [q \in Slots |-> IF q = p THEN c ELSE IF q = m THEN Nobody ELSE plock[q]]
                /\ hart' = [hart EXCEPT ![c].idx = @ + 1, ![c].min = p, ![c].min_time = clktik[p]]
           ELSE hart' = [hart EXCEPT ![c].idx = @ + 1] /\ UNCHANGED plock
        /\ UNCHANGED <<ticks, tickslock, state, clktik, rtime, etime, killed, chan, nap, clock, since>>

\* swtch to the candidate, which releases its lock.
ScanEnd(c) ==
    LET m == hart[c].min IN
    /\ Works(c, "scan") /\ hart[c].idx > NPROC
    /\ IF m = 0 THEN ToScheduler(c) /\ UNCHANGED <<state, plock>>
       ELSE /\ state' = [state EXCEPT ![m] = "RUNNING"]
            /\ plock' = [plock EXCEPT ![m] = Nobody]
            /\ hart' = [hart EXCEPT ![c] = Idle("run", m)]
    /\ since' = [d \in Harts |-> IF d = c THEN {} ELSE since[d] \ {m}]
    /\ UNCHANGED <<ticks, tickslock, clktik, rtime, etime, killed, chan, nap, clock>>

-----------------------------------------------------------------------------
(* fork, exit, waitx, kill. *)

\* allocproc keeps the new process's lock while its memory is copied.
Fork(c, q) ==
    /\ Runs(c, Parent, "user") /\ state[q] = "UNUSED" /\ Free(q)
    /\ \A o \in 1 .. q - 1 : state[o] # "UNUSED"
    /\ state' = [state EXCEPT ![q] = "USED"]
    /\ plock' = [plock EXCEPT ![q] = c]
    /\ clktik' = [clktik EXCEPT ![q] = ticks]
    /\ rtime' = [rtime EXCEPT ![q] = 0]
    /\ etime' = [etime EXCEPT ![q] = 0]
    /\ hart' = [hart EXCEPT ![c].at = "fork"]
    /\ UNCHANGED <<ticks, tickslock, killed, chan, nap, clock, since>>

ForkDone(c, q) ==
    /\ Works(c, "fork") /\ plock[q] = c
    /\ state' = [state EXCEPT ![q] = "RUNNABLE"]
    /\ plock' = [plock EXCEPT ![q] = Nobody]
    /\ hart' = [hart EXCEPT ![c].at = "run"]
    /\ UNCHANGED <<ticks, tickslock, clktik, rtime, etime, killed, chan, nap, clock, since>>

Exit(c, p) ==
    /\ Runs(c, p, "user") /\ p # Parent /\ Free(p) /\ Free(Parent)
    /\ state' = [state EXCEPT ![p] = "ZOMBIE",
                              ![Parent] = IF chan[Parent] = "child" /\ @ = "SLEEPING" THEN "RUNNABLE" ELSE @]
    /\ etime' = [etime EXCEPT ![p] = ticks]
    /\ ToScheduler(c)
    /\ UNCHANGED <<ticks, tickslock, clktik, rtime, killed, plock, chan, nap, clock, since>>

Zombies == {q \in Slots : state[q] = "ZOMBIE"}

\* The waiting time waitx stores; the process is freed.  (Its times stay in the
\* slot until allocproc sets them; nobody looks at them, and they are cleared.)
Waited(q) == etime[q] - clktik[q] - rtime[q]

WaitReaps(c, q) ==
    /\ Runs(c, Parent, "user") /\ q \in Zombies /\ Free(q)
    /\ state' = [state EXCEPT ![q] = "UNUSED"]
    /\ killed' = [killed EXCEPT ![q] = FALSE]
    /\ clktik' = [clktik EXCEPT ![q] = 0] /\ rtime' = [rtime EXCEPT ![q] = 0] /\ etime' = [etime EXCEPT ![q] = 0]
    /\ UNCHANGED <<ticks, tickslock, plock, chan, nap, hart, clock, since>>

WaitSleeps(c) ==
    /\ Runs(c, Parent, "user") /\ Zombies = {} /\ Free(Parent)
    /\ \E q \in Slots \ {Parent} : state[q] # "UNUSED"
    /\ state' = [state EXCEPT ![Parent] = "SLEEPING"]
    /\ chan' = [chan EXCEPT ![Parent] = "child"]
    /\ ToScheduler(c)
    /\ UNCHANGED <<ticks, tickslock, clktik, rtime, etime, killed, plock, nap, clock, since>>

\* Of a process that does not sleep kill only sets the flag, and the program may
\* exit at any point as it is: that case is left out.
Kill(c, q) ==
    /\ Runs(c, Parent, "user") /\ q # Parent /\ state[q] = "SLEEPING" /\ Free(q)
    /\ killed' = [killed EXCEPT ![q] = TRUE]
    /\ state' = [state EXCEPT ![q] = "RUNNABLE"]
    /\ UNCHANGED <<ticks, tickslock, clktik, rtime, etime, plock, chan, nap, hart, clock, since>>

-----------------------------------------------------------------------------
(* sys_sleep.  A negative n is a large one, as the comparison is unsigned. *)

NapCall(c, p, n) ==
    /\ Runs(c, p, "user") /\ ~ killed[p] /\ tickslock = Nobody
    /\ tickslock' = c
    /\ nap' = [nap EXCEPT ![p] = [at |-> "look", ticks0 |-> ticks, n |-> n]]
    /\ UNCHANGED <<ticks, state, clktik, rtime, etime, killed, plock, chan, hart, clock, since>>

Elapsed(p) == ticks - nap[p].ticks0

\* Enough, or killed: back to the program.
NapEnds(c, p) ==
    /\ Runs(c, p, "look") /\ (Elapsed(p) >= nap[p].n \/ killed[p])
    /\ tickslock' = Nobody
    /\ nap' = [nap EXCEPT ![p] = Awake]
    /\ UNCHANGED <<ticks, state, clktik, rtime, etime, killed, plock, chan, hart, clock, since>>

\* sleep takes p->lock before it gives up tickslock.
NapSleeps(c, p) ==
    /\ Runs(c, p, "look") /\ Elapsed(p) < nap[p].n /\ ~ killed[p] /\ Free(p)
    /\ tickslock' = Nobody
    /\ state' = [state EXCEPT ![p] = "SLEEPING"]
    /\ chan' = [chan EXCEPT ![p] = "ticks"]
    /\ nap' = [nap EXCEPT ![p].at = "woken"]
    /\ ToScheduler(c)
    /\ UNCHANGED <<ticks, clktik, rtime, etime, killed, plock, clock, since>>

\* On the way out of sleep.
NapLooks(c, p) ==
    /\ Runs(c, p, "woken") /\ tickslock = Nobody
    /\ tickslock' = c
    /\ nap' = [nap EXCEPT ![p].at = "look"]
    /\ chan' = [chan EXCEPT ![p] = ""]
    /\ UNCHANGED <<ticks, state, clktik, rtime, etime, killed, plock, hart, clock, since>>

-----------------------------------------------------------------------------
(* clockintr, on hart 0 when it holds no lock. *)

Interruptible == hart[0].at = "sched" \/ (hart[0].at = "scan" /\ hart[0].min = 0)
                 \/ (hart[0].at = "run" /\ tickslock # 0)

Tick ==
    /\ clock.at = "off" /\ Interruptible /\ ticks < MaxTicks
    /\ tickslock = Nobody
    /\ tickslock' = 0
    /\ ticks' = ticks + 1
    /\ clock' = [at |-> "charge", idx |-> 1]
    /\ UNCHANGED <<state, clktik, rtime, etime, killed, plock, chan, nap, hart, since>>

\* One turn of helpticks.
Charge ==
    LET p == clock.idx IN
    /\ clock.at = "charge" /\ p \in Slots /\ Free(p)
    /\ rtime' = [rtime EXCEPT ![p] = IF state[p] = "RUNNING" THEN @ + 1 ELSE @]
    /\ clock' = IF p = NPROC THEN [at |-> "wake", idx |-> 1] ELSE [clock EXCEPT !.idx = @ + 1]
    /\ UNCHANGED <<ticks, tickslock, state, clktik, etime, killed, plock, chan, nap, hart, since>>

\* One turn of wakeup(&ticks).
Wake ==
    LET p == clock.idx IN
    /\ clock.at = "wake" /\ p \in Slots
    /\ p # hart[0].run => Free(p)
    /\ state' = [state EXCEPT ![p] = IF p # hart[0].run /\ @ = "SLEEPING" /\ chan[p] = "ticks" THEN "RUNNABLE" ELSE @]
    /\ clock' = [clock EXCEPT !.idx = @ + 1]
    /\ UNCHANGED <<ticks, tickslock, clktik, rtime, etime, killed, plock, chan, nap, hart, since>>

TickDone ==
    /\ clock.at = "wake" /\ clock.idx > NPROC
    /\ tickslock' = Nobody
    /\ clock' = [at |-> "off", idx |-> 1]
    /\ UNCHANGED <<ticks, state, clktik, rtime, etime, killed, plock, chan, nap, hart, since>>

-----------------------------------------------------------------------------
Schedules(c) == ScanStart(c) \/ ScanLook(c) \/ ScanEnd(c)

Calls(c) == \/ WaitSleeps(c)
            \/ \E q \in Slots : Fork(c, q) \/ ForkDone(c, q) \/ Exit(c, q) \/ WaitReaps(c, q) \/ Kill(c, q)
            \/ \E p \in Slots : (\E n \in Naps[p] : NapCall(c, p, n)) \/ NapEnds(c, p) \/ NapSleeps(c, p) \/ NapLooks(c, p)

Next == Tick \/ Charge \/ Wake \/ TickDone \/ \E c \in Harts : Schedules(c) \/ Calls(c)

Spec == Init /\ [][Next]_cvars

-----------------------------------------------------------------------------
(* Properties. *)

\* Whoever is chosen, nobody has been runnable all through the scan who was
\* created at an earlier tick, although the scan looks at one process after the
\* other while they come and go.
FirstCome == \A c \in Harts :
    hart[c].at = "scan" /\ hart[c].idx > NPROC /\ hart[c].min # 0 =>
        \A p \in since[c] : clktik[p] >= clktik[hart[c].min]

\* Once a tick is over nobody sleeps whose time has come: neither a tick between
\* the look at the clock and the sleep nor one that overtakes a process on its
\* way out of sleep is missed.
NoOversleep == tickslock = Nobody =>
    \A p \in Slots : state[p] = "SLEEPING" /\ chan[p] = "ticks" => Elapsed(p) < nap[p].n

\* On one hart no process is charged more ticks than it has lived, so waitx
\* reports no negative waiting time.  With another hart a process may be
\* created and run while helpticks is under way, and be charged one too many.
ChargedInLife == \A q \in Zombies : Waited(q) >= IF NHARTS = 1 THEN 0 ELSE -1

\* The harts do not wait for each other's locks in a ring, although a scan takes
\* a lock with another one held.
Blocks(c, d) ==
    \/ hart[c].at = "scan" /\ hart[c].idx \in Slots /\ plock[hart[c].idx] = d
    \/ c = 0 /\ clock.at # "off" /\ clock.idx \in Slots /\ plock[clock.idx] = d
    \/ hart[c].at = "run" /\ nap[hart[c].run].at = "woken" /\ tickslock = d
NoRing == \A c, d \in Harts : c # d => ~ (Blocks(c, d) /\ Blocks(d, c))

\* FCFS, sleeps, times and locks.
ClockExact == FirstCome /\ NoOversleep /\ ChargedInLife /\ NoRing
==============================================================================
