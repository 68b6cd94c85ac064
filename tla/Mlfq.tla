--------------------------------- MODULE Mlfq ---------------------------------
(***************************************************************************)
(* The multi-level feedback queue scheduler (the MLFQ parts of              *)
(* kernel/proc.c and kernel/trap.c): the queues, refilling, aging, the      *)
(* choice of a process, quanta and demotion, and what yield, sleep, wakeup, *)
(* kill, exit, fork and wait do to them.                                    *)
(*                                                                         *)
(* Each of the loops of a pass of scheduler() is a step; a tick during a    *)
(* pass counts as one before it.  ticks - p->entry is kept as an age that   *)
(* stops counting just above AGE.                                           *)
(***************************************************************************)
EXTENDS Integers, Sequences, SequencesExt

CONSTANTS Cpu,
          NPROC,     \* slots of the process table
          NQ,        \* queues
          Quantum,   \* q_maxticks
          AGE,       \* the age above which a process is promoted
          Reported   \* the processes whose pid is in 3..12

None == 0            \* a null struct proc *

Slot == 1..NPROC
Queue == 0..NQ - 1

ASSUME MlfqAssumption ==
    /\ NPROC \in Nat \ {0} /\ NQ \in Nat \ {0} /\ AGE \in Nat
    /\ Quantum \in [Queue -> Nat]
    /\ Reported \subseteq Slot

VARIABLES
  q,                \* que[]: the queues
  state, que, age, curr, changequeue,   \* struct proc
  yielding,         \* inside yield(), called for a timer interrupt
  ctl, proc         \* per CPU: where its scheduler is, and with whom

table == <<state, que, age, curr, changequeue, yielding>>
vars  == <<q, table, ctl, proc>>

MaxCurr == 1 + CHOOSE n \in {Quantum[i] : i \in Queue} : \A i \in Queue : Quantum[i] <= n

Place == {"pass", "promote", "choose", "picked", "checked", "claimed", "back"}

Init == /\ q = [n \in Queue |-> <<>>]
        /\ state = [s \in Slot |-> IF s = 1 THEN "RUNNABLE" ELSE "UNUSED"]
        /\ que = [s \in Slot |-> 0]
        /\ age = [s \in Slot |-> AGE + 1]
        /\ curr = [s \in Slot |-> 0]
        /\ changequeue = [s \in Slot |-> FALSE]
        /\ yielding = [s \in Slot |-> FALSE]
        /\ ctl = [c \in Cpu |-> "pass"]
        /\ proc = [c \in Cpu |-> None]

-----------------------------------------------------------------------------
(* The queue operations, on a record r of the parts they change.  Processes *)
(* are compared by pid, which is 0 for each unused slot.                    *)
Now == [q |-> q, que |-> que, age |-> age, curr |-> curr, pick |-> None]

SamePid(s, t) == s = t \/ (state[s] = "UNUSED" /\ state[t] = "UNUSED")
At(r, n, s) == {i \in 1..Len(r.q[n]) : SamePid(r.q[n][i], s)}

(* addQueue looks at all entries but the last.                              *)
NotFound(r, n, s) == FALSE  \* mutant
Found(r, n, s) == \E i \in At(r, n, s) : i < Len(r.q[n])
AddQueue(r, n, s) ==
    IF Found(r, n, s) THEN r
    ELSE [r EXCEPT !.que[s] = n, !.age[s] = 0, !.q[n] = Append(@, s)]

DeleteQueue(r, n, s) ==
    IF At(r, n, s) = {} THEN r
    ELSE LET i == CHOOSE i \in At(r, n, s) : \A j \in At(r, n, s) : i <= j
         IN [r EXCEPT !.q[n] = RemoveAt(@, i)]

NoRefill(r, s) == r  \* mutant
Refill(r, s) == IF r.que[s] = 0 THEN AddQueue(r, 0, s) ELSE r

Top(n) == 0  \* mutant
Above(n) == IF n > 0 THEN n - 1 ELSE 0

NoPromote(r, s) == r  \* mutant
Promote(r, s) ==
    IF r.age[s] <= AGE THEN r
    ELSE LET d == DeleteQueue(r, r.que[s], s)
             e == [d EXCEPT !.age[s] = 0, !.curr[s] = 0]
         IN AddQueue(e, Above(e.que[s]), s)

(* break leaves the loop over one queue, not the loop over the queues.      *)
Choose(r, n) ==
    LET ready == {i \in 1..Len(r.q[n]) : state[r.q[n][i]] = "RUNNABLE"} IN
    IF ready = {} THEN r
    ELSE LET s == r.q[n][CHOOSE i \in ready : \A j \in ready : i <= j]
         IN [DeleteQueue(r, r.que[s], s) EXCEPT !.pick = s]

Slots  == [s \in Slot |-> s]
Queues == [n \in 1..NQ |-> n - 1]

Becomes(r) == q' = r.q /\ que' = r.que /\ age' = r.age /\ curr' = r.curr

-----------------------------------------------------------------------------
(* scheduler(): a loop over the slots to refill the top queue, one to       *)
(* promote, and one over the queues to choose.                              *)
RefillAll(c) ==
    /\ ctl[c] = "pass"
    /\ Becomes(FoldLeft(Refill, Now, Slots))
    /\ ctl' = [ctl EXCEPT ![c] = "promote"]
    /\ UNCHANGED <<state, changequeue, yielding, proc>>

PromoteAll(c) ==
    /\ ctl[c] = "promote"
    /\ Becomes(FoldLeft(Promote, Now, Slots))
    /\ ctl' = [ctl EXCEPT ![c] = "choose"]
    /\ UNCHANGED <<state, changequeue, yielding, proc>>

ChooseOne(c) ==
    LET r == FoldLeft(Choose, Now, Queues) IN
    /\ ctl[c] = "choose"
    /\ q' = r.q
    /\ proc' = [proc EXCEPT ![c] = r.pick]
    /\ ctl' = [ctl EXCEPT ![c] = IF r.pick = None THEN "pass" ELSE "picked"]
    /\ UNCHANGED table

(* The state is read, and later written, before p->lock is acquired.        *)
Check(c) ==
    /\ ctl[c] = "picked"
    /\ ctl' = [ctl EXCEPT ![c] = IF state[proc[c]] = "RUNNABLE" THEN "checked" ELSE "pass"]
    /\ UNCHANGED <<q, table, proc>>

Claim(c) ==
    /\ ctl[c] = "checked"
    /\ state' = [state EXCEPT ![proc[c]] = "RUNNING"]
    /\ ctl' = [ctl EXCEPT ![c] = "claimed"]
    /\ UNCHANGED <<q, que, age, curr, changequeue, yielding, proc>>

(* swtch: a process that gave up the CPU in a timer interrupt comes back    *)
(* from yield and counts the tick.                                          *)
Count(n) == IF n < MaxCurr THEN n + 1 ELSE n

Run(c) ==
    LET p == proc[c] IN
    /\ ctl[c] = "claimed"
    /\ ctl' = [ctl EXCEPT ![c] = "run"]
    /\ curr' = IF yielding[p] THEN [curr EXCEPT ![p] = Count(@)] ELSE curr
    /\ yielding' = [yielding EXCEPT ![p] = FALSE]
    /\ UNCHANGED <<q, state, que, age, changequeue, proc>>

(* Back in the scheduler: a process whose quantum is over moves down.       *)
Demoted(n) == IF n < NQ - 1 THEN n + 1 ELSE n

Back(c) ==
    LET p == proc[c] IN
    /\ ctl[c] = "back"
    /\ ctl' = [ctl EXCEPT ![c] = "pass"]
    /\ proc' = [proc EXCEPT ![c] = None]
    /\ IF state[p] = "RUNNABLE" /\ changequeue[p]
       THEN /\ changequeue' = [changequeue EXCEPT ![p] = FALSE]
            /\ Becomes(AddQueue([Now EXCEPT !.curr[p] = 0, !.age[p] = 0,
                                            !.que[p] = Demoted(@)],
                                Demoted(que[p]), p))
       ELSE UNCHANGED <<q, que, age, curr, changequeue>>
    /\ UNCHANGED <<state, yielding>>

-----------------------------------------------------------------------------
(* The timer: each CPU has one, CPU 0's counts ticks.  Here a tick ages all *)
(* slots and is seen by the running process, in user or in kernel mode.     *)
Older == [s \in Slot |-> IF age[s] > AGE THEN age[s] ELSE age[s] + 1]

TickIdle(c) ==
    /\ ctl[c] = "pass"
    /\ age' = Older
    /\ UNCHANGED <<q, state, que, curr, changequeue, yielding, ctl, proc>>

QuantumOver(p) == curr[p] >= Quantum[que[p]]

TickCount(c) ==
    LET p == proc[c] IN
    /\ ctl[c] = "run" /\ ~QuantumOver(p)
    /\ age' = Older
    /\ curr' = [curr EXCEPT ![p] = Count(@)]
    /\ UNCHANGED <<q, state, que, changequeue, yielding, ctl, proc>>

TickYield(c) ==
    LET p == proc[c] IN
    /\ ctl[c] = "run" /\ QuantumOver(p)
    /\ age' = Older
    /\ changequeue' = [changequeue EXCEPT ![p] = TRUE]
    /\ yielding' = [yielding EXCEPT ![p] = TRUE]
    /\ state' = [state EXCEPT ![p] = "RUNNABLE"]
    /\ ctl' = [ctl EXCEPT ![c] = "back"]
    /\ UNCHANGED <<q, que, curr, proc>>

(* In kerneltrap the yield hangs on the test of the pid, whose own          *)
(* statement is commented out.                                              *)
TickInKernel(c) ==
    LET p == proc[c] IN
    /\ ctl[c] = "run" /\ QuantumOver(p) /\ p \notin Reported
    /\ age' = Older
    /\ changequeue' = [changequeue EXCEPT ![p] = TRUE]
    /\ curr' = [curr EXCEPT ![p] = Count(@)]
    /\ UNCHANGED <<q, state, que, yielding, ctl, proc>>

-----------------------------------------------------------------------------
(* What the running process does to itself and to others.                   *)
Sleep(c) ==
    LET p == proc[c] IN
    /\ ctl[c] = "run" /\ state[p] = "RUNNING"
    /\ state' = [state EXCEPT ![p] = "SLEEPING"]
    /\ ctl' = [ctl EXCEPT ![c] = "back"]
    /\ UNCHANGED <<q, que, age, curr, changequeue, yielding, proc>>

Exit(c) ==
    LET p == proc[c] IN
    /\ ctl[c] = "run" /\ p # 1 /\ state[p] = "RUNNING"
    /\ state' = [state EXCEPT ![p] = "ZOMBIE"]
    /\ Becomes(DeleteQueue(Now, que[p], p))
    /\ ctl' = [ctl EXCEPT ![c] = "back"]
    /\ UNCHANGED <<changequeue, yielding, proc>>

(* wakeup, by an interrupt or by another process: into no queue.            *)
Wakeup(s) ==
    /\ state[s] = "SLEEPING"
    /\ state' = [state EXCEPT ![s] = "RUNNABLE"]
    /\ curr' = [curr EXCEPT ![s] = 0]
    /\ UNCHANGED <<q, que, age, changequeue, yielding, ctl, proc>>

InKernel(c, s) == ctl[c] = "run" /\ proc[c] # s

Kill(c, s) ==
    /\ InKernel(c, s) /\ state[s] = "SLEEPING"
    /\ state' = [state EXCEPT ![s] = "RUNNABLE"]
    /\ Becomes(AddQueue(Now, que[s], s))
    /\ UNCHANGED <<changequeue, yielding, ctl, proc>>

Fork(c, s) ==
    /\ InKernel(c, s) /\ state[s] = "UNUSED"
    /\ state' = [state EXCEPT ![s] = "RUNNABLE"]
    /\ que' = [que EXCEPT ![s] = 0]
    /\ curr' = [curr EXCEPT ![s] = 0]
    /\ age' = [age EXCEPT ![s] = AGE + 1]
    /\ UNCHANGED <<q, changequeue, yielding, ctl, proc>>

Reap(c, s) ==
    /\ InKernel(c, s) /\ state[s] = "ZOMBIE" /\ \A d \in Cpu : proc[d] # s
    /\ state' = [state EXCEPT ![s] = "UNUSED"]
    /\ UNCHANGED <<q, que, age, curr, changequeue, yielding, ctl, proc>>

-----------------------------------------------------------------------------
PassStep(c) == RefillAll(c) \/ PromoteAll(c) \/ ChooseOne(c)
Scheduler(c) == PassStep(c) \/ Check(c) \/ Claim(c) \/ Run(c) \/ Back(c)
Tick(c) == TickIdle(c) \/ TickCount(c) \/ TickYield(c)

Next == \/ \E c \in Cpu : \/ Scheduler(c) \/ Tick(c) \/ TickInKernel(c)
                          \/ Sleep(c) \/ Exit(c)
                          \/ \E s \in Slot : Kill(c, s) \/ Fork(c, s) \/ Reap(c, s)
        \/ \E s \in Slot : Wakeup(s)

Spec == Init /\ [][Next]_vars

(* The scheduler of a CPU leaves each place of its loop (what WF of its      *)
(* steps says: they are enabled as long as it is there), the timer ticks,   *)
(* and a process is in user mode at some tick of each quantum.              *)
Fairness == \A c \in Cpu : /\ \A l \in Place : []<>(ctl[c] # l)
                           /\ SF_vars(TickIdle(c))
                           /\ SF_vars(TickCount(c) \/ TickYield(c))

FairSpec == Spec /\ Fairness

-----------------------------------------------------------------------------

(* The search of addQueue, which misses the last entry, still bounds the    *)
(* copies of a process in a queue.                                          *)
AtMostTwice == \A n \in Queue, s \in Slot :
                  Len(SelectSeq(q[n], LAMBDA t : t = s)) <= 2

(* A CPU goes idle over a runnable process only if that process is in no    *)
(* queue, below the top one, and not yet old: it never waits on an idle CPU *)
(* for longer than AGE ticks.                                               *)
IdleOver(s) == que[s] > 0 /\ age[s] <= AGE
WorkConserving ==
    [][\A c \in Cpu : ChooseOne(c) /\ proc'[c] = None =>
          \A s \in Slot : state[s] = "RUNNABLE" => IdleOver(s)]_vars

(* A level changes by one: down at the end of a quantum, up by age.         *)
LevelMoves ==
    [][\A s \in Slot : que'[s] # que[s] /\ state'[s] # "UNUSED" /\ state[s] # "UNUSED" =>
          \/ /\ que'[s] = que[s] - 1 /\ age[s] > AGE
             /\ \E c \in Cpu : PromoteAll(c)
          \/ /\ que'[s] = que[s] + 1
             /\ changequeue[s] /\ \E c \in Cpu : Back(c) /\ proc[c] = s]_vars

(* The processor is not left idle for ever while a process could run.       *)
SomeoneRuns ==
    (\E s \in Slot : state[s] = "RUNNABLE") ~> (\E c \in Cpu : ctl[c] = "run")

(* What the usertests expect of preemption: a process that can run gets the *)
(* CPU although others never sleep.                                         *)
NoStarvation ==
    \A s \in Slot : state[s] = "RUNNABLE" ~> state[s] # "RUNNABLE"

===============================================================================
