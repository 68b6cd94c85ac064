--------------------------------- MODULE Pipe ---------------------------------
(***************************************************************************)
(* One pipe (kernel/pipe.c) between processes that hold its write end and  *)
(* processes that hold its read end: pipewrite, piperead, pipeclose, the   *)
(* reference counts of the two open files, and kill, which does not take   *)
(* pi->lock and so may come at any point of a read or a write.              *)
(*                                                                         *)
(* The holder of pi->lock copies one byte a step.  The counters nread and  *)
(* nwrite are unsigned and wrap at UMAX (2^32 in the kernel).               *)
(***************************************************************************)
EXTENDS Integers, FiniteSets

CONSTANTS Writer, Reader,  \* the processes that hold an end
          Byte,            \* what can be written
          PIPESIZE,
          UMAX,            \* the modulus of the counters
          MaxN,            \* bound: the longest read or write
          Killable,        \* bound: the processes that kill may hit
          None

Proc == Writer \cup Reader

ASSUME PipeAssumption ==
    /\ Writer \cap Reader = {} /\ Killable \subseteq Proc
    /\ None \notin Proc
    /\ PIPESIZE \in Nat \ {0} /\ MaxN \in Nat
    /\ UMAX \in Nat /\ UMAX > PIPESIZE /\ UMAX % PIPESIZE = 0

VARIABLES
  data, nread, nwrite, readopen, writeopen, lock,  \* struct pipe
  freed,    \* kfree has had the pipe's page
  open,     \* the processes whose descriptor counts in a file's ref
  killed,
  pc, left  \* per process: where it is, and the bytes it still wants

pipe == <<data, nread, nwrite, readopen, writeopen, freed>>
vars == <<pipe, lock, open, killed, pc, left>>

ReadPC  == {"renter", "rwait", "rsleep", "rasleep", "rcopy"}
WritePC == {"wenter", "wloop", "wsleep", "wasleep"}
PC == {"user", "closing", "freeing", "gone"} \cup ReadPC \cup WritePC

Goto(p, s) == pc' = [pc EXCEPT ![p] = s]

Init == /\ data = [i \in 0..PIPESIZE - 1 |-> None]
        /\ nread = 0 /\ nwrite = 0
        /\ readopen = TRUE /\ writeopen = TRUE
        /\ lock = None /\ freed = FALSE
        /\ open = Proc
        /\ killed = [p \in Proc |-> FALSE]
        /\ pc = [p \in Proc |-> "user"]
        /\ left = [p \in Proc |-> 0]

Empty == nread = nwrite
FullIfUnwrapped == nwrite = nread + PIPESIZE  \* mutant
Full  == nwrite = (nread + PIPESIZE) % UMAX

(* wakeup(): of the sleepers on one channel, with p going on at s.  A woken *)
(* process takes the lock again before it looks at the pipe.                *)
WakeNoReader(p, s) == Goto(p, s)  \* mutant
WakeReaders(p, s) ==
    pc' = [q \in Proc |-> IF q = p THEN s
                          ELSE IF pc[q] = "rasleep" THEN "renter" ELSE pc[q]]
WakeNoWriter(p, s) == Goto(p, s)  \* mutant
WakeWriters(p, s) ==
    pc' = [q \in Proc |-> IF q = p THEN s
                          ELSE IF pc[q] = "wasleep" THEN "wenter" ELSE pc[q]]

(* A system call on the pipe's file; a killed process makes none.           *)
CallWrite(p, n) ==
    /\ p \in Writer /\ pc[p] = "user" /\ p \in open /\ ~killed[p]
    /\ left' = [left EXCEPT ![p] = n]
    /\ Goto(p, "wenter")
    /\ UNCHANGED <<pipe, lock, open, killed>>

CallRead(p, n) ==
    /\ p \in Reader /\ pc[p] = "user" /\ p \in open /\ ~killed[p]
    /\ left' = [left EXCEPT ![p] = n]
    /\ Goto(p, "renter")
    /\ UNCHANGED <<pipe, lock, open, killed>>

(* acquire(&pi->lock), at the start or at the end of sleep.                 *)
Enter(p) ==
    /\ pc[p] \in {"renter", "wenter"} /\ lock = None
    /\ lock' = p
    /\ Goto(p, IF pc[p] = "renter" THEN "rwait" ELSE "wloop")
    /\ UNCHANGED <<pipe, open, killed, left>>

(* sleep(): the lock is given up and the process sleeps, as one.            *)
Sleep(p) ==
    /\ pc[p] \in {"rsleep", "wsleep"}
    /\ lock' = None
    /\ Goto(p, IF pc[p] = "rsleep" THEN "rasleep" ELSE "wasleep")
    /\ UNCHANGED <<pipe, open, killed, left>>

(* release(&pi->lock) before the call ends.                                 *)
Return(p) == lock' = None /\ left' = [left EXCEPT ![p] = 0]

-----------------------------------------------------------------------------
(* pipewrite                                                                *)
Wants(p) == left[p] > 0
Hopeless(p) == ~readopen \/ killed[p]

WriteFails(p) ==
    /\ pc[p] = "wloop" /\ Wants(p) /\ Hopeless(p)
    /\ Return(p)
    /\ Goto(p, "user")
    /\ UNCHANGED <<pipe, open, killed>>

WriteFull(p) ==
    /\ pc[p] = "wloop" /\ Wants(p) /\ ~Hopeless(p) /\ Full
    /\ WakeReaders(p, "wsleep")
    /\ UNCHANGED <<pipe, lock, open, killed, left>>

WriteByte(p, x) ==
    /\ pc[p] = "wloop" /\ Wants(p) /\ ~Hopeless(p) /\ ~Full
    /\ data' = [data EXCEPT ![nwrite % PIPESIZE] = x]
    /\ nwrite' = (nwrite + 1) % UMAX
    /\ left' = [left EXCEPT ![p] = @ - 1]
    /\ UNCHANGED <<nread, readopen, writeopen, freed, lock, open, killed, pc>>

(* The loop is over, or copyin failed.                                      *)
WriteEnd(p) ==
    /\ pc[p] = "wloop"
    /\ ~Wants(p) \/ (~Hopeless(p) /\ ~Full)
    /\ Return(p)
    /\ WakeReaders(p, "user")
    /\ UNCHANGED <<pipe, open, killed>>

-----------------------------------------------------------------------------
(* piperead                                                                 *)
ReadWait(p) ==
    /\ pc[p] = "rwait" /\ Empty /\ writeopen
    /\ IF killed[p]
       THEN Return(p) /\ Goto(p, "user")
       ELSE Goto(p, "rsleep") /\ UNCHANGED <<lock, left>>
    /\ UNCHANGED <<pipe, open, killed>>

ReadReady(p) ==
    /\ pc[p] = "rwait" /\ ~(Empty /\ writeopen)
    /\ Goto(p, "rcopy")
    /\ UNCHANGED <<pipe, lock, open, killed, left>>

(* A byte whose copyout fails is gone as well, and ends the loop.           *)
ReadByte(p) ==
    /\ pc[p] = "rcopy" /\ Wants(p) /\ ~Empty
    /\ nread' = (nread + 1) % UMAX
    /\ left' \in {[left EXCEPT ![p] = @ - 1], [left EXCEPT ![p] = 0]}
    /\ UNCHANGED <<data, nwrite, readopen, writeopen, freed, lock, open, killed, pc>>

ReadEnd(p) ==
    /\ pc[p] = "rcopy" /\ (~Wants(p) \/ Empty)
    /\ Return(p)
    /\ WakeWriters(p, "user")
    /\ UNCHANGED <<pipe, open, killed>>

-----------------------------------------------------------------------------
(* close or exit: fileclose drops a reference, and the last one of an end   *)
(* calls pipeclose.                                                         *)
SameEnd(p) == IF p \in Writer THEN Writer ELSE Reader

Close(p) ==
    /\ pc[p] = "user" /\ p \in open
    /\ open' = open \ {p}
    /\ Goto(p, IF (open \ {p}) \cap SameEnd(p) = {} THEN "closing" ELSE "gone")
    /\ UNCHANGED <<pipe, lock, killed, left>>

EitherClosed == ~readopen' \/ ~writeopen'  \* mutant
BothClosed == ~readopen' /\ ~writeopen'

PipeClose(p) ==
    /\ pc[p] = "closing" /\ lock = None
    /\ IF p \in Writer
       THEN writeopen' = FALSE /\ UNCHANGED readopen
       ELSE readopen' = FALSE /\ UNCHANGED writeopen
    /\ LET next == IF BothClosed THEN "freeing" ELSE "gone" IN
       IF p \in Writer THEN WakeReaders(p, next) ELSE WakeWriters(p, next)
    /\ UNCHANGED <<data, nread, nwrite, freed, lock, open, killed, left>>

Free(p) ==
    /\ pc[p] = "freeing"
    /\ freed' = TRUE
    /\ Goto(p, "gone")
    /\ UNCHANGED <<data, nread, nwrite, readopen, writeopen, lock, open, killed, left>>

(* kill(): takes p->lock only.  A process between its look at killed and    *)
(* its sleep is not woken.                                                  *)
Kill(p) ==
    /\ p \in Killable /\ ~killed[p] /\ pc[p] # "gone"
    /\ killed' = [killed EXCEPT ![p] = TRUE]
    /\ Goto(p, CASE pc[p] = "rasleep" -> "renter"
                 [] pc[p] = "wasleep" -> "wenter"
                 [] OTHER -> pc[p])
    /\ UNCHANGED <<pipe, lock, open, left>>

-----------------------------------------------------------------------------
Locked(p) == \/ Sleep(p)
             \/ WriteFails(p) \/ WriteFull(p) \/ WriteEnd(p)
             \/ \E x \in Byte : WriteByte(p, x)
             \/ ReadWait(p) \/ ReadReady(p) \/ ReadByte(p) \/ ReadEnd(p)
Step(p) == Enter(p) \/ Locked(p) \/ PipeClose(p) \/ Free(p)

Next == \E p \in Proc : \/ Step(p) \/ Close(p) \/ Kill(p)
                        \/ \E n \in 0..MaxN : CallWrite(p, n) \/ CallRead(p, n)

Spec == Init /\ [][Next]_vars

(* A process in the kernel runs on, and one that spins on pi->lock gets it  *)
(* if it is free again and again.  Nobody has to call, close or kill.       *)
FairSpec == /\ Spec
            /\ \A p \in Proc : /\ WF_vars(Locked(p) \/ Free(p))
                               /\ SF_vars(Enter(p) \/ PipeClose(p))

-----------------------------------------------------------------------------
TypeOK == /\ data \in [0..PIPESIZE - 1 -> Byte \cup {None}]
          /\ nread \in 0..UMAX - 1 /\ nwrite \in 0..UMAX - 1
          /\ readopen \in BOOLEAN /\ writeopen \in BOOLEAN /\ freed \in BOOLEAN
          /\ lock \in Proc \cup {None}
          /\ open \subseteq Proc
          /\ killed \in [Proc -> BOOLEAN]
          /\ pc \in [Proc -> PC]
          /\ left \in [Proc -> 0..MaxN]

Holds(p) == pc[p] \in {"rwait", "rsleep", "rcopy", "wloop", "wsleep"}

(* While nobody is inside the pipe, a writer sleeps only if it is full and  *)
(* can be drained, and a reader only if it is empty and can be filled:      *)
(* unless a killed writer left early, no wakeup of pipe.c is lost.           *)
WriterSleepsForCause ==
    lock = None => \A p \in Writer : pc[p] = "wasleep" => Full /\ readopen
ReaderSleepsForCause ==
    lock = None => \A p \in Reader : pc[p] = "rasleep" => Empty /\ writeopen
NoLostWakeup ==
    /\ WriterSleepsForCause
    /\ ReaderSleepsForCause \/ \E p \in Writer : killed[p]

(* The page of the pipe is freed once, and after that nobody is in a        *)
(* function of pipe.c or can get into one.                                  *)
FreedOnce ==
    /\ freed => \A p \in Proc : pc[p] \in {"user", "gone"} /\ p \notin open
    /\ \A p, q \in Proc : pc[p] = "freeing" /\ pc[q] \notin {"user", "gone"} => p = q

(* A reader comes back once the last writer has closed, a writer once the   *)
(* last reader has.                                                         *)
CloseEnds ==
    /\ \A p \in Reader : ~writeopen ~> pc[p] \notin ReadPC
    /\ \A p \in Writer : ~readopen ~> pc[p] \notin WritePC

(* The bytes between the counters are a bounded FIFO queue.                 *)
Contents == [i \in 1..(nwrite - nread) % UMAX |-> data[(nread + i - 1) % PIPESIZE]]
Queue == INSTANCE Fifo WITH queue <- Contents, Capacity <- PIPESIZE
Refines == Queue!Spec
===============================================================================
