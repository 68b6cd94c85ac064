------------------------------ MODULE MCKernel -------------------------------
(***************************************************************************)
(* The kernel's spinlocks, the queues of its MLFQ scheduler, and memory.    *)
(* Each has a module of its own, and the others take a spinlock for         *)
(* granted.  They share no variable; part says which of them runs in a      *)
(* behaviour.  The module extends Spinlock, whose Init, Next and vars have  *)
(* these names here.                                                        *)
(***************************************************************************)
EXTENDS Spinlock, Integers, TLC

CONSTANTS c1, c2

MCCPU  == {c1, c2}
MCLock == {1, 2}

\* A handler may start with either lock, so every nesting of thread code and
\* handler code on the same two locks occurs.
Symmetry == Permutations(MCCPU)

VARIABLES part,
          q, state, que, age, curr, changequeue, yielding, ctl, proc,
          free, mem_state, sz, mem_frame, tab, job, panicked

mlfq_vars   == <<q, state, que, age, curr, changequeue, yielding, ctl, proc>>
memory_vars == <<free, mem_state, sz, mem_frame, tab, job, panicked>>
all_vars    == <<part, vars, mlfq_vars, memory_vars>>

\* One CPU, init and one user process over three queues.
M == INSTANCE Mlfq WITH
       Cpu <- {"hart"}, NPROC <- 2, NQ <- 3, Quantum <- [n \in 0..2 |-> n], AGE <- 1,
       Reported <- {2}

\* A program of no pages, one that fits, and one whose segments overlap.
Images == {[args |-> 0, segs |-> <<>>],
           [args |-> 2, segs |-> <<[va |-> 0, end |-> 1], [va |-> 1, end |-> 3]>>],
           [args |-> 1, segs |-> <<[va |-> 1, end |-> 4], [va |-> 0, end |-> 2]>>]}

Mem == INSTANCE Memory WITH
         state <- mem_state, trapframe <- mem_frame,
         Slots <- {1, 2}, NPages <- 17, Fan <- 2, Unit <- 2, Wrap <- 64,
         Deltas <- {-5, -2, 1, 3}, Programs <- Images

ASSUME MemoryAssumption == Mem!MemoryConstants

MCInit == /\ part \in {"locks", "mlfq", "memory"}
          /\ Init /\ M!Init /\ Mem!Init

MCNext == \/ part = "locks" /\ Next /\ UNCHANGED <<part, mlfq_vars, memory_vars>>
          \/ part = "mlfq" /\ M!Next /\ UNCHANGED <<part, vars, memory_vars>>
          \/ part = "memory" /\ Mem!Next /\ UNCHANGED <<part, vars, mlfq_vars>>

MCSpec == MCInit /\ [][MCNext]_all_vars

-----------------------------------------------------------------------------
(* Properties, besides those of Spinlock. *)

\* The search of addQueue, which misses the last entry, still bounds the copies
\* of a process in a queue.
AtMostTwice == M!AtMostTwice

\* A CPU goes idle over a runnable process only if that process is in no queue,
\* below the top one, and not yet old.
WorkConserving == M!WorkConserving

\* A level changes by one: down at the end of a quantum, up by age.
LevelMoves == M!LevelMoves

\* Every page is free or in one place, whatever fails for want of one; no panic
\* of the memory code is reached; and a copy between kernel and user memory
\* gets the bytes of mapped user pages and no others.
MemorySound == part = "memory" => Mem!Conserved /\ Mem!NoPanic /\ Mem!CopyExact

\* fork, exec, sbrk, exit and wait change the address spaces at once or not at
\* all.
MemoryRefines == Mem!Spaces!Init /\ [][part = "memory" => Mem!Spaces!Next \/ Mem!Space' = Mem!Space]_memory_vars
==============================================================================
