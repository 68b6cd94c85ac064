-------------------------------- MODULE Alarm --------------------------------
(***************************************************************************)
(* sigalarm and sigreturn (sysproc.c), and the timer tick that interrupts  *)
(* a process in user mode (trap.c), for one slot of the process table and  *)
(* the processes that live in it one after the other.  The trap frame is   *)
(* reduced to what tells two of them apart: the code that runs, how far it *)
(* is, and a0, in which a system call leaves its result.                   *)
(*                                                                         *)
(* Neither allocproc nor freeproc looks at the alarm's fields: a new       *)
(* process starts with those of the one before it.                         *)
(***************************************************************************)
EXTENDS Integers

CONSTANTS Periods,    \* the ticks argument of sigalarm; 0 turns the alarm off
          Steps,      \* bound on the length of a piece of code
          NPages      \* pages kalloc has

VARIABLES trapframe,      \* [code, step, a0]
          called, set, ticks, cur_ticks,
          tfp,            \* the copy of the trap frame, or NoCopy
          pages,          \* free pages
          halted,         \* the kernel has faulted on a null pointer
          interrupted     \* history: the frame the alarm has interrupted, while its handler runs

avars == <<trapframe, called, set, ticks, cur_ticks, tfp, pages, halted, interrupted>>

NoCopy == [code |-> "none", step |-> 0, a0 |-> 0]
Fresh  == [code |-> "main", step |-> 0, a0 |-> 0]

Init == /\ trapframe = Fresh
        /\ called = 0 /\ set = 0 /\ ticks = 0 /\ cur_ticks = 0
        /\ tfp = NoCopy /\ pages = NPages /\ halted = FALSE
        /\ interrupted = NoCopy

\* An instruction of the program, which may write a0.
Compute(a0) ==
    /\ ~halted /\ trapframe.step < Steps
    /\ trapframe' = [trapframe EXCEPT !.step = @ + 1, !.a0 = a0]
    /\ UNCHANGED <<called, set, ticks, cur_ticks, tfp, pages, halted, interrupted>>

-----------------------------------------------------------------------------
(* usertrap, on a timer interrupt. *)

\* Mutant: the tick is counted while the handler runs.
CountsAlways == called = 1

Counting == set = 0 /\ called = 1

\* The copy is made at every tick that counts; only the last one is freed.
Tick ==
    /\ ~halted /\ Counting
    /\ IF pages = 0 THEN halted' = TRUE /\ UNCHANGED <<trapframe, set, cur_ticks, tfp, pages, interrupted>>
       ELSE /\ cur_ticks' = cur_ticks + 1
            /\ pages' = pages - 1
            /\ tfp' = trapframe
            /\ IF cur_ticks + 1 >= ticks
               THEN /\ set' = 1
                    /\ trapframe' = [trapframe EXCEPT !.code = "handler", !.step = 0]
                    /\ interrupted' = trapframe
               ELSE UNCHANGED <<set, trapframe, interrupted>>
            /\ UNCHANGED halted
    /\ UNCHANGED <<called, ticks>>

-----------------------------------------------------------------------------
(* System calls. *)

Returned(frame, a0) == [frame EXCEPT !.a0 = a0]

SigAlarm(n) ==
    /\ ~halted
    /\ IF n <= 0 THEN called' = 0 /\ UNCHANGED ticks ELSE called' = 1 /\ ticks' = n
    /\ trapframe' = Returned(trapframe, 0)
    /\ UNCHANGED <<set, cur_ticks, tfp, pages, halted, interrupted>>

\* Called from a handler or not.  syscall stores in a0 what is in a0.
SigReturn ==
    /\ ~halted
    /\ IF tfp = NoCopy THEN halted' = TRUE /\ UNCHANGED <<trapframe, set, cur_ticks, tfp, pages>>
       ELSE /\ trapframe' = Returned(tfp, tfp.a0)
            /\ pages' = pages + 1
            /\ cur_ticks' = 0 /\ tfp' = NoCopy /\ set' = 0
            /\ UNCHANGED halted
    /\ interrupted' = NoCopy
    /\ UNCHANGED <<called, ticks>>

\* The process exits and is reaped, and the next one in its slot starts: with
\* a copy of its parent's frame, and that may have forked in a handler.
Reuse(code) ==
    /\ ~halted
    /\ trapframe' = [Fresh EXCEPT !.code = code]
    /\ interrupted' = NoCopy
    /\ UNCHANGED <<called, set, ticks, cur_ticks, tfp, pages, halted>>

Next == \/ \E a0 \in {0, 1} : Compute(a0)
        \/ Tick
        \/ \E n \in Periods : SigAlarm(n)
        \/ SigReturn
        \/ \E code \in {"main", "handler"} : Reuse(code)

Spec == Init /\ [][Next]_avars

-----------------------------------------------------------------------------
\* A handler that an alarm has called is not interrupted by the next one, and
\* its sigreturn makes the program go on exactly where it was, a0 included,
\* however often the alarm is set or turned off in between and whatever the
\* processes before it in the slot have left behind.
Resumes == interrupted # NoCopy =>
               \/ trapframe'.code = "handler" /\ UNCHANGED <<interrupted, tfp>>
               \/ trapframe' = interrupted /\ interrupted' = NoCopy
               \/ \E code \in {"main", "handler"} : Reuse(code)

ResumesInterrupted == [][Resumes]_avars
==============================================================================
