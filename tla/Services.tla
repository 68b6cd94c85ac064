------------------------------- MODULE Services -------------------------------
(***************************************************************************)
(* Services of the kernel to its processes, of any sizes: files and        *)
(* descriptors, the alarm, the clock with the FCFS scheduler, and the      *)
(* terminal's input and output.  They share no variable.  The module       *)
(* extends Files, whose Init, Next and Spec have these names here; Alarm,  *)
(* Clock, Console and Uart are instances.  The properties are proved in    *)
(* ProgramProofs, and checked in MCPrograms.                               *)
(***************************************************************************)
EXTENDS Files, Terminal

\* The alarm's pages, of trap frames, are called spare, next to those of pipes.
CONSTANTS Periods, Steps, NSpare
VARIABLES trapframe, called, set, ticks, cur_ticks, tfp, spare, halted, interrupted

Sig == INSTANCE Alarm WITH pages <- spare, NPages <- NSpare

\* The clock's ticks are called time, next to the alarm's.
CONSTANTS NPROC, NHARTS, Naps, MaxTicks
VARIABLES time, tickslock, state, clktik, rtime, etime, killed, plock, chan, nap, hart, clock, since

Ck == INSTANCE Clock WITH ticks <- time

-----------------------------------------------------------------------------
\* sigreturn goes back to what the alarm has interrupted.
ResumesInterrupted == Sig!ResumesInterrupted

\* FCFS runs the oldest process that has been waiting, although the scan takes
\* lock after lock and processes come and go; no sleep outlasts its time by a
\* missed tick; no process is charged more ticks than it lived, but for one by a
\* tick that it overtook on another hart; and no locks are waited for in a ring.
ClockExact == Ck!ClockExact
===============================================================================
