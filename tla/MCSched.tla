------------------------------- MODULE MCSched -------------------------------
(***************************************************************************)
(* The two schedulers under their fairness, on one CPU: the MLFQ build     *)
(* (module Mlfq, whose Init, Next and vars have these names here) and the   *)
(* round-robin build with fork, exit, wait and kill (module Proc).  They    *)
(* share no variable; part, one of Parts, says which of them runs in a      *)
(* behaviour.                                                               *)
(***************************************************************************)
EXTENDS Mlfq

CONSTANTS c1, Parts

MCCpu == {c1}
MCQuantum == [n \in Queue |-> n]
MCReported == Slot \ {1}

VARIABLES part, proc_state, chan, killed, parent, plock, wlock, cproc, cur, pc, idx, jdx, ret

proc_vars == <<proc_state, chan, killed, parent, plock, wlock, cproc, cur, pc, idx, jdx, ret>>
all_vars  == <<part, vars, proc_vars>>

P == INSTANCE Proc WITH
       state <- proc_state, NPROC <- 3, CPU <- {c1}, NoCpu <- None,
       Preemptible <- {"wait", "exit"}

MCInit == part \in Parts /\ Init /\ P!Init

MCNext == \/ part = "mlfq" /\ Next /\ UNCHANGED <<part, proc_vars>>
          \/ part = "processes" /\ P!Next /\ UNCHANGED <<part, vars>>

MCFairness == \/ part = "mlfq" /\ Fairness
              \/ part = "processes" /\ P!Fairness

MCSpec == MCInit /\ [][MCNext]_all_vars /\ MCFairness

-----------------------------------------------------------------------------
(* Properties, besides those of Mlfq. *)

\* The processor is not left idle for ever while a process could run.
NotLeftIdle == part = "mlfq" => SomeoneRuns

\* A killed process dies, unless it was about to sleep in wait.
KillDelivered == part = "processes" => P!KillDelivered

\* init reaps its zombies.
InitReaps == part = "processes" => P!InitReaps
==============================================================================
