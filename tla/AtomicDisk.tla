------------------------------ MODULE AtomicDisk ------------------------------
(***************************************************************************)
(* What the logging system promises to file system calls: their writes go  *)
(* to memory, reach the disk all together at a moment when no call is in   *)
(* progress, and a crash takes memory back to what the disk had.           *)
(***************************************************************************)
CONSTANTS Op, Block, Val, InitVal

VARIABLES mem,      \* what a call that reads a block sees
          durable,  \* what a crash leaves
          active    \* the calls in progress

Init == /\ durable = [b \in Block |-> InitVal]
        /\ mem = durable
        /\ active = {}

Begin(o) == /\ o \notin active
            /\ active' = active \cup {o}
            /\ UNCHANGED <<mem, durable>>

Write(o, b, v) == /\ o \in active
                  /\ mem' = [mem EXCEPT ![b] = v]
                  /\ UNCHANGED <<durable, active>>

End(o) == /\ o \in active
          /\ active' = active \ {o}
          /\ UNCHANGED <<mem, durable>>

Commit == /\ active = {}
          /\ durable' = mem
          /\ UNCHANGED <<mem, active>>

Crash == /\ mem' = durable
         /\ active' = {}
         /\ UNCHANGED durable

Next == \/ \E o \in Op : Begin(o) \/ End(o)
        \/ \E o \in Op, b \in Block, v \in Val : Write(o, b, v)
        \/ Commit
        \/ Crash

Spec == Init /\ [][Next]_<<mem, durable, active>>
===============================================================================
