--------------------------------- MODULE Fifo ---------------------------------
(***************************************************************************)
(* What a pipe promises: a bounded queue of bytes.  Bytes are added one at *)
(* a time while somebody can read them and taken in the order in which     *)
(* they were added; a closed end stays closed.                             *)
(***************************************************************************)
EXTENDS Naturals, Sequences

CONSTANTS Byte, Capacity

VARIABLES queue, readopen, writeopen

Init == queue = <<>> /\ readopen = TRUE /\ writeopen = TRUE

Put(x) == /\ readopen /\ writeopen
          /\ Len(queue) < Capacity
          /\ queue' = Append(queue, x)
          /\ UNCHANGED <<readopen, writeopen>>

Take == /\ queue # <<>>
        /\ readopen
        /\ queue' = Tail(queue)
        /\ UNCHANGED <<readopen, writeopen>>

CloseRead  == readopen' = FALSE /\ UNCHANGED <<queue, writeopen>>
CloseWrite == writeopen' = FALSE /\ UNCHANGED <<queue, readopen>>

Next == (\E x \in Byte : Put(x)) \/ Take \/ CloseRead \/ CloseWrite

Spec == Init /\ [][Next]_<<queue, readopen, writeopen>>
===============================================================================
