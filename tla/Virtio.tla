-------------------------------- MODULE Virtio --------------------------------
(***************************************************************************)
(* The disk driver (kernel/virtio_disk.c): virtio_disk_rw of several        *)
(* processes, the interrupt handler virtio_disk_intr, and the device, which *)
(* takes requests from the avail ring, serves them in any order and puts    *)
(* them on the used ring while the driver runs.                             *)
(*                                                                         *)
(* vdisk_lock makes each section of virtio_disk_rw a step; the handler      *)
(* takes one used entry a step.  Each process has one buffer (its caller    *)
(* holds the buffer's sleep-lock), so a buffer is named by its process.     *)
(***************************************************************************)
EXTENDS Integers, FiniteSets

CONSTANTS Proc,
          NUM,     \* descriptors, and entries of each ring
          IdxMod,  \* the modulus of the ring indices (2^16)
          None

ASSUME VirtioAssumption ==
    /\ NUM \in Nat /\ NUM >= 3
    /\ IdxMod \in Nat \ {0} /\ IdxMod % NUM = 0
    /\ None \notin Proc /\ None \notin Nat

Desc == 0..NUM - 1
Idx  == 0..IdxMod - 1

VARIABLES
  free, addr, next, info,   \* descriptors: free, data buffer, chain; info[].b
  avail, availIdx,          \* the avail ring
  used, usedIdx,            \* the used ring
  used_idx,                 \* how far the driver has looked
  devIdx, taken,            \* the device: how far it has looked, what it serves
  raising, irq,             \* it will interrupt; the interrupt is pending
  handler,                  \* virtio_disk_intr runs, with vdisk_lock
  diskOwns,                 \* b->disk
  pc, head                  \* per process: place, first descriptor

descs  == <<free, addr, next, info>>
rings  == <<avail, availIdx, used, usedIdx>>
device == <<devIdx, taken, raising>>
vars   == <<descs, rings, used_idx, device, irq, handler, diskOwns, pc, head>>

Goto(p, s) == pc' = [pc EXCEPT ![p] = s]
Bump(i) == (i + 1) % IdxMod

Init == /\ free = [i \in Desc |-> TRUE]
        /\ addr = [i \in Desc |-> None]
        /\ next = [i \in Desc |-> None]
        /\ info = [i \in Desc |-> None]
        /\ avail = [i \in Desc |-> 0] /\ availIdx = 0
        /\ used = [i \in Desc |-> 0] /\ usedIdx = 0 /\ used_idx = 0
        /\ devIdx = 0 /\ taken = {} /\ raising = FALSE
        /\ irq = FALSE /\ handler = FALSE
        /\ diskOwns = [p \in Proc |-> FALSE]
        /\ pc = [p \in Proc |-> "idle"]
        /\ head = [p \in Proc |-> None]

-----------------------------------------------------------------------------
(* virtio_disk_rw up to its sleep.  alloc3_desc takes the three lowest free *)
(* descriptors; if there are fewer it gives back what it took, and the      *)
(* wakeup of free_desc rouses the others that wait.                         *)
Call(p) ==
    /\ pc[p] = "idle"
    /\ Goto(p, "alloc")
    /\ UNCHANGED <<descs, rings, used_idx, device, irq, handler, diskOwns, head>>

FreeDescs == {i \in Desc : free[i]}
Lowest(S) == CHOOSE i \in S : \A j \in S : i <= j

NoneWoken == pc  \* mutant
Woken == [q \in Proc |-> IF pc[q] = "nodesc" THEN "alloc" ELSE pc[q]]

AllocFails(p) ==
    /\ pc[p] = "alloc" /\ ~handler
    /\ Cardinality(FreeDescs) < 3
    /\ pc' = [(IF FreeDescs = {} THEN pc ELSE Woken) EXCEPT ![p] = "nodesc"]
    /\ UNCHANGED <<descs, rings, used_idx, device, irq, handler, diskOwns, head>>

ThreeOf(F) == LET i == Lowest(F)
                  j == Lowest(F \ {i})
                  k == Lowest(F \ {i, j})
              IN <<i, j, k>>

Submit(p) ==
    /\ pc[p] = "alloc" /\ ~handler
    /\ Cardinality(FreeDescs) >= 3
    /\ LET d == ThreeOf(FreeDescs) IN
         /\ free' = [i \in Desc |-> free[i] /\ i \notin {d[1], d[2], d[3]}]
         /\ addr' = [addr EXCEPT ![d[2]] = p]
         /\ next' = [next EXCEPT ![d[1]] = d[2], ![d[2]] = d[3], ![d[3]] = None]
         /\ info' = [info EXCEPT ![d[1]] = p]
         /\ avail' = [avail EXCEPT ![availIdx % NUM] = d[1]]
         /\ head' = [head EXCEPT ![p] = d[1]]
    /\ availIdx' = Bump(availIdx)
    /\ diskOwns' = [diskOwns EXCEPT ![p] = TRUE]
    /\ Goto(p, "asleep")
    /\ UNCHANGED <<used, usedIdx, used_idx, device, irq, handler>>

(* free_chain follows next from the head.                                   *)
HeadOnly(h) == {h}  \* mutant
Chain(h) == {h, next[h], next[next[h]]}

NoWaitLoop(p) == TRUE  \* mutant
IsDone(p) == ~diskOwns[p]

(* Woken, it looks whether its request is finished and frees the chain.     *)
SleepAgain(p) ==
    /\ pc[p] = "wait" /\ ~handler /\ ~IsDone(p)
    /\ Goto(p, "asleep")
    /\ UNCHANGED <<descs, rings, used_idx, device, irq, handler, diskOwns, head>>

Finish(p) ==
    /\ pc[p] = "wait" /\ ~handler /\ IsDone(p)
    /\ LET c == Chain(head[p]) IN
         /\ free' = [i \in Desc |-> free[i] \/ i \in c]
         /\ addr' = [i \in Desc |-> IF i \in c THEN None ELSE addr[i]]
         /\ next' = [i \in Desc |-> IF i \in c THEN None ELSE next[i]]
    /\ info' = [info EXCEPT ![head[p]] = None]
    /\ head' = [head EXCEPT ![p] = None]
    /\ pc' = [Woken EXCEPT ![p] = "idle"]
    /\ UNCHANGED <<rings, used_idx, device, irq, handler, diskOwns>>

(* kill makes a sleeper look again.                                         *)
Rouse(p) ==
    /\ pc[p] \in {"nodesc", "asleep"}
    /\ Goto(p, IF pc[p] = "asleep" THEN "wait" ELSE "alloc")
    /\ UNCHANGED <<descs, rings, used_idx, device, irq, handler, diskOwns, head>>

-----------------------------------------------------------------------------
(* The device.                                                              *)
DevTake ==
    /\ devIdx # availIdx
    /\ taken' = taken \cup {avail[devIdx % NUM]}
    /\ devIdx' = Bump(devIdx)
    /\ UNCHANGED <<descs, rings, used_idx, raising, irq, handler, diskOwns, pc, head>>

DevServe(h) ==
    /\ h \in taken
    /\ taken' = taken \ {h}
    /\ used' = [used EXCEPT ![usedIdx % NUM] = h]
    /\ usedIdx' = Bump(usedIdx)
    /\ raising' = TRUE
    /\ UNCHANGED <<descs, avail, availIdx, used_idx, devIdx, irq, handler, diskOwns, pc, head>>

DevInterrupt ==
    /\ raising
    /\ raising' = FALSE /\ irq' = TRUE
    /\ UNCHANGED <<descs, rings, used_idx, devIdx, taken, handler, diskOwns, pc, head>>

-----------------------------------------------------------------------------
(* virtio_disk_intr: acknowledge, then take the used entries.               *)
Drained == used_idx = usedIdx

IntrBegin ==
    /\ irq /\ ~handler
    /\ handler' = TRUE
    /\ irq' = FALSE
    /\ UNCHANGED <<descs, rings, used_idx, device, diskOwns, pc, head>>

IntrEntry ==
    LET b == info[used[used_idx % NUM]] IN
    /\ handler /\ used_idx # usedIdx
    /\ diskOwns' = [diskOwns EXCEPT ![b] = FALSE]
    /\ pc' = [pc EXCEPT ![b] = IF @ = "asleep" THEN "wait" ELSE @]
    /\ used_idx' = Bump(used_idx)
    /\ UNCHANGED <<descs, rings, device, irq, handler, head>>

IntrEnd ==
    /\ handler /\ Drained
    /\ handler' = FALSE
    /\ UNCHANGED <<descs, rings, used_idx, device, irq, diskOwns, pc, head>>

-----------------------------------------------------------------------------
Rw(p) == AllocFails(p) \/ Submit(p) \/ SleepAgain(p) \/ Finish(p)
Device == DevTake \/ (\E h \in Desc : DevServe(h)) \/ DevInterrupt
Intr == IntrBegin \/ IntrEntry \/ IntrEnd

Next == (\E p \in Proc : Call(p) \/ Rw(p) \/ Rouse(p)) \/ Device \/ Intr

Spec == Init /\ [][Next]_vars

(* The device serves each request and interrupts, interrupts are taken, and *)
(* a process that is ready to run gets vdisk_lock in the end.               *)
FairSpec == /\ Spec
            /\ WF_vars(DevTake) /\ WF_vars(DevInterrupt) /\ WF_vars(Intr)
            /\ \A h \in Desc : WF_vars(DevServe(h))
            /\ \A p \in Proc : SF_vars(Rw(p))

-----------------------------------------------------------------------------

Ahead(from, to, ring) == {ring[(from + k) % NUM] : k \in 0..((to - from) % IdxMod) - 1}
Offered  == Ahead(devIdx, availIdx, avail)   \* not yet taken by the device
Returned == Ahead(used_idx, usedIdx, used)   \* not yet seen by the driver

(* A process's chain of three descriptors, its own until it frees them: the *)
(* device and the handler find its buffer there, and no descriptor is free  *)
(* and in a chain, in two chains, or lost.                                  *)
Waiting == {p \in Proc : head[p] # None}
ChainsIntact ==
    /\ \A p \in Waiting :
         /\ info[head[p]] = p /\ addr[next[head[p]]] = p
         /\ Cardinality(Chain(head[p])) = 3
    /\ \A p, q \in Waiting : p # q => Chain(head[p]) \cap Chain(head[q]) = {}
    /\ FreeDescs = Desc \ UNION {Chain(head[p]) : p \in Waiting}

(* The disk owns a buffer exactly while its request is in one of the queues *)
(* between the driver, the device and the handler.                          *)
OwnedInFlight ==
    /\ \A p \in Waiting : diskOwns[p] <=> head[p] \in Offered \cup taken \cup Returned
    /\ Offered \cap taken = {} /\ (Offered \cup taken) \cap Returned = {}

\* Descriptors and buffers are owned by one side, and by one request, at a time.
RequestsOwned == ChainsIntact /\ OwnedInFlight

(* A request that was submitted comes back, and who waits for descriptors   *)
(* gets to try again.                                                       *)
RequestReturns == \A p \in Proc : head[p] # None ~> head[p] = None
AllocRetried == \A p \in Proc : []<>(pc[p] # "nodesc")

\* Every request and every failed allocation gets its turn.
Served == RequestReturns /\ AllocRetried

Status == [p \in Proc |->
              IF head[p] = None THEN "none"
              ELSE IF head[p] \in Offered \cup taken THEN "requested" ELSE "served"]
Requests == INSTANCE DiskRequests WITH status <- Status
Refines == Requests!Spec

-----------------------------------------------------------------------------
(* For model checking: ring entries outside of the windows between the      *)
(* indices are never read again, and states that differ only there count as *)
(* one.                                                                     *)
Window(from, to, ring) == [k \in 0..((to - from) % IdxMod) - 1 |-> ring[(from + k) % NUM]]
View == <<descs, Window(devIdx, availIdx, avail), Window(used_idx, usedIdx, used),
          availIdx, devIdx, usedIdx, used_idx,
          taken, raising, irq, handler, diskOwns, pc, head>>
===============================================================================
