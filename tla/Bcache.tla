-------------------------------- MODULE Bcache --------------------------------
(***************************************************************************)
(* The buffer cache (kernel/bio.c) and the sleep-lock of each buffer        *)
(* (kernel/sleeplock.c): bread, bwrite, brelse, bpin and bunpin of several  *)
(* processes.  Sections under bcache.lock or under a sleep-lock's own       *)
(* spinlock are single steps; between them any process may run.             *)
(*                                                                         *)
(* A process uses one buffer at a time, as the interface asks: it changes   *)
(* the data only while it holds the buffer, and before brelse it either     *)
(* writes the block (bwrite) or has it pinned for the log (bpin).           *)
(***************************************************************************)
EXTENDS Integers, FiniteSets, TLC

CONSTANTS Proc, Block, Val, InitVal,
          NBUF,
          MaxPins,  \* bound: how many blocks the log keeps pinned at once
          None

ASSUME BcacheAssumption ==
    /\ IsFiniteSet(Proc)
    /\ NBUF \in Nat \ {0} /\ MaxPins \in Nat
    /\ InitVal \in Val
    /\ None \notin Proc /\ None \notin Block /\ None \notin Nat

Buf == 1..NBUF

VARIABLES
  blockno, valid, refcnt, data,   \* struct buf
  locked, owner,                  \* its sleep-lock
  lru,                            \* the list from head.next to head.prev
  disk,                           \* the blocks on the disk
  pinned,                         \* the log's pins
  pc, want, at, dirty             \* per process: place, block, buffer, change

bufs  == <<blockno, valid, refcnt, data, lru>>
slock == <<locked, owner>>
user  == <<want, at, dirty>>
vars  == <<bufs, slock, disk, pinned, pc, user>>

Goto(p, s) == pc' = [pc EXCEPT ![p] = s]

Init == /\ blockno = [i \in Buf |-> None]
        /\ valid = [i \in Buf |-> FALSE]
        /\ refcnt = [i \in Buf |-> 0]
        /\ data = [i \in Buf |-> InitVal]
        /\ locked = [i \in Buf |-> FALSE]
        /\ owner = [i \in Buf |-> None]
        /\ lru = [k \in Buf |-> NBUF + 1 - k]
        /\ disk = [b \in Block |-> InitVal]
        /\ pinned = {}
        /\ pc = [p \in Proc |-> "idle"]
        /\ want = [p \in Proc |-> None]
        /\ at = [p \in Proc |-> None]
        /\ dirty = [p \in Proc |-> FALSE]

-----------------------------------------------------------------------------
(* bread(b): bget, then a disk read unless the data is there.               *)
Bread(p, b) ==
    /\ pc[p] = "idle"
    /\ want' = [want EXCEPT ![p] = b]
    /\ Goto(p, "bget")
    /\ UNCHANGED <<bufs, slock, disk, pinned, at, dirty>>

Cached(b) == {i \in Buf : blockno[i] = b}
Unused == {i \in Buf : refcnt[i] = 0}

(* The scan from head.prev stops at the least recently used one.            *)
Victim == lru[CHOOSE k \in Buf : /\ lru[k] \in Unused
                                 /\ \A j \in Buf : lru[j] \in Unused => j <= k]

BgetHit(p) ==
    /\ pc[p] = "bget"
    /\ \E i \in Cached(want[p]) :
         /\ refcnt' = [refcnt EXCEPT ![i] = @ + 1]
         /\ at' = [at EXCEPT ![p] = i]
    /\ Goto(p, "lock")
    /\ UNCHANGED <<blockno, valid, data, lru, slock, disk, pinned, want, dirty>>

StillValid(i) == valid  \* mutant
NotValid(i) == [valid EXCEPT ![i] = FALSE]

(* With no unused buffer bget panics.                                       *)
BgetRecycle(p) ==
    /\ pc[p] = "bget" /\ Cached(want[p]) = {} /\ Unused # {}
    /\ blockno' = [blockno EXCEPT ![Victim] = want[p]]
    /\ valid' = NotValid(Victim)
    /\ refcnt' = [refcnt EXCEPT ![Victim] = 1]
    /\ at' = [at EXCEPT ![p] = Victim]
    /\ Goto(p, "lock")
    /\ UNCHANGED <<data, lru, slock, disk, pinned, want, dirty>>

(* acquiresleep: sleep while it is locked.                                  *)
AcquireSleep(p) ==
    LET i == at[p] IN
    /\ pc[p] = "lock"
    /\ IF locked[i]
       THEN Goto(p, "asleep") /\ UNCHANGED slock
       ELSE /\ locked' = [locked EXCEPT ![i] = TRUE]
            /\ owner' = [owner EXCEPT ![i] = p]
            /\ Goto(p, "locked")
    /\ UNCHANGED <<bufs, disk, pinned, user>>

(* kill makes a sleeper look again.                                         *)
Rouse(p) ==
    /\ pc[p] = "asleep"
    /\ Goto(p, "lock")
    /\ UNCHANGED <<bufs, slock, disk, pinned, user>>

ReadIn(p) ==
    LET i == at[p] IN
    /\ pc[p] = "locked"
    /\ IF valid[i]
       THEN UNCHANGED <<valid, data>>
       ELSE /\ data' = [data EXCEPT ![i] = disk[blockno[i]]]
            /\ valid' = [valid EXCEPT ![i] = TRUE]
    /\ Goto(p, "hold")
    /\ UNCHANGED <<blockno, refcnt, lru, slock, disk, pinned, user>>

-----------------------------------------------------------------------------
(* What a holder does with its buffer.                                      *)
Change(p, v) ==
    /\ pc[p] = "hold"
    /\ data' = [data EXCEPT ![at[p]] = v]
    /\ dirty' = [dirty EXCEPT ![p] = TRUE]
    /\ UNCHANGED <<blockno, valid, refcnt, lru, slock, disk, pinned, pc, want, at>>

Bwrite(p) ==
    LET i == at[p] IN
    /\ pc[p] = "hold" /\ dirty[p]
    /\ disk' = [disk EXCEPT ![blockno[i]] = data[i]]
    /\ dirty' = [dirty EXCEPT ![p] = FALSE]
    /\ UNCHANGED <<bufs, slock, pinned, pc, want, at>>

(* log_write: one pin for each block of the transaction.                    *)
Bpin(p) ==
    LET i == at[p] IN
    /\ pc[p] = "hold" /\ dirty[p]
    /\ IF want[p] \in pinned
       THEN UNCHANGED <<pinned, refcnt>>
       ELSE /\ Cardinality(pinned) < MaxPins
            /\ pinned' = pinned \cup {want[p]}
            /\ refcnt' = [refcnt EXCEPT ![i] = @ + 1]
    /\ dirty' = [dirty EXCEPT ![p] = FALSE]
    /\ UNCHANGED <<blockno, valid, data, lru, slock, disk, pc, want, at>>

(* install_trans: the block goes home before its pin.                       *)
InstallWrite(p) ==
    LET i == at[p] IN
    /\ pc[p] = "hold" /\ ~dirty[p] /\ want[p] \in pinned
    /\ disk' = [disk EXCEPT ![blockno[i]] = data[i]]
    /\ Goto(p, "unpin")
    /\ UNCHANGED <<bufs, slock, pinned, user>>

Bunpin(p) ==
    LET i == at[p] IN
    /\ pc[p] = "unpin"
    /\ pinned' = pinned \ {want[p]}
    /\ refcnt' = [refcnt EXCEPT ![i] = @ - 1]
    /\ Goto(p, "hold")
    /\ UNCHANGED <<blockno, valid, data, lru, slock, disk, user>>

-----------------------------------------------------------------------------
(* brelse: releasesleep, then the reference and the place in the list.      *)
WakeNone(i) == pc  \* mutant
Woken(i) == [q \in Proc |-> IF pc[q] = "asleep" /\ at[q] = i THEN "lock" ELSE pc[q]]

ReleaseSleep(p) ==
    LET i == at[p] IN
    /\ pc[p] = "hold" /\ ~dirty[p]
    /\ locked' = [locked EXCEPT ![i] = FALSE]
    /\ owner' = [owner EXCEPT ![i] = None]
    /\ pc' = [Woken(i) EXCEPT ![p] = "unref"]
    /\ UNCHANGED <<bufs, disk, pinned, user>>

ClearRef(i) == [refcnt EXCEPT ![i] = 0]  \* mutant
DropRef(i) == [refcnt EXCEPT ![i] = @ - 1]

(* The buffer moves to head.next, those before it move back by one.         *)
Fronted(i) == LET k == CHOOSE j \in Buf : lru[j] = i
              IN [j \in Buf |-> IF j = 1 THEN i
                                ELSE IF j <= k THEN lru[j - 1] ELSE lru[j]]

Unref(p) ==
    LET i == at[p] IN
    /\ pc[p] = "unref"
    /\ refcnt' = DropRef(i)
    /\ lru' = IF refcnt'[i] = 0 THEN Fronted(i) ELSE lru
    /\ at' = [at EXCEPT ![p] = None]
    /\ want' = [want EXCEPT ![p] = None]
    /\ Goto(p, "idle")
    /\ UNCHANGED <<blockno, valid, data, slock, disk, pinned, dirty>>

-----------------------------------------------------------------------------
Step(p) == \/ BgetHit(p) \/ BgetRecycle(p) \/ AcquireSleep(p) \/ ReadIn(p)
           \/ Bunpin(p) \/ Unref(p)

Next == \E p \in Proc : \/ Step(p) \/ Rouse(p)
                        \/ Bwrite(p) \/ Bpin(p) \/ InstallWrite(p) \/ ReleaseSleep(p)
                        \/ \E b \in Block : Bread(p, b)
                        \/ \E v \in Val : Change(p, v)

Spec == Init /\ [][Next]_vars

-----------------------------------------------------------------------------

(* A block is cached in one buffer, and a buffer a process has from bget,   *)
(* or the log has pinned, keeps its block: it is not recycled in use.       *)
OneCopy ==
    /\ \A i, j \in Buf : blockno[i] = blockno[j] /\ blockno[i] # None => i = j
    /\ \A p \in Proc : at[p] # None => blockno[at[p]] = want[p]
    /\ \A b \in pinned : Cached(b) # {}

(* refcnt is exactly the users of the buffer and the log's pin, so that     *)
(* zero means unused and a buffer that is given back becomes unused.        *)
RefcntExact ==
    \A i \in Buf : refcnt[i] = Cardinality({p \in Proc : at[p] = i})
                               + (IF blockno[i] \in pinned THEN 1 ELSE 0)

(* bget always finds a buffer if there are as many as pins and processes.   *)
NeverOutOfBuffers ==
    NBUF >= MaxPins + Cardinality(Proc) =>
        \A p \in Proc : pc[p] = "bget" => Cached(want[p]) # {} \/ Unused # {}

\* A buffer in use or pinned is kept as it is, an unused one can be recycled,
\* and there always is one.
CacheSound == OneCopy /\ RefcntExact /\ NeverOutOfBuffers

(* Who sleeps for a buffer sleeps while it is locked, and some process,     *)
(* which will wake it, holds that lock.                                     *)
SleeperHasHolder ==
    \A p \in Proc : pc[p] = "asleep" =>
        /\ locked[at[p]]
        /\ \E q \in Proc : /\ owner[at[p]] = q /\ at[q] = at[p]
                           /\ pc[q] \in {"locked", "hold", "unpin"}

(* Recycling, pinning and write-back are invisible to the users.            *)
Content == [b \in Block |->
               IF \E i \in Cached(b) : valid[i]
               THEN data[CHOOSE i \in Cached(b) : valid[i]] ELSE disk[b]]
Holder == [b \in Block |->
              IF \E p \in Proc : want[p] = b /\ pc[p] \in {"hold", "unpin"}
              THEN CHOOSE p \in Proc : want[p] = b /\ pc[p] \in {"hold", "unpin"}
              ELSE None]
Store == INSTANCE BlockStore WITH content <- Content, holder <- Holder
Refines == Store!Spec

\* For model checking: processes are alike, and blocks are.
Symmetry == Permutations(Proc) \cup Permutations(Block)
===============================================================================
