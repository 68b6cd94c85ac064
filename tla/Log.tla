--------------------------------- MODULE Log ---------------------------------
(***************************************************************************)
(* The write-ahead log of the file system (kernel/log.c): concurrent calls *)
(* share a transaction, the last one to end commits it, and recovery after *)
(* a crash redoes what was committed.                                       *)
(*                                                                         *)
(* Every disk write is a step of its own and a crash may come between any  *)
(* two.  Writing one block is atomic (the device's promise).  The buffer    *)
(* cache appears as far as the log depends on it: a buffer is locked while  *)
(* a call modifies it, and a buffer that nobody holds or pins may be reused *)
(* for another block at any time.                                           *)
(***************************************************************************)
EXTENDS Integers, FiniteSets, Sequences, SequencesExt

CONSTANTS Op,           \* the processes that make file system calls
          Block,        \* the home blocks they write
          MAXOPBLOCKS,  \* what begin_op reserves for a call
          OpBlocks,     \* how many distinct blocks a call really writes
          LOGSIZE,      \* the capacity begin_op counts with
          nlog,         \* blocks of the on-disk log: a header and the rest
          MaxWrites,    \* bound: modifications of blocks in a behaviour
          MaxCrashes,   \* bound: crashes in a behaviour
          None

ASSUME LogAssumption ==
    /\ IsFiniteSet(Op) /\ IsFiniteSet(Block)
    /\ MAXOPBLOCKS \in Nat \ {0} /\ OpBlocks \in 1..MAXOPBLOCKS
    /\ LOGSIZE \in Nat /\ MAXOPBLOCKS <= LOGSIZE
    /\ nlog \in Nat \ {0}
    /\ MaxWrites \in Nat /\ MaxCrashes \in Nat
    /\ None \notin Op /\ None \notin Block /\ None \notin Nat

Val == 0..MaxWrites     \* the contents of a block: the number of the write

VARIABLES
  home, logd, head,                \* the disk: home blocks, log blocks, header
  lh, outstanding, committing,     \* struct log
  buf, pin, owner,                 \* cached contents, pins and sleep-locks
  mode,                            \* up, or which part of recovery runs
  tail,                            \* the loop variable of commit and recovery
  pc, held, wset,                  \* per call: where, its buffer, its blocks
  writes, crashes                  \* how many of each there have been

disk == <<home, logd, head>>
log  == <<lh, outstanding, committing>>
cache == <<buf, pin, owner>>
call == <<pc, held, wset>>
vars == <<disk, log, cache, mode, tail, call, writes, crashes>>

Goto(o, s) == pc' = [pc EXCEPT ![o] = s]

(* bread: a block that is not cached is read from its home.                 *)
Cached(b) == IF buf[b] = None THEN home[b] ELSE buf[b]

Init == /\ home = [b \in Block |-> 0]
        /\ logd = [i \in 1..LOGSIZE |-> 0]
        /\ head = <<>>
        /\ lh = <<>> /\ outstanding = 0 /\ committing = FALSE
        /\ buf = [b \in Block |-> None]
        /\ pin = [b \in Block |-> 0]
        /\ owner = [b \in Block |-> None]
        /\ mode = "boot" /\ tail = 1
        /\ pc = [o \in Op |-> "out"]
        /\ held = [o \in Op |-> None]
        /\ wset = [o \in Op |-> {}]
        /\ writes = 0 /\ crashes = 0

-----------------------------------------------------------------------------
(* begin_op(): a call that must wait sleeps on &log.                        *)
NoRoomForOthers == Len(lh) + outstanding * MAXOPBLOCKS > LOGSIZE  \* mutant
NoRoom == Len(lh) + (outstanding + 1) * MAXOPBLOCKS > LOGSIZE

Call(o) == /\ mode = "up" /\ pc[o] = "out"
           /\ Goto(o, "begin")
           /\ UNCHANGED <<disk, log, cache, mode, tail, held, wset, writes, crashes>>

BeginWait(o) ==
    /\ pc[o] = "begin"
    /\ committing \/ NoRoom
    /\ Goto(o, "asleep")
    /\ UNCHANGED <<disk, log, cache, mode, tail, held, wset, writes, crashes>>

BeginOp(o) ==
    /\ pc[o] = "begin"
    /\ ~committing /\ ~NoRoom
    /\ outstanding' = outstanding + 1
    /\ Goto(o, "in")
    /\ UNCHANGED <<disk, lh, committing, cache, mode, tail, held, wset, writes, crashes>>

(* bread and a change of b->data, under the buffer's sleep-lock.            *)
Modify(o, b) ==
    /\ pc[o] = "in" /\ owner[b] = None
    /\ Cardinality(wset[o] \cup {b}) <= OpBlocks
    /\ writes < MaxWrites
    /\ writes' = writes + 1
    /\ owner' = [owner EXCEPT ![b] = o]
    /\ buf' = [buf EXCEPT ![b] = writes + 1]
    /\ held' = [held EXCEPT ![o] = b]
    /\ wset' = [wset EXCEPT ![o] = @ \cup {b}]
    /\ Goto(o, "hold")
    /\ UNCHANGED <<disk, log, pin, mode, tail, crashes>>

(* log_write() and brelse: absorb the block or append and pin it.  The      *)
(* panics come before the search, so an absorbed write needs space too.     *)
Fits == Len(lh) < LOGSIZE /\ Len(lh) < nlog - 1 /\ outstanding >= 1
Logged(b) == b \in ToSet(lh)

LogWrite(o) ==
    LET b == held[o] IN
    /\ pc[o] = "hold" /\ Fits
    /\ IF Logged(b)
       THEN UNCHANGED <<lh, pin>>
       ELSE /\ lh' = Append(lh, b)
            /\ pin' = [pin EXCEPT ![b] = @ + 1]
    /\ owner' = [owner EXCEPT ![b] = None]
    /\ held' = [held EXCEPT ![o] = None]
    /\ Goto(o, "in")
    /\ UNCHANGED <<disk, outstanding, committing, buf, mode, tail, wset, writes, crashes>>

(* bget reuses a buffer whose refcnt is 0.                                  *)
Evict(b) ==
    /\ buf[b] # None /\ pin[b] = 0 /\ owner[b] = None
    /\ buf' = [buf EXCEPT ![b] = None]
    /\ UNCHANGED <<disk, log, pin, owner, mode, tail, call, writes, crashes>>

(* wakeup(&log), with o going on at s.                                      *)
WakeNone(o, s) == Goto(o, s)  \* mutant
WakeAll(o, s) ==
    pc' = [q \in Op |-> IF q = o THEN s
                        ELSE IF pc[q] = "asleep" THEN "begin" ELSE pc[q]]

EndOp(o) ==
    /\ pc[o] = "in" /\ ~committing
    /\ outstanding' = outstanding - 1
    /\ wset' = [wset EXCEPT ![o] = {}]
    /\ IF outstanding = 1
       THEN /\ committing' = TRUE
            /\ tail' = 1
            /\ Goto(o, IF lh = <<>> THEN "done" ELSE "wlog")
       ELSE /\ WakeAll(o, "out")
            /\ UNCHANGED <<committing, tail>>
    /\ UNCHANGED <<disk, lh, cache, mode, held, writes, crashes>>

-----------------------------------------------------------------------------
(* commit(): write_log, write_head, install_trans(0), erase.                *)
Uncommitted == "install"  \* mutant
AfterWriteLog == "whead"

WriteLog(o) ==
    /\ pc[o] = "wlog"
    /\ logd' = [logd EXCEPT ![tail] = Cached(lh[tail])]
    /\ IF tail = Len(lh)
       THEN Goto(o, AfterWriteLog) /\ tail' = 1
       ELSE tail' = tail + 1 /\ UNCHANGED pc
    /\ UNCHANGED <<home, head, log, cache, mode, held, wset, writes, crashes>>

WriteHead(o) ==
    /\ pc[o] = "whead"
    /\ head' = lh
    /\ Goto(o, "install")
    /\ UNCHANGED <<home, logd, log, cache, mode, tail, held, wset, writes, crashes>>

Unpin(b) == [pin EXCEPT ![b] = @ - 1]

Install(o) ==
    LET b == lh[tail] IN
    /\ pc[o] = "install"
    /\ home' = [home EXCEPT ![b] = logd[tail]]
    /\ buf' = [buf EXCEPT ![b] = logd[tail]]
    /\ pin' = Unpin(b)
    /\ IF tail = Len(lh)
       THEN Goto(o, "clear") /\ tail' = 1
       ELSE tail' = tail + 1 /\ UNCHANGED pc
    /\ UNCHANGED <<logd, head, log, owner, mode, held, wset, writes, crashes>>

Clear(o) ==
    /\ pc[o] = "clear"
    /\ lh' = <<>>
    /\ Goto(o, "erase")
    /\ UNCHANGED <<disk, outstanding, committing, cache, mode, tail, held, wset, writes, crashes>>

Erase(o) ==
    /\ pc[o] = "erase"
    /\ head' = lh
    /\ Goto(o, "done")
    /\ UNCHANGED <<home, logd, log, cache, mode, tail, held, wset, writes, crashes>>

Done(o) ==
    /\ pc[o] = "done"
    /\ committing' = FALSE
    /\ WakeAll(o, "out")
    /\ UNCHANGED <<disk, lh, outstanding, cache, mode, tail, held, wset, writes, crashes>>

-----------------------------------------------------------------------------
(* A crash loses everything but the disk; initlog recovers before any call. *)
Crash ==
    /\ crashes < MaxCrashes
    /\ crashes' = crashes + 1
    /\ lh' = <<>> /\ outstanding' = 0 /\ committing' = FALSE
    /\ buf' = [b \in Block |-> None]
    /\ pin' = [b \in Block |-> 0]
    /\ owner' = [b \in Block |-> None]
    /\ mode' = "boot" /\ tail' = 1
    /\ pc' = [o \in Op |-> "out"]
    /\ held' = [o \in Op |-> None]
    /\ wset' = [o \in Op |-> {}]
    /\ UNCHANGED <<disk, writes>>

ReadHead ==
    /\ mode = "boot"
    /\ lh' = head
    /\ mode' = IF head = <<>> THEN "erase" ELSE "redo"
    /\ UNCHANGED <<disk, outstanding, committing, cache, tail, call, writes, crashes>>

Redo ==
    LET b == lh[tail] IN
    /\ mode = "redo"
    /\ home' = [home EXCEPT ![b] = logd[tail]]
    /\ buf' = [buf EXCEPT ![b] = logd[tail]]
    /\ IF tail = Len(lh)
       THEN mode' = "erase" /\ tail' = 1
       ELSE tail' = tail + 1 /\ UNCHANGED mode
    /\ UNCHANGED <<logd, head, log, pin, owner, call, writes, crashes>>

EraseOld ==
    /\ mode = "erase"
    /\ lh' = <<>> /\ head' = <<>>
    /\ mode' = "up"
    /\ UNCHANGED <<home, logd, outstanding, committing, cache, tail, call, writes, crashes>>

-----------------------------------------------------------------------------
Commit(o) == \/ WriteLog(o) \/ WriteHead(o) \/ Install(o)
             \/ Clear(o) \/ Erase(o) \/ Done(o)
Recover == ReadHead \/ Redo \/ EraseOld
OpStep(o) == BeginWait(o) \/ BeginOp(o) \/ LogWrite(o) \/ EndOp(o) \/ Commit(o)

Next == \/ \E o \in Op : OpStep(o) \/ Call(o) \/ \E b \in Block : Modify(o, b)
        \/ \E b \in Block : Evict(b)
        \/ Crash
        \/ Recover

Spec == Init /\ [][Next]_vars

-----------------------------------------------------------------------------

InCall(o) == pc[o] \in {"in", "hold"}

(* The panics of log_write and end_op are unreachable: what begin_op        *)
(* reserved is enough for every call in progress, absorbed writes included, *)
(* and none is in progress during a commit.                                 *)
NoPanic == \A o \in Op : /\ pc[o] = "hold" => Fits
                         /\ InCall(o) => ~committing

(* A logged block keeps its buffer until it is installed, and no longer.    *)
PinnedUntilInstalled ==
    mode = "up" =>
        \A b \in Block :
            pin[b] = Cardinality({i \in 1..Len(lh) :
                        /\ lh[i] = b
                        /\ ~\E o \in Op : \/ pc[o] = "install" /\ i < tail
                                          \/ pc[o] = "clear"})

\* The log has room for what is admitted to it, in its header and in the cache.
LogSound == NoPanic /\ PinnedUntilInstalled

(* A call sleeps in begin_op only while it must, and while there is someone *)
(* to wake it: no wakeup(&log) of end_op is lost.                           *)
NoLostWakeup == (\E o \in Op : pc[o] = "asleep") =>
                    committing \/ (NoRoom /\ outstanding > 0)

(* A transaction is atomic: the disk as recovery would leave it only ever   *)
(* changes to what all ended calls wrote, at once.                          *)
Durable == [b \in Block |->
               IF b \in ToSet(head)
               THEN logd[CHOOSE i \in 1..Len(head) : head[i] = b] ELSE home[b]]
Mem == IF mode = "up" THEN [b \in Block |-> Cached(b)] ELSE Durable

Abstract == INSTANCE AtomicDisk
    WITH InitVal <- 0, mem <- Mem, durable <- Durable,
         active <- {o \in Op : InCall(o)}
Refines == Abstract!Spec
===============================================================================
