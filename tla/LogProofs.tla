------------------------------ MODULE LogProofs ------------------------------
(***************************************************************************)
(* The log for any number of calls and blocks and any sizes: its panics are *)
(* unreachable, pins last from log_write to installation, no sleeper of     *)
(* begin_op is forgotten, and what is on disk is an AtomicDisk.             *)
(*                                                                         *)
(* The inductive invariant says what holds at each place of commit() and of *)
(* recovery: which of the three copies of a block (cache, log, home) agree  *)
(* (Copied, Cache), which header is on disk (Shape), which blocks are       *)
(* pinned (Pins), who is in a call (Counted, Calls), and how much the calls *)
(* in progress may still add to the log (Room).                             *)
(***************************************************************************)
EXTENDS Log, FiniteSetTheorems, TLAPS

PC == {"out", "begin", "asleep", "in", "hold",
       "wlog", "whead", "install", "clear", "erase", "done"}

DiskOK ==
    /\ home \in [Block -> Val] /\ logd \in [1..LOGSIZE -> Val]
    /\ head \in Seq(Block) /\ Len(head) <= LOGSIZE
    /\ writes \in 0..MaxWrites /\ crashes \in Nat

LogOK ==
    /\ lh \in Seq(Block) /\ Len(lh) <= LOGSIZE
    /\ outstanding \in Nat /\ committing \in BOOLEAN
    /\ mode \in {"boot", "redo", "erase", "up"}
    /\ tail \in Nat \ {0}

CacheOK ==
    /\ buf \in [Block -> Val \cup {None}]
    /\ pin \in [Block -> Int]
    /\ owner \in [Block -> Op \cup {None}]

CallOK ==
    /\ pc \in [Op -> PC]
    /\ held \in [Op -> Block \cup {None}]
    /\ wset \in [Op -> SUBSET Block]

TypeOK == DiskOK /\ LogOK /\ CacheOK /\ CallOK

(* Before recovery is over no call has begun and the cache is the disk.     *)
Quiet == mode # "up" =>
    /\ \A o \in Op : pc[o] = "out"
    /\ outstanding = 0 /\ ~committing
    /\ \A b \in Block : owner[b] = None /\ pin[b] = 0 /\ buf[b] \in {None, home[b]}

Committing(o) == pc[o] \in {"wlog", "whead", "install", "clear", "erase", "done"}
(* Who is in a call is counted; one process commits, with no call in progress. *)
Active == {o \in Op : InCall(o)}
Counted == outstanding = Cardinality(Active)
Calls ==
    /\ committing <=> \E o \in Op : Committing(o)
    /\ \A o, p \in Op : Committing(o) /\ Committing(p) => o = p
    /\ committing => outstanding = 0
    /\ mode = "up" /\ outstanding = 0 /\ ~committing => lh = <<>>

(* A buffer's owner is the call that holds it, and only a call has written. *)
Holds ==
    /\ \A o \in Op : IF pc[o] = "hold"
                     THEN held[o] \in wset[o] /\ owner[held[o]] = o
                     ELSE held[o] = None
    /\ \A b \in Block : owner[b] # None => held[owner[b]] = b
    /\ \A o \in Op : ~InCall(o) => wset[o] = {}
    /\ \A o \in Op : Cardinality(wset[o]) <= OpBlocks

Distinct(s) == \A i, j \in 1..Len(s) : s[i] = s[j] => i = j

(* The header on disk and in memory, and the loop variable, at each place.  *)
Shape ==
    /\ Distinct(lh) /\ Distinct(head)
    /\ \A o \in Op : pc[o] \in {"wlog", "install"} => tail <= Len(lh)
    /\ \A o \in Op : pc[o] = "whead" => tail = 1
    /\ \A o \in Op : pc[o] \in {"whead", "clear"} => lh # <<>>
    /\ \A o \in Op : pc[o] \in {"install", "clear"} => head = lh
    /\ \A o \in Op : pc[o] \in {"erase", "done"} => lh = <<>>
    /\ mode = "up" /\ (\A o \in Op : pc[o] \notin {"install", "clear", "erase"})
          => head = <<>>
    /\ mode = "boot" => tail = 1 /\ lh = <<>>
    /\ mode = "redo" => lh = head /\ tail <= Len(lh)

Pinned(i) == ~\E o \in Op : \/ pc[o] = "install" /\ i < tail
                            \/ pc[o] = "clear"
(* A block of the log is pinned once, until it is installed.                *)
Pins == mode = "up" =>
    \A b \in Block :
        pin[b] = IF \E i \in 1..Len(lh) : lh[i] = b /\ Pinned(i) THEN 1 ELSE 0

(* What write_log, install_trans and recovery have copied so far.           *)
Redone(i) == home[head[i]] = logd[i]
Copied ==
    /\ \A o \in Op : pc[o] = "wlog" =>
          \A i \in 1..(tail - 1) : logd[i] = buf[lh[i]]
    /\ \A o \in Op : pc[o] = "whead" =>
          \A i \in 1..Len(lh) : logd[i] = buf[lh[i]]
    /\ \A o \in Op : pc[o] = "install" =>
          \A i \in 1..Len(lh) : IF i < tail
                                THEN Redone(i) /\ buf[lh[i]] \in {None, logd[i]}
                                ELSE buf[lh[i]] = logd[i]
    /\ \A o \in Op : pc[o] = "clear" =>
          \A i \in 1..Len(lh) : buf[lh[i]] \in {None, home[lh[i]]}
    /\ \A o \in Op : pc[o] \in {"clear", "erase"} => \A i \in 1..Len(head) : Redone(i)
    /\ mode = "redo" => \A i \in 1..(tail - 1) : Redone(i)
    /\ mode = "erase" => \A i \in 1..Len(head) : Redone(i)

(* A buffer that nobody holds and that is not in the log is a copy of home. *)
Cache ==
    /\ \A b \in Block : owner[b] = None /\ ~Logged(b) => buf[b] \in {None, home[b]}
    /\ \A b \in Block : pin[b] # 0 => buf[b] # None
    /\ \A b \in Block : owner[b] # None => buf[b] # None

(* What the calls in progress may still add to the log, and what it can hold. *)
Absorbed(o) == Cardinality(wset[o] \cap ToSet(lh))
Left == {x \in Active \X (1..OpBlocks) : x[2] > Absorbed(x[1])}
Alone == OpBlocks
Crowd == LOGSIZE - 2 * (MAXOPBLOCKS - OpBlocks)
Room == mode = "up" /\ ~committing =>
            Len(lh) + Cardinality(Left) <= IF Alone > Crowd THEN Alone ELSE Crowd

IInv == TypeOK /\ Quiet /\ Counted /\ Calls /\ Holds /\ Shape /\ Pins /\ Copied
        /\ Cache /\ Room

-----------------------------------------------------------------------------
LEMMA LoggedAt == \A b : Logged(b) <=> \E i \in 1..Len(lh) : lh[i] = b
  BY DEF Logged, ToSet
LEMMA InToSet ==
    ASSUME NEW S, NEW s \in Seq(S)
    PROVE  \A x : x \in ToSet(s) <=> \E i \in 1..Len(s) : s[i] = x
  BY DEF ToSet
LEMMA AppendType ==
    ASSUME NEW S, NEW s \in Seq(S), NEW e \in S
    PROVE  Append(s, e) \in Seq(S) /\ Len(Append(s, e)) = Len(s) + 1
  OBVIOUS

(* Who is in a call is counted.                                             *)
LEMMA InCallCounted ==
    ASSUME TypeOK, Counted, Calls, NEW o \in Op, InCall(o)
    PROVE  outstanding >= 1 /\ ~committing
<1>1. IsFiniteSet(Active)
  BY LogAssumption, FS_Subset DEF Active
<1>2. Cardinality(Active) # 0
  BY <1>1, FS_EmptySet DEF Active
<1> QED
  BY <1>2 DEF Counted, Calls, TypeOK, LogOK

(* During a commit the other calls have not begun.                          *)
LEMMA CommitsAlone ==
    ASSUME IInv, NEW o \in Op, Committing(o)
    PROVE  /\ mode = "up" /\ committing /\ outstanding = 0
           /\ \A q \in Op : q # o => pc[q] \in {"out", "begin", "asleep"}
<1>1. mode = "up"
  BY DEF IInv, Quiet, Committing
<1>2. committing /\ outstanding = 0
  BY DEF IInv, Calls
<1>3. ASSUME NEW q \in Op, q # o PROVE pc[q] \in {"out", "begin", "asleep"}
  <2>1. ~InCall(q)
    BY <1>2, InCallCounted DEF IInv
  <2>2. ~Committing(q)
    BY <1>3 DEF IInv, Calls
  <2> QED
    BY <2>1, <2>2 DEF IInv, TypeOK, CallOK, PC, InCall, Committing
<1> QED
  BY <1>1, <1>2, <1>3

LEMMA TypeStep == IInv /\ Next => TypeOK'
<1> SUFFICES ASSUME IInv, Next PROVE TypeOK'
  OBVIOUS
<1> USE LogAssumption DEF IInv, TypeOK, DiskOK, LogOK, CacheOK, CallOK, Goto, PC, Val
<1>1. ASSUME NEW o \in Op, Call(o) PROVE TypeOK'
  BY <1>1 DEF Call, disk, log, cache
<1>2. ASSUME NEW o \in Op, BeginWait(o) PROVE TypeOK'
  BY <1>2 DEF BeginWait, disk, log, cache
<1>3. ASSUME NEW o \in Op, BeginOp(o) PROVE TypeOK'
  BY <1>3 DEF BeginOp, disk, cache
<1>4. ASSUME NEW o \in Op, NEW b \in Block, Modify(o, b) PROVE TypeOK'
  BY <1>4 DEF Modify, disk, log
<1>5. ASSUME NEW o \in Op, LogWrite(o) PROVE TypeOK'
  <2>1. held[o] \in Block
    BY <1>5 DEF LogWrite, Holds
  <2>2. CASE Logged(held[o])
    BY <1>5, <2>1, <2>2 DEF LogWrite, disk
  <2>3. CASE ~Logged(held[o])
    <3>1. lh' = Append(lh, held[o]) /\ Len(lh) < LOGSIZE
      BY <1>5, <2>3 DEF LogWrite, Fits
    <3>2. lh' \in Seq(Block) /\ Len(lh') <= LOGSIZE
      BY <2>1, <3>1, AppendType
    <3>3. DiskOK' /\ CacheOK' /\ CallOK'
      BY <1>5, <2>1, <2>3 DEF LogWrite, disk
    <3>4. LogOK'
      BY <1>5, <3>2 DEF LogWrite
    <3> QED
      BY <3>3, <3>4
  <2> QED
    BY <2>2, <2>3
<1>6. ASSUME NEW b \in Block, Evict(b) PROVE TypeOK'
  BY <1>6 DEF Evict, disk, log, call
<1>7. ASSUME NEW o \in Op, EndOp(o) PROVE TypeOK'
  <2>1. outstanding >= 1
    BY <1>7, InCallCounted DEF EndOp, InCall
  <2> QED
    <3>1. CASE outstanding = 1
        <4>11. DiskOK'
          BY <1>7, <3>1 DEF EndOp, disk, cache
        <4>12. LogOK'
          BY <1>7, <3>1 DEF EndOp, disk, cache
        <4>13. CacheOK'
          BY <1>7, <3>1 DEF EndOp, disk, cache
        <4>14. CallOK'
          BY <1>7, <3>1 DEF EndOp, disk, cache
        <4> QED
          BY <4>11, <4>12, <4>13, <4>14
    <3>2. CASE outstanding # 1
      BY <1>7, <2>1, <3>2 DEF EndOp, disk, cache, WakeAll
    <3> QED
      BY <3>1, <3>2
<1>8. ASSUME NEW o \in Op, WriteLog(o) PROVE TypeOK'
  <2>1. lh[tail] \in Block /\ tail \in 1..LOGSIZE
    BY <1>8 DEF WriteLog, Shape
  <2> QED
    <3>1. Cached(lh[tail]) \in 0..MaxWrites
      BY <2>1 DEF Cached
    <3>2. logd' \in [1..LOGSIZE -> 0..MaxWrites]
      BY <1>8, <2>1, <3>1 DEF WriteLog
      <3>11. DiskOK'
        BY <1>8, <2>1, <3>2 DEF WriteLog, log, cache, AfterWriteLog
      <3>12. LogOK'
        BY <1>8, <2>1, <3>2 DEF WriteLog, log, cache, AfterWriteLog
      <3>13. CacheOK'
        BY <1>8, <2>1, <3>2 DEF WriteLog, log, cache, AfterWriteLog
      <3>14. CallOK'
        BY <1>8, <2>1, <3>2 DEF WriteLog, log, cache, AfterWriteLog
      <3> QED
        BY <3>11, <3>12, <3>13, <3>14
<1>9. ASSUME NEW o \in Op, WriteHead(o) PROVE TypeOK'
  BY <1>9 DEF WriteHead, log, cache
<1>10. ASSUME NEW o \in Op, Install(o) PROVE TypeOK'
  <2>1. lh[tail] \in Block /\ tail \in 1..LOGSIZE
    BY <1>10 DEF Install, Shape
  <2> QED
    <3>1. logd[tail] \in 0..MaxWrites
      BY <2>1
    <3>2. home' \in [Block -> 0..MaxWrites]
      BY <1>10, <2>1, <3>1 DEF Install
    <3>3. buf' \in [Block -> 0..MaxWrites \cup {None}]
      BY <1>10, <2>1, <3>1 DEF Install
    <3>4. pin' \in [Block -> Int]
      BY <1>10, <2>1 DEF Install, Unpin
      <3>11. DiskOK'
        BY <1>10, <2>1, <3>2, <3>3, <3>4 DEF Install, log
      <3>12. LogOK'
        BY <1>10, <2>1, <3>2, <3>3, <3>4 DEF Install, log
      <3>13. CacheOK'
        BY <1>10, <2>1, <3>2, <3>3, <3>4 DEF Install, log
      <3>14. CallOK'
        BY <1>10, <2>1, <3>2, <3>3, <3>4 DEF Install, log
      <3> QED
        BY <3>11, <3>12, <3>13, <3>14
<1>11. ASSUME NEW o \in Op, Clear(o) PROVE TypeOK'
  BY <1>11 DEF Clear, disk, cache
<1>12. ASSUME NEW o \in Op, Erase(o) PROVE TypeOK'
  BY <1>12 DEF Erase, log, cache
<1>13. ASSUME NEW o \in Op, Done(o) PROVE TypeOK'
  BY <1>13 DEF Done, disk, cache, WakeAll
<1>14. CASE Crash
  <2>1. lh' \in Seq(Block) /\ Len(lh') <= LOGSIZE
    BY <1>14 DEF Crash
  <2>2. DiskOK' /\ CacheOK' /\ CallOK'
    BY <1>14 DEF Crash, disk
  <2>3. outstanding' \in Nat /\ committing' \in BOOLEAN
    BY <1>14 DEF Crash
  <2>4. mode' \in {"boot", "redo", "erase", "up"}
    BY <1>14 DEF Crash
  <2>5. tail' \in Nat \ {0}
    BY <1>14 DEF Crash
  <2>6. LogOK'
    BY <2>1, <2>3, <2>4, <2>5 DEF LogOK
  <2> QED
    BY <2>2, <2>6 DEF TypeOK
<1>15. CASE ReadHead
  BY <1>15 DEF ReadHead, disk, cache, call
<1>16. CASE Redo
  <2>1. lh[tail] \in Block /\ tail \in 1..LOGSIZE
    BY <1>16 DEF Redo, Shape
  <2> QED
    <3>1. logd[tail] \in 0..MaxWrites
      BY <2>1
    <3>2. home' \in [Block -> 0..MaxWrites]
      BY <1>16, <2>1, <3>1 DEF Redo
    <3>3. buf' \in [Block -> 0..MaxWrites \cup {None}]
      BY <1>16, <2>1, <3>1 DEF Redo
    <3> QED
      BY <1>16, <3>2, <3>3 DEF Redo, log, call
<1>17. CASE EraseOld
  BY <1>17 DEF EraseOld, cache, call
<1> QED
  BY <1>1, <1>2, <1>3, <1>4, <1>5, <1>6, <1>7, <1>8, <1>9, <1>10, <1>11, <1>12,
     <1>13, <1>14, <1>15, <1>16, <1>17 DEF Next, OpStep, Commit, Recover

LEMMA QuietStep == IInv /\ Next => Quiet'
<1> SUFFICES ASSUME IInv, Next PROVE Quiet'
  OBVIOUS
<1> USE LogAssumption DEF IInv, Goto, disk, log, cache, call, Quiet, TypeOK, DiskOK, LogOK, CacheOK, CallOK
<1>1. ASSUME NEW o \in Op, Call(o) PROVE Quiet'
  BY <1>1 DEF Call
<1>2. ASSUME NEW o \in Op, BeginWait(o) PROVE Quiet'
  BY <1>2 DEF BeginWait
<1>3. ASSUME NEW o \in Op, BeginOp(o) PROVE Quiet'
  BY <1>3 DEF BeginOp
<1>4. ASSUME NEW o \in Op, NEW b \in Block, Modify(o, b) PROVE Quiet'
  BY <1>4 DEF Modify
<1>5. ASSUME NEW o \in Op, LogWrite(o) PROVE Quiet'
  BY <1>5 DEF LogWrite, Fits
<1>6. ASSUME NEW b \in Block, Evict(b) PROVE Quiet'
  BY <1>6 DEF Evict
<1>7. ASSUME NEW o \in Op, EndOp(o) PROVE Quiet'
  BY <1>7 DEF EndOp, WakeAll
<1>8. ASSUME NEW o \in Op, WriteLog(o) PROVE Quiet'
  BY <1>8 DEF WriteLog, AfterWriteLog
<1>9. ASSUME NEW o \in Op, WriteHead(o) PROVE Quiet'
  BY <1>9 DEF WriteHead
<1>10. ASSUME NEW o \in Op, Install(o) PROVE Quiet'
  BY <1>10 DEF Install, Unpin
<1>11. ASSUME NEW o \in Op, Clear(o) PROVE Quiet'
  BY <1>11 DEF Clear
<1>12. ASSUME NEW o \in Op, Erase(o) PROVE Quiet'
  BY <1>12 DEF Erase
<1>13. ASSUME NEW o \in Op, Done(o) PROVE Quiet'
  BY <1>13 DEF Done, WakeAll
<1>14. CASE Crash
  BY <1>14 DEF Crash
<1>15. CASE ReadHead
  BY <1>15 DEF ReadHead
<1>16. CASE Redo
  BY <1>16 DEF Redo
<1>17. CASE EraseOld
  BY <1>17 DEF EraseOld
<1> QED
  BY <1>1, <1>2, <1>3, <1>4, <1>5, <1>6, <1>7, <1>8, <1>9, <1>10, <1>11, <1>12,
     <1>13, <1>14, <1>15, <1>16, <1>17 DEF Next, OpStep, Commit, Recover

LEMMA CountedStep == IInv /\ Next => Counted'
<1> SUFFICES ASSUME IInv, Next PROVE Counted'
  OBVIOUS
<1> USE DEF IInv, TypeOK, LogOK, CallOK, InCall, Goto
<1>1. ASSUME Active' = Active, outstanding' = outstanding PROVE Counted'
  BY <1>1 DEF Counted
<1>2. IsFiniteSet(Active) /\ Cardinality(Active) \in Nat
  BY LogAssumption, FS_Subset, FS_CardinalityType DEF Active
<1>3. ASSUME NEW o \in Op, BeginOp(o) PROVE Counted'
  <2>1. Active' = Active \cup {o} /\ o \notin Active
    BY <1>3 DEF BeginOp, Active
  <2> QED
    BY <1>2, <1>3, <2>1, FS_AddElement DEF BeginOp, Counted
<1>4. ASSUME NEW o \in Op, EndOp(o) PROVE Counted'
  <2>1. Active' = Active \ {o} /\ o \in Active
    BY <1>4 DEF EndOp, WakeAll, Active
  <2> QED
    BY <1>2, <1>4, <2>1, FS_RemoveElement DEF EndOp, Counted
<1>5. CASE Crash
  <2>1. Active' = {} /\ outstanding' = 0
    BY <1>5 DEF Crash, Active
  <2> QED
    BY <2>1, FS_EmptySet DEF Counted
<1>6. ASSUME NEW o \in Op, Call(o) \/ BeginWait(o) \/ Commit(o) PROVE Counted'
  <2>1. Active' = Active
    BY <1>6 DEF Call, BeginWait, Commit, WriteLog, AfterWriteLog, WriteHead,
       Install, Clear, Erase, Done, WakeAll, Active
  <2>2. outstanding' = outstanding
    BY <1>6 DEF Call, BeginWait, Commit, WriteLog, WriteHead, Install, Clear,
       Erase, Done, log
  <2> QED
    BY <1>1, <2>1, <2>2
<1>7. ASSUME NEW o \in Op, LogWrite(o) PROVE Counted'
  <2>1. Active' = Active /\ outstanding' = outstanding
    BY <1>7 DEF LogWrite, Active
  <2> QED
    BY <1>1, <2>1
<1>8. ASSUME NEW o \in Op, NEW b \in Block, Modify(o, b) PROVE Counted'
  <2>1. Active' = Active /\ outstanding' = outstanding
    BY <1>8 DEF Modify, Active, log
  <2> QED
    BY <1>1, <2>1
<1>9. CASE (\E b \in Block : Evict(b)) \/ Recover
  <2>1. Active' = Active /\ outstanding' = outstanding
    BY <1>9 DEF Evict, Recover, ReadHead, Redo, EraseOld, Active, log, call
  <2> QED
    BY <1>1, <2>1
<1> QED
  BY <1>3, <1>4, <1>5, <1>6, <1>7, <1>8, <1>9 DEF Next, OpStep

LEMMA CallsStep == IInv /\ Next => Calls'
<1> SUFFICES ASSUME IInv, Next PROVE Calls'
  OBVIOUS
<1> USE LogAssumption DEF IInv, Goto, disk, log, cache, call, Calls, Committing
<1>1. ASSUME NEW o \in Op, Call(o) PROVE Calls'
  BY <1>1 DEF Call
<1>2. ASSUME NEW o \in Op, BeginWait(o) PROVE Calls'
  BY <1>2 DEF BeginWait
<1>3. ASSUME NEW o \in Op, BeginOp(o) PROVE Calls'
  BY <1>3 DEF BeginOp, TypeOK, LogOK, CallOK
<1>4. ASSUME NEW o \in Op, NEW b \in Block, Modify(o, b) PROVE Calls'
  BY <1>4 DEF Modify
<1>5. ASSUME NEW o \in Op, LogWrite(o) PROVE Calls'
  BY <1>5 DEF LogWrite, Fits
<1>6. ASSUME NEW b \in Block, Evict(b) PROVE Calls'
  BY <1>6 DEF Evict
<1>7. ASSUME NEW o \in Op, EndOp(o) PROVE Calls'
  <2>1. outstanding >= 1
    BY <1>7, InCallCounted DEF EndOp, InCall
  <2>2. CASE outstanding = 1
    BY <1>7, <2>2 DEF EndOp, TypeOK, CallOK
  <2>3. CASE outstanding # 1
    <3>1. outstanding' # 0 /\ committing' = FALSE
      BY <1>7, <2>1, <2>3 DEF EndOp, TypeOK, LogOK
    <3>2. \A q \in Op : ~Committing(q)'
      BY <1>7, <2>3 DEF EndOp, WakeAll
    <3> QED
      BY <3>1, <3>2
  <2> QED
    BY <2>2, <2>3
<1>8. ASSUME NEW o \in Op, WriteLog(o) PROVE Calls'
  <2>1. \A q \in Op : Committing(q)' <=> Committing(q)
    BY <1>8 DEF WriteLog, AfterWriteLog, TypeOK, CallOK
  <2> QED
    BY <1>8, <2>1 DEF WriteLog
<1>9. ASSUME NEW o \in Op, WriteHead(o) PROVE Calls'
  BY <1>9 DEF WriteHead
<1>10. ASSUME NEW o \in Op, Install(o) PROVE Calls'
  <2>1. \A q \in Op : Committing(q)' <=> Committing(q)
    BY <1>10 DEF Install, Unpin, TypeOK, CallOK
  <2> QED
    BY <1>10, <2>1 DEF Install
<1>11. ASSUME NEW o \in Op, Clear(o) PROVE Calls'
  BY <1>11 DEF Clear
<1>12. ASSUME NEW o \in Op, Erase(o) PROVE Calls'
  BY <1>12 DEF Erase
<1>13. ASSUME NEW o \in Op, Done(o) PROVE Calls'
  <2>1. \A q \in Op : ~Committing(q)'
    BY <1>13, CommitsAlone DEF Done, WakeAll
  <2>2. lh' = <<>> /\ committing' = FALSE
    BY <1>13 DEF Done, Shape
  <2> QED
    BY <2>1, <2>2
<1>14. CASE Crash
  BY <1>14 DEF Crash
<1>15. CASE ReadHead
  BY <1>15 DEF ReadHead
<1>16. CASE Redo
  BY <1>16 DEF Redo
<1>17. CASE EraseOld
  BY <1>17 DEF EraseOld
<1> QED
  BY <1>1, <1>2, <1>3, <1>4, <1>5, <1>6, <1>7, <1>8, <1>9, <1>10, <1>11, <1>12,
     <1>13, <1>14, <1>15, <1>16, <1>17 DEF Next, OpStep, Commit, Recover

LEMMA HoldsStep == IInv /\ Next => Holds'
<1> SUFFICES ASSUME IInv, Next PROVE Holds'
  OBVIOUS
<1> USE LogAssumption DEF IInv, Goto, disk, log, cache, call, Holds, InCall
<1>1. ASSUME NEW o \in Op, Call(o) PROVE Holds'
  BY <1>1 DEF Call
<1>2. ASSUME NEW o \in Op, BeginWait(o) PROVE Holds'
  BY <1>2 DEF BeginWait
<1>3. ASSUME NEW o \in Op, BeginOp(o) PROVE Holds'
  BY <1>3 DEF BeginOp
<1>4. ASSUME NEW o \in Op, NEW b \in Block, Modify(o, b) PROVE Holds'
  BY <1>4 DEF Modify, TypeOK, CacheOK, CallOK
<1>5. ASSUME NEW o \in Op, LogWrite(o) PROVE Holds'
  BY <1>5 DEF LogWrite, TypeOK, CacheOK, CallOK
<1>6. ASSUME NEW b \in Block, Evict(b) PROVE Holds'
  BY <1>6 DEF Evict
<1>7. ASSUME NEW o \in Op, EndOp(o) PROVE Holds'
  BY <1>7, FS_EmptySet DEF EndOp, WakeAll, TypeOK, CacheOK, CallOK
<1>8. ASSUME NEW o \in Op, WriteLog(o) PROVE Holds'
  BY <1>8 DEF WriteLog, AfterWriteLog, TypeOK, CacheOK, CallOK
<1>9. ASSUME NEW o \in Op, WriteHead(o) PROVE Holds'
  BY <1>9 DEF WriteHead
<1>10. ASSUME NEW o \in Op, Install(o) PROVE Holds'
  BY <1>10 DEF Install, TypeOK, CacheOK, CallOK
<1>11. ASSUME NEW o \in Op, Clear(o) PROVE Holds'
  BY <1>11 DEF Clear
<1>12. ASSUME NEW o \in Op, Erase(o) PROVE Holds'
  BY <1>12 DEF Erase
<1>13. ASSUME NEW o \in Op, Done(o) PROVE Holds'
  BY <1>13 DEF Done, WakeAll
<1>14. CASE Crash
  BY <1>14, FS_EmptySet DEF Crash
<1>15. CASE ReadHead
  BY <1>15 DEF ReadHead
<1>16. CASE Redo
  BY <1>16 DEF Redo
<1>17. CASE EraseOld
  BY <1>17 DEF EraseOld
<1> QED
  BY <1>1, <1>2, <1>3, <1>4, <1>5, <1>6, <1>7, <1>8, <1>9, <1>10, <1>11, <1>12,
     <1>13, <1>14, <1>15, <1>16, <1>17 DEF Next, OpStep, Commit, Recover

LEMMA ShapeStep == IInv /\ Next => Shape'
<1> SUFFICES ASSUME IInv, Next PROVE Shape'
  OBVIOUS
<1> USE LogAssumption DEF IInv, Goto, disk, log, cache, call, Shape, Committing
<1>1. ASSUME NEW o \in Op, Call(o) PROVE Shape'
  BY <1>1 DEF Call
<1>2. ASSUME NEW o \in Op, BeginWait(o) PROVE Shape'
  BY <1>2 DEF BeginWait
<1>3. ASSUME NEW o \in Op, BeginOp(o) PROVE Shape'
  BY <1>3 DEF BeginOp
<1>4. ASSUME NEW o \in Op, NEW b \in Block, Modify(o, b) PROVE Shape'
  <2>1. \A q \in Op : pc[q] # pc'[q] => pc'[q] = "hold" /\ pc[q] = "in"
    BY <1>4 DEF Modify, TypeOK, CallOK
  <2> QED
    BY <1>4, <2>1 DEF Modify
<1>5. ASSUME NEW o \in Op, LogWrite(o) PROVE Shape'
  <2>1. held[o] \in Block /\ Active # {}
    BY <1>5 DEF LogWrite, Holds, TypeOK, CallOK, Active, InCall
  <2>2. mode = "up" /\ \A q \in Op : ~Committing(q)
    BY <1>5, InCallCounted DEF LogWrite, Quiet, Calls, InCall
  <2>3. Distinct(lh')
    <3>1. CASE Logged(held[o])
      BY <1>5, <3>1 DEF LogWrite
    <3>2. CASE ~Logged(held[o])
      <4>1. lh' = Append(lh, held[o])
        BY <1>5, <3>2 DEF LogWrite
      <4>2. \A i \in 1..Len(lh) : lh[i] # held[o]
        BY <3>2, LoggedAt
      <4> QED
        BY <2>1, <4>1, <4>2 DEF Distinct, TypeOK, LogOK
    <3> QED
      BY <3>1, <3>2
  <2>4. \A q \in Op : ~Committing(q)'
    BY <1>5, <2>2 DEF LogWrite, TypeOK, CallOK
  <2>5. mode' = "up" /\ head' = head
    BY <1>5, <2>2 DEF LogWrite
  <2>6. head = <<>>
    BY <2>2
  <2> QED
    BY <2>3, <2>4, <2>5, <2>6
<1>6. ASSUME NEW b \in Block, Evict(b) PROVE Shape'
  BY <1>6 DEF Evict
<1>7. ASSUME NEW o \in Op, EndOp(o) PROVE Shape'
  <2>1. mode = "up" /\ \A q \in Op : ~Committing(q)
    BY <1>7 DEF EndOp, Quiet, Calls
  <2>2. head = <<>>
    BY <2>1
  <2>3. \A q \in Op : q # o => ~Committing(q)'
    BY <1>7, <2>1 DEF EndOp, WakeAll, TypeOK, CallOK
  <2>4. pc'[o] \in {"out", "done", "wlog"}
    BY <1>7 DEF EndOp, WakeAll, TypeOK, CallOK
  <2>5. pc'[o] = "wlog" => tail' = 1 /\ Len(lh) >= 1
    BY <1>7 DEF EndOp, WakeAll, TypeOK, LogOK, CallOK
  <2>6. pc'[o] = "done" => lh = <<>>
    BY <1>7 DEF EndOp, WakeAll, TypeOK, CallOK
  <2>7. mode' = "up" /\ lh' = lh /\ head' = head
    BY <1>7, <2>1 DEF EndOp
  <2> QED
    BY <2>2, <2>3, <2>4, <2>5, <2>6, <2>7
<1>8. ASSUME NEW o \in Op, WriteLog(o) PROVE Shape'
  <2>1. mode = "up" /\ \A q \in Op : q # o => ~Committing(q)
    BY <1>8, CommitsAlone DEF WriteLog
  <2>2. \A q \in Op : q # o => ~Committing(q)'
    BY <1>8, <2>1 DEF WriteLog, TypeOK, CallOK
  <2>3. pc[o] = "wlog" /\ tail <= Len(lh) /\ lh # <<>> /\ head = <<>>
    BY <1>8, <2>1 DEF WriteLog, TypeOK, LogOK
  <2>4. CASE tail = Len(lh)
    <3>1. pc'[o] = "whead" /\ tail' = 1
      BY <1>8, <2>4 DEF WriteLog, AfterWriteLog, TypeOK, CallOK
    <3> QED
      BY <1>8, <2>1, <2>2, <2>3, <3>1 DEF WriteLog
  <2>5. CASE tail # Len(lh)
    <3>1. pc'[o] = "wlog" /\ tail' = tail + 1 /\ tail' <= Len(lh)
      BY <1>8, <2>3, <2>5 DEF WriteLog, TypeOK, LogOK
    <3> QED
      BY <1>8, <2>1, <2>2, <2>3, <3>1 DEF WriteLog
  <2> QED
    BY <2>4, <2>5
<1>9. ASSUME NEW o \in Op, WriteHead(o) PROVE Shape'
  <2>1. mode = "up" /\ \A q \in Op : q # o => ~Committing(q)
    BY <1>9, CommitsAlone DEF WriteHead
  <2>2. \A q \in Op : q # o => ~Committing(q)'
    BY <1>9, <2>1 DEF WriteHead, TypeOK, CallOK
  <2>3. pc'[o] = "install" /\ tail = 1 /\ Len(lh) >= 1
    BY <1>9 DEF WriteHead, TypeOK, LogOK, CallOK
  <2> QED
    BY <1>9, <2>1, <2>2, <2>3 DEF WriteHead
<1>10. ASSUME NEW o \in Op, Install(o) PROVE Shape'
  <2>1. mode = "up" /\ \A q \in Op : q # o => ~Committing(q)
    BY <1>10, CommitsAlone DEF Install
  <2>2. \A q \in Op : q # o => ~Committing(q)'
    BY <1>10, <2>1 DEF Install, TypeOK, CallOK
  <2>3. pc[o] = "install" /\ tail <= Len(lh) /\ lh # <<>> /\ head = lh
    BY <1>10, <2>1 DEF Install, TypeOK, LogOK
  <2>4. CASE tail = Len(lh)
    <3>1. pc'[o] = "clear"
      BY <1>10, <2>4 DEF Install, TypeOK, CallOK
    <3> QED
      BY <1>10, <2>1, <2>2, <2>3, <3>1 DEF Install
  <2>5. CASE tail # Len(lh)
    <3>1. pc'[o] = "install" /\ tail' = tail + 1 /\ tail' <= Len(lh)
      BY <1>10, <2>3, <2>5 DEF Install, TypeOK, LogOK
    <3> QED
      BY <1>10, <2>1, <2>2, <2>3, <3>1 DEF Install
  <2> QED
    BY <2>4, <2>5
<1>11. ASSUME NEW o \in Op, Clear(o) PROVE Shape'
  <2>1. mode = "up" /\ \A q \in Op : q # o => ~Committing(q)
    BY <1>11, CommitsAlone DEF Clear
  <2>2. \A q \in Op : q # o => ~Committing(q)'
    BY <1>11, <2>1 DEF Clear, TypeOK, CallOK
  <2>3. pc'[o] = "erase" /\ lh' = <<>> /\ Distinct(lh')
    BY <1>11 DEF Clear, TypeOK, CallOK, Distinct
  <2> QED
    BY <1>11, <2>1, <2>2, <2>3 DEF Clear
<1>12. ASSUME NEW o \in Op, Erase(o) PROVE Shape'
  <2>1. mode = "up" /\ \A q \in Op : q # o => ~Committing(q)
    BY <1>12, CommitsAlone DEF Erase
  <2>2. \A q \in Op : q # o => ~Committing(q)'
    BY <1>12, <2>1 DEF Erase, TypeOK, CallOK
  <2>3. pc'[o] = "done"
    BY <1>12 DEF Erase, TypeOK, CallOK
  <2> QED
    BY <1>12, <2>1, <2>2, <2>3 DEF Erase
<1>13. ASSUME NEW o \in Op, Done(o) PROVE Shape'
  <2>1. mode = "up" /\ \A q \in Op : q # o => ~Committing(q)
    BY <1>13, CommitsAlone DEF Done
  <2>2. \A q \in Op : q # o => ~Committing(q)'
    BY <1>13, <2>1 DEF Done, WakeAll, TypeOK, CallOK
  <2>3. pc'[o] = "out" /\ head = <<>>
    BY <1>13, <2>1 DEF Done, WakeAll, TypeOK, CallOK
  <2> QED
    BY <1>13, <2>1, <2>2, <2>3 DEF Done
<1>14. CASE Crash
  BY <1>14 DEF Crash, Distinct
<1>15. CASE ReadHead
  BY <1>15 DEF ReadHead, Quiet, TypeOK, DiskOK
<1>16. CASE Redo
  BY <1>16 DEF Redo, Quiet, TypeOK, LogOK
<1>17. CASE EraseOld
  BY <1>17 DEF EraseOld, Distinct, Quiet
<1> QED
  BY <1>1, <1>2, <1>3, <1>4, <1>5, <1>6, <1>7, <1>8, <1>9, <1>10, <1>11, <1>12,
     <1>13, <1>14, <1>15, <1>16, <1>17 DEF Next, OpStep, Commit, Recover

LEMMA PinsStep == IInv /\ Next => Pins'
<1> SUFFICES ASSUME IInv, Next PROVE Pins'
  OBVIOUS
<1> USE LogAssumption DEF IInv, Goto, disk, log, cache, call, Pins, Pinned
<1>1. ASSUME NEW o \in Op, Call(o) PROVE Pins'
  BY <1>1 DEF Call
<1>2. ASSUME NEW o \in Op, BeginWait(o) PROVE Pins'
  BY <1>2 DEF BeginWait
<1>3. ASSUME NEW o \in Op, BeginOp(o) PROVE Pins'
  BY <1>3 DEF BeginOp
<1>4. ASSUME NEW o \in Op, NEW b \in Block, Modify(o, b) PROVE Pins'
  BY <1>4 DEF Modify
<1>5. ASSUME NEW o \in Op, LogWrite(o) PROVE Pins'
  <2>1. \A q \in Op : pc[q] \notin {"install", "clear"} /\ pc'[q] \notin {"install", "clear"}
    BY <1>5, InCallCounted DEF LogWrite, Calls, Committing, InCall, TypeOK, CallOK
  <2>2. held[o] \in Block /\ mode = "up"
    BY <1>5 DEF LogWrite, Holds, Quiet, TypeOK, CallOK
  <2>3. \A b \in Block : pin[b] = IF Logged(b) THEN 1 ELSE 0
    BY <2>1, <2>2, LoggedAt
  <2>4. \A b \in Block : pin'[b] = IF \E i \in 1..Len(lh') : lh'[i] = b THEN 1 ELSE 0
    <3>1. CASE Logged(held[o])
      BY <1>5, <2>3, <3>1, LoggedAt DEF LogWrite
    <3>2. CASE ~Logged(held[o])
      <4>1. lh' = Append(lh, held[o]) /\ pin' = [pin EXCEPT ![held[o]] = @ + 1]
        BY <1>5, <3>2 DEF LogWrite
      <4>2. \A b \in Block :
               (\E i \in 1..Len(lh') : lh'[i] = b) <=> Logged(b) \/ b = held[o]
        BY <2>2, <4>1, LoggedAt DEF TypeOK, LogOK
      <4>3. \A b \in Block : pin'[b] = IF b = held[o] THEN pin[b] + 1 ELSE pin[b]
        BY <4>1 DEF TypeOK, CacheOK
      <4> QED
        BY <2>2, <2>3, <3>2, <4>2, <4>3
    <3> QED
      BY <3>1, <3>2
  <2> QED
    BY <2>1, <2>4
<1>6. ASSUME NEW b \in Block, Evict(b) PROVE Pins'
  BY <1>6 DEF Evict
<1>7. ASSUME NEW o \in Op, EndOp(o) PROVE Pins'
  <2>1. \A q \in Op : pc[q] \notin {"install", "clear"} /\ pc'[q] \notin {"install", "clear"}
    BY <1>7 DEF EndOp, WakeAll, Calls, Committing, TypeOK, CallOK
  <2> QED
    BY <1>7, <2>1 DEF EndOp
<1>8. ASSUME NEW o \in Op, WriteLog(o) PROVE Pins'
  <2>1. mode = "up" /\ \A q \in Op : q # o => pc[q] \notin {"install", "clear"}
    BY <1>8, CommitsAlone DEF WriteLog, Committing
  <2>2. \A q \in Op : pc'[q] \notin {"install", "clear"}
    BY <1>8, <2>1 DEF WriteLog, AfterWriteLog, TypeOK, CallOK
  <2> QED
    BY <1>8, <2>1, <2>2 DEF WriteLog
<1>9. ASSUME NEW o \in Op, WriteHead(o) PROVE Pins'
  <2>1. mode = "up" /\ \A q \in Op : q # o => pc[q] \notin {"install", "clear"}
    BY <1>9, CommitsAlone DEF WriteHead, Committing
  <2>2. \A i \in 1..Len(lh) : Pinned(i) /\ Pinned(i)'
    BY <1>9, <2>1 DEF WriteHead, Shape, TypeOK, LogOK, CallOK
  <2> QED
    BY <1>9, <2>1, <2>2 DEF WriteHead
<1>10. ASSUME NEW o \in Op, Install(o) PROVE Pins'
  <2>1. mode = "up" /\ \A q \in Op : q # o => pc[q] \notin {"install", "clear"}
    BY <1>10, CommitsAlone DEF Install, Committing
  <2>2. pc[o] = "install" /\ tail \in 1..Len(lh) /\ lh' = lh /\ mode' = "up"
    BY <1>10, <2>1 DEF Install, Shape, TypeOK, LogOK
  <2>3. \A i \in 1..Len(lh) : Pinned(i) <=> i >= tail
    BY <2>1, <2>2 DEF TypeOK, LogOK
  <2>4. \A i \in 1..Len(lh) : Pinned(i)' <=> i > tail
    <3>1. CASE tail = Len(lh)
      BY <1>10, <2>1, <2>2, <3>1 DEF Install, TypeOK, LogOK, CallOK
    <3>2. CASE tail # Len(lh)
      BY <1>10, <2>1, <2>2, <3>2 DEF Install, TypeOK, LogOK, CallOK
    <3> QED
      BY <3>1, <3>2
  <2>5. \A b \in Block : pin[b] = IF \E i \in 1..Len(lh) : lh[i] = b /\ i >= tail THEN 1 ELSE 0
    BY <2>1, <2>3
  <2>6. \A b \in Block : pin'[b] = IF b = lh[tail] THEN pin[b] - 1 ELSE pin[b]
    BY <1>10, <2>2 DEF Install, Unpin, TypeOK, LogOK, CacheOK
  <2>7. lh[tail] \in Block
    BY <2>2 DEF TypeOK, LogOK
  <2>8. ASSUME NEW b \in Block
        PROVE  pin'[b] = IF \E i \in 1..Len(lh) : lh[i] = b /\ i > tail THEN 1 ELSE 0
    <3>1. CASE b = lh[tail]
      <4>1. ~\E i \in 1..Len(lh) : lh[i] = b /\ i > tail
        BY <2>2, <3>1 DEF Shape, Distinct
      <4>2. pin[b] = 1
        BY <2>2, <2>5, <2>7, <3>1
      <4> QED
        BY <2>6, <3>1, <4>1, <4>2
    <3>2. CASE b # lh[tail]
      <4>1. (\E i \in 1..Len(lh) : lh[i] = b /\ i > tail)
               <=> (\E i \in 1..Len(lh) : lh[i] = b /\ i >= tail)
        BY <2>2, <3>2
      <4> QED
        BY <2>5, <2>6, <3>2, <4>1
    <3> QED
      BY <3>1, <3>2
  <2> QED
    BY <2>2, <2>4, <2>8
<1>11. ASSUME NEW o \in Op, Clear(o) PROVE Pins'
  BY <1>11 DEF Clear
<1>12. ASSUME NEW o \in Op, Erase(o) PROVE Pins'
  BY <1>12 DEF Erase
<1>13. ASSUME NEW o \in Op, Done(o) PROVE Pins'
  BY <1>13 DEF Done, WakeAll
<1>14. CASE Crash
  BY <1>14 DEF Crash
<1>15. CASE ReadHead
  BY <1>15 DEF ReadHead
<1>16. CASE Redo
  BY <1>16 DEF Redo
<1>17. CASE EraseOld
  BY <1>17 DEF EraseOld, Quiet
<1> QED
  BY <1>1, <1>2, <1>3, <1>4, <1>5, <1>6, <1>7, <1>8, <1>9, <1>10, <1>11, <1>12,
     <1>13, <1>14, <1>15, <1>16, <1>17 DEF Next, OpStep, Commit, Recover

LEMMA CacheStep == IInv /\ Next => Cache'
<1> SUFFICES ASSUME IInv, Next PROVE Cache'
  OBVIOUS
<1> USE LogAssumption DEF IInv, Goto, disk, log, cache, call, Cache
<1>1. ASSUME NEW o \in Op, Call(o) PROVE Cache'
  BY <1>1 DEF Call, Logged, ToSet
<1>2. ASSUME NEW o \in Op, BeginWait(o) PROVE Cache'
  BY <1>2 DEF BeginWait, Logged, ToSet
<1>3. ASSUME NEW o \in Op, BeginOp(o) PROVE Cache'
  BY <1>3 DEF BeginOp, Logged, ToSet
<1>4. ASSUME NEW o \in Op, NEW b \in Block, Modify(o, b) PROVE Cache'
  BY <1>4 DEF Modify, Logged, ToSet, TypeOK, CacheOK, DiskOK, Val
<1>5. ASSUME NEW o \in Op, LogWrite(o) PROVE Cache'
  <2>1. held[o] \in Block /\ owner[held[o]] = o
    BY <1>5 DEF LogWrite, Holds, TypeOK, CallOK
  <2>2. \A b \in Block : Logged(b)' <=> Logged(b) \/ b = held[o]
    <3>1. CASE Logged(held[o])
      BY <1>5, <3>1 DEF LogWrite, Logged
    <3>2. CASE ~Logged(held[o])
      <4>1. lh' = Append(lh, held[o])
        BY <1>5, <3>2 DEF LogWrite
      <4>2. \A b \in Block : (\E i \in 1..Len(lh') : lh'[i] = b)
                                <=> (\E i \in 1..Len(lh) : lh[i] = b) \/ b = held[o]
        BY <2>1, <4>1 DEF TypeOK, LogOK
      <4> QED
        BY <4>2 DEF Logged, ToSet
    <3> QED
      BY <3>1, <3>2
  <2>3. \A b \in Block : pin'[b] # 0 => pin[b] # 0 \/ b = held[o]
    BY <1>5 DEF LogWrite, TypeOK, CacheOK
  <2>4. \A b \in Block : owner'[b] = IF b = held[o] THEN None ELSE owner[b]
    BY <1>5 DEF LogWrite, TypeOK, CacheOK
  <2>5. buf' = buf /\ home' = home
    BY <1>5 DEF LogWrite
  <2>6. buf[held[o]] # None
    BY <2>1
  <2> QED
    BY <2>2, <2>3, <2>4, <2>5, <2>6
<1>6. ASSUME NEW b \in Block, Evict(b) PROVE Cache'
  BY <1>6 DEF Evict, Logged, ToSet, TypeOK, CacheOK
<1>7. ASSUME NEW o \in Op, EndOp(o) PROVE Cache'
  BY <1>7 DEF EndOp, Logged, ToSet
<1>8. ASSUME NEW o \in Op, WriteLog(o) PROVE Cache'
  BY <1>8 DEF WriteLog, Logged, ToSet
<1>9. ASSUME NEW o \in Op, WriteHead(o) PROVE Cache'
  BY <1>9 DEF WriteHead, Logged, ToSet
<1>10. ASSUME NEW o \in Op, Install(o) PROVE Cache'
  <2>1. tail \in 1..Len(lh) /\ lh[tail] \in Block
    BY <1>10 DEF Install, Shape, TypeOK, LogOK
  <2>2. logd[tail] \in Val
    BY <2>1 DEF TypeOK, DiskOK, LogOK
  <2>3. \A b \in Block : /\ home'[b] = IF b = lh[tail] THEN logd[tail] ELSE home[b]
                         /\ buf'[b] = IF b = lh[tail] THEN logd[tail] ELSE buf[b]
    BY <1>10, <2>1 DEF Install, TypeOK, DiskOK, CacheOK
  <2>4. \A b \in Block : b # lh[tail] => pin'[b] = pin[b]
    BY <1>10, <2>1 DEF Install, Unpin, TypeOK, CacheOK
  <2>5. lh' = lh /\ owner' = owner
    BY <1>10 DEF Install
  <2> QED
    BY <2>1, <2>2, <2>3, <2>4, <2>5 DEF Logged, Val
<1>11. ASSUME NEW o \in Op, Clear(o) PROVE Cache'
  <2>1. \A b \in Block : owner[b] = None => buf[b] \in {None, home[b]}
    BY <1>11, LoggedAt DEF Clear, Copied
  <2> QED
    BY <1>11, <2>1 DEF Clear
<1>12. ASSUME NEW o \in Op, Erase(o) PROVE Cache'
  BY <1>12 DEF Erase, Logged, ToSet
<1>13. ASSUME NEW o \in Op, Done(o) PROVE Cache'
  BY <1>13 DEF Done, Logged, ToSet
<1>14. CASE Crash
  BY <1>14 DEF Crash
<1>15. CASE ReadHead
  BY <1>15 DEF ReadHead, Logged, ToSet, Quiet, Shape
<1>16. CASE Redo
  BY <1>16 DEF Redo, Logged, ToSet, Quiet, TypeOK, LogOK, CacheOK, DiskOK
<1>17. CASE EraseOld
  BY <1>17 DEF EraseOld, Logged, ToSet, Quiet
<1> QED
  BY <1>1, <1>2, <1>3, <1>4, <1>5, <1>6, <1>7, <1>8, <1>9, <1>10, <1>11, <1>12,
     <1>13, <1>14, <1>15, <1>16, <1>17 DEF Next, OpStep, Commit, Recover

LEMMA CopiedStep == IInv /\ Next => Copied'
<1> SUFFICES ASSUME IInv, Next PROVE Copied'
  OBVIOUS
<1> USE LogAssumption DEF IInv, Goto, disk, log, cache, call, Copied, Redone
<1>1. ASSUME NEW o \in Op, Call(o) PROVE Copied'
  BY <1>1 DEF Call
<1>2. ASSUME NEW o \in Op, BeginWait(o) PROVE Copied'
  BY <1>2 DEF BeginWait
<1>3. ASSUME NEW o \in Op, BeginOp(o) PROVE Copied'
  BY <1>3 DEF BeginOp
<1>4. ASSUME NEW o \in Op, NEW b \in Block, Modify(o, b) PROVE Copied'
  <2>1. \A q \in Op : ~Committing(q)
    BY <1>4, InCallCounted DEF Modify, Calls, InCall
  <2>2. mode' = "up" /\ \A q \in Op : pc'[q] \notin {"wlog", "whead", "install", "clear", "erase"}
    BY <1>4, <2>1 DEF Modify, Quiet, Committing, TypeOK, CallOK
  <2> QED
    BY <2>2
<1>5. ASSUME NEW o \in Op, LogWrite(o) PROVE Copied'
  <2>1. \A q \in Op : ~Committing(q)
    BY <1>5, InCallCounted DEF LogWrite, Calls, InCall
  <2>2. mode' = "up" /\ \A q \in Op : pc'[q] \notin {"wlog", "whead", "install", "clear", "erase"}
    BY <1>5, <2>1 DEF LogWrite, Quiet, Committing, TypeOK, CallOK
  <2> QED
    BY <2>2
<1>6. ASSUME NEW b \in Block, Evict(b) PROVE Copied'
  <2>1. \A x \in Block : buf'[x] = IF x = b THEN None ELSE buf[x]
    BY <1>6 DEF Evict, TypeOK, CacheOK
  <2>2. ASSUME NEW i \in 1..Len(lh), mode = "up", Pinned(i) PROVE lh[i] # b
    BY <1>6, <2>2 DEF Evict, Pins
  <2>3. ASSUME NEW q \in Op, Committing(q), NEW i \in 1..Len(lh), lh[i] = b
        PROVE  pc[q] \in {"clear", "erase", "done"} \/ (pc[q] = "install" /\ i < tail)
    <3>1. mode = "up" /\ ~Pinned(i)
      BY <2>2, <2>3, CommitsAlone
    <3>2. \A p \in Op : p # q => pc[p] \notin {"install", "clear"}
      BY <2>3, CommitsAlone
    <3> QED
      BY <2>3, <3>1, <3>2 DEF Pinned, Committing
  <2>4. \A i \in 1..Len(lh) : lh[i] \in Block
    BY DEF TypeOK, LogOK
  <2>5. \A q \in Op : pc'[q] = pc[q]
    BY <1>6 DEF Evict
  <2>6. /\ lh' = lh /\ tail' = tail /\ logd' = logd /\ home' = home
        /\ head' = head /\ mode' = mode
    BY <1>6 DEF Evict
  <2>7. \A q \in Op : pc[q] \in {"wlog", "whead"} =>
           \A i \in 1..Len(lh) : buf'[lh[i]] = buf[lh[i]]
    BY <2>1, <2>3, <2>4 DEF Committing
  <2>8. \A q \in Op : pc[q] = "install" =>
           \A i \in 1..Len(lh) : buf'[lh[i]] = buf[lh[i]] \/ (i < tail /\ buf'[lh[i]] = None)
    BY <2>1, <2>3, <2>4 DEF Committing
  <2>9. \A q \in Op : pc[q] = "wlog" => tail - 1 <= Len(lh)
    BY DEF Shape, TypeOK, LogOK
  <2>10. \A i \in 1..Len(lh) : buf'[lh[i]] \in {None, buf[lh[i]]}
    BY <2>1, <2>4
  <2>11. \A q \in Op : pc'[q] = "wlog" =>
            \A i \in 1..(tail' - 1) : logd'[i] = buf'[lh'[i]]
    BY <2>5, <2>6, <2>7, <2>9 DEF TypeOK, LogOK
  <2>12. \A q \in Op : pc'[q] = "whead" =>
            \A i \in 1..Len(lh') : logd'[i] = buf'[lh'[i]]
    BY <2>5, <2>6, <2>7
  <2>13. \A q \in Op : pc'[q] = "install" =>
            \A i \in 1..Len(lh') : IF i < tail'
                                  THEN Redone(i)' /\ buf'[lh'[i]] \in {None, logd'[i]}
                                  ELSE buf'[lh'[i]] = logd'[i]
    BY <2>5, <2>6, <2>8
  <2>14. \A q \in Op : pc'[q] = "clear" =>
            \A i \in 1..Len(lh') : buf'[lh'[i]] \in {None, home'[lh'[i]]}
    BY <2>5, <2>6, <2>10
  <2> QED
    BY <2>5, <2>6, <2>11, <2>12, <2>13, <2>14
<1>7. ASSUME NEW o \in Op, EndOp(o) PROVE Copied'
  <2>1. mode' = "up" /\ \A q \in Op : pc'[q] \notin {"whead", "install", "clear", "erase"}
    BY <1>7 DEF EndOp, WakeAll, Quiet, Calls, Committing, TypeOK, CallOK
  <2>2. ASSUME NEW q \in Op, pc'[q] = "wlog" PROVE tail' = 1
    BY <1>7, <2>2 DEF EndOp, WakeAll, Calls, Committing, TypeOK, CallOK
  <2> QED
    BY <2>1, <2>2
<1>8. ASSUME NEW o \in Op, WriteLog(o) PROVE Copied'
  <2>1. mode = "up" /\ \A q \in Op : q # o => ~Committing(q)
    BY <1>8, CommitsAlone DEF WriteLog, Committing
  <2>2. pc[o] = "wlog" /\ tail \in 1..Len(lh) /\ lh[tail] \in Block /\ Len(lh) <= LOGSIZE
    BY <1>8 DEF WriteLog, Shape, TypeOK, LogOK
  <2>3. Pinned(tail)
    BY <2>1, <2>2 DEF Pinned, Committing
  <2>4. buf[lh[tail]] # None
    <3>1. pin[lh[tail]] = 1
      BY <2>1, <2>2, <2>3 DEF Pins
    <3> QED
      BY <2>2, <3>1 DEF Cache
  <2>5. \A i \in 1..LOGSIZE : logd'[i] = IF i = tail THEN buf[lh[tail]] ELSE logd[i]
    BY <1>8, <2>4 DEF WriteLog, Cached, TypeOK, DiskOK
  <2>6. \A i \in 1..tail : logd'[i] = buf[lh[i]]
    BY <2>2, <2>5 DEF TypeOK, LogOK
  <2>7. mode' = "up" /\ lh' = lh /\ buf' = buf
    BY <1>8, <2>1 DEF WriteLog
  <2>8. \A q \in Op : q # o => pc'[q] \notin {"wlog", "whead", "install", "clear", "erase"}
    BY <1>8, <2>1 DEF WriteLog, Committing, TypeOK, CallOK
  <2>9. \/ tail = Len(lh) /\ pc'[o] = "whead"
        \/ pc'[o] = "wlog" /\ tail' = tail + 1
    BY <1>8 DEF WriteLog, AfterWriteLog, TypeOK, CallOK
  <2> QED
    BY <2>2, <2>6, <2>7, <2>8, <2>9
<1>9. ASSUME NEW o \in Op, WriteHead(o) PROVE Copied'
  <2>1. mode = "up" /\ \A q \in Op : q # o => ~Committing(q)
    BY <1>9, CommitsAlone DEF WriteHead, Committing
  <2>2. mode' = "up" /\ lh' = lh /\ buf' = buf /\ logd' = logd /\ tail' = tail /\ tail = 1
    BY <1>9, <2>1 DEF WriteHead, Shape
  <2>3. pc'[o] = "install" /\ \A q \in Op : q # o => pc'[q] \notin {"wlog", "whead", "install", "clear", "erase"}
    BY <1>9, <2>1 DEF WriteHead, Committing, TypeOK, CallOK
  <2>4. \A i \in 1..Len(lh) : logd[i] = buf[lh[i]] /\ ~(i < 1)
    BY <1>9 DEF WriteHead
  <2> QED
    BY <2>2, <2>3, <2>4
<1>10. ASSUME NEW o \in Op, Install(o) PROVE Copied'
  <2>1. mode = "up" /\ \A q \in Op : q # o => ~Committing(q)
    BY <1>10, CommitsAlone DEF Install, Committing
  <2>2. tail \in 1..Len(lh) /\ lh[tail] \in Block /\ head = lh
    BY <1>10 DEF Install, Shape, TypeOK, LogOK
  <2>3. /\ \A x \in Block : home'[x] = IF x = lh[tail] THEN logd[tail] ELSE home[x]
        /\ \A x \in Block : buf'[x] = IF x = lh[tail] THEN logd[tail] ELSE buf[x]
    BY <1>10, <2>2 DEF Install, TypeOK, DiskOK, CacheOK
  <2>4. \A i \in 1..Len(lh) : lh[i] \in Block /\ (lh[i] = lh[tail] <=> i = tail)
    BY <2>2 DEF Shape, Distinct, TypeOK, LogOK
  <2>5. lh' = lh /\ head' = head /\ logd' = logd
    BY <1>10 DEF Install
  <2>6. mode' = "up" /\ \A q \in Op : q # o => pc'[q] \notin {"wlog", "whead", "install", "clear", "erase"}
    BY <1>10, <2>1 DEF Install, Committing, TypeOK, CallOK
  <2>7. \/ tail = Len(lh) /\ pc'[o] = "clear"
        \/ pc'[o] = "install" /\ tail' = tail + 1
    BY <1>10 DEF Install, TypeOK, CallOK
  <2>8. \A i \in 1..Len(lh) : IF i < tail
                              THEN home[lh[i]] = logd[i] /\ buf[lh[i]] \in {None, logd[i]}
                              ELSE buf[lh[i]] = logd[i]
    BY <1>10, <2>2 DEF Install
  <2>9. \A i \in 1..Len(lh) : IF i <= tail
                              THEN home'[lh[i]] = logd[i] /\ buf'[lh[i]] \in {None, logd[i]}
                              ELSE buf'[lh[i]] = logd[i]
    BY <2>2, <2>3, <2>4, <2>8
  <2>10. CASE tail = Len(lh) /\ pc'[o] = "clear"
    BY <2>2, <2>5, <2>6, <2>9, <2>10
  <2>11. CASE pc'[o] = "install" /\ tail' = tail + 1
    BY <2>2, <2>5, <2>6, <2>9, <2>11
  <2> QED
    BY <2>7, <2>10, <2>11
<1>11. ASSUME NEW o \in Op, Clear(o) PROVE Copied'
  <2>1. mode = "up" /\ \A q \in Op : q # o => ~Committing(q)
    BY <1>11, CommitsAlone DEF Clear, Committing
  <2>2. mode' = "up" /\ head' = head /\ home' = home /\ logd' = logd
    BY <1>11, <2>1 DEF Clear
  <2>3. pc'[o] = "erase" /\ \A q \in Op : q # o => pc'[q] \notin {"wlog", "whead", "install", "clear", "erase"}
    BY <1>11, <2>1 DEF Clear, Committing, TypeOK, CallOK
  <2>4. \A i \in 1..Len(head) : Redone(i)
    BY <1>11 DEF Clear
  <2> QED
    BY <2>2, <2>3, <2>4
<1>12. ASSUME NEW o \in Op, Erase(o) PROVE Copied'
  <2>1. mode = "up" /\ \A q \in Op : q # o => ~Committing(q)
    BY <1>12, CommitsAlone DEF Erase, Committing
  <2>2. mode' = "up" /\ \A q \in Op : pc'[q] \notin {"wlog", "whead", "install", "clear", "erase"}
    BY <1>12, <2>1 DEF Erase, Committing, TypeOK, CallOK
  <2> QED
    BY <2>2
<1>13. ASSUME NEW o \in Op, Done(o) PROVE Copied'
  BY <1>13 DEF Done, WakeAll
<1>14. CASE Crash
  BY <1>14 DEF Crash
<1>15. CASE ReadHead
  BY <1>15 DEF ReadHead, Quiet, Shape
<1>16. CASE Redo
  <2>1. \A q \in Op : pc'[q] = "out"
    BY <1>16 DEF Redo, Quiet
  <2>2. tail \in 1..Len(lh) /\ lh[tail] \in Block /\ head = lh
    BY <1>16 DEF Redo, Shape, TypeOK, LogOK
  <2>3. /\ \A x \in Block : home'[x] = IF x = lh[tail] THEN logd[tail] ELSE home[x]
        /\ \A x \in Block : buf'[x] = IF x = lh[tail] THEN logd[tail] ELSE buf[x]
    BY <1>16, <2>2 DEF Redo, TypeOK, DiskOK, CacheOK
  <2>4. \A i \in 1..Len(lh) : lh[i] \in Block /\ (lh[i] = lh[tail] <=> i = tail)
    BY <2>2 DEF Shape, Distinct, TypeOK, LogOK
  <2>5. lh' = lh /\ head' = head /\ logd' = logd
    BY <1>16 DEF Redo
  <2>6. \A i \in 1..tail : Redone(i)'
    BY <1>16, <2>2, <2>3, <2>4, <2>5 DEF Redo, TypeOK, LogOK
  <2>7. \/ mode' = "erase" /\ tail = Len(lh)
        \/ mode' = "redo" /\ tail' = tail + 1
    BY <1>16 DEF Redo
  <2> QED
    BY <2>1, <2>2, <2>5, <2>6, <2>7
<1>17. CASE EraseOld
  BY <1>17 DEF EraseOld, Quiet
<1> QED
  BY <1>1, <1>2, <1>3, <1>4, <1>5, <1>6, <1>7, <1>8, <1>9, <1>10, <1>11, <1>12,
     <1>13, <1>14, <1>15, <1>16, <1>17 DEF Next, OpStep, Commit, Recover

LEMMA LeftType ==
    ASSUME IInv
    PROVE  /\ IsFiniteSet(Active) /\ IsFiniteSet(Left) /\ Cardinality(Left) \in Nat
           /\ \A o \in Op : IsFiniteSet(wset[o]) /\ Absorbed(o) \in Nat
<1>1. IsFiniteSet(Active)
  BY LogAssumption, FS_Subset DEF Active
<1>2. IsFiniteSet(Active \X (1..OpBlocks))
  <2>1. IsFiniteSet(1..OpBlocks)
    BY LogAssumption, FS_Interval
  <2> QED
    BY <1>1, <2>1, FS_Product, Zenon
<1>3. IsFiniteSet(Left) /\ Cardinality(Left) \in Nat
  BY <1>2, FS_Subset, FS_CardinalityType DEF Left
<1>4. ASSUME NEW o \in Op PROVE IsFiniteSet(wset[o]) /\ Absorbed(o) \in Nat
  <2>1. IsFiniteSet(wset[o])
    BY LogAssumption, FS_Subset DEF IInv, TypeOK, CallOK
  <2> QED
    BY <2>1, FS_Intersection, FS_CardinalityType DEF Absorbed
<1> QED
  BY <1>1, <1>3, <1>4

(* A step that adds nothing to the log and to what may still be added.      *)
LEMMA RoomStays ==
    ASSUME IInv, mode = "up", ~committing, lh' = lh, Left' \subseteq Left
    PROVE  Room'
<1>1. IsFiniteSet(Left) /\ Cardinality(Left) \in Nat
  BY LeftType
<1>2. IsFiniteSet(Left') /\ Cardinality(Left') <= Cardinality(Left)
  BY <1>1, FS_Subset
<1>3. Cardinality(Left') \in Nat
  BY <1>2, FS_CardinalityType
<1> QED
  BY <1>1, <1>2, <1>3, LogAssumption
     DEF Room, Alone, Crowd, IInv, TypeOK, LogOK

LEMMA NothingLeft == ASSUME IInv, Active' = {}, lh' = <<>> PROVE Room'
<1>1. Left' = {}
  BY DEF Left
<1>2. Cardinality(Left') = 0 /\ Len(lh') = 0
  BY <1>1, FS_EmptySet
<1> QED
  BY <1>2, LogAssumption DEF Room, Alone, Crowd

LEMMA RoomStep == IInv /\ Next => Room'
<1> SUFFICES ASSUME IInv, Next PROVE Room'
  OBVIOUS
<1> USE DEF IInv, TypeOK, CallOK, Goto, disk, log, cache, call
<1>1. ASSUME NEW o \in Op, Call(o) \/ BeginWait(o) PROVE Room'
  <2>1. mode = "up"
    BY <1>1 DEF Call, BeginWait, Quiet
  <2>2. lh' = lh /\ wset' = wset /\ committing' = committing
    BY <1>1 DEF Call, BeginWait
  <2>3. Active' = Active
    BY <1>1 DEF Call, BeginWait, Active, InCall
  <2>4. Left' = Left
    BY <2>2, <2>3 DEF Left, Absorbed
  <2>5. CASE committing
    BY <2>2, <2>5 DEF Room
  <2>6. CASE ~committing
    BY <2>1, <2>2, <2>4, <2>6, RoomStays
  <2> QED
    BY <2>5, <2>6
<1>2. ASSUME NEW b \in Block, Evict(b) PROVE Room'
  <2>1. mode' = mode /\ committing' = committing /\ lh' = lh /\ Left' = Left
    BY <1>2 DEF Evict, Left, Absorbed, Active, InCall
  <2> QED
    BY <2>1 DEF Room
<1>3. ASSUME NEW o \in Op, BeginOp(o) PROVE Room'
  <2> DEFINE k == outstanding + 1
             d == MAXOPBLOCKS - OpBlocks
  <2>1. /\ Len(lh) + k * MAXOPBLOCKS <= LOGSIZE
        /\ lh' = lh /\ mode = "up" /\ ~committing /\ k \in Nat /\ k >= 1
    <3>1. lh' = lh /\ mode = "up" /\ ~committing /\ k \in Nat /\ k >= 1 /\ ~NoRoom
      BY <1>3 DEF BeginOp, Quiet, LogOK
    <3>2. Len(lh) \in Int /\ k * MAXOPBLOCKS \in Int
      BY <3>1, LogAssumption DEF LogOK
    <3> HIDE DEF k
    <3>3. ~(Len(lh) + k * MAXOPBLOCKS > LOGSIZE)
      BY <3>1 DEF NoRoom, k
    <3> QED
      BY <3>1, <3>2, <3>3, LogAssumption
  <2>2. IsFiniteSet(Active') /\ Cardinality(Active') = k
    <3>1. Counted'
      BY CountedStep
    <3>2. IsFiniteSet(Active')
      BY LogAssumption, FS_Subset DEF Active
    <3> QED
      BY <1>3, <3>1, <3>2 DEF Counted, BeginOp
  <2>3. Cardinality(Left') \in Nat /\ Cardinality(Left') <= k * OpBlocks
    <3>1. IsFiniteSet(1..OpBlocks) /\ Cardinality(1..OpBlocks) = OpBlocks
      BY LogAssumption, FS_Interval
    <3>2. /\ IsFiniteSet(Active' \X (1..OpBlocks))
          /\ Cardinality(Active' \X (1..OpBlocks)) = k * OpBlocks
      <4>1. /\ IsFiniteSet(Active' \X (1..OpBlocks))
            /\ Cardinality(Active' \X (1..OpBlocks))
                  = Cardinality(Active') * Cardinality(1..OpBlocks)
        BY <2>2, <3>1, FS_Product, Zenon
      <4> QED
        BY <2>2, <3>1, <4>1
    <3>3. Left' \in SUBSET (Active' \X (1..OpBlocks))
      BY DEF Left
    <3> QED
      BY <3>2, <3>3, FS_Subset, FS_CardinalityType
  <2>4. CASE k = 1
    <3>1. lh = <<>>
      BY <2>1, <2>4 DEF Calls, LogOK
    <3> QED
      BY <2>1, <2>3, <2>4, <3>1, LogAssumption DEF Room, Alone, Crowd
  <2>5. CASE k # 1
    <3>1. d \in Nat /\ k >= 2
      BY <2>1, <2>5, LogAssumption
    <3>2. k * MAXOPBLOCKS = k * OpBlocks + k * d
      BY <2>1, LogAssumption
    <3>3. k * d >= 2 * d
      <4>1. \A m, n \in Nat : m >= 2 => m * n >= 2 * n
        OBVIOUS
      <4> HIDE DEF k, d
      <4> QED
        BY <2>1, <3>1, <4>1
    <3>4. k * OpBlocks \in Int /\ k * d \in Int /\ k * MAXOPBLOCKS \in Int
      BY <2>1, LogAssumption
    <3>5. Len(lh) + k * OpBlocks <= Crowd
      <4> HIDE DEF k
      <4> QED
        BY <2>1, <3>2, <3>3, <3>4, LogAssumption DEF Crowd, LogOK
    <3>6. Len(lh) + Cardinality(Left') <= Crowd
      <4> HIDE DEF k
      <4> QED
        BY <2>3, <3>4, <3>5, LogAssumption DEF Crowd, LogOK
    <3> QED
      BY <2>1, <2>3, <3>6, LogAssumption DEF Room, Alone, Crowd, LogOK
  <2> QED
    BY <2>4, <2>5
<1>4. ASSUME NEW o \in Op, NEW b \in Block, Modify(o, b) PROVE Room'
  <2>1. mode = "up" /\ ~committing /\ lh' = lh /\ Active' = Active
    BY <1>4, InCallCounted DEF Modify, Quiet, Active, InCall
  <2>2. ASSUME NEW q \in Op PROVE Absorbed(q)' \in Nat /\ Absorbed(q) <= Absorbed(q)'
    <3>1. wset[q] \subseteq wset'[q] /\ wset'[q] \subseteq Block
      BY <1>4 DEF Modify
    <3>2. IsFiniteSet(wset'[q] \cap ToSet(lh'))
      BY <3>1, LogAssumption, FS_Subset
    <3>3. wset[q] \cap ToSet(lh) \subseteq wset'[q] \cap ToSet(lh')
      BY <2>1, <3>1
    <3> QED
      BY <3>2, <3>3, FS_Subset, FS_CardinalityType DEF Absorbed
  <2>3. Left' \subseteq Left
    <3>1. \A q \in Op : Absorbed(q) \in Nat
      BY LeftType
    <3> QED
      BY <2>1, <2>2, <3>1, LogAssumption DEF Left, Active
  <2> QED
    BY <2>1, <2>3, RoomStays
<1>5. ASSUME NEW o \in Op, LogWrite(o) PROVE Room'
  <2>1. mode = "up" /\ ~committing /\ Active' = Active /\ wset' = wset
    BY <1>5, InCallCounted DEF LogWrite, Quiet, Active, InCall
  <2>2. CASE Logged(held[o])
    BY <1>5, <2>1, <2>2, RoomStays DEF LogWrite, Left, Absorbed
  <2>3. CASE ~Logged(held[o])
    <3> DEFINE b == held[o]
               n == Absorbed(o)
               W(q) == wset[q] \cap ToSet(lh)
    <3>1. b \in Block /\ b \in wset[o] /\ o \in Active
      BY <1>5 DEF LogWrite, Holds, Active, InCall
    <3>2. lh' = Append(lh, b)
      BY <1>5, <2>3 DEF LogWrite
    <3>3. Len(lh') = Len(lh) + 1 /\ ToSet(lh') = ToSet(lh) \cup {b}
      <4>1. Len(lh') = Len(lh) + 1
        BY <3>1, <3>2, AppendType DEF LogOK
      <4>2. \A x : (\E i \in 1..Len(lh') : lh'[i] = x)
                      <=> (\E i \in 1..Len(lh) : lh[i] = x) \/ x = b
        BY <3>1, <3>2 DEF LogOK
      <4>3. \A x : x \in ToSet(lh') <=> x \in ToSet(lh) \/ x = b
        <5>1. lh \in Seq(Block) /\ lh' \in Seq(Block)
          BY <3>1, <3>2, AppendType DEF LogOK
        <5> QED
          BY <4>2, <5>1, InToSet
      <4> QED
        BY <4>1, <4>3
    <3>4. \A q \in Op : IsFiniteSet(wset[q]) /\ Absorbed(q) \in Nat
      BY LeftType
    <3>5. Absorbed(o)' = n + 1 /\ n + 1 <= OpBlocks
      <4>1. IsFiniteSet(W(o)) /\ b \notin W(o)
        BY <2>3, <3>4, FS_Intersection DEF Logged
      <4>2. wset[o] \cap ToSet(lh') = W(o) \cup {b}
        BY <3>1, <3>3
      <4>3. Cardinality(W(o) \cup {b}) = n + 1
        BY <4>1, FS_AddElement DEF Absorbed
      <4>4. Cardinality(W(o) \cup {b}) <= Cardinality(wset[o])
        BY <3>1, <3>4, FS_Subset
      <4>5. Cardinality(wset[o]) <= OpBlocks /\ Cardinality(wset[o]) \in Nat
        BY <3>4, FS_CardinalityType DEF Holds
      <4> QED
        BY <2>1, <3>4, <4>2, <4>3, <4>4, <4>5, LogAssumption DEF Absorbed
    <3>6. ASSUME NEW q \in Op PROVE Absorbed(q)' \in Nat /\ Absorbed(q) <= Absorbed(q)'
      <4>1. IsFiniteSet(wset[q] \cap ToSet(lh'))
        BY <3>4, FS_Intersection
      <4>2. W(q) \subseteq wset[q] \cap ToSet(lh')
        BY <3>3
      <4> QED
        BY <2>1, <4>1, <4>2, FS_Subset, FS_CardinalityType DEF Absorbed
    <3>7. <<o, n + 1>> \in Left /\ Left' \subseteq Left \ {<<o, n + 1>>}
      <4>1. <<o, n + 1>> \in Left
        BY <3>1, <3>4, <3>5, LogAssumption DEF Left
      <4>2. <<o, n + 1>> \notin Left'
        BY <3>5, <3>4, LogAssumption DEF Left
      <4>3. Left' \subseteq Left
        BY <2>1, <3>4, <3>6, LogAssumption DEF Left, Active
      <4> QED
        BY <4>1, <4>2, <4>3
    <3>8. Cardinality(Left') \in Nat /\ Cardinality(Left') <= Cardinality(Left) - 1
      <4>1. IsFiniteSet(Left) /\ Cardinality(Left) \in Nat
        BY LeftType
      <4>2. /\ IsFiniteSet(Left \ {<<o, n + 1>>})
            /\ Cardinality(Left \ {<<o, n + 1>>}) = Cardinality(Left) - 1
        BY <3>7, <4>1, FS_RemoveElement
      <4> QED
        BY <3>7, <4>2, FS_Subset, FS_CardinalityType
    <3> QED
      <4>1. Cardinality(Left) \in Nat
        BY LeftType
      <4> HIDE DEF b
      <4> QED
        BY <2>1, <3>3, <3>8, <4>1, LogAssumption DEF Room, Alone, Crowd, LogOK
  <2> QED
    BY <2>2, <2>3
<1>6. ASSUME NEW o \in Op, EndOp(o) PROVE Room'
  <2>1. CASE outstanding = 1
    BY <1>6, <2>1 DEF EndOp, Room
  <2>2. CASE outstanding # 1
    <3>1. mode = "up" /\ ~committing /\ lh' = lh
      BY <1>6 DEF EndOp, Quiet
    <3>2. Active' \subseteq Active /\ o \notin Active'
      BY <1>6, <2>2 DEF EndOp, WakeAll, Active, InCall
    <3>3. \A q \in Op \ {o} : wset'[q] = wset[q]
      BY <1>6 DEF EndOp
    <3>4. Left' \subseteq Left
      BY <3>1, <3>2, <3>3 DEF Left, Absorbed, Active
    <3> QED
      BY <3>1, <3>4, RoomStays
  <2> QED
    BY <2>1, <2>2
<1>7. ASSUME NEW o \in Op, Commit(o), ~Done(o) PROVE Room'
  <2>1. committing
    BY <1>7, CommitsAlone DEF Commit, WriteLog, WriteHead, Install, Clear, Erase, Committing
  <2>2. committing' = committing
    BY <1>7 DEF Commit, WriteLog, WriteHead, Install, Clear, Erase
  <2> QED
    BY <2>1, <2>2 DEF Room
<1>8. ASSUME NEW o \in Op, Done(o) PROVE Room'
  <2>1. lh' = <<>>
    BY <1>8 DEF Done, Shape
  <2>2. \A q \in Op : ~InCall(q)
    BY <1>8, CommitsAlone DEF Done, Committing, InCall
  <2>3. Active' = {}
    BY <1>8, <2>2 DEF Done, WakeAll, Active, InCall
  <2> QED
    BY <2>1, <2>3, NothingLeft
<1>9. CASE Crash
  BY <1>9 DEF Crash, Room
<1>10. CASE ReadHead \/ Redo
  BY <1>10 DEF ReadHead, Redo, Room
<1>11. CASE EraseOld
  <2>1. lh' = <<>> /\ Active' = {}
    BY <1>11 DEF EraseOld, Quiet, Active, InCall
  <2> QED
    BY <2>1, NothingLeft
<1> QED
  BY <1>1, <1>2, <1>3, <1>4, <1>5, <1>6, <1>7, <1>8, <1>9, <1>10, <1>11
     DEF Next, OpStep, Recover

-----------------------------------------------------------------------------
LEMMA InitInv == Init => IInv
<1> SUFFICES ASSUME Init PROVE IInv
  OBVIOUS
<1> USE LogAssumption DEF Init
<1>1. TypeOK
  <2>1. DiskOK
    BY DEF DiskOK, Val
  <2>2. LogOK
    <3>1. lh \in Seq(Block) /\ Len(lh) <= LOGSIZE
      OBVIOUS
    <3>2. outstanding \in Nat /\ committing \in BOOLEAN
      OBVIOUS
    <3>3. mode \in {"boot", "redo", "erase", "up"}
      OBVIOUS
    <3>4. tail \in Nat \ {0}
      OBVIOUS
    <3> QED
      BY <3>1, <3>2, <3>3, <3>4 DEF LogOK
  <2>3. CacheOK /\ CallOK
    BY DEF CacheOK, CallOK, PC
  <2> QED
    BY <2>1, <2>2, <2>3 DEF TypeOK
<1>2. Quiet /\ Pins /\ Room
  BY DEF Quiet, Pins, Room
<1>3. Active = {}
  BY DEF Active, InCall
<1>4. Counted
  BY <1>3, FS_EmptySet DEF Counted
<1>5. Calls /\ Shape /\ Copied /\ Cache
  BY DEF Calls, Committing, Shape, Distinct, Copied, Cache
<1>6. Holds
  BY FS_EmptySet DEF Holds
<1> QED
  BY <1>1, <1>2, <1>4, <1>5, <1>6 DEF IInv

LEMMA Stutter == IInv /\ UNCHANGED vars => IInv'
<1> SUFFICES ASSUME IInv, UNCHANGED vars PROVE IInv'
  OBVIOUS
<1> USE DEF vars, disk, log, cache, call, IInv
<1>1. TypeOK'
  BY DEF TypeOK, DiskOK, LogOK, CacheOK, CallOK
<1>2. Active' = Active
  BY DEF Active, InCall
<1>3. Quiet' /\ Calls' /\ Holds' /\ Shape'
  BY DEF Quiet, Calls, Committing, InCall, Holds, Shape, Distinct
<1>4. Counted' /\ Room'
  BY <1>2 DEF Counted, Room, Left, Absorbed
<1>5. Pins' /\ Copied' /\ Cache'
  BY DEF Pins, Pinned, Copied, Redone, Cache, Logged
<1> QED
  BY <1>1, <1>3, <1>4, <1>5

LEMMA Invariance == IInv /\ [Next]_vars => IInv'
  BY TypeStep, QuietStep, CountedStep, CallsStep, HoldsStep, ShapeStep, PinsStep,
     CopiedStep, CacheStep, RoomStep, Stutter DEF IInv

(* What the log is at every moment, and that every step keeps it.           *)
THEOREM Invariant == Spec => []IInv
  BY InitInv, Invariance, PTL DEF Spec

(* Every variable keeps its type; in particular lh.n stays within LOGSIZE.  *)
THEOREM TypeCorrect == Spec => []TypeOK
  BY Invariant, PTL DEF IInv

-----------------------------------------------------------------------------
LEMMA IInvPinned == IInv => PinnedUntilInstalled
<1> SUFFICES ASSUME IInv, mode = "up", NEW b \in Block
             PROVE  pin[b] = Cardinality({i \in 1..Len(lh) : lh[i] = b /\ Pinned(i)})
  BY DEF PinnedUntilInstalled, Pinned
<1> DEFINE S == {i \in 1..Len(lh) : lh[i] = b /\ Pinned(i)}
<1>1. pin[b] = IF \E i \in 1..Len(lh) : lh[i] = b /\ Pinned(i) THEN 1 ELSE 0
  BY DEF IInv, Pins
<1>2. CASE \E i \in 1..Len(lh) : lh[i] = b /\ Pinned(i)
  <2>1. PICK i \in 1..Len(lh) : lh[i] = b /\ Pinned(i)
    BY <1>2
  <2>2. S = {i}
    BY <2>1 DEF IInv, Shape, Distinct
  <2>3. Cardinality(S) = 1
    BY <2>2, FS_Singleton
  <2> QED
    BY <1>1, <1>2, <2>3
<1>3. CASE ~\E i \in 1..Len(lh) : lh[i] = b /\ Pinned(i)
  <2>1. S = {}
    BY <1>3
  <2>2. Cardinality(S) = 0
    BY <2>1, FS_EmptySet
  <2> QED
    BY <1>1, <1>3, <2>2
<1> QED
  BY <1>2, <1>3

(* What the panics of log_write need: a call writes fewer blocks than       *)
(* begin_op reserves for it (the largest, filewrite, writes at most seven   *)
(* of ten), and a log of nlog blocks with its last one unused holds one     *)
(* call at its real size, or LOGSIZE less what two calls do not use.        *)
Slack == /\ OpBlocks < MAXOPBLOCKS /\ OpBlocks < nlog - 1
         /\ Crowd < nlog - 1

LEMMA IInvNoPanic == IInv /\ Slack => NoPanic
<1> SUFFICES ASSUME IInv, Slack, NEW o \in Op, InCall(o)
             PROVE  Fits /\ ~committing
  BY DEF NoPanic, InCall
<1>1. outstanding >= 1 /\ ~committing
  BY InCallCounted DEF IInv
<1>2. mode = "up"
  BY DEF IInv, Quiet, InCall
<1>3. Cardinality(Left) \in Nat
  BY LeftType
<1>4. Len(lh) < LOGSIZE /\ Len(lh) < nlog - 1
  BY <1>1, <1>2, <1>3, LogAssumption DEF IInv, Room, Slack, Alone, Crowd, TypeOK, LogOK
<1> QED
  BY <1>1, <1>4 DEF Fits

(* The panics of log_write and end_op are unreachable and a logged buffer   *)
(* stays pinned until install_trans has written it.                         *)
THEOREM LogIsSound == ASSUME Slack PROVE Spec => []LogSound
<1>1. IInv => LogSound
  BY IInvPinned, IInvNoPanic DEF LogSound
<1> QED
  BY <1>1, Invariant, PTL

-----------------------------------------------------------------------------
LEMMA FullWithoutCalls ==
    ASSUME IInv, mode = "up", ~committing, NoRoom PROVE outstanding > 0
<1>1. CASE outstanding = 0
  <2>1. Len(lh) = 0
    BY <1>1 DEF IInv, Calls
  <2> QED
    BY <1>1, <2>1, LogAssumption DEF NoRoom
<1> QED
  BY <1>1 DEF IInv, TypeOK, LogOK

LEMMA SleepersStep == IInv /\ NoLostWakeup /\ Next => NoLostWakeup'
<1> SUFFICES ASSUME IInv, NoLostWakeup, Next, NEW p \in Op, pc'[p] = "asleep"
             PROVE  committing' \/ (NoRoom' /\ outstanding' > 0)
  BY DEF NoLostWakeup
<1> USE DEF IInv, TypeOK, CallOK, Goto, disk, log, cache, call
<1>2. ASSUME NEW o \in Op, BeginWait(o)
      PROVE  committing' \/ (NoRoom' /\ outstanding' > 0)
  BY <1>2, FullWithoutCalls DEF BeginWait, NoRoom, Quiet
<1>3. ASSUME NEW o \in Op, BeginOp(o)
      PROVE  committing' \/ (NoRoom' /\ outstanding' > 0)
  <2>1. pc[p] = "asleep"
    BY <1>3 DEF BeginOp
  <2> QED
    BY <1>3, <2>1 DEF BeginOp, NoLostWakeup
<1>4. ASSUME NEW o \in Op, LogWrite(o)
      PROVE  committing' \/ (NoRoom' /\ outstanding' > 0)
  <2>1. pc[p] = "asleep"
    BY <1>4 DEF LogWrite
  <2>2. outstanding' = outstanding /\ committing' = committing
    BY <1>4 DEF LogWrite
  <2>3. Len(lh') \in Int /\ Len(lh') >= Len(lh)
    <3>1. CASE Logged(held[o])
      BY <1>4, <3>1 DEF LogWrite, LogOK
    <3>2. CASE ~Logged(held[o])
      <4>1. held[o] \in Block /\ lh' = Append(lh, held[o])
        BY <1>4, <3>2 DEF LogWrite, Holds
      <4> QED
        BY <4>1, AppendType DEF LogOK
    <3> QED
      BY <3>1, <3>2
  <2>4. (outstanding + 1) * MAXOPBLOCKS \in Int
    BY LogAssumption DEF LogOK
  <2>5. NoRoom => NoRoom'
    <3> DEFINE r == (outstanding + 1) * MAXOPBLOCKS
    <3> SUFFICES ASSUME Len(lh) + r > LOGSIZE PROVE Len(lh') + r > LOGSIZE
      BY <2>2 DEF NoRoom
    <3> HIDE DEF r
    <3>1. r \in Int
      BY <2>4 DEF r
    <3> QED
      BY <2>3, <3>1, LogAssumption DEF LogOK
  <2> QED
    BY <2>1, <2>2, <2>5 DEF NoLostWakeup
<1>5. ASSUME NEW o \in Op, EndOp(o)
      PROVE  committing' \/ (NoRoom' /\ outstanding' > 0)
  BY <1>5 DEF EndOp, WakeAll
<1>6. ASSUME NEW o \in Op, Commit(o)
      PROVE  committing' \/ (NoRoom' /\ outstanding' > 0)
  <2>1. ~Done(o)
    BY <1>6 DEF Done, WakeAll
  <2>2. committing
    BY <1>6, <2>1, CommitsAlone
       DEF Commit, WriteLog, WriteHead, Install, Clear, Erase, Committing
  <2>3. committing' = committing
    BY <1>6, <2>1 DEF Commit, WriteLog, WriteHead, Install, Clear, Erase
  <2> QED
    BY <2>2, <2>3
<1>7. ASSUME NEW o \in Op, Call(o)
      PROVE  committing' \/ (NoRoom' /\ outstanding' > 0)
  BY <1>7 DEF Call, NoLostWakeup, NoRoom
<1>8. ASSUME NEW o \in Op, NEW b \in Block, Modify(o, b)
      PROVE  committing' \/ (NoRoom' /\ outstanding' > 0)
  BY <1>8 DEF Modify, NoLostWakeup, NoRoom
<1>9. ASSUME NEW b \in Block, Evict(b)
      PROVE  committing' \/ (NoRoom' /\ outstanding' > 0)
  BY <1>9 DEF Evict, NoLostWakeup, NoRoom
<1>10. CASE Crash \/ Recover
  BY <1>10 DEF Crash, Recover, ReadHead, Redo, EraseOld, Quiet
<1> QED
  BY <1>2, <1>3, <1>4, <1>5, <1>6, <1>7, <1>8, <1>9, <1>10 DEF Next, OpStep

(* end_op's wakeup(&log) comes after every change that lets a sleeper of    *)
(* begin_op go on: who sleeps still has to, and has somebody to wake it.    *)
THEOREM NoSleeperLost == Spec => []NoLostWakeup
<1>1. Init => NoLostWakeup
  BY DEF Init, NoLostWakeup
<1>2. IInv /\ NoLostWakeup /\ [Next]_vars => NoLostWakeup'
  <2>1. UNCHANGED vars /\ NoLostWakeup => NoLostWakeup'
    BY DEF vars, log, call, NoLostWakeup, NoRoom
  <2> QED
    BY <2>1, SleepersStep
<1> QED
  BY <1>1, <1>2, Invariant, PTL DEF Spec

-----------------------------------------------------------------------------
LEMMA DurableAt ==
    ASSUME IInv, NEW b \in Block
    PROVE  /\ \A i \in 1..Len(head) : head[i] = b => Durable[b] = logd[i]
           /\ (\A i \in 1..Len(head) : head[i] # b) => Durable[b] = home[b]
<1>1. b \in ToSet(head) <=> \E i \in 1..Len(head) : head[i] = b
  BY InToSet DEF IInv, TypeOK, DiskOK
<1>2. ASSUME NEW i \in 1..Len(head), head[i] = b PROVE Durable[b] = logd[i]
  <2>1. (CHOOSE j \in 1..Len(head) : head[j] = b) = i
    BY <1>2 DEF IInv, Shape, Distinct
  <2> QED
    BY <1>1, <1>2, <2>1 DEF Durable
<1>3. (\A i \in 1..Len(head) : head[i] # b) => Durable[b] = home[b]
  BY <1>1 DEF Durable
<1> QED
  BY <1>2, <1>3

(* With no header on disk, or all of it redone, the disk is what is there.  *)
LEMMA DurableHome ==
    ASSUME IInv, \A i \in 1..Len(head) : Redone(i) PROVE Durable = home
<1>1. \A b \in Block : Durable[b] = home[b]
  BY DurableAt DEF Redone
<1>2. Durable = [b \in Block |-> Durable[b]]
  BY DEF Durable
<1> QED
  BY <1>1, <1>2 DEF IInv, TypeOK, DiskOK

LEMMA UnpinnedIsHome ==
    ASSUME IInv, mode = "up", NEW b \in Block, pin[b] = 0, owner[b] = None
    PROVE  Cached(b) = home[b]
<1>1. CASE ~Logged(b)
  BY <1>1 DEF Cached, IInv, Cache
<1>2. CASE Logged(b)
  <2>1. PICK i \in 1..Len(lh) : lh[i] = b
    BY <1>2, LoggedAt
  <2>2. PICK o \in Op : (pc[o] = "install" /\ i < tail) \/ pc[o] = "clear"
    BY <2>1 DEF IInv, Pins, Pinned
  <2>3. buf[b] \in {None, home[b]}
    BY <2>1, <2>2 DEF IInv, Copied, Redone, Shape
  <2> QED
    BY <2>3 DEF Cached
<1> QED
  BY <1>1, <1>2

LEMMA RefinesInit == Init => Abstract!Init
<1> SUFFICES ASSUME Init PROVE Abstract!Init
  OBVIOUS
<1>1. Durable = [b \in Block |-> 0]
  BY DEF Init, Durable, ToSet
<1>2. Mem = Durable
  BY DEF Init, Mem
<1>3. {o \in Op : InCall(o)} = {}
  BY DEF Init, InCall
<1> QED
  BY <1>1, <1>2, <1>3 DEF Abstract!Init

AbstractVars == <<Mem, Durable, {o \in Op : InCall(o)}>>

LEMMA RefinesStep == IInv /\ Next => [Abstract!Next]_AbstractVars
<1> SUFFICES ASSUME IInv, Next PROVE [Abstract!Next]_AbstractVars
  OBVIOUS
<1> USE DEF Goto, disk, log, cache, call
<1>1. ASSUME home' = home, head' = head, logd' = logd PROVE Durable' = Durable
  BY <1>1 DEF Durable
<1>2. ASSUME mode' = mode, buf' = buf, home' = home, Durable' = Durable
      PROVE  Mem' = Mem
  BY <1>2 DEF Mem, Cached
<1>3. ASSUME Mem' = Mem, Durable' = Durable, Active' = Active
      PROVE  [Abstract!Next]_AbstractVars
  BY <1>3 DEF AbstractVars, Active
<1>4. pc \in [Op -> PC]
  BY DEF IInv, TypeOK, CallOK
<1>5. ASSUME NEW o \in Op, Call(o) \/ BeginWait(o) \/ LogWrite(o) \/ Clear(o) \/ Done(o)
      PROVE  [Abstract!Next]_AbstractVars
  <2>1. /\ home' = home /\ head' = head /\ logd' = logd
        /\ mode' = mode /\ buf' = buf
    BY <1>5 DEF Call, BeginWait, LogWrite, Clear, Done
  <2>2. Active' = Active
    BY <1>4, <1>5 DEF Call, BeginWait, LogWrite, Clear, Done, WakeAll, Active, InCall
  <2> QED
    BY <1>1, <1>2, <1>3, <2>1, <2>2
<1>6. ASSUME NEW o \in Op, BeginOp(o) PROVE Abstract!Begin(o)
  <2>1. Durable' = Durable /\ Mem' = Mem
    BY <1>1, <1>2, <1>6 DEF BeginOp
  <2>2. o \notin Active /\ Active' = Active \cup {o}
    BY <1>4, <1>6 DEF BeginOp, Active, InCall
  <2> QED
    BY <2>1, <2>2 DEF Abstract!Begin, Active
<1>7. ASSUME NEW o \in Op, EndOp(o) PROVE Abstract!End(o)
  <2>1. Durable' = Durable /\ Mem' = Mem
    BY <1>1, <1>2, <1>7 DEF EndOp
  <2>2. o \in Active /\ Active' = Active \ {o}
    BY <1>4, <1>7 DEF EndOp, WakeAll, Active, InCall
  <2> QED
    BY <2>1, <2>2 DEF Abstract!End, Active
<1>8. ASSUME NEW o \in Op, NEW b \in Block, Modify(o, b)
      PROVE  Abstract!Write(o, b, writes + 1) /\ writes + 1 \in Val
  <2>1. mode = "up" /\ mode' = "up"
    BY <1>8 DEF Modify, IInv, Quiet
  <2>2. Durable' = Durable
    BY <1>1, <1>8 DEF Modify
  <2>3. o \in Active /\ Active' = Active
    BY <1>4, <1>8 DEF Modify, Active, InCall
  <2>4. writes + 1 \in Val /\ writes + 1 # None
    BY <1>8, LogAssumption DEF Modify, IInv, TypeOK, DiskOK, Val
  <2>5. \A x \in Block : Cached(x)' = IF x = b THEN writes + 1 ELSE Cached(x)
    BY <1>8, <2>4 DEF Modify, Cached, IInv, TypeOK, CacheOK
  <2>6. Mem' = [Mem EXCEPT ![b] = writes + 1]
    BY <2>1, <2>5 DEF Mem
  <2> QED
    BY <2>2, <2>3, <2>4, <2>6 DEF Abstract!Write, Active
<1>9. ASSUME NEW b \in Block, Evict(b) PROVE [Abstract!Next]_AbstractVars
  <2>1. Durable' = Durable /\ Active' = Active /\ mode' = mode
    BY <1>1, <1>9 DEF Evict, Active, InCall
  <2>2. CASE mode # "up"
    BY <1>3, <2>1, <2>2 DEF Mem
  <2>3. CASE mode = "up"
    <3>1. Cached(b) = home[b]
      BY <1>9, <2>3, UnpinnedIsHome DEF Evict
    <3>2. \A x \in Block : Cached(x)' = Cached(x)
      BY <1>9, <3>1 DEF Evict, Cached, IInv, TypeOK, CacheOK
    <3>3. Mem' = Mem
      BY <2>1, <2>3, <3>2 DEF Mem
    <3> QED
      BY <1>3, <2>1, <3>3
  <2> QED
    BY <2>2, <2>3
<1>10. ASSUME NEW o \in Op, WriteLog(o) PROVE [Abstract!Next]_AbstractVars
  <2>1. mode = "up" /\ \A q \in Op : q # o => ~Committing(q)
    BY <1>10, CommitsAlone DEF WriteLog, Committing
  <2>2. head = <<>>
    BY <1>10, <2>1 DEF WriteLog, Committing, IInv, Shape
  <2>3. Durable' = Durable
    BY <1>10, <2>2 DEF WriteLog, Durable, ToSet
  <2>4. Mem' = Mem
    BY <1>2, <1>10, <2>3 DEF WriteLog
  <2>5. Active' = Active
    BY <1>4, <1>10 DEF WriteLog, AfterWriteLog, Active, InCall
  <2> QED
    BY <1>3, <2>3, <2>4, <2>5
<1>11. ASSUME NEW o \in Op, WriteHead(o) PROVE Abstract!Commit
  <2>1. mode = "up" /\ \A q \in Op : q # o => pc[q] \in {"out", "begin", "asleep"}
    BY <1>11, CommitsAlone DEF WriteHead, Committing
  <2>2. Active = {} /\ Active' = {}
    BY <1>4, <1>11, <2>1 DEF WriteHead, Active, InCall
  <2>3. \A b \in Block : owner[b] = None
    <3>1. \A q \in Op : held[q] = None
      BY <1>11, <2>1 DEF WriteHead, IInv, Holds
    <3> QED
      BY <3>1, LogAssumption DEF IInv, Holds, TypeOK, CacheOK
  <2>4. ASSUME NEW b \in Block PROVE Durable'[b] = Cached(b)
    <3>2. head' = lh /\ logd' = logd /\ home' = home
      BY <1>11 DEF WriteHead
    <3>3. CASE Logged(b)
      <4>1. PICK i \in 1..Len(lh) : lh[i] = b
        BY <3>3, LoggedAt
      <4>2. Durable'[b] = logd[i]
        <5>1. (CHOOSE j \in 1..Len(lh) : lh[j] = b) = i
          BY <4>1 DEF IInv, Shape, Distinct
        <5> QED
          BY <3>2, <3>3, <4>1, <5>1 DEF Durable, Logged
      <4>3. logd[i] = buf[b] /\ logd[i] \in Val
        <5>1. i \in 1..LOGSIZE
          BY <4>1, LogAssumption DEF IInv, TypeOK, LogOK
        <5> QED
          BY <1>11, <4>1, <5>1 DEF WriteHead, IInv, Copied, TypeOK, DiskOK
      <4> QED
        BY <4>2, <4>3, LogAssumption DEF Cached, Val
    <3>4. CASE ~Logged(b)
      <4>1. Durable'[b] = home[b]
        BY <3>2, <3>4 DEF Durable, Logged
      <4> QED
        BY <2>3, <3>4, <4>1 DEF Cached, IInv, Cache
    <3> QED
      BY <3>3, <3>4
  <2>5. Durable' = Mem
    BY <2>1, <2>4 DEF Mem, Durable
  <2>6. Mem' = Mem
    BY <1>11, <2>1 DEF WriteHead, Mem, Cached
  <2> QED
    BY <2>2, <2>5, <2>6 DEF Abstract!Commit, Active
<1>12. ASSUME NEW o \in Op, Install(o) PROVE [Abstract!Next]_AbstractVars
  <2>1. mode = "up"
    BY <1>12, CommitsAlone DEF Install, Committing
  <2>2. tail \in 1..Len(lh) /\ lh[tail] \in Block /\ head = lh
    BY <1>12 DEF Install, IInv, Shape, TypeOK, LogOK
  <2>3. \A x \in Block : x # lh[tail] => home'[x] = home[x] /\ buf'[x] = buf[x]
    BY <1>12 DEF Install, IInv, TypeOK, DiskOK, CacheOK
  <2>4. lh[tail] \in ToSet(head)
    BY <2>2, InToSet DEF IInv, TypeOK, DiskOK
  <2>5. Durable' = Durable
    BY <1>12, <2>3, <2>4 DEF Install, Durable
  <2>6. buf[lh[tail]] = logd[tail] /\ buf'[lh[tail]] = logd[tail] /\ logd[tail] # None
    BY <1>12, <2>2, LogAssumption
       DEF Install, IInv, Copied, TypeOK, DiskOK, LogOK, CacheOK, Val
  <2>7. \A x \in Block : Cached(x)' = Cached(x)
    BY <2>3, <2>6 DEF Cached
  <2>8. Mem' = Mem
    BY <1>12, <2>1, <2>7 DEF Install, Mem
  <2>9. Active' = Active
    BY <1>4, <1>12 DEF Install, Active, InCall
  <2> QED
    BY <1>3, <2>5, <2>8, <2>9
<1>13. ASSUME NEW o \in Op, Erase(o) PROVE [Abstract!Next]_AbstractVars
  <2>1. mode = "up" /\ lh = <<>>
    BY <1>13, CommitsAlone DEF Erase, Committing, IInv, Shape
  <2>2. Durable = home
    BY <1>13, DurableHome DEF Erase, IInv, Copied
  <2>3. Durable' = home
    BY <1>13, <2>1 DEF Erase, Durable, ToSet, IInv, TypeOK, DiskOK
  <2>4. Mem' = Mem
    BY <1>2, <1>13, <2>2, <2>3 DEF Erase
  <2>5. Active' = Active
    BY <1>4, <1>13 DEF Erase, Active, InCall
  <2> QED
    BY <1>3, <2>2, <2>3, <2>4, <2>5
<1>14. CASE Crash
  <2>1. Durable' = Durable /\ Mem' = Durable
    BY <1>1, <1>14 DEF Crash, Mem
  <2>2. Active' = {}
    BY <1>14 DEF Crash, Active, InCall
  <2>3. Abstract!Crash
    BY <2>1, <2>2 DEF Abstract!Crash, Active
  <2> QED
    BY <2>3 DEF Abstract!Next
<1>15. CASE ReadHead
  <2>1. Durable' = Durable
    BY <1>1, <1>15 DEF ReadHead
  <2>2. Mem' = Mem /\ Active' = Active
    BY <1>15, <2>1 DEF ReadHead, Mem, Active, InCall
  <2> QED
    BY <1>3, <2>1, <2>2
<1>16. CASE Redo
  <2>1. tail \in 1..Len(lh) /\ head = lh
    BY <1>16 DEF Redo, IInv, Shape, TypeOK, LogOK
  <2>2. \A x \in Block : x # lh[tail] => home'[x] = home[x]
    BY <1>16 DEF Redo, IInv, TypeOK, DiskOK
  <2>3. lh[tail] \in ToSet(head)
    BY <2>1, InToSet DEF IInv, TypeOK, DiskOK
  <2>4. Durable' = Durable
    BY <1>16, <2>2, <2>3 DEF Redo, Durable
  <2>5. Mem' = Mem /\ Active' = Active
    BY <1>16, <2>4 DEF Redo, Mem, Active, InCall
  <2> QED
    BY <1>3, <2>4, <2>5
<1>17. CASE EraseOld
  <2>1. Durable = home
    BY <1>17, DurableHome DEF EraseOld, IInv, Copied
  <2>2. Durable' = home
    BY <1>17 DEF EraseOld, Durable, ToSet, IInv, TypeOK, DiskOK
  <2>3. \A b \in Block : Cached(b)' = home[b]
    BY <1>17 DEF EraseOld, Cached, IInv, Quiet
  <2>4. Mem = home
    BY <1>17, <2>1 DEF EraseOld, Mem
  <2>5. Mem' = home
    BY <1>17, <2>3 DEF EraseOld, Mem, IInv, TypeOK, DiskOK
  <2>6. Active' = Active
    BY <1>17 DEF EraseOld, Active, InCall
  <2> QED
    BY <1>3, <2>1, <2>2, <2>4, <2>5, <2>6
<1>18. CASE \E o \in Op : BeginOp(o) \/ EndOp(o) \/ WriteHead(o)
  BY <1>6, <1>7, <1>11, <1>18 DEF Abstract!Next
<1>19. CASE \E o \in Op, b \in Block : Modify(o, b)
  BY <1>8, <1>19 DEF Abstract!Next
<1> QED
  BY <1>5, <1>9, <1>10, <1>12, <1>13, <1>14, <1>15, <1>16, <1>17, <1>18, <1>19
     DEF Next, OpStep, Commit, Recover

(* Whatever crashes, at whichever disk write, recovery included, the file   *)
(* system's calls see a disk that takes whole transactions at once.         *)
THEOREM LogIsAtomic == Spec => Refines
<1>1. IInv /\ UNCHANGED vars => UNCHANGED AbstractVars
  BY DEF vars, disk, log, cache, call, AbstractVars, Mem, Durable, Cached, InCall
<1>2. IInv /\ [Next]_vars => [Abstract!Next]_AbstractVars
  BY <1>1, RefinesStep
<1> QED
  BY <1>2, RefinesInit, Invariant, PTL DEF Spec, Refines, Abstract!Spec, AbstractVars

===============================================================================
