----------------------------- MODULE BcacheProofs -----------------------------
(***************************************************************************)
(* The buffer cache for any number of processes, blocks and buffers: a      *)
(* block is in one buffer, refcnt is exactly its users, bget finds a buffer *)
(* when there are as many as pins and processes, who sleeps for a buffer    *)
(* is woken, and recycling and write-back are invisible (BlockStore).       *)
(*                                                                         *)
(* Those properties rest on each other.  OneCopy needs RefcntExact (what is *)
(* recycled has no user), which needs Places (who has a buffer) and OneCopy *)
(* (the pin is of this buffer); the refinement needs Locks (one holder),    *)
(* Read (a holder's buffer is read in) and Clean (an unpinned, unchanged    *)
(* buffer is as the disk: recycling it loses nothing); List says that the   *)
(* scan for a victim sees every buffer, and Pins bounds the log's.          *)
(***************************************************************************)
EXTENDS Bcache, FiniteSetTheorems, WellFoundedInduction, TLAPS

PC == {"idle", "bget", "lock", "asleep", "locked", "hold", "unpin", "unref"}

BufOK ==
    /\ blockno \in [Buf -> Block \cup {None}]
    /\ valid \in [Buf -> BOOLEAN]
    /\ refcnt \in [Buf -> Int]
    /\ data \in [Buf -> Val]
    /\ lru \in [Buf -> Buf]
    /\ locked \in [Buf -> BOOLEAN]
    /\ owner \in [Buf -> Proc \cup {None}]

UserOK ==
    /\ disk \in [Block -> Val]
    /\ pinned \subseteq Block
    /\ pc \in [Proc -> PC]
    /\ want \in [Proc -> Block \cup {None}]
    /\ at \in [Proc -> Buf \cup {None}]
    /\ dirty \in [Proc -> BOOLEAN]

TypeOK == BufOK /\ UserOK

(* What a process has at each place of bread and brelse.                    *)
Places == \A p \in Proc :
    /\ want[p] = None <=> pc[p] = "idle"
    /\ at[p] = None <=> pc[p] \in {"idle", "bget"}
    /\ dirty[p] => pc[p] = "hold"
    /\ pc[p] = "unpin" => want[p] \in pinned

(* The sleep-lock of a buffer and who is between acquiresleep and           *)
(* releasesleep agree.                                                      *)
Has(p) == pc[p] \in {"locked", "hold", "unpin"}
Locks ==
    /\ \A p \in Proc : Has(p) => owner[at[p]] = p
    /\ \A i \in Buf : locked[i] <=> owner[i] # None
    /\ \A i \in Buf : owner[i] # None => Has(owner[i]) /\ at[owner[i]] = i

(* b->valid and b->data: a holder's buffer is read in, and a buffer that is *)
(* neither pinned nor changed since is as the disk.                         *)
Read == /\ \A p \in Proc : pc[p] \in {"hold", "unpin"} => valid[at[p]]
        /\ \A i \in Buf : valid[i] => blockno[i] # None
Clean ==
    /\ \A i \in Buf : valid[i] /\ blockno[i] \notin pinned
                      /\ (\A p \in Proc : dirty[p] => at[p] # i)
                         => data[i] = disk[blockno[i]]
    /\ \A p \in Proc : pc[p] = "unpin" => data[at[p]] = disk[want[p]]

(* Every buffer is in the list once.                                        *)
List == /\ \A i \in Buf : \E k \in Buf : lru[k] = i
        /\ \A j, k \in Buf : lru[j] = lru[k] => j = k

Pins == IsFiniteSet(pinned) /\ Cardinality(pinned) <= MaxPins

IInv == /\ TypeOK /\ Places /\ Locks /\ OneCopy /\ RefcntExact /\ Read /\ Clean
        /\ List /\ Pins

-----------------------------------------------------------------------------
(* A nonempty set of numbers up to n has a greatest element.                *)
LEMMA Greatest ==
    ASSUME NEW n \in Nat, NEW K \in SUBSET (1..n), K # {}
    PROVE  \E k \in K : \A j \in K : j <= k
<1> DEFINE T == {k..n : k \in K}
           R == StrictSubsetOrdering(1..n)
           F == FiniteSubsetsOf(1..n)
<1>1. IsWellFoundedOn(R, F)
  BY FS_StrictSubsetOrderingWellFounded
<1>2. T \subseteq F
  BY FS_Interval DEF FiniteSubsetsOf
<1>3. T # {}
  OBVIOUS
<1>4. PICK s \in T : \A t \in T : ~(<<t, s>> \in R)
  <2> HIDE DEF T, R, F
  <2> QED
    BY <1>1, <1>2, <1>3, WFMin
<1>5. PICK k \in K : s = k..n
  OBVIOUS
<1>6. ASSUME NEW j \in K, j > k PROVE FALSE
  <2>1. j..n \subseteq k..n /\ j..n # k..n
    BY <1>6
  <2>2. <<j..n, k..n>> \in R
    BY <2>1 DEF StrictSubsetOrdering
  <2> QED
    BY <1>4, <1>5, <2>2
<1> QED
  BY <1>6

(* bget recycles a buffer that nobody uses.                                 *)
LEMMA VictimUnused ==
    ASSUME IInv, Unused # {}
    PROVE  Victim \in Unused /\ Victim \in Buf
<1> DEFINE K == {k \in Buf : lru[k] \in Unused}
<1>1. K # {}
  BY DEF IInv, List, Unused
<1>2. \E k \in K : \A j \in K : j <= k
  BY <1>1, BcacheAssumption, Greatest DEF Buf
<1>3. \E k \in Buf : /\ lru[k] \in Unused
                     /\ \A j \in Buf : lru[j] \in Unused => j <= k
  BY <1>2
<1> QED
  BY <1>3 DEF Victim, Unused

(* What a process has between bget and brelse.                              *)
LEMMA MyBuffer ==
    ASSUME IInv, NEW p \in Proc, pc[p] \notin {"idle", "bget"}
    PROVE  at[p] \in Buf /\ want[p] \in Block /\ blockno[at[p]] = want[p]
  BY DEF IInv, TypeOK, UserOK, Places, OneCopy

LEMMA Wanted ==
    ASSUME IInv, NEW p \in Proc, pc[p] = "bget"
    PROVE  want[p] \in Block /\ at[p] = None
  BY DEF IInv, TypeOK, UserOK, Places

Users(i) == {p \in Proc : at[p] = i}
LEMMA UsersType ==
    ASSUME NEW i PROVE IsFiniteSet(Users(i)) /\ Cardinality(Users(i)) \in Nat
  BY BcacheAssumption, FS_Subset, FS_CardinalityType DEF Users

LEMMA VictimFree ==
    ASSUME IInv, Unused # {}
    PROVE  /\ Victim \in Buf /\ blockno[Victim] \notin pinned
           /\ \A p \in Proc : at[p] # Victim
<1>1. Victim \in Buf /\ refcnt[Victim] = 0
  BY VictimUnused DEF Unused
<1>2. refcnt[Victim] = Cardinality(Users(Victim))
                       + (IF blockno[Victim] \in pinned THEN 1 ELSE 0)
  BY <1>1 DEF IInv, RefcntExact, Users
<1>3. Cardinality(Users(Victim)) = 0 /\ blockno[Victim] \notin pinned
  BY <1>1, <1>2, UsersType
<1>4. Users(Victim) = {}
  BY <1>3, UsersType, FS_EmptySet
<1> QED
  BY <1>1, <1>3, <1>4 DEF Users

(* Moving a buffer to the front keeps every buffer in the list once.        *)
LEMMA NoneNotBuf == None \notin Buf
  BY BcacheAssumption DEF Buf

LEMMA FrontedList ==
    ASSUME lru \in [Buf -> Buf], List, NEW i \in Buf
    PROVE  /\ Fronted(i) \in [Buf -> Buf]
           /\ \A x \in Buf : \E k \in Buf : Fronted(i)[k] = x
           /\ \A j, k \in Buf : Fronted(i)[j] = Fronted(i)[k] => j = k
<1> DEFINE m == CHOOSE j \in Buf : lru[j] = i
           g == Fronted(i)
           s(x) == IF x = 1 THEN m ELSE IF x <= m THEN x - 1 ELSE x
<1>1. m \in Buf /\ lru[m] = i
  BY DEF List
<1>2. g = [j \in Buf |-> IF j = 1 THEN i ELSE IF j <= m THEN lru[j - 1] ELSE lru[j]]
  BY DEF Fronted
<1> HIDE DEF m, g
<1>3. \A x \in Buf : x \in Int /\ 1 <= x /\ x <= NBUF
  BY BcacheAssumption DEF Buf
<1>4. \A x \in Int : 1 <= x /\ x <= NBUF => x \in Buf
  BY BcacheAssumption DEF Buf
<1>5. ASSUME NEW x \in Buf PROVE s(x) \in Buf /\ g[x] = lru[s(x)]
  <2>1. CASE x = 1
    BY <1>1, <1>2, <2>1
  <2>2. CASE x # 1 /\ x <= m
    <3>1. x - 1 \in Buf
      BY <1>3, <1>4, <2>2, BcacheAssumption
    <3> QED
      BY <1>2, <2>2, <3>1
  <2>3. CASE x # 1 /\ ~(x <= m)
    BY <1>2, <2>3
  <2> QED
    BY <2>1, <2>2, <2>3
<1>6. g \in [Buf -> Buf]
  <2>1. \A x \in Buf : g[x] \in Buf
    BY <1>5
  <2> QED
    BY <1>2, <2>1
<1>7. ASSUME NEW x \in Buf PROVE \E k \in Buf : s(k) = x
  <2>1. CASE x = m
    <3>1. 1 \in Buf
      BY <1>4, BcacheAssumption
    <3> QED
      BY <2>1, <3>1
  <2>2. CASE x < m
    <3>1. x + 1 \in Buf /\ s(x + 1) = x
      BY <1>1, <1>3, <1>4, <2>2, BcacheAssumption
    <3> QED
      BY <3>1
  <2>3. CASE x > m
    <3>1. s(x) = x
      BY <1>1, <1>3, <2>3
    <3> QED
      BY <3>1
  <2> QED
    BY <1>1, <1>3, <2>1, <2>2, <2>3
<1>8. ASSUME NEW x \in Buf PROVE \E k \in Buf : g[k] = x
  <2>1. PICK j \in Buf : lru[j] = x
    BY DEF List
  <2>2. PICK k \in Buf : s(k) = j
    BY <1>7
  <2> QED
    BY <1>5, <2>1, <2>2
<1>9. ASSUME NEW j \in Buf, NEW k \in Buf, g[j] = g[k] PROVE j = k
  <2>1. s(j) = s(k)
    BY <1>5, <1>9 DEF List
  <2> QED
    BY <1>1, <1>3, <2>1
<1> QED
  BY <1>6, <1>8, <1>9 DEF g

LEMMA TypeOKStep == IInv /\ Next => TypeOK'
<1> SUFFICES ASSUME IInv, Next PROVE TypeOK'
  OBVIOUS
<1> USE BcacheAssumption DEF IInv, Goto, bufs, slock, user, TypeOK, BufOK, UserOK, PC, Places
<1>1. ASSUME NEW p \in Proc, NEW b \in Block, Bread(p, b) PROVE TypeOK'
  BY <1>1 DEF Bread
<1>2. ASSUME NEW p \in Proc, BgetHit(p) PROVE TypeOK'
  <2>1. PICK i \in Buf : at' = [at EXCEPT ![p] = i] /\ refcnt' = [refcnt EXCEPT ![i] = @ + 1]
    BY <1>2 DEF BgetHit, Cached
  <2>2. BufOK'
    BY <1>2, <2>1 DEF BgetHit
  <2>3. UserOK'
    BY <1>2, <2>1 DEF BgetHit
  <2> QED
    BY <2>2, <2>3
<1>3. ASSUME NEW p \in Proc, BgetRecycle(p) PROVE TypeOK'
  <2>1. Victim \in Buf /\ want[p] \in Block
    BY <1>3, VictimFree, Wanted DEF BgetRecycle
  <2>2. BufOK'
    BY <1>3, <2>1 DEF BgetRecycle, NotValid
  <2>3. UserOK'
    BY <1>3, <2>1 DEF BgetRecycle
  <2> QED
    BY <2>2, <2>3
<1>4. ASSUME NEW p \in Proc, AcquireSleep(p) PROVE TypeOK'
  <2>1. CASE locked[at[p]]
    BY <1>4, <2>1 DEF AcquireSleep
  <2>2. CASE ~locked[at[p]]
    <3>1. BufOK'
      <4>1. locked' \in [Buf -> BOOLEAN]
        BY <1>4, <2>2 DEF AcquireSleep
      <4>2. owner' \in [Buf -> Proc \cup {None}]
        BY <1>4, <2>2 DEF AcquireSleep
      <4> QED
        BY <1>4, <4>1, <4>2 DEF AcquireSleep
    <3>2. UserOK'
      BY <1>4, <2>2 DEF AcquireSleep
    <3> QED
      BY <3>1, <3>2
  <2> QED
    BY <2>1, <2>2
<1>5. ASSUME NEW p \in Proc, Rouse(p) PROVE TypeOK'
  BY <1>5 DEF Rouse
<1>6. ASSUME NEW p \in Proc, ReadIn(p) PROVE TypeOK'
  <2>1. disk[blockno[at[p]]] \in Val
    BY <1>6, MyBuffer DEF ReadIn
  <2>2. BufOK'
    BY <1>6, <2>1 DEF ReadIn
  <2>3. UserOK'
    BY <1>6 DEF ReadIn
  <2> QED
    BY <2>2, <2>3
<1>7. ASSUME NEW p \in Proc, NEW v \in Val, Change(p, v) PROVE TypeOK'
  BY <1>7 DEF Change
<1>8. ASSUME NEW p \in Proc, Bwrite(p) PROVE TypeOK'
  BY <1>8 DEF Bwrite
<1>9. ASSUME NEW p \in Proc, Bpin(p) PROVE TypeOK'
  BY <1>9 DEF Bpin
<1>10. ASSUME NEW p \in Proc, InstallWrite(p) PROVE TypeOK'
  BY <1>10 DEF InstallWrite
<1>11. ASSUME NEW p \in Proc, Bunpin(p) PROVE TypeOK'
  BY <1>11 DEF Bunpin
<1>12. ASSUME NEW p \in Proc, ReleaseSleep(p) PROVE TypeOK'
  BY <1>12 DEF ReleaseSleep, Woken
<1>13. ASSUME NEW p \in Proc, Unref(p) PROVE TypeOK'
  <2>1. lru' \in [Buf -> Buf]
    <3>1. at[p] \in Buf
      BY <1>13, MyBuffer DEF Unref
    <3>2. Fronted(at[p]) \in [Buf -> Buf]
      BY <3>1, FrontedList
    <3> QED
      BY <1>13, <3>2 DEF Unref
  <2>2. BufOK'
    BY <1>13, <2>1 DEF Unref, DropRef
  <2>3. UserOK'
    BY <1>13 DEF Unref
  <2> QED
    BY <2>2, <2>3
<1> QED
  BY <1>1, <1>2, <1>3, <1>4, <1>5, <1>6, <1>7, <1>8, <1>9, <1>10, <1>11,
     <1>12, <1>13 DEF Next, Step

LEMMA PlacesStep == IInv /\ Next => Places'
<1> SUFFICES ASSUME IInv, Next PROVE Places'
  OBVIOUS
<1> USE BcacheAssumption DEF IInv, Goto, bufs, slock, user, TypeOK, BufOK, UserOK, PC, Places
<1>1. ASSUME NEW p \in Proc, NEW b \in Block, Bread(p, b) PROVE Places'
  BY <1>1 DEF Bread
<1>2. ASSUME NEW p \in Proc, BgetHit(p) PROVE Places'
  <2>1. PICK i \in Buf : at' = [at EXCEPT ![p] = i]
    BY <1>2 DEF BgetHit, Cached
  <2>2. i # None
    BY NoneNotBuf
  <2> QED
    BY <1>2, <2>1, <2>2 DEF BgetHit
<1>3. ASSUME NEW p \in Proc, BgetRecycle(p) PROVE Places'
  <2>1. Victim \in Buf
    BY <1>3, VictimFree DEF BgetRecycle
  <2>2. Victim # None
    BY <2>1, NoneNotBuf
  <2> QED
    BY <1>3, <2>1, <2>2 DEF BgetRecycle
<1>4. ASSUME NEW p \in Proc, AcquireSleep(p) PROVE Places'
  BY <1>4 DEF AcquireSleep
<1>5. ASSUME NEW p \in Proc, Rouse(p) PROVE Places'
  BY <1>5 DEF Rouse
<1>6. ASSUME NEW p \in Proc, ReadIn(p) PROVE Places'
  BY <1>6 DEF ReadIn
<1>7. ASSUME NEW p \in Proc, NEW v \in Val, Change(p, v) PROVE Places'
  BY <1>7 DEF Change
<1>8. ASSUME NEW p \in Proc, Bwrite(p) PROVE Places'
  BY <1>8 DEF Bwrite
<1>9. ASSUME NEW p \in Proc, Bpin(p) PROVE Places'
  BY <1>9 DEF Bpin
<1>10. ASSUME NEW p \in Proc, InstallWrite(p) PROVE Places'
  BY <1>10 DEF InstallWrite
<1>11. ASSUME NEW p \in Proc, Bunpin(p) PROVE Places'
  <2>1. ASSUME NEW q \in Proc, pc'[q] = "unpin" PROVE want[q] # want[p]
    <3>1. q # p /\ pc[q] = "unpin"
      BY <1>11, <2>1 DEF Bunpin
    <3>2. at[q] # at[p]
      BY <1>11, <3>1 DEF Bunpin, Locks, Has
    <3>3. blockno[at[p]] = want[p] /\ blockno[at[q]] = want[q] /\ want[p] \in Block
          /\ at[p] \in Buf /\ at[q] \in Buf
      BY <1>11, <3>1, MyBuffer DEF Bunpin
    <3> QED
      BY <3>2, <3>3 DEF OneCopy
  <2> QED
    BY <1>11, <2>1 DEF Bunpin
<1>12. ASSUME NEW p \in Proc, ReleaseSleep(p) PROVE Places'
  BY <1>12 DEF ReleaseSleep, Woken
<1>13. ASSUME NEW p \in Proc, Unref(p) PROVE Places'
  BY <1>13 DEF Unref, DropRef, Fronted
<1> QED
  BY <1>1, <1>2, <1>3, <1>4, <1>5, <1>6, <1>7, <1>8, <1>9, <1>10, <1>11,
     <1>12, <1>13 DEF Next, Step

LEMMA LocksStep == IInv /\ Next => Locks'
<1> SUFFICES ASSUME IInv, Next PROVE Locks'
  OBVIOUS
<1> USE BcacheAssumption DEF IInv, Goto, bufs, slock, user, TypeOK, BufOK, UserOK, PC, Places, Locks, Has
<1>1. ASSUME NEW p \in Proc, NEW b \in Block, Bread(p, b) PROVE Locks'
  BY <1>1 DEF Bread
<1>2. ASSUME NEW p \in Proc, BgetHit(p) PROVE Locks'
  BY <1>2 DEF BgetHit
<1>3. ASSUME NEW p \in Proc, BgetRecycle(p) PROVE Locks'
  BY <1>3 DEF BgetRecycle, NotValid
<1>4. ASSUME NEW p \in Proc, AcquireSleep(p) PROVE Locks'
  BY <1>4 DEF AcquireSleep
<1>5. ASSUME NEW p \in Proc, Rouse(p) PROVE Locks'
  BY <1>5 DEF Rouse
<1>6. ASSUME NEW p \in Proc, ReadIn(p) PROVE Locks'
  BY <1>6 DEF ReadIn
<1>7. ASSUME NEW p \in Proc, NEW v \in Val, Change(p, v) PROVE Locks'
  BY <1>7 DEF Change
<1>8. ASSUME NEW p \in Proc, Bwrite(p) PROVE Locks'
  BY <1>8 DEF Bwrite
<1>9. ASSUME NEW p \in Proc, Bpin(p) PROVE Locks'
  BY <1>9 DEF Bpin
<1>10. ASSUME NEW p \in Proc, InstallWrite(p) PROVE Locks'
  BY <1>10 DEF InstallWrite
<1>11. ASSUME NEW p \in Proc, Bunpin(p) PROVE Locks'
  BY <1>11 DEF Bunpin
<1>12. ASSUME NEW p \in Proc, ReleaseSleep(p) PROVE Locks'
  BY <1>12 DEF ReleaseSleep, Woken
<1>13. ASSUME NEW p \in Proc, Unref(p) PROVE Locks'
  BY <1>13 DEF Unref, DropRef, Fronted
<1> QED
  BY <1>1, <1>2, <1>3, <1>4, <1>5, <1>6, <1>7, <1>8, <1>9, <1>10, <1>11,
     <1>12, <1>13 DEF Next, Step

LEMMA OneCopyStep == IInv /\ Next => OneCopy'
<1> SUFFICES ASSUME IInv, Next PROVE OneCopy'
  OBVIOUS
<1> USE BcacheAssumption DEF IInv, Goto, bufs, slock, user, TypeOK, BufOK, UserOK, PC, Places, OneCopy, Cached
<1>1. ASSUME NEW p \in Proc, NEW b \in Block, Bread(p, b) PROVE OneCopy'
  BY <1>1 DEF Bread
<1>2. ASSUME NEW p \in Proc, BgetHit(p) PROVE OneCopy'
  BY <1>2 DEF BgetHit
<1>3. ASSUME NEW p \in Proc, BgetRecycle(p) PROVE OneCopy'
  <2>1. /\ Victim \in Buf /\ blockno[Victim] \notin pinned
        /\ \A q \in Proc : at[q] # Victim
    BY <1>3, VictimFree DEF BgetRecycle
  <2>2. want[p] \in Block /\ \A i \in Buf : blockno[i] # want[p]
    BY <1>3, Wanted DEF BgetRecycle
  <2>3. \A i \in Buf : blockno'[i] = IF i = Victim THEN want[p] ELSE blockno[i]
    BY <1>3 DEF BgetRecycle
  <2>4. \A q \in Proc : at'[q] = IF q = p THEN Victim ELSE at[q]
    BY <1>3 DEF BgetRecycle
  <2>5. want' = want /\ pinned' = pinned
    BY <1>3 DEF BgetRecycle
  <2>6. \A i, j \in Buf : blockno'[i] = blockno'[j] /\ blockno'[i] # None => i = j
    BY <2>2, <2>3
  <2>7. \A q \in Proc : at'[q] # None => blockno'[at'[q]] = want'[q]
    <3> HIDE DEF Buf
    <3> QED
      BY <2>1, <2>3, <2>4, <2>5
  <2>8. ASSUME NEW b \in pinned PROVE \E i \in Buf : blockno'[i] = b
    <3>1. PICK i \in Buf : blockno[i] = b
      OBVIOUS
    <3> QED
      BY <2>1, <2>3, <3>1
  <2> QED
    BY <2>5, <2>6, <2>7, <2>8
<1>4. ASSUME NEW p \in Proc, AcquireSleep(p) PROVE OneCopy'
  BY <1>4 DEF AcquireSleep
<1>5. ASSUME NEW p \in Proc, Rouse(p) PROVE OneCopy'
  BY <1>5 DEF Rouse
<1>6. ASSUME NEW p \in Proc, ReadIn(p) PROVE OneCopy'
  BY <1>6 DEF ReadIn
<1>7. ASSUME NEW p \in Proc, NEW v \in Val, Change(p, v) PROVE OneCopy'
  BY <1>7 DEF Change
<1>8. ASSUME NEW p \in Proc, Bwrite(p) PROVE OneCopy'
  BY <1>8 DEF Bwrite
<1>9. ASSUME NEW p \in Proc, Bpin(p) PROVE OneCopy'
  BY <1>9 DEF Bpin
<1>10. ASSUME NEW p \in Proc, InstallWrite(p) PROVE OneCopy'
  BY <1>10 DEF InstallWrite
<1>11. ASSUME NEW p \in Proc, Bunpin(p) PROVE OneCopy'
  BY <1>11 DEF Bunpin
<1>12. ASSUME NEW p \in Proc, ReleaseSleep(p) PROVE OneCopy'
  BY <1>12 DEF ReleaseSleep, Woken
<1>13. ASSUME NEW p \in Proc, Unref(p) PROVE OneCopy'
  BY <1>13 DEF Unref, DropRef, Fronted
<1> QED
  BY <1>1, <1>2, <1>3, <1>4, <1>5, <1>6, <1>7, <1>8, <1>9, <1>10, <1>11,
     <1>12, <1>13 DEF Next, Step

LEMMA ReadStep == IInv /\ Next => Read'
<1> SUFFICES ASSUME IInv, Next PROVE Read'
  OBVIOUS
<1> USE BcacheAssumption DEF IInv, Goto, bufs, slock, user, TypeOK, BufOK, UserOK, PC, Places, Read, Locks, Has
<1>1. ASSUME NEW p \in Proc, NEW b \in Block, Bread(p, b) PROVE Read'
  BY <1>1 DEF Bread
<1>2. ASSUME NEW p \in Proc, BgetHit(p) PROVE Read'
  BY <1>2 DEF BgetHit
<1>3. ASSUME NEW p \in Proc, BgetRecycle(p) PROVE Read'
  <2>1. Victim \in Buf /\ \A q \in Proc : at[q] # Victim
    BY <1>3, VictimFree DEF BgetRecycle
  <2>2. \A q \in Proc : pc'[q] \in {"hold", "unpin"} =>
           pc[q] = pc'[q] /\ at'[q] = at[q] /\ at[q] \in Buf
    BY <1>3 DEF BgetRecycle
  <2>3. \A i \in Buf : /\ valid'[i] = IF i = Victim THEN FALSE ELSE valid[i]
                       /\ i # Victim => blockno'[i] = blockno[i]
    BY <1>3 DEF BgetRecycle, NotValid
  <2>4. \A i \in Buf : valid'[i] => blockno'[i] # None
    BY <2>3
  <2>5. ASSUME NEW q \in Proc, pc'[q] \in {"hold", "unpin"} PROVE valid'[at'[q]]
    <3>1. pc[q] \in {"hold", "unpin"} /\ at'[q] = at[q] /\ at[q] \in Buf
      BY <2>2, <2>5
    <3> QED
      BY <2>1, <2>3, <3>1
  <2> QED
    BY <2>4, <2>5
<1>4. ASSUME NEW p \in Proc, AcquireSleep(p) PROVE Read'
  BY <1>4 DEF AcquireSleep
<1>5. ASSUME NEW p \in Proc, Rouse(p) PROVE Read'
  BY <1>5 DEF Rouse
<1>6. ASSUME NEW p \in Proc, ReadIn(p) PROVE Read'
  <2>1. at[p] \in Buf /\ blockno[at[p]] # None
    BY <1>6, MyBuffer DEF ReadIn
  <2>2. \A i \in Buf : valid'[i] <=> valid[i] \/ i = at[p]
    BY <1>6, <2>1 DEF ReadIn
  <2>3. blockno' = blockno /\ at' = at
    BY <1>6 DEF ReadIn
  <2>4. \A q \in Proc : pc'[q] \in {"hold", "unpin"} =>
           q = p \/ (pc[q] \in {"hold", "unpin"} /\ at[q] \in Buf)
    BY <1>6 DEF ReadIn
  <2> QED
    BY <2>1, <2>2, <2>3, <2>4
<1>7. ASSUME NEW p \in Proc, NEW v \in Val, Change(p, v) PROVE Read'
  BY <1>7 DEF Change
<1>8. ASSUME NEW p \in Proc, Bwrite(p) PROVE Read'
  BY <1>8 DEF Bwrite
<1>9. ASSUME NEW p \in Proc, Bpin(p) PROVE Read'
  BY <1>9 DEF Bpin
<1>10. ASSUME NEW p \in Proc, InstallWrite(p) PROVE Read'
  BY <1>10 DEF InstallWrite
<1>11. ASSUME NEW p \in Proc, Bunpin(p) PROVE Read'
  BY <1>11 DEF Bunpin
<1>12. ASSUME NEW p \in Proc, ReleaseSleep(p) PROVE Read'
  BY <1>12 DEF ReleaseSleep, Woken
<1>13. ASSUME NEW p \in Proc, Unref(p) PROVE Read'
  BY <1>13 DEF Unref, DropRef, Fronted
<1> QED
  BY <1>1, <1>2, <1>3, <1>4, <1>5, <1>6, <1>7, <1>8, <1>9, <1>10, <1>11,
     <1>12, <1>13 DEF Next, Step

LEMMA CleanStep == IInv /\ Next => Clean'
<1> SUFFICES ASSUME IInv, Next PROVE Clean'
  OBVIOUS
<1> USE BcacheAssumption DEF IInv, Goto, bufs, slock, user, TypeOK, BufOK, UserOK, PC, Places, Clean, Locks, Has
<1>1. ASSUME NEW p \in Proc, NEW b \in Block, Bread(p, b) PROVE Clean'
  BY <1>1 DEF Bread
<1>2. ASSUME NEW p \in Proc, BgetHit(p) PROVE Clean'
  BY <1>2 DEF BgetHit
<1>3. ASSUME NEW p \in Proc, BgetRecycle(p) PROVE Clean'
  BY <1>3 DEF BgetRecycle, NotValid
<1>4. ASSUME NEW p \in Proc, AcquireSleep(p) PROVE Clean'
  BY <1>4 DEF AcquireSleep
<1>5. ASSUME NEW p \in Proc, Rouse(p) PROVE Clean'
  BY <1>5 DEF Rouse
<1>6. ASSUME NEW p \in Proc, ReadIn(p) PROVE Clean'
  BY <1>6 DEF ReadIn
<1>7. ASSUME NEW p \in Proc, NEW v \in Val, Change(p, v) PROVE Clean'
  BY <1>7 DEF Change
<1>8. ASSUME NEW p \in Proc, Bwrite(p) PROVE Clean'
  <2>1. at[p] \in Buf /\ want[p] \in Block /\ blockno[at[p]] = want[p]
    BY <1>8, MyBuffer DEF Bwrite
  <2>2. \A i \in Buf : blockno[i] = want[p] => i = at[p]
    BY <2>1 DEF OneCopy
  <2>3. \A b \in Block : disk'[b] = IF b = want[p] THEN data[at[p]] ELSE disk[b]
    BY <1>8, <2>1 DEF Bwrite
  <2>4. /\ data' = data /\ blockno' = blockno /\ valid' = valid /\ pinned' = pinned
        /\ pc' = pc /\ at' = at /\ want' = want
        /\ \A q \in Proc : q # p => dirty'[q] = dirty[q]
    BY <1>8 DEF Bwrite
  <2>5. ASSUME NEW q \in Proc, pc[q] = "unpin", q # p PROVE want[q] # want[p]
    <3>1. at[q] \in Buf /\ blockno[at[q]] = want[q]
      BY <2>5, MyBuffer
    <3>2. at[q] # at[p]
      BY <1>8, <2>5 DEF Bwrite, Locks, Has
    <3> QED
      BY <2>2, <3>1, <3>2
  <2>6. \A i \in Buf : valid[i] => blockno[i] \in Block
    BY DEF Read
  <2>7. ASSUME NEW i \in Buf, valid[i], blockno[i] \notin pinned,
               \A q \in Proc : dirty'[q] => at[q] # i
        PROVE  data[i] = disk'[blockno[i]]
    <3>1. CASE i = at[p]
      BY <2>1, <2>3, <3>1
    <3>2. CASE i # at[p]
      BY <2>2, <2>3, <2>4, <2>6, <2>7, <3>2
    <3> QED
      BY <3>1, <3>2
  <2>8. ASSUME NEW q \in Proc, pc[q] = "unpin" PROVE data[at[q]] = disk'[want[q]]
    <3>1. want[q] # want[p] /\ want[q] \in Block
      BY <1>8, <2>5, <2>8, MyBuffer DEF Bwrite
    <3> QED
      BY <2>3, <2>8, <3>1
  <2> QED
    BY <2>4, <2>7, <2>8
<1>9. ASSUME NEW p \in Proc, Bpin(p) PROVE Clean'
  <2>1. at[p] \in Buf /\ want[p] \in Block /\ blockno[at[p]] = want[p]
    BY <1>9, MyBuffer DEF Bpin
  <2>2. \A i \in Buf : blockno[i] = want[p] => i = at[p]
    BY <2>1 DEF OneCopy
  <2>3. pinned' = pinned \cup {want[p]} /\ \A q \in Proc : q # p => dirty'[q] = dirty[q]
    BY <1>9 DEF Bpin
  <2>4. /\ data' = data /\ blockno' = blockno /\ valid' = valid /\ disk' = disk
        /\ pc' = pc /\ at' = at /\ want' = want
    BY <1>9 DEF Bpin
  <2> QED
    BY <2>1, <2>2, <2>3, <2>4
<1>10. ASSUME NEW p \in Proc, InstallWrite(p) PROVE Clean'
  <2>1. at[p] \in Buf /\ want[p] \in Block /\ blockno[at[p]] = want[p]
    BY <1>10, MyBuffer DEF InstallWrite
  <2>2. \A i \in Buf : blockno[i] = want[p] => i = at[p]
    BY <2>1 DEF OneCopy
  <2>3. \A b \in Block : disk'[b] = IF b = want[p] THEN data[at[p]] ELSE disk[b]
    BY <1>10, <2>1 DEF InstallWrite
  <2>4. /\ data' = data /\ blockno' = blockno /\ valid' = valid /\ pinned' = pinned
        /\ at' = at /\ want' = want /\ dirty' = dirty
        /\ \A q \in Proc : q # p => pc'[q] = pc[q]
    BY <1>10 DEF InstallWrite
  <2>5. ASSUME NEW q \in Proc, pc[q] = "unpin", q # p PROVE want[q] # want[p]
    <3>1. at[q] \in Buf /\ blockno[at[q]] = want[q]
      BY <2>5, MyBuffer
    <3>2. at[q] # at[p]
      BY <1>10, <2>5 DEF InstallWrite, Locks, Has
    <3> QED
      BY <2>2, <3>1, <3>2
  <2>6. \A i \in Buf : valid[i] => blockno[i] \in Block
    BY DEF Read
  <2>7. ASSUME NEW i \in Buf, valid[i], blockno[i] \notin pinned,
               \A q \in Proc : dirty[q] => at[q] # i
        PROVE  data[i] = disk'[blockno[i]]
    <3>1. i # at[p]
      BY <1>10, <2>1, <2>7 DEF InstallWrite
    <3> QED
      BY <2>2, <2>3, <2>6, <2>7, <3>1
  <2>8. ASSUME NEW q \in Proc, pc'[q] = "unpin" PROVE data[at[q]] = disk'[want[q]]
    <3>1. CASE q = p
      BY <2>1, <2>3, <3>1
    <3>2. CASE q # p
      <4>1. pc[q] = "unpin"
        BY <2>4, <2>8, <3>2
      <4>2. want[q] # want[p] /\ want[q] \in Block
        BY <2>5, <3>2, <4>1, MyBuffer
      <4> QED
        BY <2>3, <4>1, <4>2
    <3> QED
      BY <3>1, <3>2
  <2> QED
    BY <2>4, <2>7, <2>8
<1>11. ASSUME NEW p \in Proc, Bunpin(p) PROVE Clean'
  <2>1. at[p] \in Buf /\ want[p] \in Block /\ blockno[at[p]] = want[p]
    BY <1>11, MyBuffer DEF Bunpin
  <2>2. \A i \in Buf : blockno[i] = want[p] => i = at[p]
    BY <2>1 DEF OneCopy
  <2>3. pinned' = pinned \ {want[p]}
    BY <1>11 DEF Bunpin
  <2>4. /\ data' = data /\ blockno' = blockno /\ valid' = valid /\ disk' = disk
        /\ at' = at /\ want' = want /\ dirty' = dirty
        /\ \A q \in Proc : pc'[q] = "unpin" => pc[q] = "unpin"
    BY <1>11 DEF Bunpin
  <2>5. data[at[p]] = disk[want[p]]
    BY <1>11 DEF Bunpin
  <2> QED
    BY <2>1, <2>2, <2>3, <2>4, <2>5
<1>12. ASSUME NEW p \in Proc, ReleaseSleep(p) PROVE Clean'
  BY <1>12 DEF ReleaseSleep, Woken
<1>13. ASSUME NEW p \in Proc, Unref(p) PROVE Clean'
  BY <1>13 DEF Unref, DropRef, Fronted
<1> QED
  BY <1>1, <1>2, <1>3, <1>4, <1>5, <1>6, <1>7, <1>8, <1>9, <1>10, <1>11,
     <1>12, <1>13 DEF Next, Step

LEMMA ListStep == IInv /\ Next => List'
<1> SUFFICES ASSUME IInv, Next PROVE List'
  OBVIOUS
<1> USE BcacheAssumption DEF IInv, Goto, bufs, slock, user, TypeOK, BufOK, UserOK, PC, List
<1>1. ASSUME NEW p \in Proc, NEW b \in Block, Bread(p, b) PROVE List'
  BY <1>1 DEF Bread
<1>2. ASSUME NEW p \in Proc, BgetHit(p) PROVE List'
  BY <1>2 DEF BgetHit
<1>3. ASSUME NEW p \in Proc, BgetRecycle(p) PROVE List'
  BY <1>3 DEF BgetRecycle, NotValid
<1>4. ASSUME NEW p \in Proc, AcquireSleep(p) PROVE List'
  BY <1>4 DEF AcquireSleep
<1>5. ASSUME NEW p \in Proc, Rouse(p) PROVE List'
  BY <1>5 DEF Rouse
<1>6. ASSUME NEW p \in Proc, ReadIn(p) PROVE List'
  BY <1>6 DEF ReadIn
<1>7. ASSUME NEW p \in Proc, NEW v \in Val, Change(p, v) PROVE List'
  BY <1>7 DEF Change
<1>8. ASSUME NEW p \in Proc, Bwrite(p) PROVE List'
  BY <1>8 DEF Bwrite
<1>9. ASSUME NEW p \in Proc, Bpin(p) PROVE List'
  BY <1>9 DEF Bpin
<1>10. ASSUME NEW p \in Proc, InstallWrite(p) PROVE List'
  BY <1>10 DEF InstallWrite
<1>11. ASSUME NEW p \in Proc, Bunpin(p) PROVE List'
  BY <1>11 DEF Bunpin
<1>12. ASSUME NEW p \in Proc, ReleaseSleep(p) PROVE List'
  BY <1>12 DEF ReleaseSleep, Woken
<1>13. ASSUME NEW p \in Proc, Unref(p) PROVE List'
  <2>1. at[p] \in Buf
    BY <1>13, MyBuffer DEF Unref
  <2>2. lru' \in {lru, Fronted(at[p])}
    BY <1>13 DEF Unref
  <2>3. \A x \in Buf : \E k \in Buf : Fronted(at[p])[k] = x
    BY <2>1, FrontedList DEF List
  <2>4. \A j, k \in Buf : Fronted(at[p])[j] = Fronted(at[p])[k] => j = k
    BY <2>1, FrontedList DEF List
  <2> HIDE DEF List
  <2>5. CASE lru' = lru
    BY <2>5 DEF List
  <2>6. CASE lru' = Fronted(at[p])
    BY <2>3, <2>4, <2>6 DEF List
  <2> QED
    BY <2>2, <2>5, <2>6
<1> QED
  BY <1>1, <1>2, <1>3, <1>4, <1>5, <1>6, <1>7, <1>8, <1>9, <1>10, <1>11,
     <1>12, <1>13 DEF Next, Step

LEMMA PinsStep == IInv /\ Next => Pins'
<1> SUFFICES ASSUME IInv, Next PROVE Pins'
  OBVIOUS
<1> USE BcacheAssumption DEF IInv, Goto, bufs, slock, user, TypeOK, BufOK, UserOK, PC, Pins, Places
<1>1. ASSUME NEW p \in Proc, NEW b \in Block, Bread(p, b) PROVE Pins'
  BY <1>1 DEF Bread
<1>2. ASSUME NEW p \in Proc, BgetHit(p) PROVE Pins'
  BY <1>2 DEF BgetHit
<1>3. ASSUME NEW p \in Proc, BgetRecycle(p) PROVE Pins'
  BY <1>3 DEF BgetRecycle, NotValid
<1>4. ASSUME NEW p \in Proc, AcquireSleep(p) PROVE Pins'
  BY <1>4 DEF AcquireSleep
<1>5. ASSUME NEW p \in Proc, Rouse(p) PROVE Pins'
  BY <1>5 DEF Rouse
<1>6. ASSUME NEW p \in Proc, ReadIn(p) PROVE Pins'
  BY <1>6 DEF ReadIn
<1>7. ASSUME NEW p \in Proc, NEW v \in Val, Change(p, v) PROVE Pins'
  BY <1>7 DEF Change
<1>8. ASSUME NEW p \in Proc, Bwrite(p) PROVE Pins'
  BY <1>8 DEF Bwrite
<1>9. ASSUME NEW p \in Proc, Bpin(p) PROVE Pins'
  <2>1. CASE want[p] \in pinned
    BY <1>9, <2>1 DEF Bpin
  <2>2. CASE want[p] \notin pinned
    <3>1. pinned' = pinned \cup {want[p]} /\ Cardinality(pinned) < MaxPins
      BY <1>9, <2>2 DEF Bpin
    <3>2. IsFiniteSet(pinned') /\ Cardinality(pinned') = Cardinality(pinned) + 1
      BY <2>2, <3>1, FS_AddElement
    <3> QED
      BY <3>1, <3>2, FS_CardinalityType
  <2> QED
    BY <2>1, <2>2
<1>10. ASSUME NEW p \in Proc, InstallWrite(p) PROVE Pins'
  BY <1>10 DEF InstallWrite
<1>11. ASSUME NEW p \in Proc, Bunpin(p) PROVE Pins'
  <2>1. pinned' \subseteq pinned
    BY <1>11 DEF Bunpin
  <2> QED
    BY <2>1, FS_Subset, FS_CardinalityType
<1>12. ASSUME NEW p \in Proc, ReleaseSleep(p) PROVE Pins'
  BY <1>12 DEF ReleaseSleep, Woken
<1>13. ASSUME NEW p \in Proc, Unref(p) PROVE Pins'
  BY <1>13 DEF Unref, DropRef, Fronted
<1> QED
  BY <1>1, <1>2, <1>3, <1>4, <1>5, <1>6, <1>7, <1>8, <1>9, <1>10, <1>11,
     <1>12, <1>13 DEF Next, Step

(* RefcntExact, with names for its parts.                                   *)
Pin(i) == IF blockno[i] \in pinned THEN 1 ELSE 0
LEMMA Exact == RefcntExact <=> \A i \in Buf : refcnt[i] = Cardinality(Users(i)) + Pin(i)
  BY DEF RefcntExact, Users, Pin

LEMMA RefcntExactStep == IInv /\ Next => RefcntExact'
<1> SUFFICES ASSUME IInv, Next, NEW j \in Buf
             PROVE  refcnt'[j] = Cardinality(Users(j)') + Pin(j)'
  BY DEF RefcntExact, Users, Pin
<1> USE DEF Goto, bufs, slock, user
<1>1. /\ refcnt[j] = Cardinality(Users(j)) + Pin(j)
      /\ IsFiniteSet(Users(j)) /\ Cardinality(Users(j)) \in Nat
      /\ Pin(j) \in {0, 1}
  BY Exact, UsersType DEF IInv, Pin
<1>2. /\ refcnt \in [Buf -> Int] /\ at \in [Proc -> Buf \cup {None}]
      /\ blockno \in [Buf -> Block \cup {None}]
  BY DEF IInv, TypeOK, BufOK, UserOK
<1>3. ASSUME refcnt' = refcnt, at' = at, Pin(j)' = Pin(j)
      PROVE  refcnt'[j] = Cardinality(Users(j)') + Pin(j)'
  BY <1>1, <1>3 DEF Users
<1>4. ASSUME NEW p \in Proc, BgetHit(p)
      PROVE  refcnt'[j] = Cardinality(Users(j)') + Pin(j)'
  <2>1. PICK i \in Buf : at' = [at EXCEPT ![p] = i] /\ refcnt' = [refcnt EXCEPT ![i] = @ + 1]
    BY <1>4 DEF BgetHit, Cached
  <2>2. at[p] = None /\ i # None /\ Pin(j)' = Pin(j)
    BY <1>4, Wanted, NoneNotBuf DEF BgetHit, Pin
  <2>3. CASE j = i
    <3>1. Users(j)' = Users(j) \cup {p} /\ p \notin Users(j)
      BY <1>2, <2>1, <2>2, <2>3 DEF Users
    <3>2. Cardinality(Users(j)') = Cardinality(Users(j)) + 1
      BY <1>1, <3>1, FS_AddElement
    <3>3. refcnt'[j] = refcnt[j] + 1
      BY <1>2, <2>1, <2>3
    <3> QED
      BY <1>1, <2>2, <3>2, <3>3
  <2>4. CASE j # i
    <3>1. Users(j)' = Users(j)
      BY <1>2, <2>1, <2>2, <2>4, NoneNotBuf DEF Users
    <3> QED
      BY <1>1, <1>2, <2>1, <2>2, <2>4, <3>1
  <2> QED
    BY <2>3, <2>4
<1>5. ASSUME NEW p \in Proc, BgetRecycle(p)
      PROVE  refcnt'[j] = Cardinality(Users(j)') + Pin(j)'
  <2>1. Victim \in Buf /\ \A q \in Proc : at[q] # Victim
    BY <1>5, VictimFree DEF BgetRecycle
  <2>2. /\ at' = [at EXCEPT ![p] = Victim] /\ refcnt' = [refcnt EXCEPT ![Victim] = 1]
        /\ blockno' = [blockno EXCEPT ![Victim] = want[p]] /\ pinned' = pinned
    BY <1>5 DEF BgetRecycle
  <2>3. at[p] = None /\ want[p] \notin pinned
    BY <1>5, Wanted DEF BgetRecycle, IInv, OneCopy
  <2>4. CASE j = Victim
    <3>1. Users(j)' = {p}
      BY <1>2, <2>1, <2>2, <2>4 DEF Users
    <3>2. Pin(j)' = 0 /\ refcnt'[j] = 1
      BY <1>2, <2>1, <2>2, <2>3, <2>4 DEF Pin
    <3>3. Cardinality(Users(j)') = 1
      BY <3>1, FS_Singleton
    <3> QED
      BY <3>2, <3>3
  <2>5. CASE j # Victim
    <3>1. Users(j)' = Users(j)
      BY <1>2, <2>2, <2>3, <2>5, NoneNotBuf DEF Users
    <3>2. Pin(j)' = Pin(j) /\ refcnt'[j] = refcnt[j]
      BY <1>2, <2>2, <2>5 DEF Pin
    <3> QED
      BY <1>1, <3>1, <3>2
  <2> QED
    BY <2>4, <2>5
<1>6. ASSUME NEW p \in Proc, Bpin(p)
      PROVE  refcnt'[j] = Cardinality(Users(j)') + Pin(j)'
  <2>1. at[p] \in Buf /\ want[p] \in Block /\ blockno[at[p]] = want[p]
    BY <1>6, MyBuffer DEF Bpin
  <2>2. Users(j)' = Users(j)
    BY <1>6 DEF Bpin, Users
  <2>3. CASE want[p] \in pinned
    BY <1>3, <1>6, <2>3 DEF Bpin, Pin
  <2>4. CASE want[p] \notin pinned
    <3>1. /\ pinned' = pinned \cup {want[p]} /\ refcnt' = [refcnt EXCEPT ![at[p]] = @ + 1]
          /\ blockno' = blockno
      BY <1>6, <2>4 DEF Bpin
    <3>2. blockno[j] = want[p] <=> j = at[p]
      BY <2>1, BcacheAssumption DEF IInv, OneCopy
    <3>3. Pin(j)' = IF j = at[p] THEN Pin(j) + 1 ELSE Pin(j)
      BY <2>4, <3>1, <3>2 DEF Pin
    <3>4. refcnt'[j] = IF j = at[p] THEN refcnt[j] + 1 ELSE refcnt[j]
      BY <1>2, <3>1
    <3> QED
      BY <1>1, <2>2, <3>3, <3>4
  <2> QED
    BY <2>3, <2>4
<1>7. ASSUME NEW p \in Proc, Bunpin(p)
      PROVE  refcnt'[j] = Cardinality(Users(j)') + Pin(j)'
  <2>1. at[p] \in Buf /\ want[p] \in pinned /\ want[p] # None /\ blockno[at[p]] = want[p]
    BY <1>7, MyBuffer, BcacheAssumption DEF Bunpin, IInv, Places
  <2>2. Users(j)' = Users(j)
    BY <1>7 DEF Bunpin, Users
  <2>3. /\ pinned' = pinned \ {want[p]} /\ refcnt' = [refcnt EXCEPT ![at[p]] = @ - 1]
        /\ blockno' = blockno
    BY <1>7 DEF Bunpin
  <2>4. blockno[j] = want[p] <=> j = at[p]
    BY <2>1 DEF IInv, OneCopy
  <2>5. Pin(j)' = IF j = at[p] THEN Pin(j) - 1 ELSE Pin(j)
    BY <2>1, <2>3, <2>4 DEF Pin
  <2>6. refcnt'[j] = IF j = at[p] THEN refcnt[j] - 1 ELSE refcnt[j]
    BY <1>2, <2>3
  <2> QED
    BY <1>1, <2>2, <2>5, <2>6
<1>8. ASSUME NEW p \in Proc, Unref(p)
      PROVE  refcnt'[j] = Cardinality(Users(j)') + Pin(j)'
  <2>1. at[p] \in Buf /\ at' = [at EXCEPT ![p] = None] /\ Pin(j)' = Pin(j)
    BY <1>8, MyBuffer DEF Unref, Pin
  <2>2. refcnt' = [refcnt EXCEPT ![at[p]] = @ - 1]
    BY <1>8 DEF Unref, DropRef
  <2>3. CASE j = at[p]
    <3>1. Users(j)' = Users(j) \ {p} /\ p \in Users(j)
      BY <1>2, <2>1, <2>3, NoneNotBuf DEF Users
    <3>2. Cardinality(Users(j)') = Cardinality(Users(j)) - 1
      BY <1>1, <3>1, FS_RemoveElement
    <3>3. refcnt'[j] = refcnt[j] - 1
      BY <1>2, <2>2, <2>3
    <3> QED
      BY <1>1, <2>1, <3>2, <3>3
  <2>4. CASE j # at[p]
    <3>1. Users(j)' = Users(j)
      BY <1>2, <2>1, <2>4, NoneNotBuf DEF Users
    <3> QED
      BY <1>1, <1>2, <2>1, <2>2, <2>4, <3>1
  <2> QED
    BY <2>3, <2>4
<1>9. ASSUME NEW p \in Proc,
             \/ AcquireSleep(p) \/ ReadIn(p) \/ Rouse(p) \/ Bwrite(p)
             \/ InstallWrite(p) \/ ReleaseSleep(p)
             \/ \E b \in Block : Bread(p, b)
             \/ \E v \in Val : Change(p, v)
      PROVE  refcnt'[j] = Cardinality(Users(j)') + Pin(j)'
  <2>1. refcnt' = refcnt /\ at' = at /\ blockno' = blockno /\ pinned' = pinned
    BY <1>9 DEF AcquireSleep, ReadIn, Rouse, Bwrite, InstallWrite, ReleaseSleep,
       Bread, Change
  <2> QED
    BY <1>3, <2>1 DEF Pin
<1> QED
  BY <1>4, <1>5, <1>6, <1>7, <1>8, <1>9 DEF Next, Step

-----------------------------------------------------------------------------
LEMMA InitInv == Init => IInv
<1> SUFFICES ASSUME Init PROVE IInv
  OBVIOUS
<1> USE BcacheAssumption DEF Init
<1>1. TypeOK
  <2>1. \A k \in Buf : NBUF + 1 - k \in Buf
    BY DEF Buf
  <2>2. BufOK
    BY <2>1 DEF BufOK
  <2>3. UserOK
    BY DEF UserOK, PC
  <2> QED
    BY <2>2, <2>3 DEF TypeOK
<1>2. Places /\ Locks /\ OneCopy /\ Read /\ Clean
  BY DEF Places, Locks, Has, OneCopy, Read, Clean
<1>3. RefcntExact
  <2>1. \A i \in Buf : Users(i) = {}
    BY NoneNotBuf DEF Users
  <2>2. \A i \in Buf : Cardinality(Users(i)) = 0
    BY <2>1, FS_EmptySet
  <2> QED
    BY <2>2, Exact DEF Pin
<1>4. List
  <2>1. ASSUME NEW i \in Buf PROVE NBUF + 1 - i \in Buf /\ lru[NBUF + 1 - i] = i
    BY DEF Buf
  <2>2. \A j, k \in Buf : lru[j] = lru[k] => j = k
    BY DEF Buf
  <2> QED
    BY <2>1, <2>2 DEF List
<1>5. Pins
  BY FS_EmptySet DEF Pins
<1> QED
  BY <1>1, <1>2, <1>3, <1>4, <1>5 DEF IInv

LEMMA Stutter == IInv /\ UNCHANGED vars => IInv'
<1> SUFFICES ASSUME IInv, UNCHANGED vars PROVE IInv'
  OBVIOUS
<1> USE DEF vars, bufs, slock, user, IInv
<1>1. TypeOK'
  BY DEF TypeOK, BufOK, UserOK
<1>2. Places' /\ Locks' /\ Read' /\ Clean' /\ List' /\ Pins'
  BY DEF Places, Locks, Has, Read, Clean, List, Pins
<1>3. OneCopy' /\ RefcntExact'
  BY DEF OneCopy, Cached, RefcntExact
<1> QED
  BY <1>1, <1>2, <1>3

LEMMA Invariance == IInv /\ [Next]_vars => IInv'
  BY TypeOKStep, PlacesStep, LocksStep, OneCopyStep, RefcntExactStep, ReadStep,
     CleanStep, ListStep, PinsStep, Stutter DEF IInv

(* What the cache is at every moment.                                       *)
THEOREM Invariant == Spec => []IInv
  BY InitInv, Invariance, PTL DEF Spec

(* Every variable keeps its type.                                           *)
THEOREM TypeCorrect == Spec => []TypeOK
  BY Invariant, PTL DEF IInv

-----------------------------------------------------------------------------
(* A sleeper of acquiresleep waits for a locked buffer.                     *)
Waits == \A p \in Proc : pc[p] = "asleep" => locked[at[p]]

LEMMA WaitsStep == IInv /\ Waits /\ [Next]_vars => Waits'
<1> SUFFICES ASSUME IInv, Waits, [Next]_vars, NEW q \in Proc, pc'[q] = "asleep"
             PROVE  locked'[at'[q]]
  BY DEF Waits
<1> USE DEF Goto, bufs, slock, user
<1>1. pc \in [Proc -> PC] /\ locked \in [Buf -> BOOLEAN] /\ at \in [Proc -> Buf \cup {None}]
  BY DEF IInv, TypeOK, BufOK, UserOK
<1>2. pc[q] = "asleep" => at[q] \in Buf /\ locked[at[q]]
  BY MyBuffer DEF Waits
<1>3. ASSUME NEW p \in Proc, AcquireSleep(p) PROVE locked'[at'[q]]
  <2>1. at[p] \in Buf
    BY <1>3, MyBuffer DEF AcquireSleep
  <2>2. CASE locked[at[p]]
    BY <1>1, <1>2, <1>3, <2>2 DEF AcquireSleep
  <2>3. CASE ~locked[at[p]]
    <3>1. pc[q] = "asleep"
      BY <1>1, <1>3, <2>3 DEF AcquireSleep
    <3> QED
      BY <1>1, <1>2, <1>3, <2>3, <3>1 DEF AcquireSleep
  <2> QED
    BY <2>2, <2>3
<1>4. ASSUME NEW p \in Proc, ReleaseSleep(p) PROVE locked'[at'[q]]
  <2>1. pc[q] = "asleep" /\ at[q] # at[p]
    BY <1>1, <1>4 DEF ReleaseSleep, Woken
  <2> QED
    BY <1>1, <1>2, <1>4, <2>1 DEF ReleaseSleep
<1>5. ASSUME NEW p \in Proc, BgetHit(p) \/ BgetRecycle(p) \/ Unref(p)
      PROVE  locked'[at'[q]]
  <2>1. pc[q] = "asleep" /\ q # p
    BY <1>1, <1>5 DEF BgetHit, BgetRecycle, Unref
  <2>2. at'[q] = at[q] /\ locked' = locked
    BY <1>1, <1>5, <2>1 DEF BgetHit, BgetRecycle, Unref
  <2> QED
    BY <1>2, <2>1, <2>2
<1>6. ASSUME NEW p \in Proc,
             \/ ReadIn(p) \/ Rouse(p) \/ Bwrite(p) \/ Bpin(p) \/ Bunpin(p)
             \/ InstallWrite(p)
             \/ \E b \in Block : Bread(p, b)
             \/ \E v \in Val : Change(p, v)
      PROVE  locked'[at'[q]]
  <2>1. locked' = locked /\ at' = at
    BY <1>6 DEF ReadIn, Rouse, Bwrite, Bpin, Bunpin, InstallWrite, Bread, Change
  <2>2. pc[q] = "asleep"
    BY <1>1, <1>6 DEF ReadIn, Rouse, Bwrite, Bpin, Bunpin, InstallWrite, Bread, Change
  <2> QED
    BY <1>2, <2>1, <2>2
<1>7. CASE UNCHANGED vars
  BY <1>2, <1>7 DEF vars
<1> QED
  BY <1>3, <1>4, <1>5, <1>6, <1>7 DEF Next, Step

(* acquiresleep and releasesleep: who sleeps for a buffer sleeps while it   *)
(* is locked, and the process that has it is on its way to releasesleep.    *)
THEOREM SleepersWoken == Spec => []SleeperHasHolder
<1>1. Init => Waits
  BY DEF Init, Waits
<1>2. IInv /\ Waits => SleeperHasHolder
  <2> SUFFICES ASSUME IInv, Waits, NEW p \in Proc, pc[p] = "asleep"
               PROVE  /\ locked[at[p]]
                      /\ \E q \in Proc : /\ owner[at[p]] = q /\ at[q] = at[p]
                                         /\ pc[q] \in {"locked", "hold", "unpin"}
    BY DEF SleeperHasHolder
  <2>1. locked[at[p]] /\ at[p] \in Buf
    BY MyBuffer DEF Waits
  <2>2. owner[at[p]] \in Proc
    BY <2>1 DEF IInv, Locks, TypeOK, BufOK
  <2>3. Has(owner[at[p]]) /\ at[owner[at[p]]] = at[p]
    BY <2>1, <2>2, BcacheAssumption DEF IInv, Locks
  <2> QED
    BY <2>1, <2>2, <2>3 DEF Has
<1> QED
  BY <1>1, <1>2, WaitsStep, Invariant, PTL DEF Spec

-----------------------------------------------------------------------------
(* With a process that has no buffer yet, the others and the pins leave one *)
(* buffer unused.                                                           *)
LEMMA SpareBuffer ==
    ASSUME IInv, NBUF >= MaxPins + Cardinality(Proc), NEW p \in Proc, pc[p] = "bget"
    PROVE  Unused # {}
<1> DEFINE A == {q \in Proc : at[q] # None}
           B == {i \in Buf : \E q \in A : at[q] = i}
           P == {i \in Buf : blockno[i] \in pinned}
           C == B \cup P
<1>1. IsFiniteSet(Buf) /\ Cardinality(Buf) = NBUF
  BY FS_Interval, BcacheAssumption DEF Buf
<1>2. IsFiniteSet(A) /\ Cardinality(A) \in Nat /\ Cardinality(A) <= Cardinality(Proc) - 1
  <2>1. A \subseteq Proc \ {p}
    BY Wanted
  <2>2. IsFiniteSet(Proc \ {p}) /\ Cardinality(Proc \ {p}) = Cardinality(Proc) - 1
    BY BcacheAssumption, FS_RemoveElement
  <2> QED
    BY <2>1, <2>2, FS_Subset, FS_CardinalityType
<1>3. IsFiniteSet(B) /\ Cardinality(B) \in Nat /\ Cardinality(B) <= Cardinality(A)
  <2> DEFINE f == [q \in A |-> at[q]]
  <2>1. f \in Surjection(A, B)
    <3>1. f \in [A -> B]
      BY DEF IInv, TypeOK, UserOK
    <3> QED
      BY <3>1 DEF Surjection
  <2> HIDE DEF f, A, B
  <2> QED
    BY <1>2, <2>1, FS_Surjection, FS_CardinalityType
<1>4. IsFiniteSet(P) /\ Cardinality(P) \in Nat /\ Cardinality(P) <= MaxPins
  <2> DEFINE f == [i \in P |-> blockno[i]]
  <2>1. f \in Injection(P, pinned)
    <3>1. \A i, j \in P : f[i] = f[j] => i = j
      BY BcacheAssumption DEF IInv, OneCopy, TypeOK, UserOK
    <3> QED
      BY <3>1 DEF Injection, IsInjective
  <2>2. IsFiniteSet(pinned) /\ Cardinality(pinned) <= MaxPins /\ Cardinality(pinned) \in Nat
    BY FS_CardinalityType DEF IInv, Pins
  <2> HIDE DEF f, P
  <2>3. IsFiniteSet(P) /\ Cardinality(P) <= Cardinality(pinned)
    BY <2>1, <2>2, FS_Injection
  <2> QED
    BY <2>2, <2>3, FS_CardinalityType, BcacheAssumption
<1>5. Cardinality(C) < NBUF /\ Cardinality(C) \in Nat
  <2> HIDE DEF A, B, P
  <2>1. IsFiniteSet(B \cap P) /\ Cardinality(B \cap P) \in Nat
    BY <1>3, FS_Intersection, FS_CardinalityType
  <2>2. /\ IsFiniteSet(B \cup P)
        /\ Cardinality(B \cup P) = Cardinality(B) + Cardinality(P) - Cardinality(B \cap P)
    BY <1>3, <1>4, FS_Union
  <2>3. Cardinality(Proc) \in Nat
    BY BcacheAssumption, FS_CardinalityType
  <2> QED
    BY <1>2, <1>3, <1>4, <2>1, <2>2, <2>3, FS_CardinalityType, BcacheAssumption
<1>6. C # Buf
  <2> HIDE DEF C
  <2> QED
    BY <1>1, <1>5, BcacheAssumption
<1>7. PICK i \in Buf : i \notin B /\ i \notin P
  BY <1>6
<1>8. Users(i) = {}
  BY <1>7, NoneNotBuf DEF Users
<1>9. refcnt[i] = 0
  BY <1>7, <1>8, Exact, FS_EmptySet DEF IInv, Pin
<1> QED
  BY <1>9 DEF Unused

(* A block is in one buffer, a buffer in use or pinned keeps its block, its *)
(* count is its users and its pin, and bget always finds one.               *)
THEOREM CacheIsSound == Spec => []CacheSound
<1>1. IInv => CacheSound
  BY SpareBuffer DEF CacheSound, NeverOutOfBuffers, IInv
<1> QED
  BY <1>1, Invariant, PTL

-----------------------------------------------------------------------------
LEMMA ContentAt ==
    IInv => /\ \A i \in Buf : valid[i] => Content[blockno[i]] = data[i]
            /\ \A b \in Block : (\A i \in Buf : blockno[i] = b => ~valid[i])
                                   => Content[b] = disk[b]
<1> SUFFICES ASSUME IInv PROVE
            /\ \A i \in Buf : valid[i] => Content[blockno[i]] = data[i]
            /\ \A b \in Block : (\A i \in Buf : blockno[i] = b => ~valid[i])
                                   => Content[b] = disk[b]
  OBVIOUS
<1>1. ASSUME NEW i \in Buf, valid[i] PROVE Content[blockno[i]] = data[i]
  <2>1. blockno[i] \in Block
    BY <1>1 DEF IInv, Read, TypeOK, BufOK
  <2>2. i \in Cached(blockno[i]) /\ \A j \in Cached(blockno[i]) : j = i
    BY <2>1, BcacheAssumption DEF Cached, IInv, OneCopy
  <2> QED
    BY <1>1, <2>1, <2>2 DEF Content
<1>2. ASSUME NEW b \in Block, \A i \in Buf : blockno[i] = b => ~valid[i]
      PROVE  Content[b] = disk[b]
  BY <1>2 DEF Content, Cached
<1> QED
  BY <1>1, <1>2

LEMMA HolderAt ==
    IInv => /\ \A p \in Proc : pc[p] \in {"hold", "unpin"} => Holder[want[p]] = p
            /\ \A b \in Block :
                  (\A p \in Proc : want[p] = b => pc[p] \notin {"hold", "unpin"})
                      => Holder[b] = None
<1> SUFFICES ASSUME IInv PROVE
            /\ \A p \in Proc : pc[p] \in {"hold", "unpin"} => Holder[want[p]] = p
            /\ \A b \in Block :
                  (\A p \in Proc : want[p] = b => pc[p] \notin {"hold", "unpin"})
                      => Holder[b] = None
  OBVIOUS
<1>1. ASSUME NEW p \in Proc, pc[p] \in {"hold", "unpin"} PROVE Holder[want[p]] = p
  <2>1. at[p] \in Buf /\ want[p] \in Block /\ blockno[at[p]] = want[p]
    BY <1>1, MyBuffer
  <2>2. ASSUME NEW q \in Proc, want[q] = want[p], pc[q] \in {"hold", "unpin"} PROVE q = p
    <3>1. at[q] \in Buf /\ blockno[at[q]] = want[q]
      BY <2>2, MyBuffer
    <3>2. at[q] = at[p]
      BY <2>1, <2>2, <3>1, BcacheAssumption DEF IInv, OneCopy
    <3> QED
      BY <1>1, <2>2, <3>2 DEF IInv, Locks, Has
  <2> QED
    BY <1>1, <2>1, <2>2 DEF Holder
<1>2. ASSUME NEW b \in Block,
             \A p \in Proc : want[p] = b => pc[p] \notin {"hold", "unpin"}
      PROVE  Holder[b] = None
  BY <1>2 DEF Holder
<1> QED
  BY <1>1, <1>2

LEMMA RefinesInit == Init => Store!Init
<1> SUFFICES ASSUME Init PROVE Store!Init
  OBVIOUS
<1>1. Content = [b \in Block |-> InitVal]
  <2>1. ASSUME NEW b \in Block
        PROVE  ~(\E i \in Cached(b) : valid[i]) /\ disk[b] = InitVal
    BY DEF Init, Cached
  <2> QED
    BY <2>1 DEF Content
<1>2. Holder = [b \in Block |-> None]
  BY DEF Init, Holder
<1> QED
  BY <1>1, <1>2 DEF Store!Init

LEMMA RefinesStep == IInv /\ IInv' /\ Next => [Store!Next]_<<Content, Holder>>
<1> SUFFICES ASSUME IInv, IInv', Next PROVE [Store!Next]_<<Content, Holder>>
  OBVIOUS
<1> USE DEF Goto, bufs, slock, user
<1>1. /\ \A i \in Buf : valid[i] => Content[blockno[i]] = data[i]
      /\ \A b \in Block : (\A i \in Buf : blockno[i] = b => ~valid[i])
                             => Content[b] = disk[b]
  BY ContentAt
<1>2. /\ \A i \in Buf : valid'[i] => Content'[blockno'[i]] = data'[i]
      /\ \A b \in Block : (\A i \in Buf : blockno'[i] = b => ~valid'[i])
                             => Content'[b] = disk'[b]
  <2>1. (IInv => /\ \A i \in Buf : valid[i] => Content[blockno[i]] = data[i]
                 /\ \A b \in Block : (\A i \in Buf : blockno[i] = b => ~valid[i])
                                        => Content[b] = disk[b])'
    BY ContentAt, PTL
  <2> QED
    BY <2>1
<1>3. /\ \A p \in Proc : pc[p] \in {"hold", "unpin"} => Holder[want[p]] = p
      /\ \A b \in Block :
            (\A p \in Proc : want[p] = b => pc[p] \notin {"hold", "unpin"})
                => Holder[b] = None
  BY HolderAt
<1>4. /\ \A p \in Proc : pc'[p] \in {"hold", "unpin"} => Holder'[want'[p]] = p
      /\ \A b \in Block :
            (\A p \in Proc : want'[p] = b => pc'[p] \notin {"hold", "unpin"})
                => Holder'[b] = None
  <2>1. (IInv => /\ \A p \in Proc : pc[p] \in {"hold", "unpin"} => Holder[want[p]] = p
                 /\ \A b \in Block :
                       (\A p \in Proc : want[p] = b => pc[p] \notin {"hold", "unpin"})
                           => Holder[b] = None)'
    BY HolderAt, PTL
  <2> QED
    BY <2>1
<1>5. /\ Content = [b \in Block |-> Content[b]] /\ Content' = [b \in Block |-> Content'[b]]
      /\ Holder = [b \in Block |-> Holder[b]] /\ Holder' = [b \in Block |-> Holder'[b]]
  BY DEF Content, Holder
<1>6. /\ pc \in [Proc -> PC] /\ want \in [Proc -> Block \cup {None}]
      /\ at \in [Proc -> Buf \cup {None}] /\ blockno \in [Buf -> Block \cup {None}]
      /\ valid \in [Buf -> BOOLEAN] /\ data \in [Buf -> Val] /\ disk \in [Block -> Val]
  BY DEF IInv, TypeOK, BufOK, UserOK
\* A step that leaves the buffers and the disk, and one that leaves the holders.
<1>7. ASSUME blockno' = blockno, valid' = valid, data' = data, disk' = disk
      PROVE  Content' = Content
  BY <1>7 DEF Content, Cached
<1>8. ASSUME \A p \in Proc : pc'[p] \in {"hold", "unpin"} <=> pc[p] \in {"hold", "unpin"},
             \A p \in Proc : pc[p] \in {"hold", "unpin"} => want'[p] = want[p]
      PROVE  Holder' = Holder
  <2>1. ASSUME NEW b \in Block PROVE Holder'[b] = Holder[b]
    <3>1. CASE \E p \in Proc : want[p] = b /\ pc[p] \in {"hold", "unpin"}
      BY <1>3, <1>4, <1>8, <3>1
    <3>2. CASE ~\E p \in Proc : want[p] = b /\ pc[p] \in {"hold", "unpin"}
      <4>1. Holder[b] = None
        BY <1>3, <3>2
      <4>2. Holder'[b] = None
        BY <1>4, <1>8, <3>2
      <4> QED
        BY <4>1, <4>2
    <3> QED
      BY <3>1, <3>2
  <2> QED
    BY <1>5, <2>1
<1>9. ASSUME NEW p \in Proc, \/ BgetHit(p) \/ AcquireSleep(p) \/ Rouse(p) \/ Bpin(p)
                             \/ Bunpin(p) \/ Unref(p) \/ \E b \in Block : Bread(p, b)
      PROVE  Content' = Content /\ Holder' = Holder
  <2>1. Content' = Content
    BY <1>7, <1>9 DEF BgetHit, AcquireSleep, Rouse, Bpin, Bunpin, Unref, Bread
  <2>2. \A q \in Proc : pc'[q] \in {"hold", "unpin"} <=> pc[q] \in {"hold", "unpin"}
    BY <1>6, <1>9 DEF BgetHit, AcquireSleep, Rouse, Bpin, Bunpin, Unref, Bread
  <2>3. \A q \in Proc : pc[q] \in {"hold", "unpin"} => want'[q] = want[q]
    BY <1>6, <1>9 DEF BgetHit, AcquireSleep, Rouse, Bpin, Bunpin, Unref, Bread
  <2> QED
    BY <1>8, <2>1, <2>2, <2>3
<1>10. ASSUME NEW p \in Proc, BgetRecycle(p) PROVE Content' = Content /\ Holder' = Holder
  <2>1. /\ Victim \in Buf /\ blockno[Victim] \notin pinned
        /\ \A q \in Proc : at[q] # Victim
    BY <1>10, VictimFree DEF BgetRecycle
  <2>2. want[p] \in Block /\ \A i \in Buf : blockno[i] # want[p]
    BY <1>10, Wanted DEF BgetRecycle, Cached
  <2>3. \A i \in Buf : /\ blockno'[i] = IF i = Victim THEN want[p] ELSE blockno[i]
                       /\ valid'[i] = IF i = Victim THEN FALSE ELSE valid[i]
    BY <1>6, <1>10 DEF BgetRecycle, NotValid
  <2>4. data' = data /\ disk' = disk
    BY <1>10 DEF BgetRecycle
  <2>5. valid[Victim] => data[Victim] = disk[blockno[Victim]]
    <3>1. \A q \in Proc : dirty[q] => at[q] # Victim
      BY <2>1
    <3> QED
      BY <2>1, <3>1 DEF IInv, Clean
  <2>6. ASSUME NEW b \in Block PROVE Content'[b] = Content[b]
    <3>1. CASE \E i \in Buf : valid[i] /\ blockno[i] = b /\ i # Victim
      <4>1. PICK i \in Buf : valid[i] /\ blockno[i] = b /\ i # Victim
        BY <3>1
      <4>2. Content[b] = data[i]
        BY <1>1, <4>1
      <4>3. Content'[b] = data'[i]
        BY <1>2, <2>3, <4>1
      <4> QED
        BY <2>4, <4>2, <4>3
    <3>2. CASE ~\E i \in Buf : valid[i] /\ blockno[i] = b /\ i # Victim
      <4>1. Content'[b] = disk[b]
        BY <1>2, <2>3, <2>4, <3>2
      <4>2. Content[b] = disk[b]
        <5>1. CASE valid[Victim] /\ blockno[Victim] = b
          BY <1>1, <2>1, <2>5, <5>1
        <5>2. CASE ~(valid[Victim] /\ blockno[Victim] = b)
          BY <1>1, <3>2, <5>2
        <5> QED
          BY <5>1, <5>2
      <4> QED
        BY <4>1, <4>2
    <3> QED
      BY <3>1, <3>2
  <2>7. Content' = Content
    BY <1>5, <2>6
  <2>8. Holder' = Holder
    <3>1. \A q \in Proc : pc'[q] \in {"hold", "unpin"} <=> pc[q] \in {"hold", "unpin"}
      BY <1>6, <1>10 DEF BgetRecycle
    <3>2. want' = want
      BY <1>10 DEF BgetRecycle
    <3> QED
      BY <1>8, <3>1, <3>2
  <2> QED
    BY <2>7, <2>8
<1>11. ASSUME NEW p \in Proc, Bwrite(p) \/ InstallWrite(p)
       PROVE  Content' = Content /\ Holder' = Holder
  <2>1. at[p] \in Buf /\ want[p] \in Block /\ blockno[at[p]] = want[p] /\ valid[at[p]]
    BY <1>11, MyBuffer DEF Bwrite, InstallWrite, IInv, Read
  <2>2. \A b \in Block : b # want[p] => disk'[b] = disk[b]
    BY <1>6, <1>11, <2>1 DEF Bwrite, InstallWrite
  <2>3. data' = data /\ valid' = valid /\ blockno' = blockno /\ want' = want
    BY <1>11 DEF Bwrite, InstallWrite
  <2>4. ASSUME NEW b \in Block PROVE Content'[b] = Content[b]
    <3>1. CASE \E i \in Buf : valid[i] /\ blockno[i] = b
      BY <1>1, <1>2, <2>3, <3>1
    <3>2. CASE ~\E i \in Buf : valid[i] /\ blockno[i] = b
      BY <1>1, <1>2, <2>1, <2>2, <2>3, <3>2
    <3> QED
      BY <3>1, <3>2
  <2>5. \A q \in Proc : pc'[q] \in {"hold", "unpin"} <=> pc[q] \in {"hold", "unpin"}
    BY <1>6, <1>11 DEF Bwrite, InstallWrite
  <2> QED
    BY <1>5, <1>8, <2>3, <2>4, <2>5
<1>12. ASSUME NEW p \in Proc, NEW v \in Val, Change(p, v)
       PROVE  want[p] \in Block /\ Store!Change(p, want[p], v)
  <2>1. at[p] \in Buf /\ want[p] \in Block /\ blockno[at[p]] = want[p] /\ valid[at[p]]
    BY <1>12, MyBuffer DEF Change, IInv, Read
  <2>2. /\ data' = [data EXCEPT ![at[p]] = v] /\ pc' = pc /\ want' = want
        /\ valid' = valid /\ blockno' = blockno /\ disk' = disk
    BY <1>12 DEF Change
  <2>3. Holder' = Holder /\ Holder[want[p]] = p
    BY <1>3, <1>8, <1>12, <2>2 DEF Change
  <2>4. ASSUME NEW b \in Block
        PROVE  Content'[b] = IF b = want[p] THEN v ELSE Content[b]
    <3>1. CASE b = want[p]
      <4>1. Content'[b] = data'[at[p]]
        BY <1>2, <2>1, <2>2, <3>1
      <4> QED
        BY <1>6, <2>1, <2>2, <3>1, <4>1
    <3>2. CASE b # want[p]
      <4>1. \A i \in Buf : blockno[i] = b => data'[i] = data[i]
        BY <1>6, <2>1, <2>2, <3>2
      <4>2. CASE \E i \in Buf : valid[i] /\ blockno[i] = b
        BY <1>1, <1>2, <2>2, <3>2, <4>1, <4>2
      <4>3. CASE ~\E i \in Buf : valid[i] /\ blockno[i] = b
        BY <1>1, <1>2, <2>2, <3>2, <4>3
      <4> QED
        BY <4>2, <4>3
    <3> QED
      BY <3>1, <3>2
  <2>5. Content' = [Content EXCEPT ![want[p]] = v]
    BY <1>5, <2>4
  <2> QED
    BY <2>1, <2>3, <2>5 DEF Store!Change
<1>13. ASSUME NEW p \in Proc, ReadIn(p)
       PROVE  want[p] \in Block /\ Store!Take(p, want[p])
  <2>1. at[p] \in Buf /\ want[p] \in Block /\ blockno[at[p]] = want[p]
    BY <1>13, MyBuffer DEF ReadIn
  <2>2. ASSUME NEW q \in Proc, want[q] = want[p] PROVE pc[q] \notin {"hold", "unpin"}
    <3>1. SUFFICES ASSUME pc[q] \in {"hold", "unpin"} PROVE FALSE
      OBVIOUS
    <3>2. at[q] = at[p]
      BY <2>1, <2>2, <3>1, MyBuffer, BcacheAssumption DEF IInv, OneCopy
    <3> QED
      BY <1>13, <3>1, <3>2 DEF ReadIn, IInv, Locks, Has
  <2>3. Holder[want[p]] = None
    BY <1>3, <2>1, <2>2
  <2>4. want' = want /\ disk' = disk /\ blockno' = blockno
        /\ \A q \in Proc : pc'[q] = IF q = p THEN "hold" ELSE pc[q]
    BY <1>6, <1>13 DEF ReadIn
  <2>5. ASSUME NEW b \in Block PROVE Holder'[b] = IF b = want[p] THEN p ELSE Holder[b]
    <3>1. CASE b = want[p]
      BY <1>4, <2>4, <3>1
    <3>2. CASE b # want[p] /\ \E q \in Proc : want[q] = b /\ pc[q] \in {"hold", "unpin"}
      BY <1>3, <1>4, <2>4, <3>2
    <3>3. CASE b # want[p] /\ ~\E q \in Proc : want[q] = b /\ pc[q] \in {"hold", "unpin"}
      <4>1. Holder[b] = None
        BY <1>3, <3>3
      <4>2. Holder'[b] = None
        BY <1>4, <2>4, <3>3
      <4> QED
        BY <3>3, <4>1, <4>2
    <3> QED
      BY <3>1, <3>2, <3>3
  <2>6. Holder' = [Holder EXCEPT ![want[p]] = p]
    BY <1>5, <2>5
  <2>7. Content' = Content
    <3>1. CASE valid[at[p]]
      BY <1>7, <1>13, <3>1 DEF ReadIn
    <3>2. CASE ~valid[at[p]]
      <4>1. \A i \in Buf : /\ valid'[i] = IF i = at[p] THEN TRUE ELSE valid[i]
                           /\ data'[i] = IF i = at[p] THEN disk[want[p]] ELSE data[i]
        BY <1>6, <1>13, <2>1, <3>2 DEF ReadIn
      <4>2. \A i \in Buf : blockno[i] = want[p] => i = at[p]
        BY <2>1, BcacheAssumption DEF IInv, OneCopy
      <4>3. ASSUME NEW b \in Block PROVE Content'[b] = Content[b]
        <5>1. CASE b = want[p]
          <6>1. Content[b] = disk[b]
            BY <1>1, <3>2, <4>2, <5>1
          <6>2. Content'[b] = disk[b]
            <7>1. valid'[at[p]] /\ blockno'[at[p]] = b /\ data'[at[p]] = disk[b]
              BY <2>1, <2>4, <4>1, <5>1
            <7> QED
              BY <1>2, <2>1, <7>1
          <6> QED
            BY <6>1, <6>2
        <5>2. CASE b # want[p] /\ \E i \in Buf : valid[i] /\ blockno[i] = b
          <6>1. PICK i \in Buf : valid[i] /\ blockno[i] = b
            BY <5>2
          <6>2. valid'[i] /\ blockno'[i] = b /\ data'[i] = data[i]
            BY <2>1, <2>4, <4>1, <5>2, <6>1
          <6>3. Content[b] = data[i]
            BY <1>1, <6>1
          <6>4. Content'[b] = data'[i]
            BY <1>2, <6>2
          <6> QED
            BY <6>2, <6>3, <6>4
        <5>3. CASE b # want[p] /\ ~\E i \in Buf : valid[i] /\ blockno[i] = b
          BY <1>1, <1>2, <2>1, <2>4, <4>1, <5>3
        <5> QED
          BY <5>1, <5>2, <5>3
      <4> QED
        BY <1>5, <4>3
    <3> QED
      BY <3>1, <3>2
  <2> QED
    BY <2>1, <2>3, <2>6, <2>7 DEF Store!Take
<1>14. ASSUME NEW p \in Proc, ReleaseSleep(p)
       PROVE  want[p] \in Block /\ Store!Drop(p, want[p])
  <2>1. want[p] \in Block /\ Holder[want[p]] = p
    BY <1>3, <1>14, MyBuffer DEF ReleaseSleep
  <2>2. Content' = Content
    BY <1>7, <1>14 DEF ReleaseSleep
  <2>3. want' = want /\ \A q \in Proc :
           pc'[q] \in {"hold", "unpin"} <=> q # p /\ pc[q] \in {"hold", "unpin"}
    BY <1>6, <1>14 DEF ReleaseSleep, Woken
  <2>4. ASSUME NEW q \in Proc, pc[q] \in {"hold", "unpin"}, want[q] = want[p] PROVE q = p
    BY <1>3, <2>1, <2>4
  <2>5. ASSUME NEW b \in Block PROVE Holder'[b] = IF b = want[p] THEN None ELSE Holder[b]
    <3>1. CASE b = want[p]
      BY <1>4, <2>3, <2>4, <3>1
    <3>2. CASE b # want[p] /\ \E q \in Proc : want[q] = b /\ pc[q] \in {"hold", "unpin"}
      BY <1>3, <1>4, <2>3, <3>2
    <3>3. CASE b # want[p] /\ ~\E q \in Proc : want[q] = b /\ pc[q] \in {"hold", "unpin"}
      <4>1. Holder[b] = None
        BY <1>3, <3>3
      <4>2. Holder'[b] = None
        BY <1>4, <2>3, <3>3
      <4> QED
        BY <3>3, <4>1, <4>2
    <3> QED
      BY <3>1, <3>2, <3>3
  <2>6. Holder' = [Holder EXCEPT ![want[p]] = None]
    BY <1>5, <2>5
  <2> QED
    BY <2>1, <2>2, <2>6 DEF Store!Drop
<1> QED
  BY <1>9, <1>10, <1>11, <1>12, <1>13, <1>14 DEF Next, Step, Store!Next

(* Recycling, pinning and write-back are invisible: the users of the cache  *)
(* see one content per block, which its holder alone changes.               *)
THEOREM CacheIsStore == Spec => Refines
<1>1. UNCHANGED vars => UNCHANGED <<Content, Holder>>
  BY DEF vars, bufs, user, Content, Holder, Cached
<1>2. IInv /\ IInv' /\ [Next]_vars => [Store!Next]_<<Content, Holder>>
  BY <1>1, RefinesStep
<1> QED
  BY <1>2, RefinesInit, Invariant, PTL DEF Spec, Refines, Store!Spec

===============================================================================
