------------------------------- MODULE FsProofs -------------------------------
(***************************************************************************)
(* Inodes, directories and open files for any number of processes, inodes, *)
(* files and names, and any set of calls: references are exact, nobody      *)
(* waits in iput, and no two processes wait for each other's inode.  For    *)
(* calls whose paths do not use "..", besides: no panic, links cover the    *)
(* entries, and an inode is freed when nobody can reach it.                 *)
(*                                                                         *)
(* The first part needs to know what a process has at each place of a call *)
(* (Locals), which locks it holds there (Locks), and that the type of an    *)
(* inode stays while somebody who has seen it has a pointer to it           *)
(* (Coherent, Settled, Doomed).  In the second what keeps an inode is its   *)
(* links: what an entry names has one (Counted), so what is freed is named  *)
(* by none; what somebody else has is not freed (Alone); so what anybody    *)
(* has, or finds, is allocated (Allocated).                                 *)
(***************************************************************************)
EXTENDS Fs, FiniteSetTheorems, SequenceTheorems, WellFoundedInduction, TLAPS

InPut  == {"put", "trunc", "invalidate", "unref"}
Places == {"user", "gone", "exiting", "walk", "found", "exists", "parent", "new", "victim",
           "dpbad", "dpuser", "bad", "putip", "unlinked", "created"}

(* Where a process is in its call, also while it is in an iput of the call. *)
Loc(p) == IF pc[p] \in InPut THEN ret[p] ELSE pc[p]

CreateOps == {"creat", "mkdir", "mknod"}
CallRec == {c \in [op : Ops, path : Seq(Elem), new : Path] :
               Names(c.new) \in Seq(Elem) /\ (c.op = "link" => Names(c.new) # <<>>)}

Dinode == [type : {"free", "dir", "file"}, nlink : Int]
Ptr == Inode \cup {None}

DiskOK  == /\ dinode \in [Inode -> Dinode]
           /\ ent \in [Inode -> [Name -> Ptr]]
           /\ up \in [Inode -> Inode]
TableOK == /\ node \in [Inode -> Dinode]
           /\ valid \in [Inode -> BOOLEAN]
           /\ ref \in [Inode -> Int]
           /\ lock \in [Inode -> Proc \cup {None}]
FilesOK == /\ fip \in [File -> Ptr] /\ fref \in [File -> Int]
           /\ fd \in [Proc -> File \cup {None}]
ProcsOK == /\ cur \in [Proc -> Ptr] /\ ip \in [Proc -> Ptr] /\ dp \in [Proc -> Ptr]
           /\ put \in [Proc -> Ptr] /\ cwd \in [Proc -> Ptr]
           /\ pc \in [Proc -> Places \cup InPut]
           /\ ret \in [Proc -> Places \cup {None}]
           /\ call \in [Proc -> CallRec \cup {None}]

TypeOK == DiskOK /\ TableOK /\ FilesOK /\ ProcsOK

(* What a process has at each place: the locals of the call ...             *)
WithDp   == {"parent", "new", "victim", "dpbad", "dpuser"}
LockedDp == {"new", "victim", "dpbad", "dpuser"}
WithIp   == {"found", "exists", "new", "victim", "dpbad", "bad", "putip", "unlinked", "created"}
LockedIp == {"unlinked", "created"}

LocalsAt(p) ==
    /\ cur[p] # None <=> Loc(p) = "walk"
    /\ dp[p] # None <=> Loc(p) \in WithDp
    /\ put[p] # None <=> pc[p] \in InPut
    /\ pc[p] \in InPut => ret[p] \in Places \ {"parent", "new", "victim"}
    /\ cwd[p] # None <=> Loc(p) # "gone"
    /\ Loc(p) \in {"exiting", "gone"} => fd[p] = None
    /\ Loc(p) \in WithIp => ip[p] # None
    /\ ip[p] # None => Loc(p) \in WithIp \cup {"walk", "parent"}

(* ... and which call it is.                                                *)
CallAt(p) ==
    /\ Loc(p) \notin {"user", "gone", "exiting"} => call[p] \in CallRec
    /\ Loc(p) \in {"walk", "parent", "new", "victim"} => call[p].path # <<>>
    /\ Loc(p) = "found" => call[p].op \notin Parental
    /\ Loc(p) = "parent" => call[p].op \in Parental \/ LinkTarget(p)
    /\ Loc(p) \in {"walk", "parent"} /\ ip[p] # None => call[p].op = "link"
    /\ Loc(p) = "parent" /\ call[p].op = "link" => ip[p] # None
    /\ Loc(p) \in {"exists", "new", "created"} => call[p].op \in CreateOps
    /\ Loc(p) \in {"victim", "unlinked"} => call[p].op = "unlink"
    /\ Loc(p) \in {"dpbad", "bad", "putip"} => call[p].op = "link"

Locals == \A p \in Proc : LocalsAt(p) /\ CallAt(p)

(* The locks it holds, which are different ones.                            *)
Frees(p) == pc[p] \in {"trunc", "invalidate"}
Holds(p, i) ==
    \/ Loc(p) \in LockedDp /\ dp[p] = i
    \/ Loc(p) \in LockedIp /\ ip[p] = i
    \/ Frees(p) /\ put[p] = i

LocksAt(p) ==
    /\ \A i \in Inode : lock[i] = p <=> Holds(p, i)
    /\ Frees(p) => /\ Loc(p) \in LockedDp => dp[p] # put[p]
                   /\ Loc(p) \in LockedIp => ip[p] # put[p]
Locks == \A p \in Proc : LocksAt(p)

(* A valid copy is as the disk, but for an inode that is being freed and    *)
(* may already have been given out again.                                   *)
Going(i) == \E q \in Proc : pc[q] = "invalidate" /\ put[q] = i
Coherent ==
    \A i \in Inode : valid[i] /\ ~Going(i) => node[i] = dinode[i] /\ dinode[i].type # "free"

OnlyDirs == \A i \in Inode, n \in Name : ent[i][n] # None => dinode[i].type = "dir"

(* A directory that is locked or was seen to be one, the target of link, a  *)
(* new inode and one whose lock is held stay what they are.                 *)
Target(p) == Loc(p) \in {"walk", "parent", "dpbad", "bad"} /\ ip[p] # None
Settled == \A p \in Proc :
    /\ dp[p] # None => dinode[dp[p]].type = "dir"
    /\ Target(p) => dinode[ip[p]].type = "file"
    /\ Loc(p) = "new" => dinode[ip[p]].type = Kind(p)
    /\ Loc(p) \in LockedIp => dinode[ip[p]].type # "free"

Doomed == \A q \in Proc : pc[q] = "trunc" =>
    /\ dinode[put[q]].type # "free"
    /\ \A p \in Proc : /\ dp[p] # put[q]
                       /\ Target(p) \/ Loc(p) \in {"new"} \cup LockedIp => ip[p] # put[q]

(* Directories do not name each other, and a new one will not name the one  *)
(* that is to name it.                                                      *)
NoTwoCycle == \A d, i \in Inode, n, m \in Name : ~(ent[d][n] = i /\ ent[i][m] = d)
NewApart == \A p \in Proc : pc[p] = "new" =>
    /\ \A m \in Name : ent[ip[p]][m] # dp[p]
    /\ \A q \in Proc : pc[q] = "new" => ~(ip[p] = dp[q] /\ ip[q] = dp[p])
    /\ NextName(p) \in Name /\ ent[dp[p]][NextName(p)] = None
VictimNamed == \A p \in Proc : pc[p] = "victim" =>
    NextName(p) \in Name /\ ent[dp[p]][NextName(p)] = ip[p]

Base == TypeOK /\ Locals /\ Locks /\ RefExact
Tree == /\ Coherent /\ OnlyDirs /\ Settled /\ Doomed
        /\ NoTwoCycle /\ NewApart /\ VictimNamed
IInv == Base /\ Tree

-----------------------------------------------------------------------------
(* The steps of one process, which leave the others where they are, and     *)
(* fork, which starts another one.                                          *)
Step(p) == \/ Namex(p) \/ IputStep(p) \/ NameCall(p) \/ UnlinkStep(p) \/ CreateStep(p)
           \/ Close(p) \/ Exit(p) \/ ExitPut(p) \/ \E c \in Calls : Call(p, c)

LEMMA Steps == Next <=> \E p \in Proc : Step(p) \/ \E q \in Proc : Fork(p, q)
  BY DEF Next, Step, FileStep

LEMMA NoneNotPtr == /\ None \notin Inode /\ None \notin File /\ ROOTINO \in Inode
                    /\ Inode \subseteq Nat /\ File \subseteq Nat
  BY FsAssumption DEF Inode, File, ROOTINO

LEMMA Finite == /\ IsFiniteSet(Proc) /\ IsFiniteSet(Name)
                /\ IsFiniteSet(Inode) /\ IsFiniteSet(File)
<1>1. IsFiniteSet(Proc) /\ IsFiniteSet(Name) /\ NINODES \in Nat /\ NFILE \in Nat
  BY FsAssumption
<1> QED
  BY <1>1, FS_Interval DEF Inode, File

(* A set of numbers up to n has a least element.                            *)
LEMMA Least ==
    ASSUME NEW n \in Nat, NEW K \in SUBSET (1..n), K # {}
    PROVE  \E k \in K : \A j \in K : k <= j
<1> DEFINE T == {1..k : k \in K}
           R == StrictSubsetOrdering(1..n)
           F == FiniteSubsetsOf(1..n)
<1>1. IsWellFoundedOn(R, F)
  BY FS_StrictSubsetOrderingWellFounded
<1>2. T \subseteq F
  BY FS_Interval DEF FiniteSubsetsOf
<1>3. T # {}
  OBVIOUS
<1>4. PICK s \in T : \A t \in T : ~(<<t, s>> \in R)
  <2> HIDE DEF T, R, F
  <2> QED
    BY <1>1, <1>2, <1>3, WFMin
<1>5. PICK k \in K : s = 1..k
  OBVIOUS
<1>6. ASSUME NEW j \in K, j < k PROVE FALSE
  <2>1. 1..j \subseteq 1..k /\ 1..j # 1..k
    BY <1>6
  <2>2. <<1..j, 1..k>> \in R
    BY <2>1 DEF StrictSubsetOrdering
  <2> QED
    BY <1>4, <1>5, <2>2
<1> QED
  BY <1>6

LEMMA LowestFileFree ==
    ASSUME FreeFiles # {} PROVE LowestFile \in File /\ fref[LowestFile] = 0
<1>1. \E f \in FreeFiles : \A g \in FreeFiles : f <= g
  BY FsAssumption, Least DEF FreeFiles, File
<1> QED
  BY <1>1 DEF LowestFile, FreeFiles

(* The names of a path.                                                     *)
LEMMA PathNames ==
    ASSUME NEW r \in CallRec, r.path # <<>>
    PROVE  Head(r.path) \in Elem /\ Tail(r.path) \in Seq(Elem)
  BY HeadTailProperties DEF CallRec

LEMMA PathChanged ==
    ASSUME NEW r \in CallRec, NEW s \in Seq(Elem)
    PROVE  /\ [r EXCEPT !.path = s] \in CallRec
           /\ [r EXCEPT !.path = s].path = s
           /\ [r EXCEPT !.path = s].op = r.op /\ [r EXCEPT !.path = s].new = r.new
  BY DEF CallRec

LEMMA CallChosen ==
    ASSUME NEW c \in Calls
    PROVE  LET r == [c EXCEPT !.path = Names(c.path)] IN
           /\ r \in CallRec /\ r.path = Names(c.path) /\ r.op = c.op
           /\ r.op \in Parental => r.path # <<>>
  BY FsAssumption DEF CallRec

LEMMA EntryType ==
    ASSUME TypeOK, NEW i \in Inode, NEW n \in Elem PROVE Entry(i, n) \in Ptr
  BY DEF TypeOK, DiskOK, Entry, Elem, Ptr

LEMMA SeenType ==
    ASSUME TypeOK, NEW i \in Inode PROVE Seen(i) \in Dinode
  BY DEF TypeOK, DiskOK, TableOK, Seen

LEMMA Written ==
    ASSUME TypeOK, NEW i \in Inode
    PROVE  /\ Seen(i) \in Dinode /\ Linked(i, 1) \in Dinode /\ Linked(i, -1) \in Dinode
           /\ [Seen(i) EXCEPT !.nlink = 1] \in Dinode /\ [Seen(i) EXCEPT !.nlink = 0] \in Dinode
           /\ [Seen(i) EXCEPT !.type = "free"] \in Dinode
<1>1. Seen(i) \in Dinode
  BY SeenType
<1> QED
  BY <1>1 DEF Linked, Dinode

(* What ilock has waited for.                                               *)
IpPlaces == {"found", "exists", "new", "victim", "bad"}
LockedAt(p) ==
    /\ Ilock(p, "walk") => /\ pc[p] = "walk" /\ Wants(p) = cur[p] /\ cur[p] \in Inode
                           /\ lock[cur[p]] = None /\ ~NoType(cur[p])
    /\ Ilock(p, "parent") => /\ pc[p] = "parent" /\ Wants(p) = dp[p] /\ dp[p] \in Inode
                             /\ lock[dp[p]] = None /\ ~NoType(dp[p])
    /\ \A s \in IpPlaces :
         Ilock(p, s) => /\ pc[p] = s /\ Wants(p) = ip[p] /\ ip[p] \in Inode
                        /\ lock[ip[p]] = None /\ ~NoType(ip[p])

LEMMA Ilocked == ASSUME TypeOK, Locals, NEW p \in Proc PROVE LockedAt(p)
<1>1. LocalsAt(p)
  BY DEF Locals
<1>2. cur[p] \in Ptr /\ ip[p] \in Ptr /\ dp[p] \in Ptr
  BY DEF TypeOK, ProcsOK
<1>3. pc[p] \in IpPlaces \cup {"walk", "parent"} => Loc(p) = pc[p]
  BY DEF Loc, InPut, IpPlaces
<1>4. pc[p] = "walk" => Wants(p) = cur[p] /\ cur[p] \in Inode
  BY <1>1, <1>2, <1>3 DEF Wants, LocalsAt, Ptr
<1>5. pc[p] = "parent" => Wants(p) = dp[p] /\ dp[p] \in Inode
  BY <1>1, <1>2, <1>3 DEF Wants, LocalsAt, WithDp, Ptr
<1>6. pc[p] \in IpPlaces => Wants(p) = ip[p] /\ ip[p] \in Inode
  BY <1>1, <1>2, <1>3 DEF Wants, LocalsAt, WithIp, Ptr, IpPlaces
<1> QED
  BY <1>4, <1>5, <1>6 DEF LockedAt, Ilock, Free

(* The next name of a path, and its entry.                                  *)
AtName(p) == Loc(p) \in {"walk", "parent", "new", "victim"} =>
    /\ NextName(p) \in Elem /\ Tail(call[p].path) \in Seq(Elem)
    /\ call[p] \in CallRec
    /\ \A i \in Inode : Entry(i, NextName(p)) \in Ptr

LEMMA Named == ASSUME TypeOK, Locals, NEW p \in Proc PROVE AtName(p)
<1> SUFFICES ASSUME Loc(p) \in {"walk", "parent", "new", "victim"}
             PROVE  /\ NextName(p) \in Elem /\ Tail(call[p].path) \in Seq(Elem)
                    /\ call[p] \in CallRec
                    /\ \A i \in Inode : Entry(i, NextName(p)) \in Ptr
  BY DEF AtName
<1>1. call[p] \in CallRec /\ call[p].path # <<>>
  BY DEF Locals, CallAt
<1>2. NextName(p) \in Elem /\ Tail(call[p].path) \in Seq(Elem)
  BY <1>1, PathNames DEF NextName
<1> QED
  BY <1>1, <1>2, EntryType

Looked(p) == /\ Ilock(p, "walk") => cur[p] \in Inode /\ Entry(cur[p], NextName(p)) \in Ptr
             /\ Ilock(p, "parent") => dp[p] \in Inode /\ Entry(dp[p], NextName(p)) \in Ptr

LEMMA LookedUp == ASSUME TypeOK, Locals, NEW p \in Proc PROVE Looked(p)
<1>1. LockedAt(p) /\ AtName(p)
  BY Ilocked, Named
<1>2. pc[p] \in {"walk", "parent"} => Loc(p) = pc[p]
  BY DEF Loc, InPut
<1> QED
  BY <1>1, <1>2 DEF LockedAt, AtName, Looked

LEMMA FromType ==
    ASSUME TypeOK, Locals, NEW p \in Proc, Loc(p) # "gone"
    PROVE  \A path : From(p, path) \in Inode
<1>1. cwd[p] \in Ptr /\ cwd[p] # None
  BY DEF TypeOK, ProcsOK, Locals, LocalsAt
<1> QED
  BY <1>1, NoneNotPtr DEF From, Ptr

-----------------------------------------------------------------------------
(* The others stay where they are.                                          *)
Same(q) == /\ pc'[q] = pc[q] /\ ret'[q] = ret[q] /\ call'[q] = call[q]
           /\ cur'[q] = cur[q] /\ ip'[q] = ip[q] /\ dp'[q] = dp[q]
           /\ put'[q] = put[q] /\ cwd'[q] = cwd[q] /\ fd'[q] = fd[q]

LEMMA Elsewhere ==
    ASSUME TypeOK, NEW p \in Proc, Step(p)
    PROVE  \A q \in Proc : q # p => Same(q)
<1> USE DEF Goto, Set, Iput, Iget, Load, Update, Return, Resume, disk, table, files, local, iput,
           TypeOK, FilesOK, ProcsOK, Same, OpenFile, FileClose
<1>1. CASE WalkStep(p)
  BY <1>1 DEF WalkStep
<1>2. CASE WalkParent(p)
  BY <1>2 DEF WalkParent
<1>3. CASE WalkFails(p)
  BY <1>3 DEF WalkFails
<1>4. CASE DropRef(p)
  BY <1>4 DEF DropRef
<1>5. CASE LockLast(p)
  BY <1>5 DEF LockLast
<1>6. CASE Truncate(p)
  BY <1>6 DEF Truncate
<1>7. CASE Invalidate(p)
  BY <1>7 DEF Invalidate
<1>8. CASE Open(p)
  BY <1>8 DEF Open, OpenFile
<1>9. CASE UnlockPut(p)
  BY <1>9 DEF UnlockPut
<1>10. CASE Chdir(p)
  BY <1>10 DEF Chdir
<1>11. CASE LinkOld(p)
  BY <1>11 DEF LinkOld
<1>12. CASE LinkTaken(p)
  BY <1>12 DEF LinkTaken
<1>13. CASE LinkNoRoom(p)
  BY <1>13 DEF LinkNoRoom
<1>14. CASE LinkNew(p)
  BY <1>14 DEF LinkNew
<1>15. CASE PutIp(p)
  BY <1>15 DEF PutIp
<1>16. CASE LinkUndo(p)
  BY <1>16 DEF LinkUndo
<1>17. CASE PutParent(p)
  BY <1>17 DEF PutParent
<1>18. CASE UnlinkFind(p)
  BY <1>18 DEF UnlinkFind
<1>19. CASE UnlinkFails(p)
  BY <1>19 DEF UnlinkFails
<1>20. CASE UnlinkNotEmpty(p)
  BY <1>20 DEF UnlinkNotEmpty
<1>21. CASE UnlinkEntry(p)
  BY <1>21 DEF UnlinkEntry
<1>22. CASE Unlink(p)
  BY <1>22 DEF Unlink
<1>23. CASE CreateFind(p)
  BY <1>23 DEF CreateFind
<1>24. ASSUME NEW i \in Inode, CreateAlloc(p, i) PROVE \A q \in Proc : q # p => Same(q)
  BY <1>24 DEF CreateAlloc
<1>25. CASE CreateNoInode(p)
  BY <1>25 DEF CreateNoInode
<1>26. CASE CreateNew(p)
  BY <1>26 DEF CreateNew
<1>27. CASE CreateFails(p)
  BY <1>27 DEF CreateFails
<1>28. CASE OpenCreated(p)
  BY <1>28 DEF OpenCreated, OpenFile, Ready
<1>29. CASE PutCreated(p)
  BY <1>29 DEF PutCreated
<1>30. CASE Close(p)
  BY <1>30 DEF Close, FileClose
<1>31. CASE Exit(p)
  BY <1>31 DEF Exit, FileClose
<1>32. CASE ExitPut(p)
  BY <1>32 DEF ExitPut
<1>33. ASSUME NEW c \in Calls, Call(p, c) PROVE \A q \in Proc : q # p => Same(q)
  BY <1>33 DEF Call
<1> QED
  BY <1>1, <1>2, <1>3, <1>4, <1>5, <1>6, <1>7, <1>8, <1>9, <1>10, <1>11, <1>12, <1>13,
     <1>14, <1>15, <1>16, <1>17, <1>18, <1>19, <1>20, <1>21, <1>22, <1>23, <1>24, <1>25,
     <1>26, <1>27, <1>28, <1>29, <1>30, <1>31, <1>32, <1>33
     DEF Step, Namex, IputStep, NameCall, UnlinkStep, CreateStep

-----------------------------------------------------------------------------
(* The types. *)
LEMMA DiskStep ==
    ASSUME TypeOK, Locals, NEW p \in Proc, Step(p)
    PROVE  DiskOK'
<1>a. LockedAt(p) /\ AtName(p) /\ LocalsAt(p) /\ CallAt(p)
  BY Ilocked, Named DEF Locals
<1>b. \A i \in Inode :
         /\ Seen(i) \in Dinode /\ Linked(i, 1) \in Dinode /\ Linked(i, -1) \in Dinode
         /\ [Seen(i) EXCEPT !.nlink = 1] \in Dinode /\ [Seen(i) EXCEPT !.nlink = 0] \in Dinode
         /\ [Seen(i) EXCEPT !.type = "free"] \in Dinode
  BY Written
<1> USE DEF Goto, Set, Iput, Iget, Load, Update, Return, Resume, disk, table, files, local, iput,
           TypeOK, DiskOK, TableOK, ProcsOK, Ptr
<1>1. CASE WalkStep(p)
  BY <1>1, <1>a, <1>b DEF WalkStep, LockedAt, IpPlaces, LocalsAt, Loc, InPut, WithIp, WithDp
<1>2. CASE WalkParent(p)
  BY <1>2, <1>a, <1>b DEF WalkParent, LockedAt, IpPlaces, LocalsAt, Loc, InPut, WithIp, WithDp
<1>3. CASE WalkFails(p)
  BY <1>3, <1>a, <1>b DEF WalkFails, LockedAt, IpPlaces, LocalsAt, Loc, InPut, WithIp, WithDp
<1>4. CASE DropRef(p)
  BY <1>4, <1>a, <1>b DEF DropRef, LockedAt, IpPlaces, LocalsAt, Loc, InPut, WithIp, WithDp
<1>5. CASE LockLast(p)
  BY <1>5, <1>a, <1>b DEF LockLast, LockedAt, IpPlaces, LocalsAt, Loc, InPut, WithIp, WithDp
<1>6. CASE Truncate(p)
  BY <1>6, <1>a, <1>b DEF Truncate, LockedAt, IpPlaces, LocalsAt, Loc, InPut, NoEntries
<1>7. CASE Invalidate(p)
  BY <1>7, <1>a, <1>b DEF Invalidate, LockedAt, IpPlaces, LocalsAt, Loc, InPut, WithIp, WithDp
<1>8. CASE Open(p)
  BY <1>8, <1>a, <1>b DEF Open, OpenFile, LockedAt, IpPlaces, LocalsAt, Loc, InPut, WithIp, WithDp
<1>9. CASE UnlockPut(p)
  BY <1>9, <1>a, <1>b DEF UnlockPut, LockedAt, IpPlaces, LocalsAt, Loc, InPut, WithIp, WithDp
<1>10. CASE Chdir(p)
  BY <1>10, <1>a, <1>b DEF Chdir, LockedAt, IpPlaces, LocalsAt, Loc, InPut, WithIp, WithDp
<1>11. CASE LinkOld(p)
  BY <1>11, <1>a, <1>b DEF LinkOld, LockedAt, IpPlaces, LocalsAt, Loc, InPut, WithIp, WithDp
<1>12. CASE LinkTaken(p)
  BY <1>12, <1>a, <1>b DEF LinkTaken, LockedAt, IpPlaces, LocalsAt, Loc, InPut, WithIp, WithDp
<1>13. CASE LinkNoRoom(p)
  BY <1>13, <1>a, <1>b DEF LinkNoRoom, LockedAt, IpPlaces, LocalsAt, Loc, InPut, WithIp, WithDp
<1>14. CASE LinkNew(p)
  BY <1>14, <1>a, <1>b DEF LinkNew, LockedAt, IpPlaces, LocalsAt, Loc, InPut, WithIp, WithDp
<1>15. CASE PutIp(p)
  BY <1>15, <1>a, <1>b DEF PutIp, LockedAt, IpPlaces, LocalsAt, Loc, InPut, WithIp, WithDp
<1>16. CASE LinkUndo(p)
  BY <1>16, <1>a, <1>b DEF LinkUndo, LockedAt, IpPlaces, LocalsAt, Loc, InPut, WithIp, WithDp
<1>17. CASE PutParent(p)
  BY <1>17, <1>a, <1>b DEF PutParent, LockedAt, IpPlaces, LocalsAt, Loc, InPut, WithIp, WithDp
<1>18. CASE UnlinkFind(p)
  BY <1>18, <1>a, <1>b DEF UnlinkFind, LockedAt, IpPlaces, LocalsAt, Loc, InPut, WithIp, WithDp
<1>19. CASE UnlinkFails(p)
  BY <1>19, <1>a, <1>b DEF UnlinkFails, LockedAt, IpPlaces, LocalsAt, Loc, InPut, WithIp, WithDp
<1>20. CASE UnlinkNotEmpty(p)
  BY <1>20, <1>a, <1>b DEF UnlinkNotEmpty, LockedAt, IpPlaces, LocalsAt, Loc, InPut, WithIp, WithDp
<1>21. CASE UnlinkEntry(p)
  BY <1>21, <1>a, <1>b DEF UnlinkEntry, LockedAt, IpPlaces, LocalsAt, Loc, InPut, WithIp, WithDp
<1>22. CASE Unlink(p)
  BY <1>22, <1>a, <1>b DEF Unlink, LockedAt, IpPlaces, LocalsAt, Loc, InPut, WithIp, WithDp
<1>23. CASE CreateFind(p)
  BY <1>23, <1>a, <1>b DEF CreateFind, LockedAt, IpPlaces, LocalsAt, Loc, InPut, WithIp, WithDp
<1>24. ASSUME NEW i \in Inode, CreateAlloc(p, i) PROVE DiskOK'
  BY <1>24, <1>a, <1>b DEF CreateAlloc, LockedAt, IpPlaces, LocalsAt, Loc, InPut, Dinode, Kind
<1>25. CASE CreateNoInode(p)
  BY <1>25, <1>a, <1>b DEF CreateNoInode, LockedAt, IpPlaces, LocalsAt, Loc, InPut, WithIp, WithDp
<1>26. CASE CreateNew(p)
  BY <1>26, <1>a, <1>b DEF CreateNew, LockedAt, IpPlaces, LocalsAt, Loc, InPut, WithIp, WithDp
<1>27. CASE CreateFails(p)
  BY <1>27, <1>a, <1>b DEF CreateFails, LockedAt, IpPlaces, LocalsAt, Loc, InPut, WithIp, WithDp
<1>28. CASE OpenCreated(p)
  BY <1>28, <1>a, <1>b DEF OpenCreated, OpenFile, Ready, LockedAt, IpPlaces, LocalsAt, Loc,
     InPut, WithIp, WithDp
<1>29. CASE PutCreated(p)
  BY <1>29, <1>a, <1>b DEF PutCreated, LockedAt, IpPlaces, LocalsAt, Loc, InPut, WithIp, WithDp
<1>30. CASE Close(p)
  BY <1>30, <1>a, <1>b DEF Close, FileClose, LockedAt, IpPlaces, LocalsAt, Loc, InPut, WithIp,
     WithDp
<1>31. CASE Exit(p)
  BY <1>31, <1>a, <1>b DEF Exit, FileClose, LockedAt, IpPlaces, LocalsAt, Loc, InPut, WithIp, WithDp
<1>32. CASE ExitPut(p)
  BY <1>32, <1>a, <1>b DEF ExitPut, LockedAt, IpPlaces, LocalsAt, Loc, InPut, WithIp, WithDp
<1>33. ASSUME NEW c \in Calls, Call(p, c) PROVE DiskOK'
  BY <1>33, <1>a, <1>b DEF Call, LockedAt, IpPlaces, LocalsAt, Loc, InPut, WithIp, WithDp
<1> QED
  BY <1>1, <1>2, <1>3, <1>4, <1>5, <1>6, <1>7, <1>8, <1>9, <1>10, <1>11, <1>12, <1>13,
     <1>14, <1>15, <1>16, <1>17, <1>18, <1>19, <1>20, <1>21, <1>22, <1>23, <1>24, <1>25,
     <1>26, <1>27, <1>28, <1>29, <1>30, <1>31, <1>32, <1>33
     DEF Step, Namex, IputStep, NameCall, UnlinkStep, CreateStep

LEMMA TableStep ==
    ASSUME TypeOK, Locals, NEW p \in Proc, Step(p)
    PROVE  TableOK'
<1>a. LockedAt(p) /\ AtName(p) /\ LocalsAt(p) /\ CallAt(p)
  BY Ilocked, Named DEF Locals
<1>b. \A i \in Inode :
         /\ Seen(i) \in Dinode /\ Linked(i, 1) \in Dinode /\ Linked(i, -1) \in Dinode
         /\ [Seen(i) EXCEPT !.nlink = 1] \in Dinode /\ [Seen(i) EXCEPT !.nlink = 0] \in Dinode
         /\ [Seen(i) EXCEPT !.type = "free"] \in Dinode
  BY Written
<1>c. \A i \in Inode : Seen(i) \in Dinode
  BY Written
<1>d. Looked(p)
  BY LookedUp
<1>e. \A path : Ilock(p, "found") => From(p, path) \in Inode
  BY FromType DEF Ilock, Loc, InPut
<1> USE DEF Goto, Set, Iput, Iget, Load, Update, Return, Resume, disk, table, files, local, iput,
           TypeOK, DiskOK, TableOK, FilesOK, ProcsOK, Ptr
<1>1. CASE WalkStep(p)
  BY <1>1, <1>c, <1>d DEF WalkStep, Looked
<1>2. CASE WalkParent(p)
  BY <1>2, <1>a, <1>b DEF WalkParent, LockedAt, IpPlaces, LocalsAt, Loc, InPut, WithIp, WithDp,
     AtName
<1>3. CASE WalkFails(p)
  BY <1>3, <1>a, <1>b DEF WalkFails, LockedAt, IpPlaces, LocalsAt, Loc, InPut, WithIp, WithDp,
     AtName
<1>4. CASE DropRef(p)
  BY <1>4, <1>a, <1>b DEF DropRef, LockedAt, IpPlaces, LocalsAt, Loc, InPut, WithIp, WithDp, AtName
<1>5. CASE LockLast(p)
  BY <1>5, <1>a, <1>b DEF LockLast, LockedAt, IpPlaces, LocalsAt, Loc, InPut, WithIp, WithDp, AtName
<1>6. CASE Truncate(p)
  BY <1>6, <1>a, <1>b DEF Truncate, LockedAt, IpPlaces, LocalsAt, Loc, InPut, WithIp, WithDp, AtName
<1>7. CASE Invalidate(p)
  BY <1>7, <1>a DEF Invalidate, LockedAt, IpPlaces, LocalsAt, Loc, InPut, Invalid
<1>8. CASE Open(p)
  BY <1>8, <1>a, <1>b DEF Open, OpenFile, LockedAt, IpPlaces, LocalsAt, Loc, InPut, WithIp,
     WithDp, AtName
<1>9. CASE UnlockPut(p)
  BY <1>9, <1>a, <1>b DEF UnlockPut, LockedAt, IpPlaces, LocalsAt, Loc, InPut, WithIp, WithDp,
     AtName
<1>10. CASE Chdir(p)
  BY <1>10, <1>a, <1>b DEF Chdir, LockedAt, IpPlaces, LocalsAt, Loc, InPut, WithIp, WithDp, AtName
<1>11. CASE LinkOld(p)
  <2>1. ip[p] \in Inode /\ Linked(ip[p], 1) \in Dinode /\ From(p, call[p].new) \in Inode
    BY <1>11, <1>a, <1>b, <1>e DEF LinkOld, LockedAt, IpPlaces
  <2> QED
    BY <1>11, <2>1 DEF LinkOld
<1>12. CASE LinkTaken(p)
  BY <1>12, <1>c, <1>d DEF LinkTaken, Looked
<1>13. CASE LinkNoRoom(p)
  BY <1>13, <1>a, <1>b DEF LinkNoRoom, LockedAt, IpPlaces, LocalsAt, Loc, InPut, WithIp, WithDp,
     AtName
<1>14. CASE LinkNew(p)
  BY <1>14, <1>a, <1>b DEF LinkNew, LockedAt, IpPlaces, LocalsAt, Loc, InPut, WithIp, WithDp, AtName
<1>15. CASE PutIp(p)
  BY <1>15, <1>a, <1>b DEF PutIp, LockedAt, IpPlaces, LocalsAt, Loc, InPut, WithIp, WithDp, AtName
<1>16. CASE LinkUndo(p)
  BY <1>16, <1>a, <1>b DEF LinkUndo, LockedAt, IpPlaces, LocalsAt, Loc, InPut, WithIp, WithDp,
     AtName
<1>17. CASE PutParent(p)
  BY <1>17, <1>a DEF PutParent, LockedAt, IpPlaces, LocalsAt, Loc, InPut, WithDp, Unlocked
<1>18. CASE UnlinkFind(p)
  BY <1>18, <1>c, <1>d DEF UnlinkFind, Looked
<1>19. CASE UnlinkFails(p)
  BY <1>19, <1>a, <1>b DEF UnlinkFails, LockedAt, IpPlaces, LocalsAt, Loc, InPut, WithIp,
     WithDp, AtName
<1>20. CASE UnlinkNotEmpty(p)
  BY <1>20, <1>a, <1>b DEF UnlinkNotEmpty, LockedAt, IpPlaces, LocalsAt, Loc, InPut, WithIp,
     WithDp, AtName
<1>21. CASE UnlinkEntry(p)
  BY <1>21, <1>a, <1>b DEF UnlinkEntry, LockedAt, IpPlaces, LocalsAt, Loc, InPut, WithIp,
     WithDp, AtName
<1>22. CASE Unlink(p)
  BY <1>22, <1>a, <1>b DEF Unlink, LockedAt, IpPlaces, LocalsAt, Loc, InPut, WithIp, WithDp, AtName
<1>23. CASE CreateFind(p)
  BY <1>23, <1>c, <1>d DEF CreateFind, Looked
<1>24. ASSUME NEW i \in Inode, CreateAlloc(p, i) PROVE TableOK'
  BY <1>24, <1>c, <1>d DEF CreateAlloc, Looked
<1>25. CASE CreateNoInode(p)
  BY <1>25, <1>a, <1>b DEF CreateNoInode, LockedAt, IpPlaces, LocalsAt, Loc, InPut, WithIp,
     WithDp, AtName
<1>26. CASE CreateNew(p)
  BY <1>26, <1>a, <1>b DEF CreateNew, LockedAt, IpPlaces, LocalsAt, Loc, InPut, WithIp, WithDp,
     AtName
<1>27. CASE CreateFails(p)
  BY <1>27, <1>a, <1>b DEF CreateFails, LockedAt, IpPlaces, LocalsAt, Loc, InPut, WithIp,
     WithDp, AtName
<1>28. CASE OpenCreated(p)
  BY <1>28, <1>a, <1>b DEF OpenCreated, OpenFile, Ready, LockedAt, IpPlaces, LocalsAt, Loc,
     InPut, WithIp, WithDp, AtName
<1>29. CASE PutCreated(p)
  BY <1>29, <1>a, <1>b DEF PutCreated, LockedAt, IpPlaces, LocalsAt, Loc, InPut, WithIp, WithDp,
     AtName
<1>30. CASE Close(p)
  BY <1>30, <1>a, <1>b DEF Close, FileClose, LockedAt, IpPlaces, LocalsAt, Loc, InPut, WithIp,
     WithDp, AtName
<1>31. CASE Exit(p)
  BY <1>31, <1>a, <1>b DEF Exit, FileClose, LockedAt, IpPlaces, LocalsAt, Loc, InPut, WithIp,
     WithDp, AtName
<1>32. CASE ExitPut(p)
  BY <1>32, <1>a, <1>b DEF ExitPut, LockedAt, IpPlaces, LocalsAt, Loc, InPut, WithIp, WithDp, AtName
<1>33. ASSUME NEW c \in Calls, Call(p, c) PROVE TableOK'
  BY <1>33, <1>a, NoneNotPtr DEF Call, LockedAt, IpPlaces, LocalsAt, Loc, InPut, From
<1> QED
  BY <1>1, <1>2, <1>3, <1>4, <1>5, <1>6, <1>7, <1>8, <1>9, <1>10, <1>11, <1>12, <1>13,
     <1>14, <1>15, <1>16, <1>17, <1>18, <1>19, <1>20, <1>21, <1>22, <1>23, <1>24, <1>25,
     <1>26, <1>27, <1>28, <1>29, <1>30, <1>31, <1>32, <1>33
     DEF Step, Namex, IputStep, NameCall, UnlinkStep, CreateStep

LEMMA FilesStep ==
    ASSUME TypeOK, Locals, NEW p \in Proc, Step(p)
    PROVE  FilesOK'
<1>a. LockedAt(p) /\ AtName(p) /\ LocalsAt(p) /\ CallAt(p)
  BY Ilocked, Named DEF Locals
<1> USE DEF Goto, Set, Iput, Iget, Load, Update, Return, Resume, disk, table, files, local, iput,
           TypeOK, FilesOK, ProcsOK, Ptr
<1>1. CASE WalkStep(p)
  BY <1>1, <1>a DEF WalkStep, LockedAt, IpPlaces, LocalsAt, Loc, InPut, WithIp, WithDp
<1>2. CASE WalkParent(p)
  BY <1>2, <1>a DEF WalkParent, LockedAt, IpPlaces, LocalsAt, Loc, InPut, WithIp, WithDp
<1>3. CASE WalkFails(p)
  BY <1>3, <1>a DEF WalkFails, LockedAt, IpPlaces, LocalsAt, Loc, InPut, WithIp, WithDp
<1>4. CASE DropRef(p)
  BY <1>4, <1>a DEF DropRef, LockedAt, IpPlaces, LocalsAt, Loc, InPut, WithIp, WithDp
<1>5. CASE LockLast(p)
  BY <1>5, <1>a DEF LockLast, LockedAt, IpPlaces, LocalsAt, Loc, InPut, WithIp, WithDp
<1>6. CASE Truncate(p)
  BY <1>6, <1>a DEF Truncate, LockedAt, IpPlaces, LocalsAt, Loc, InPut, WithIp, WithDp
<1>7. CASE Invalidate(p)
  BY <1>7, <1>a DEF Invalidate, LockedAt, IpPlaces, LocalsAt, Loc, InPut, WithIp, WithDp
<1>8. CASE Open(p)
  BY <1>8, <1>a, LowestFileFree, FsAssumption DEF Open, OpenFile, LockedAt, IpPlaces, LocalsAt,
     Loc, InPut, CanOpen
<1>9. CASE UnlockPut(p)
  BY <1>9, <1>a DEF UnlockPut, LockedAt, IpPlaces, LocalsAt, Loc, InPut, WithIp, WithDp
<1>10. CASE Chdir(p)
  BY <1>10, <1>a DEF Chdir, LockedAt, IpPlaces, LocalsAt, Loc, InPut, WithIp, WithDp
<1>11. CASE LinkOld(p)
  BY <1>11, <1>a DEF LinkOld, LockedAt, IpPlaces, LocalsAt, Loc, InPut, WithIp, WithDp
<1>12. CASE LinkTaken(p)
  BY <1>12, <1>a DEF LinkTaken, LockedAt, IpPlaces, LocalsAt, Loc, InPut, WithIp, WithDp
<1>13. CASE LinkNoRoom(p)
  BY <1>13, <1>a DEF LinkNoRoom, LockedAt, IpPlaces, LocalsAt, Loc, InPut, WithIp, WithDp
<1>14. CASE LinkNew(p)
  BY <1>14, <1>a DEF LinkNew, LockedAt, IpPlaces, LocalsAt, Loc, InPut, WithIp, WithDp
<1>15. CASE PutIp(p)
  BY <1>15, <1>a DEF PutIp, LockedAt, IpPlaces, LocalsAt, Loc, InPut, WithIp, WithDp
<1>16. CASE LinkUndo(p)
  BY <1>16, <1>a DEF LinkUndo, LockedAt, IpPlaces, LocalsAt, Loc, InPut, WithIp, WithDp
<1>17. CASE PutParent(p)
  BY <1>17, <1>a DEF PutParent, LockedAt, IpPlaces, LocalsAt, Loc, InPut, WithIp, WithDp
<1>18. CASE UnlinkFind(p)
  BY <1>18, <1>a DEF UnlinkFind, LockedAt, IpPlaces, LocalsAt, Loc, InPut, WithIp, WithDp
<1>19. CASE UnlinkFails(p)
  BY <1>19, <1>a DEF UnlinkFails, LockedAt, IpPlaces, LocalsAt, Loc, InPut, WithIp, WithDp
<1>20. CASE UnlinkNotEmpty(p)
  BY <1>20, <1>a DEF UnlinkNotEmpty, LockedAt, IpPlaces, LocalsAt, Loc, InPut, WithIp, WithDp
<1>21. CASE UnlinkEntry(p)
  BY <1>21, <1>a DEF UnlinkEntry, LockedAt, IpPlaces, LocalsAt, Loc, InPut, WithIp, WithDp
<1>22. CASE Unlink(p)
  BY <1>22, <1>a DEF Unlink, LockedAt, IpPlaces, LocalsAt, Loc, InPut, WithIp, WithDp
<1>23. CASE CreateFind(p)
  BY <1>23, <1>a DEF CreateFind, LockedAt, IpPlaces, LocalsAt, Loc, InPut, WithIp, WithDp
<1>24. ASSUME NEW i \in Inode, CreateAlloc(p, i) PROVE FilesOK'
  BY <1>24, <1>a DEF CreateAlloc, LockedAt, IpPlaces, LocalsAt, Loc, InPut, WithIp, WithDp
<1>25. CASE CreateNoInode(p)
  BY <1>25, <1>a DEF CreateNoInode, LockedAt, IpPlaces, LocalsAt, Loc, InPut, WithIp, WithDp
<1>26. CASE CreateNew(p)
  BY <1>26, <1>a DEF CreateNew, LockedAt, IpPlaces, LocalsAt, Loc, InPut, WithIp, WithDp
<1>27. CASE CreateFails(p)
  BY <1>27, <1>a DEF CreateFails, LockedAt, IpPlaces, LocalsAt, Loc, InPut, WithIp, WithDp
<1>28. CASE OpenCreated(p)
  BY <1>28, <1>a, LowestFileFree, FsAssumption DEF OpenCreated, OpenFile, Ready, LockedAt,
     IpPlaces, LocalsAt, Loc, InPut, CanOpen, WithIp
<1>29. CASE PutCreated(p)
  BY <1>29, <1>a DEF PutCreated, LockedAt, IpPlaces, LocalsAt, Loc, InPut, WithIp, WithDp
<1>30. CASE Close(p)
  BY <1>30, <1>a DEF Close, FileClose, LockedAt, IpPlaces, LocalsAt, Loc, InPut, WithIp, WithDp
<1>31. CASE Exit(p)
  BY <1>31, <1>a DEF Exit, FileClose, LockedAt, IpPlaces, LocalsAt, Loc, InPut, WithIp, WithDp
<1>32. CASE ExitPut(p)
  BY <1>32, <1>a DEF ExitPut, LockedAt, IpPlaces, LocalsAt, Loc, InPut, WithIp, WithDp
<1>33. ASSUME NEW c \in Calls, Call(p, c) PROVE FilesOK'
  BY <1>33, <1>a DEF Call, LockedAt, IpPlaces, LocalsAt, Loc, InPut, WithIp, WithDp
<1> QED
  BY <1>1, <1>2, <1>3, <1>4, <1>5, <1>6, <1>7, <1>8, <1>9, <1>10, <1>11, <1>12, <1>13,
     <1>14, <1>15, <1>16, <1>17, <1>18, <1>19, <1>20, <1>21, <1>22, <1>23, <1>24, <1>25,
     <1>26, <1>27, <1>28, <1>29, <1>30, <1>31, <1>32, <1>33
     DEF Step, Namex, IputStep, NameCall, UnlinkStep, CreateStep

LEMMA ProcsStep ==
    ASSUME TypeOK, Locals, NEW p \in Proc, Step(p)
    PROVE  ProcsOK'
<1>a. LockedAt(p) /\ AtName(p) /\ LocalsAt(p) /\ CallAt(p)
  BY Ilocked, Named DEF Locals
<1>b. cwd[p] \in Ptr /\ From(p, <<>>) = cwd[p]
  BY DEF TypeOK, ProcsOK, From
<1>c. \A path : From(p, path) \in Ptr
  BY <1>b, NoneNotPtr DEF From, Ptr, TypeOK, ProcsOK
<1>d. \A s \in Seq(Elem) : call[p] \in CallRec => [call[p] EXCEPT !.path = s] \in CallRec
  BY PathChanged
<1>e. \A c \in Calls : [c EXCEPT !.path = Names(c.path)] \in CallRec
  BY CallChosen
<1>f. call[p] \in CallRec => Names(call[p].new) \in Seq(Elem)
  BY DEF CallRec
<1> USE DEF Goto, Set, Iput, Iget, Load, Update, Return, Resume, disk, table, files, local, iput,
           TypeOK, FilesOK, ProcsOK, Ptr, OpenFile, FileClose
<1>1. CASE WalkStep(p)
  BY <1>1, <1>a, <1>d DEF WalkStep, LockedAt, IpPlaces, LocalsAt, Loc, InPut, AtName, Places
<1>2. CASE WalkParent(p)
  BY <1>2, <1>a DEF WalkParent, LockedAt, IpPlaces, LocalsAt, Loc, InPut, AtName, Places
<1>3. CASE WalkFails(p)
  BY <1>3, <1>a DEF WalkFails, LockedAt, IpPlaces, LocalsAt, Loc, InPut, Places, Fail
<1>4. CASE DropRef(p)
  BY <1>4, <1>a DEF DropRef, LockedAt, IpPlaces, LocalsAt, Loc, InPut, AtName, Places
<1>5. CASE LockLast(p)
  BY <1>5, <1>a DEF LockLast, LockedAt, IpPlaces, LocalsAt, Loc, InPut, AtName, Places
<1>6. CASE Truncate(p)
  BY <1>6, <1>a DEF Truncate, LockedAt, IpPlaces, LocalsAt, Loc, InPut, AtName, Places
<1>7. CASE Invalidate(p)
  BY <1>7, <1>a DEF Invalidate, LockedAt, IpPlaces, LocalsAt, Loc, InPut, AtName, Places
<1>8. CASE Open(p)
  BY <1>8, <1>a DEF Open, OpenFile, LockedAt, IpPlaces, LocalsAt, Loc, InPut, AtName, Places
<1>9. CASE UnlockPut(p)
  BY <1>9, <1>a DEF UnlockPut, LockedAt, IpPlaces, LocalsAt, Loc, InPut, AtName, Places
<1>10. CASE Chdir(p)
  BY <1>10, <1>a DEF Chdir, LockedAt, IpPlaces, LocalsAt, Loc, InPut, AtName, Places
<1>11. CASE LinkOld(p)
  BY <1>11, <1>a, <1>c, <1>d, <1>f DEF LinkOld, LockedAt, IpPlaces, LocalsAt, Loc, InPut,
     CallAt, Places
<1>12. CASE LinkTaken(p)
  BY <1>12, <1>a DEF LinkTaken, LockedAt, IpPlaces, LocalsAt, Loc, InPut, AtName, Places
<1>13. CASE LinkNoRoom(p)
  BY <1>13, <1>a DEF LinkNoRoom, LockedAt, IpPlaces, LocalsAt, Loc, InPut, AtName, Places
<1>14. CASE LinkNew(p)
  BY <1>14, <1>a DEF LinkNew, LockedAt, IpPlaces, LocalsAt, Loc, InPut, AtName, Places
<1>15. CASE PutIp(p)
  BY <1>15, <1>a DEF PutIp, LockedAt, IpPlaces, LocalsAt, Loc, InPut, AtName, Places
<1>16. CASE LinkUndo(p)
  BY <1>16, <1>a DEF LinkUndo, LockedAt, IpPlaces, LocalsAt, Loc, InPut, AtName, Places
<1>17. CASE PutParent(p)
  BY <1>17, <1>a DEF PutParent, LockedAt, IpPlaces, LocalsAt, Loc, InPut, AtName, Places
<1>18. CASE UnlinkFind(p)
  BY <1>18, <1>a DEF UnlinkFind, LockedAt, IpPlaces, LocalsAt, Loc, InPut, AtName, Places
<1>19. CASE UnlinkFails(p)
  BY <1>19, <1>a DEF UnlinkFails, LockedAt, IpPlaces, LocalsAt, Loc, InPut, AtName, Places
<1>20. CASE UnlinkNotEmpty(p)
  BY <1>20, <1>a DEF UnlinkNotEmpty, LockedAt, IpPlaces, LocalsAt, Loc, InPut, AtName, Places
<1>21. CASE UnlinkEntry(p)
  BY <1>21, <1>a DEF UnlinkEntry, LockedAt, IpPlaces, LocalsAt, Loc, InPut, AtName, Places
<1>22. CASE Unlink(p)
  BY <1>22, <1>a DEF Unlink, LockedAt, IpPlaces, LocalsAt, Loc, InPut, AtName, Places
<1>23. CASE CreateFind(p)
  BY <1>23, <1>a DEF CreateFind, LockedAt, IpPlaces, LocalsAt, Loc, InPut, AtName, Places
<1>24. ASSUME NEW i \in Inode, CreateAlloc(p, i) PROVE ProcsOK'
  BY <1>24, <1>a DEF CreateAlloc, LockedAt, IpPlaces, LocalsAt, Loc, InPut, AtName, Places
<1>25. CASE CreateNoInode(p)
  BY <1>25, <1>a DEF CreateNoInode, LockedAt, IpPlaces, LocalsAt, Loc, InPut, AtName, Places
<1>26. CASE CreateNew(p)
  BY <1>26, <1>a DEF CreateNew, LockedAt, IpPlaces, LocalsAt, Loc, InPut, AtName, Places
<1>27. CASE CreateFails(p)
  BY <1>27, <1>a DEF CreateFails, LockedAt, IpPlaces, LocalsAt, Loc, InPut, AtName, Places
<1>28. CASE OpenCreated(p)
  BY <1>28, <1>a DEF OpenCreated, OpenFile, Ready, LockedAt, IpPlaces, LocalsAt, Loc, InPut,
     AtName, Places
<1>29. CASE PutCreated(p)
  BY <1>29, <1>a DEF PutCreated, LockedAt, IpPlaces, LocalsAt, Loc, InPut, AtName, Places
<1>30. CASE Close(p)
  BY <1>30, <1>a DEF Close, FileClose, LockedAt, IpPlaces, LocalsAt, Loc, InPut, AtName, Places
<1>31. CASE Exit(p)
  BY <1>31, <1>a DEF Exit, FileClose, LockedAt, IpPlaces, LocalsAt, Loc, InPut, AtName, Places
<1>32. CASE ExitPut(p)
  BY <1>32, <1>a DEF ExitPut, LockedAt, IpPlaces, LocalsAt, Loc, InPut, AtName, Places
<1>33. ASSUME NEW c \in Calls, Call(p, c) PROVE ProcsOK'
  <2>1. cwd[p] \in Ptr /\ [c EXCEPT !.path = Names(c.path)] \in CallRec /\ From(p, c.path) \in Ptr
    BY <1>b, <1>c, <1>e
  <2>2. CASE Names(c.path) = <<>>
    BY <1>33, <2>1, <2>2 DEF Call, Places
  <2>3. CASE Names(c.path) # <<>>
    BY <1>33, <2>1, <2>3 DEF Call, Places
  <2> QED
    BY <2>2, <2>3
<1> QED
  BY <1>1, <1>2, <1>3, <1>4, <1>5, <1>6, <1>7, <1>8, <1>9, <1>10, <1>11, <1>12, <1>13,
     <1>14, <1>15, <1>16, <1>17, <1>18, <1>19, <1>20, <1>21, <1>22, <1>23, <1>24, <1>25,
     <1>26, <1>27, <1>28, <1>29, <1>30, <1>31, <1>32, <1>33
     DEF Step, Namex, IputStep, NameCall, UnlinkStep, CreateStep

(* A file that is open has an inode. *)
LEMMA Opened == ASSUME RefExact PROVE \A f \in File : fref[f] = 1 => fip[f] # None
<1> SUFFICES ASSUME NEW f \in File, fref[f] = 1 PROVE fip[f] # None
  OBVIOUS
<1>1. fref[f] > 0 <=> fip[f] # None
  BY Zenon DEF RefExact
<1> QED
  BY <1>1

-----------------------------------------------------------------------------
(* The locals. *)
LEMMA SameLoc ==
    ASSUME NEW q \in Proc, Same(q)
    PROVE  /\ Loc(q)' = Loc(q)
           /\ LocalsAt(q)' = LocalsAt(q)
           /\ CallAt(q)' = CallAt(q)
           /\ \A i : Holds(q, i)' = Holds(q, i)
           /\ Frees(q)' = Frees(q) /\ Target(q)' = Target(q)
           /\ Kind(q)' = Kind(q) /\ NextName(q)' = NextName(q)
<1> USE DEF Same
<1>1. Loc(q)' = Loc(q)
  BY DEF Loc
<1>2. LocalsAt(q)' = LocalsAt(q)
  BY <1>1 DEF LocalsAt
<1>3. CallAt(q)' = CallAt(q)
  BY <1>1 DEF CallAt, LinkTarget
<1>4. Frees(q)' = Frees(q)
  BY DEF Frees
<1>5. \A i : Holds(q, i)' = Holds(q, i)
  BY <1>1, <1>4 DEF Holds
<1> QED
  BY <1>1, <1>2, <1>3, <1>4, <1>5 DEF Target, Kind, NextName

LEMMA LocalsAtStep ==
    ASSUME TypeOK, Locals, RefExact, NEW p \in Proc, Step(p)
    PROVE  LocalsAt(p)'
<1>a. LockedAt(p) /\ AtName(p) /\ LocalsAt(p) /\ CallAt(p)
  BY Ilocked, Named DEF Locals
<1>b. /\ cwd \in [Proc -> Ptr] /\ \A path : Loc(p) # "gone" => From(p, path) # None
      /\ fip \in [File -> Ptr] /\ fd \in [Proc -> File \cup {None}]
  BY FromType, NoneNotPtr DEF TypeOK, ProcsOK, FilesOK
<1>c. /\ DOMAIN pc = Proc /\ DOMAIN ret = Proc /\ DOMAIN put = Proc /\ DOMAIN cur = Proc
      /\ DOMAIN ip = Proc /\ DOMAIN dp = Proc /\ DOMAIN cwd = Proc /\ DOMAIN fd = Proc
      /\ DOMAIN call = Proc
      /\ pc[p] \in Places \cup InPut /\ ret[p] \in Places \cup {None}
  BY DEF TypeOK, ProcsOK, FilesOK
<1>d. Looked(p)
  BY LookedUp
<1>e. \A f \in File : fref[f] = 1 => fip[f] # None
  BY Opened
<1>f. /\ Ilock(p, "walk") => pc[p] = "walk" /\ cur[p] # None
      /\ Ilock(p, "parent") => pc[p] = "parent" /\ dp[p] # None
      /\ \A s \in {"found", "exists", "new", "victim", "bad"} : Ilock(p, s) => pc[p] = s /\ ip[p] # None
  BY <1>a, NoneNotPtr DEF LockedAt, IpPlaces
<1>g. LocalsAt(p) /\ CallAt(p)
  BY <1>a
<1> USE DEF Goto, Set, Iput, Iget, Load, Update, Return, Resume, disk, table, files, local,
           iput, LocalsAt, Loc, InPut, Places,
           WithDp, WithIp
<1>1. CASE WalkStep(p)
  BY <1>1, <1>c, <1>d, <1>f, <1>g, NoneNotPtr DEF WalkStep, Looked
<1>2. CASE WalkParent(p)
  BY <1>2, <1>f, <1>g, <1>c, NoneNotPtr DEF WalkParent
<1>3. CASE WalkFails(p)
  BY <1>3, <1>f, <1>g, <1>c DEF WalkFails, Fail, CallAt, LinkTarget
<1>4. CASE DropRef(p)
  BY <1>4, <1>f, <1>g, <1>c, NoneNotPtr DEF DropRef
<1>5. CASE LockLast(p)
  BY <1>5, <1>f, <1>g, <1>c, NoneNotPtr DEF LockLast
<1>6. CASE Truncate(p)
  BY <1>6, <1>f, <1>g, <1>c, NoneNotPtr DEF Truncate
<1>7. CASE Invalidate(p)
  BY <1>7, <1>f, <1>g, <1>c, NoneNotPtr DEF Invalidate
<1>8. CASE Open(p)
  BY <1>8, <1>f, <1>g, <1>c, NoneNotPtr, LowestFileFree DEF Open, OpenFile
<1>9. CASE UnlockPut(p)
  BY <1>9, <1>f, <1>g, <1>c, NoneNotPtr DEF UnlockPut
<1>10. CASE Chdir(p)
  BY <1>10, <1>f, <1>g, <1>c, NoneNotPtr DEF Chdir
<1>11. CASE LinkOld(p)
  BY <1>11, <1>f, <1>g, <1>b, <1>c DEF LinkOld
<1>12. CASE LinkTaken(p)
  BY <1>12, <1>c, <1>d, <1>f, <1>g DEF LinkTaken, Looked, CallAt
<1>13. CASE LinkNoRoom(p)
  BY <1>13, <1>f, <1>g, <1>c, NoneNotPtr DEF LinkNoRoom, CallAt
<1>14. CASE LinkNew(p)
  BY <1>14, <1>f, <1>g, <1>c, NoneNotPtr DEF LinkNew, CallAt
<1>15. CASE PutIp(p)
  BY <1>15, <1>f, <1>g, <1>c, NoneNotPtr DEF PutIp
<1>16. CASE LinkUndo(p)
  BY <1>16, <1>f, <1>g, <1>c, NoneNotPtr DEF LinkUndo
<1>17. CASE PutParent(p)
  BY <1>17, <1>f, <1>g, <1>c, NoneNotPtr DEF PutParent
<1>18. CASE UnlinkFind(p)
  BY <1>18, <1>c, <1>d, <1>f, <1>g DEF UnlinkFind, Looked
<1>19. CASE UnlinkFails(p)
  BY <1>19, <1>f, <1>g, <1>c, NoneNotPtr DEF UnlinkFails, CallAt
<1>20. CASE UnlinkNotEmpty(p)
  BY <1>20, <1>f, <1>g, <1>c, NoneNotPtr DEF UnlinkNotEmpty
<1>21. CASE UnlinkEntry(p)
  BY <1>21, <1>f, <1>g, <1>c, NoneNotPtr DEF UnlinkEntry
<1>22. CASE Unlink(p)
  BY <1>22, <1>f, <1>g, <1>c, NoneNotPtr DEF Unlink
<1>23. CASE CreateFind(p)
  BY <1>23, <1>c, <1>d, <1>f, <1>g DEF CreateFind, Looked
<1>24. ASSUME NEW i \in Inode, CreateAlloc(p, i) PROVE LocalsAt(p)'
  BY <1>24, <1>f, <1>g, <1>c, NoneNotPtr DEF CreateAlloc
<1>25. CASE CreateNoInode(p)
  BY <1>25, <1>f, <1>g, <1>c, NoneNotPtr DEF CreateNoInode, CallAt, Creates
<1>26. CASE CreateNew(p)
  BY <1>26, <1>f, <1>g, <1>c, NoneNotPtr DEF CreateNew
<1>27. CASE CreateFails(p)
  BY <1>27, <1>f, <1>g, <1>c, NoneNotPtr DEF CreateFails
<1>28. CASE OpenCreated(p)
  BY <1>28, <1>f, <1>g, <1>c, NoneNotPtr, LowestFileFree DEF OpenCreated, OpenFile, Ready
<1>29. CASE PutCreated(p)
  BY <1>29, <1>f, <1>g, <1>c, NoneNotPtr DEF PutCreated, Ready
<1>30. CASE Close(p)
  BY <1>30, <1>f, <1>g, <1>b, <1>c, <1>e, NoneNotPtr DEF Close, FileClose, LastClose
<1>31. CASE Exit(p)
  BY <1>31, <1>f, <1>g, <1>b, <1>c, <1>e, NoneNotPtr DEF Exit, FileClose, LastClose
<1>32. CASE ExitPut(p)
  BY <1>32, <1>f, <1>g, <1>c, NoneNotPtr DEF ExitPut
<1>33. ASSUME NEW c \in Calls, Call(p, c) PROVE LocalsAt(p)'
  BY <1>33, <1>f, <1>g, <1>b, <1>c DEF Call
<1> QED
  BY <1>1, <1>2, <1>3, <1>4, <1>5, <1>6, <1>7, <1>8, <1>9, <1>10, <1>11, <1>12, <1>13,
     <1>14, <1>15, <1>16, <1>17, <1>18, <1>19, <1>20, <1>21, <1>22, <1>23, <1>24, <1>25,
     <1>26, <1>27, <1>28, <1>29, <1>30, <1>31, <1>32, <1>33
     DEF Step, Namex, IputStep, NameCall, UnlinkStep, CreateStep

LEMMA CallAtStep ==
    ASSUME TypeOK, Locals, RefExact, NEW p \in Proc, Step(p)
    PROVE  CallAt(p)'
<1>a. LockedAt(p) /\ AtName(p) /\ LocalsAt(p) /\ CallAt(p)
  BY Ilocked, Named DEF Locals
<1>b. /\ cwd \in [Proc -> Ptr] /\ \A path : Loc(p) # "gone" => From(p, path) # None
      /\ fip \in [File -> Ptr] /\ fd \in [Proc -> File \cup {None}]
  BY FromType, NoneNotPtr DEF TypeOK, ProcsOK, FilesOK
<1>c. /\ DOMAIN pc = Proc /\ DOMAIN ret = Proc /\ DOMAIN put = Proc /\ DOMAIN cur = Proc
      /\ DOMAIN ip = Proc /\ DOMAIN dp = Proc /\ DOMAIN cwd = Proc /\ DOMAIN fd = Proc
      /\ DOMAIN call = Proc
      /\ pc[p] \in Places \cup InPut /\ ret[p] \in Places \cup {None}
  BY DEF TypeOK, ProcsOK, FilesOK
<1>d. Looked(p)
  BY LookedUp
<1>e. \A f \in File : fref[f] = 1 => fip[f] # None
  BY Opened
<1>f. /\ Ilock(p, "walk") => pc[p] = "walk" /\ cur[p] # None
      /\ Ilock(p, "parent") => pc[p] = "parent" /\ dp[p] # None
      /\ \A s \in {"found", "exists", "new", "victim", "bad"} : Ilock(p, s) => pc[p] = s /\ ip[p] # None
  BY <1>a, NoneNotPtr DEF LockedAt, IpPlaces
<1>g. LocalsAt(p) /\ CallAt(p)
  BY <1>a
<1>h. pc[p] = "walk" => /\ [call[p] EXCEPT !.path = Tail(@)] \in CallRec
                        /\ [call[p] EXCEPT !.path = Tail(@)].path = Tail(call[p].path)
                        /\ [call[p] EXCEPT !.path = Tail(@)].op = call[p].op
  BY <1>a, PathChanged DEF AtName, Loc, InPut
<1>i. Ilock(p, "found") /\ call[p].op = "link" =>
         /\ [call[p] EXCEPT !.path = Names(call[p].new)] \in CallRec
         /\ [call[p] EXCEPT !.path = Names(call[p].new)].path # <<>>
         /\ [call[p] EXCEPT !.path = Names(call[p].new)].op = "link"
  <2> SUFFICES ASSUME pc[p] = "found", call[p].op = "link"
               PROVE  /\ [call[p] EXCEPT !.path = Names(call[p].new)] \in CallRec
                      /\ [call[p] EXCEPT !.path = Names(call[p].new)].path # <<>>
                      /\ [call[p] EXCEPT !.path = Names(call[p].new)].op = "link"
    BY <1>f
  <2>1. call[p] \in CallRec
    BY <1>a DEF CallAt, Loc, InPut
  <2>2. Names(call[p].new) \in Seq(Elem) /\ Names(call[p].new) # <<>>
    BY <2>1 DEF CallRec
  <2> QED
    BY <2>1, <2>2, PathChanged
<1>j. \A c \in Calls : LET r == [c EXCEPT !.path = Names(c.path)] IN
         r \in CallRec /\ r.path = Names(c.path) /\ r.op = c.op /\ (r.op \in Parental => r.path # <<>>)
  BY CallChosen
<1> USE DEF Goto, Set, Iput, Iget, Load, Update, Return, Resume, disk, table, files, local,
           iput, CallAt, LocalsAt, Loc, InPut, Places,
           WithDp, WithIp, LinkTarget
<1>1. CASE WalkStep(p)
  BY <1>1, <1>c, <1>f, <1>g, <1>h DEF WalkStep, WantsParent, Last
<1>2. CASE WalkParent(p)
  BY <1>2, <1>c, <1>f, <1>g, <1>h DEF WalkParent, WantsParent, Parental
<1>3. CASE WalkFails(p)
  BY <1>3, <1>c, <1>f, <1>g DEF WalkFails, Fail
<1>4. CASE DropRef(p)
  BY <1>4, <1>f, <1>g, <1>c DEF DropRef
<1>5. CASE LockLast(p)
  BY <1>5, <1>f, <1>g, <1>c DEF LockLast
<1>6. CASE Truncate(p)
  BY <1>6, <1>f, <1>g, <1>c DEF Truncate
<1>7. CASE Invalidate(p)
  BY <1>7, <1>f, <1>g, <1>c DEF Invalidate
<1>8. CASE Open(p)
  BY <1>8, <1>f, <1>g, <1>c DEF Open, OpenFile
<1>9. CASE UnlockPut(p)
  BY <1>9, <1>f, <1>g, <1>c DEF UnlockPut
<1>10. CASE Chdir(p)
  BY <1>10, <1>f, <1>g, <1>c DEF Chdir
<1>11. CASE LinkOld(p)
  BY <1>11, <1>c, <1>f, <1>g, <1>i DEF LinkOld
<1>12. CASE LinkTaken(p)
  BY <1>12, <1>f, <1>g, <1>c DEF LinkTaken
<1>13. CASE LinkNoRoom(p)
  BY <1>13, <1>f, <1>g, <1>c DEF LinkNoRoom
<1>14. CASE LinkNew(p)
  BY <1>14, <1>f, <1>g, <1>c DEF LinkNew
<1>15. CASE PutIp(p)
  BY <1>15, <1>f, <1>g, <1>c DEF PutIp
<1>16. CASE LinkUndo(p)
  BY <1>16, <1>f, <1>g, <1>c DEF LinkUndo
<1>17. CASE PutParent(p)
  BY <1>17, <1>f, <1>g, <1>c DEF PutParent
<1>18. CASE UnlinkFind(p)
  BY <1>18, <1>f, <1>g, <1>c DEF UnlinkFind
<1>19. CASE UnlinkFails(p)
  BY <1>19, <1>f, <1>g, <1>c DEF UnlinkFails
<1>20. CASE UnlinkNotEmpty(p)
  BY <1>20, <1>f, <1>g, <1>c DEF UnlinkNotEmpty
<1>21. CASE UnlinkEntry(p)
  BY <1>21, <1>f, <1>g, <1>c DEF UnlinkEntry
<1>22. CASE Unlink(p)
  BY <1>22, <1>f, <1>g, <1>c DEF Unlink
<1>23. CASE CreateFind(p)
  BY <1>23, <1>c, <1>f, <1>g DEF CreateFind, CreateOps, Creates
<1>24. ASSUME NEW i \in Inode, CreateAlloc(p, i) PROVE CallAt(p)'
  BY <1>24, <1>c, <1>f, <1>g DEF CreateAlloc, CreateOps, Creates
<1>25. CASE CreateNoInode(p)
  BY <1>25, <1>f, <1>g, <1>c DEF CreateNoInode
<1>26. CASE CreateNew(p)
  BY <1>26, <1>f, <1>g, <1>c DEF CreateNew
<1>27. CASE CreateFails(p)
  BY <1>27, <1>f, <1>g, <1>c DEF CreateFails
<1>28. CASE OpenCreated(p)
  BY <1>28, <1>f, <1>g, <1>c DEF OpenCreated, OpenFile, Ready
<1>29. CASE PutCreated(p)
  BY <1>29, <1>f, <1>g, <1>c DEF PutCreated
<1>30. CASE Close(p)
  BY <1>30, <1>f, <1>g, <1>c DEF Close, FileClose
<1>31. CASE Exit(p)
  BY <1>31, <1>f, <1>g, <1>c DEF Exit, FileClose
<1>32. CASE ExitPut(p)
  BY <1>32, <1>f, <1>g, <1>c DEF ExitPut
<1>33. ASSUME NEW c \in Calls, Call(p, c) PROVE CallAt(p)'
  BY <1>33, <1>c, <1>j, <1>g DEF Call
<1> QED
  BY <1>1, <1>2, <1>3, <1>4, <1>5, <1>6, <1>7, <1>8, <1>9, <1>10, <1>11, <1>12, <1>13,
     <1>14, <1>15, <1>16, <1>17, <1>18, <1>19, <1>20, <1>21, <1>22, <1>23, <1>24, <1>25,
     <1>26, <1>27, <1>28, <1>29, <1>30, <1>31, <1>32, <1>33
     DEF Step, Namex, IputStep, NameCall, UnlinkStep, CreateStep

-----------------------------------------------------------------------------
(* The locks. *)
OthersKeep(p) == \A i \in Inode, q \in Proc : q # p => (lock'[i] = q <=> lock[i] = q)

LEMMA OtherLocks ==
    ASSUME TypeOK, Locals, Locks, NEW p \in Proc, Step(p)
    PROVE  OthersKeep(p)
<1>a. LockedAt(p) /\ LocalsAt(p)
  BY Ilocked DEF Locals
<1>c. /\ DOMAIN pc = Proc /\ DOMAIN ret = Proc /\ DOMAIN put = Proc
      /\ DOMAIN ip = Proc /\ DOMAIN dp = Proc /\ DOMAIN lock = Inode
      /\ pc[p] \in Places \cup InPut /\ ret[p] \in Places \cup {None}
      /\ dp[p] \in Ptr /\ ip[p] \in Ptr /\ put[p] \in Ptr
  BY DEF TypeOK, ProcsOK, TableOK
<1>d. None \notin Proc /\ None \notin Inode
  BY FsAssumption, NoneNotPtr
<1>e. \A i \in Inode : lock[i] = p <=> Holds(p, i)
  BY DEF Locks, LocksAt
<1>f. /\ Ilock(p, "walk") => pc[p] = "walk"
      /\ Ilock(p, "parent") => pc[p] = "parent" /\ dp[p] \in Inode /\ lock[dp[p]] = None
      /\ \A s \in {"found", "exists", "new", "victim", "bad"} :
            Ilock(p, s) => pc[p] = s /\ ip[p] \in Inode /\ lock[ip[p]] = None
  BY <1>a DEF LockedAt, IpPlaces
<1>h. Frees(p) => /\ Loc(p) \in LockedDp => dp[p] # put[p]
                  /\ Loc(p) \in LockedIp => ip[p] # put[p]
  BY DEF Locks, LocksAt
<1> USE DEF Goto, Set, Iput, Iget, Load, Update, Return, Resume, disk, table, files, local,
           iput, OthersKeep
<1>1. CASE WalkStep(p)
  BY <1>1, <1>c, <1>d, <1>f DEF WalkStep
<1>2. CASE WalkParent(p)
  BY <1>2, <1>c, <1>d, <1>f DEF WalkParent
<1>3. CASE WalkFails(p)
  BY <1>3, <1>c, <1>d, <1>f DEF WalkFails
<1>4. CASE DropRef(p)
  BY <1>4, <1>c, <1>d, <1>f DEF DropRef
<1>5. CASE LockLast(p)
  BY <1>5, <1>a, <1>c, <1>d DEF LockLast, Free, LocalsAt, Ptr, InPut
<1>6. CASE Truncate(p)
  BY <1>6, <1>c, <1>d, <1>f DEF Truncate
<1>7. CASE Invalidate(p)
  BY <1>7, <1>a, <1>c, <1>d, <1>e DEF Invalidate, Holds, Frees, LocalsAt, Loc, InPut, LockedDp,
     LockedIp, WithDp, WithIp
<1>8. CASE Open(p)
  BY <1>8, <1>c, <1>d, <1>f DEF Open, OpenFile
<1>9. CASE UnlockPut(p)
  BY <1>9, <1>c, <1>d, <1>f DEF UnlockPut
<1>10. CASE Chdir(p)
  BY <1>10, <1>c, <1>d, <1>f DEF Chdir
<1>11. CASE LinkOld(p)
  BY <1>11, <1>c, <1>d, <1>f DEF LinkOld
<1>12. CASE LinkTaken(p)
  BY <1>12, <1>c, <1>d, <1>f DEF LinkTaken
<1>13. CASE LinkNoRoom(p)
  BY <1>13, <1>c, <1>d, <1>f DEF LinkNoRoom
<1>14. CASE LinkNew(p)
  BY <1>14, <1>c, <1>d, <1>f DEF LinkNew
<1>15. CASE PutIp(p)
  BY <1>15, <1>c, <1>d, <1>f DEF PutIp
<1>16. CASE LinkUndo(p)
  BY <1>16, <1>c, <1>d, <1>f DEF LinkUndo
<1>17. CASE PutParent(p)
  BY <1>17, <1>a, <1>c, <1>d, <1>e DEF PutParent, Holds, Frees, LocalsAt, Loc, InPut, LockedDp,
     LockedIp, WithDp, WithIp, Unlocked
<1>18. CASE UnlinkFind(p)
  BY <1>18, <1>c, <1>d, <1>f DEF UnlinkFind
<1>19. CASE UnlinkFails(p)
  BY <1>19, <1>c, <1>d, <1>f DEF UnlinkFails
<1>20. CASE UnlinkNotEmpty(p)
  BY <1>20, <1>c, <1>d, <1>f DEF UnlinkNotEmpty
<1>21. CASE UnlinkEntry(p)
  BY <1>21, <1>a, <1>c, <1>d, <1>e, <1>f DEF UnlinkEntry, Holds, Frees, LocalsAt, Loc, InPut,
     LockedDp, LockedIp, WithDp, WithIp
<1>22. CASE Unlink(p)
  BY <1>22, <1>a, <1>c, <1>d, <1>e DEF Unlink, Holds, Frees, LocalsAt, Loc, InPut, LockedDp,
     LockedIp, WithDp, WithIp
<1>23. CASE CreateFind(p)
  BY <1>23, <1>c, <1>d, <1>f DEF CreateFind
<1>24. ASSUME NEW i \in Inode, CreateAlloc(p, i) PROVE OthersKeep(p)
  BY <1>24, <1>c, <1>d, <1>f DEF CreateAlloc
<1>25. CASE CreateNoInode(p)
  BY <1>25, <1>c, <1>d, <1>f DEF CreateNoInode
<1>26. CASE CreateNew(p)
  BY <1>26, <1>a, <1>c, <1>d, <1>e, <1>f DEF CreateNew, Holds, Frees, LocalsAt, Loc, InPut,
     LockedDp, LockedIp, WithDp, WithIp
<1>27. CASE CreateFails(p)
  BY <1>27, <1>c, <1>d, <1>f DEF CreateFails
<1>28. CASE OpenCreated(p)
  BY <1>28, <1>a, <1>c, <1>d, <1>e, <1>f DEF OpenCreated, OpenFile, Ready, Holds, Frees,
     LocalsAt, Loc, InPut, LockedDp, LockedIp, WithDp, WithIp
<1>29. CASE PutCreated(p)
  BY <1>29, <1>a, <1>c, <1>d, <1>e, <1>f DEF PutCreated, Holds, Frees, LocalsAt, Loc, InPut,
     LockedDp, LockedIp, WithDp, WithIp, Ready
<1>30. CASE Close(p)
  BY <1>30, <1>c, <1>d, <1>f DEF Close, FileClose
<1>31. CASE Exit(p)
  BY <1>31, <1>c, <1>d, <1>f DEF Exit, FileClose
<1>32. CASE ExitPut(p)
  BY <1>32, <1>c, <1>d, <1>f DEF ExitPut
<1>33. ASSUME NEW c \in Calls, Call(p, c) PROVE OthersKeep(p)
  BY <1>33, <1>c, <1>d, <1>f DEF Call
<1> QED
  BY <1>1, <1>2, <1>3, <1>4, <1>5, <1>6, <1>7, <1>8, <1>9, <1>10, <1>11, <1>12, <1>13,
     <1>14, <1>15, <1>16, <1>17, <1>18, <1>19, <1>20, <1>21, <1>22, <1>23, <1>24, <1>25,
     <1>26, <1>27, <1>28, <1>29, <1>30, <1>31, <1>32, <1>33
     DEF Step, Namex, IputStep, NameCall, UnlinkStep, CreateStep

LEMMA FreeingLocks ==
    ASSUME TypeOK, Locals, Locks, NEW p \in Proc, Truncate(p) \/ Invalidate(p)
    PROVE  LocksAt(p)'
<1>1. /\ ret' = ret /\ dp' = dp /\ ip' = ip /\ put' = put
      /\ \/ pc[p] = "trunc" /\ pc'[p] = "invalidate" /\ lock' = lock
         \/ pc[p] = "invalidate" /\ pc'[p] = "unref" /\ lock' = [lock EXCEPT ![put[p]] = None]
  BY DEF Truncate, Invalidate, Goto, Set, TypeOK, ProcsOK, table, local, iput
<1>2. /\ put[p] \in Inode /\ DOMAIN lock = Inode /\ None \notin Proc
      /\ dp[p] \in Ptr /\ ip[p] \in Ptr
  BY <1>1, FsAssumption DEF TypeOK, ProcsOK, TableOK, Locals, LocalsAt, InPut, Ptr
<1>3. Loc(p)' = Loc(p) /\ Loc(p) = ret[p] /\ Frees(p) /\ (Frees(p)' <=> pc[p] = "trunc")
  BY <1>1 DEF Loc, InPut, Frees
<1>4. LocksAt(p)
  BY DEF Locks
<1>5. CASE pc[p] = "trunc"
  <2>1. \A i \in Inode : Holds(p, i)' <=> Holds(p, i)
    BY <1>1, <1>3, <1>5 DEF Holds
  <2> QED
    BY <1>1, <1>3, <1>4, <1>5, <2>1 DEF LocksAt
<1>6. CASE pc[p] = "invalidate"
  <2>1. \A i \in Inode : Holds(p, i)' <=> Holds(p, i) /\ i # put[p]
    BY <1>1, <1>3, <1>4, <1>6 DEF Holds, LocksAt
  <2>2. \A i \in Inode : lock'[i] = p <=> lock[i] = p /\ i # put[p]
    BY <1>1, <1>2, <1>6
  <2> QED
    BY <1>3, <1>4, <1>6, <2>1, <2>2 DEF LocksAt
<1> QED
  BY <1>1, <1>5, <1>6

LEMMA OwnLocks ==
    ASSUME TypeOK, Locals, Locks, NEW p \in Proc, Step(p)
    PROVE  LocksAt(p)'
<1>a. LockedAt(p) /\ LocalsAt(p)
  BY Ilocked DEF Locals
<1>c. /\ DOMAIN pc = Proc /\ DOMAIN ret = Proc /\ DOMAIN put = Proc
      /\ DOMAIN ip = Proc /\ DOMAIN dp = Proc /\ DOMAIN lock = Inode
      /\ pc[p] \in Places \cup InPut /\ ret[p] \in Places \cup {None}
      /\ dp[p] \in Ptr /\ ip[p] \in Ptr /\ put[p] \in Ptr
  BY DEF TypeOK, ProcsOK, TableOK
<1>d. None \notin Proc /\ None \notin Inode
  BY FsAssumption, NoneNotPtr
<1>e. \A i \in Inode : lock[i] = p <=> Holds(p, i)
  BY DEF Locks, LocksAt
<1>f. /\ Ilock(p, "walk") => pc[p] = "walk"
      /\ Ilock(p, "parent") => pc[p] = "parent" /\ dp[p] \in Inode /\ lock[dp[p]] = None
      /\ \A s \in {"found", "exists", "new", "victim", "bad"} :
            Ilock(p, s) => pc[p] = s /\ ip[p] \in Inode /\ lock[ip[p]] = None
  BY <1>a DEF LockedAt, IpPlaces
<1>h. Frees(p) => /\ Loc(p) \in LockedDp => dp[p] # put[p]
                  /\ Loc(p) \in LockedIp => ip[p] # put[p]
  BY DEF Locks, LocksAt
<1>g. LocalsAt(p)
  BY <1>a
<1> USE DEF Goto, Set, Iput, Iget, Load, Update, Return, Resume, disk, table, files, local,
           iput, LocksAt, Holds, Frees, LocalsAt, Loc, InPut, LockedDp, LockedIp, WithDp, WithIp
<1>1. CASE WalkStep(p)
  BY <1>1, <1>c, <1>d, <1>e, <1>f, <1>g, <1>h DEF WalkStep
<1>2. CASE WalkParent(p)
  BY <1>2, <1>c, <1>d, <1>e, <1>f, <1>g, <1>h DEF WalkParent
<1>3. CASE WalkFails(p)
  BY <1>3, <1>c, <1>d, <1>e, <1>f, <1>g, <1>h DEF WalkFails, Fail, LinkTarget
<1>4. CASE DropRef(p)
  BY <1>4, <1>c, <1>d, <1>e, <1>f, <1>g, <1>h DEF DropRef, Places, Ptr
<1>5. CASE LockLast(p)
  BY <1>5, <1>c, <1>d, <1>e, <1>g DEF LockLast, Free, Ptr
<1>6. CASE Truncate(p)
  BY <1>6, FreeingLocks
<1>7. CASE Invalidate(p)
  BY <1>7, FreeingLocks
<1>8. CASE Open(p)
  BY <1>8, <1>c, <1>d, <1>e, <1>f, <1>g, <1>h DEF Open, OpenFile
<1>9. CASE UnlockPut(p)
  BY <1>9, <1>c, <1>d, <1>e, <1>f, <1>g, <1>h DEF UnlockPut
<1>10. CASE Chdir(p)
  BY <1>10, <1>c, <1>d, <1>e, <1>f, <1>g, <1>h DEF Chdir
<1>11. CASE LinkOld(p)
  BY <1>11, <1>c, <1>d, <1>e, <1>f, <1>g, <1>h DEF LinkOld
<1>12. CASE LinkTaken(p)
  BY <1>12, <1>c, <1>d, <1>e, <1>f, <1>g, <1>h DEF LinkTaken
<1>13. CASE LinkNoRoom(p)
  BY <1>13, <1>c, <1>d, <1>e, <1>f, <1>g, <1>h DEF LinkNoRoom
<1>14. CASE LinkNew(p)
  BY <1>14, <1>c, <1>d, <1>e, <1>f, <1>g, <1>h DEF LinkNew
<1>15. CASE PutIp(p)
  BY <1>15, <1>c, <1>d, <1>e, <1>f, <1>g, <1>h DEF PutIp
<1>16. CASE LinkUndo(p)
  BY <1>16, <1>c, <1>d, <1>e, <1>f, <1>g, <1>h DEF LinkUndo
<1>17. CASE PutParent(p)
  BY <1>17, <1>c, <1>d, <1>e, <1>f, <1>g, <1>h DEF PutParent, Unlocked
<1>18. CASE UnlinkFind(p)
  BY <1>18, <1>c, <1>d, <1>e, <1>f, <1>g, <1>h DEF UnlinkFind
<1>19. CASE UnlinkFails(p)
  BY <1>19, <1>c, <1>d, <1>e, <1>f, <1>g, <1>h DEF UnlinkFails
<1>20. CASE UnlinkNotEmpty(p)
  BY <1>20, <1>c, <1>d, <1>e, <1>f, <1>g, <1>h DEF UnlinkNotEmpty
<1>21. CASE UnlinkEntry(p)
  BY <1>21, <1>c, <1>d, <1>e, <1>f, <1>g, <1>h DEF UnlinkEntry
<1>22. CASE Unlink(p)
  BY <1>22, <1>c, <1>d, <1>e, <1>f, <1>g, <1>h DEF Unlink
<1>23. CASE CreateFind(p)
  BY <1>23, <1>c, <1>d, <1>e, <1>f, <1>g, <1>h DEF CreateFind
<1>24. ASSUME NEW i \in Inode, CreateAlloc(p, i) PROVE LocksAt(p)'
  BY <1>24, <1>c, <1>d, <1>e, <1>f, <1>g, <1>h DEF CreateAlloc
<1>25. CASE CreateNoInode(p)
  BY <1>25, <1>c, <1>d, <1>e, <1>f, <1>g, <1>h DEF CreateNoInode
<1>26. CASE CreateNew(p)
  BY <1>26, <1>c, <1>d, <1>e, <1>f, <1>g, <1>h DEF CreateNew
<1>27. CASE CreateFails(p)
  BY <1>27, <1>c, <1>d, <1>e, <1>f, <1>g, <1>h DEF CreateFails
<1>28. CASE OpenCreated(p)
  BY <1>28, <1>c, <1>d, <1>e, <1>f, <1>g, <1>h DEF OpenCreated, OpenFile, Ready
<1>29. CASE PutCreated(p)
  BY <1>29, <1>c, <1>d, <1>e, <1>f, <1>g, <1>h DEF PutCreated, Ready
<1>30. CASE Close(p)
  BY <1>30, <1>c, <1>d, <1>e, <1>f, <1>g, <1>h DEF Close, FileClose
<1>31. CASE Exit(p)
  BY <1>31, <1>c, <1>d, <1>e, <1>f, <1>g, <1>h DEF Exit, FileClose
<1>32. CASE ExitPut(p)
  BY <1>32, <1>c, <1>d, <1>e, <1>f, <1>g, <1>h DEF ExitPut
<1>33. ASSUME NEW c \in Calls, Call(p, c) PROVE LocksAt(p)'
  BY <1>33, <1>c, <1>d, <1>e, <1>f, <1>g, <1>h DEF Call
<1> QED
  BY <1>1, <1>2, <1>3, <1>4, <1>5, <1>6, <1>7, <1>8, <1>9, <1>10, <1>11, <1>12, <1>13,
     <1>14, <1>15, <1>16, <1>17, <1>18, <1>19, <1>20, <1>21, <1>22, <1>23, <1>24, <1>25,
     <1>26, <1>27, <1>28, <1>29, <1>30, <1>31, <1>32, <1>33
     DEF Step, Namex, IputStep, NameCall, UnlinkStep, CreateStep

LEMMA LocksStep ==
    ASSUME TypeOK, Locals, Locks, NEW p \in Proc, Step(p)
    PROVE  Locks'
<1>1. \A q \in Proc : q # p => Same(q)
  BY Elsewhere
<1> SUFFICES ASSUME NEW r \in Proc PROVE LocksAt(r)'
  BY DEF Locks
<1>2. CASE r = p
  BY <1>2, OwnLocks
<1>3. CASE r # p
  <2>1. Same(r)
    BY <1>1, <1>3
  <2>2. \A i \in Inode : lock'[i] = r <=> lock[i] = r
    BY <1>3, OtherLocks DEF OthersKeep
  <2>3. LocksAt(r)
    BY DEF Locks
  <2> QED
    BY <2>1, <2>2, <2>3, SameLoc DEF LocksAt, Same
<1> QED
  BY <1>2, <1>3

LEMMA LocalsStep ==
    ASSUME TypeOK, Locals, RefExact, NEW p \in Proc, Step(p)
    PROVE  Locals'
<1> SUFFICES ASSUME NEW r \in Proc PROVE LocalsAt(r)' /\ CallAt(r)'
  BY DEF Locals
<1>1. CASE r = p
  BY <1>1, LocalsAtStep, CallAtStep
<1>2. CASE r # p
  <2>1. Same(r)
    BY <1>2, Elsewhere
  <2> QED
    BY <2>1, SameLoc DEF Locals
<1> QED
  BY <1>1, <1>2

LEMMA TypeStep ==
    ASSUME TypeOK, Locals, NEW p \in Proc, Step(p)
    PROVE  TypeOK'
  BY DiskStep, TableStep, FilesStep, ProcsStep DEF TypeOK

-----------------------------------------------------------------------------
(* Counting: how many places of f hold v, and how a change of one place of  *)
(* f changes that.                                                          *)
One(b) == IF b THEN 1 ELSE 0
N(S, f, v) == Cardinality({x \in S : f[x] = v})
Moved(S, f, g, x, v) == /\ N(S, f, v) \in Nat
                        /\ N(S, g, v) = N(S, f, v) - One(f[x] = v) + One(g[x] = v)

LEMMA PointUpdate ==
    ASSUME NEW S, IsFiniteSet(S), NEW f, NEW g, NEW x \in S, NEW v,
           \A y \in S : y # x => g[y] = f[y]
    PROVE  Moved(S, f, g, x, v)
<1> DEFINE A == {y \in S : f[y] = v}
           B == {y \in S : g[y] = v}
           C == {y \in S \ {x} : f[y] = v}
<1>1. IsFiniteSet(A) /\ IsFiniteSet(B) /\ IsFiniteSet(C) /\ x \notin C
  BY FS_Subset
<1>2. A = IF f[x] = v THEN C \cup {x} ELSE C
  OBVIOUS
<1>3. B = IF g[x] = v THEN C \cup {x} ELSE C
  OBVIOUS
<1>4. Cardinality(C \cup {x}) = Cardinality(C) + 1 /\ Cardinality(C) \in Nat
  BY <1>1, FS_AddElement, FS_CardinalityType
<1> HIDE DEF C
<1>5. Cardinality(A) = Cardinality(C) + One(f[x] = v)
  BY <1>2, <1>4 DEF One
<1>6. Cardinality(B) = Cardinality(C) + One(g[x] = v)
  BY <1>3, <1>4 DEF One
<1>7. One(f[x] = v) \in {0, 1} /\ One(g[x] = v) \in {0, 1}
  BY DEF One
<1>8. N(S, f, v) = Cardinality(A) /\ N(S, g, v) = Cardinality(B)
  BY DEF N
<1> QED
  BY <1>4, <1>5, <1>6, <1>7, <1>8 DEF Moved

LEMMA Unchanged ==
    ASSUME NEW S, IsFiniteSet(S), NEW f, NEW g, NEW v, \A y \in S : g[y] = f[y]
    PROVE  N(S, f, v) \in Nat /\ N(S, g, v) = N(S, f, v)
<1>1. {y \in S : f[y] = v} = {y \in S : g[y] = v}
  OBVIOUS
<1>2. IsFiniteSet({y \in S : f[y] = v})
  BY FS_Subset
<1> QED
  BY <1>1, <1>2, FS_CardinalityType DEF N

(* The six places of a pointer.                                             *)
Tagged(S, t) == {<<x, t>> : x \in S}
At(S, f, v) == {x \in S : f[x] = v}
Pointers(a, b, c, d, e, f, v) ==
    Tagged(At(Proc, a, v), "cur") \cup Tagged(At(Proc, b, v), "ip")
    \cup Tagged(At(Proc, c, v), "dp") \cup Tagged(At(Proc, d, v), "put")
    \cup Tagged(At(Proc, e, v), "cwd") \cup Tagged(At(File, f, v), "file")

LEMMA TaggedCount ==
    ASSUME NEW S, NEW f, NEW v, NEW t, IsFiniteSet(S)
    PROVE  /\ IsFiniteSet(Tagged(At(S, f, v), t))
           /\ Cardinality(Tagged(At(S, f, v), t)) = N(S, f, v)
           /\ N(S, f, v) \in Nat
<1> DEFINE A == At(S, f, v)
<1>1. IsFiniteSet(A) /\ Cardinality(A) \in Nat /\ Cardinality(A) = N(S, f, v)
  BY FS_Subset, FS_CardinalityType DEF N, At
<1>2. Tagged(A, t) = A \X {t}
  BY DEF Tagged
<1>3. IsFiniteSet({t}) /\ Cardinality({t}) = 1
  BY FS_Singleton
<1> HIDE DEF A
<1>4. IsFiniteSet(A \X {t}) /\ Cardinality(A \X {t}) = Cardinality(A) * 1
  BY <1>1, <1>3, FS_Product
<1>5. Cardinality(A) * 1 = Cardinality(A)
  BY <1>1
<1> QED
  BY <1>1, <1>2, <1>4, <1>5 DEF A

LEMMA TaggedApart ==
    ASSUME NEW S, NEW T, NEW s, NEW t, s # t
    PROVE  Tagged(S, s) \cap Tagged(T, t) = {}
  BY DEF Tagged

LEMMA AddDisjoint ==
    ASSUME NEW S, NEW T, IsFiniteSet(S), IsFiniteSet(T), S \cap T = {}
    PROVE  /\ IsFiniteSet(S \cup T)
           /\ Cardinality(S \cup T) = Cardinality(S) + Cardinality(T)
<1>1. /\ IsFiniteSet(S \cup T)
      /\ Cardinality(S \cup T) = Cardinality(S) + Cardinality(T) - Cardinality(S \cap T)
  BY FS_Union
<1>2. Cardinality(S \cap T) = 0
  BY FS_EmptySet
<1>3. Cardinality(S) \in Nat /\ Cardinality(T) \in Nat
  BY FS_CardinalityType
<1> QED
  BY <1>1, <1>2, <1>3

LEMMA PointersCount ==
    ASSUME NEW a, NEW b, NEW c, NEW d, NEW e, NEW f, NEW v
    PROVE  /\ IsFiniteSet(Pointers(a, b, c, d, e, f, v))
           /\ Cardinality(Pointers(a, b, c, d, e, f, v)) =
                N(Proc, a, v) + N(Proc, b, v) + N(Proc, c, v) + N(Proc, d, v)
                + N(Proc, e, v) + N(File, f, v)
<1> DEFINE A == Tagged(At(Proc, a, v), "cur")
           B == Tagged(At(Proc, b, v), "ip")
           C == Tagged(At(Proc, c, v), "dp")
           D == Tagged(At(Proc, d, v), "put")
           E == Tagged(At(Proc, e, v), "cwd")
           F == Tagged(At(File, f, v), "file")
<1>1. IsFiniteSet(Proc) /\ IsFiniteSet(File)
  BY Finite
<1>2. /\ IsFiniteSet(A) /\ Cardinality(A) = N(Proc, a, v)
      /\ IsFiniteSet(B) /\ Cardinality(B) = N(Proc, b, v)
      /\ IsFiniteSet(C) /\ Cardinality(C) = N(Proc, c, v)
      /\ IsFiniteSet(D) /\ Cardinality(D) = N(Proc, d, v)
      /\ IsFiniteSet(E) /\ Cardinality(E) = N(Proc, e, v)
      /\ IsFiniteSet(F) /\ Cardinality(F) = N(File, f, v)
  BY <1>1, TaggedCount
<1>3. /\ A \cap B = {} /\ (A \cup B) \cap C = {} /\ (A \cup B \cup C) \cap D = {}
      /\ (A \cup B \cup C \cup D) \cap E = {} /\ (A \cup B \cup C \cup D \cup E) \cap F = {}
  BY TaggedApart
<1>4. Pointers(a, b, c, d, e, f, v) = A \cup B \cup C \cup D \cup E \cup F
  BY DEF Pointers
<1> HIDE DEF A, B, C, D, E, F
<1>5. IsFiniteSet(A \cup B) /\ Cardinality(A \cup B) = Cardinality(A) + Cardinality(B)
  BY <1>2, <1>3, AddDisjoint
<1>6. /\ IsFiniteSet(A \cup B \cup C)
      /\ Cardinality(A \cup B \cup C) = Cardinality(A \cup B) + Cardinality(C)
  BY <1>2, <1>3, <1>5, AddDisjoint
<1>7. /\ IsFiniteSet(A \cup B \cup C \cup D)
      /\ Cardinality(A \cup B \cup C \cup D) = Cardinality(A \cup B \cup C) + Cardinality(D)
  BY <1>2, <1>3, <1>6, AddDisjoint
<1>8. /\ IsFiniteSet(A \cup B \cup C \cup D \cup E)
      /\ Cardinality(A \cup B \cup C \cup D \cup E) = Cardinality(A \cup B \cup C \cup D) + Cardinality(E)
  BY <1>2, <1>3, <1>7, AddDisjoint
<1>9. /\ IsFiniteSet(A \cup B \cup C \cup D \cup E \cup F)
      /\ Cardinality(A \cup B \cup C \cup D \cup E \cup F) =
           Cardinality(A \cup B \cup C \cup D \cup E) + Cardinality(F)
  BY <1>2, <1>3, <1>8, AddDisjoint
<1> QED
  BY <1>2, <1>4, <1>5, <1>6, <1>7, <1>8, <1>9

LEMMA HoldersAre ==
    \A i : /\ Holders(i) = Pointers(cur, ip, dp, put, cwd, fip, i)
           /\ Holders(i)' = Pointers(cur', ip', dp', put', cwd', fip', i)
  BY DEF Holders, Pointers, Tagged, At

(* The pointers of one process, and how a step that moves no others changes *)
(* the number of them.                                                      *)
Own(p, i) == One(cur[p] = i) + One(ip[p] = i) + One(dp[p] = i) + One(put[p] = i) + One(cwd[p] = i)

LEMMA HoldersMoved ==
    ASSUME NEW p \in Proc, \A q \in Proc : q # p => Same(q), NEW i
    PROVE  /\ Cardinality(Holders(i))' = Cardinality(Holders(i)) - Own(p, i) + Own(p, i)'
                                         - N(File, fip, i) + N(File, fip', i)
           /\ Cardinality(Holders(i)) \in Nat
<1>1. IsFiniteSet(Proc) /\ IsFiniteSet(File)
  BY Finite
<1>2. /\ Moved(Proc, cur, cur', p, i) /\ Moved(Proc, ip, ip', p, i)
      /\ Moved(Proc, dp, dp', p, i) /\ Moved(Proc, put, put', p, i)
      /\ Moved(Proc, cwd, cwd', p, i)
  <2>1. \A q \in Proc : q # p => /\ cur'[q] = cur[q] /\ ip'[q] = ip[q] /\ dp'[q] = dp[q]
                                 /\ put'[q] = put[q] /\ cwd'[q] = cwd[q]
    BY DEF Same
  <2> QED
    BY <1>1, <2>1, PointUpdate
<1>3. N(File, fip, i) \in Nat /\ N(File, fip', i) \in Nat
  BY <1>1, Unchanged
<1>4. /\ Cardinality(Holders(i)) = N(Proc, cur, i) + N(Proc, ip, i) + N(Proc, dp, i)
           + N(Proc, put, i) + N(Proc, cwd, i) + N(File, fip, i)
      /\ Cardinality(Holders(i))' = N(Proc, cur', i) + N(Proc, ip', i) + N(Proc, dp', i)
           + N(Proc, put', i) + N(Proc, cwd', i) + N(File, fip', i)
  BY HoldersAre, PointersCount
<1>5. \A b : One(b) \in {0, 1}
  BY DEF One
<1> QED
  BY <1>2, <1>3, <1>4, <1>5 DEF Own, Moved

-----------------------------------------------------------------------------
(* References. *)
Counts(p) == \A i \in Inode : ref'[i] = ref[i] - Own(p, i) + Own(p, i)'
                                       - N(File, fip, i) + N(File, fip', i)

LEMMA Closed == ASSUME RefExact PROVE \A f \in File : fref[f] = 0 => fip[f] = None
<1> SUFFICES ASSUME NEW f \in File, fref[f] = 0 PROVE fip[f] = None
  OBVIOUS
<1>1. fref[f] > 0 <=> fip[f] # None
  BY Zenon DEF RefExact
<1> QED
  BY <1>1

LEMMA WalkCounts ==
    ASSUME TypeOK, Locals, NEW p \in Proc, WalkStep(p)
    PROVE  Counts(p)
<1> DEFINE n == Entry(cur[p], NextName(p))
<1>1. /\ pc[p] = "walk" /\ cur[p] \in Inode /\ n \in Inode
  <2>1. LockedAt(p) /\ Looked(p) /\ Ilock(p, "walk") /\ n # None
    BY Ilocked, LookedUp DEF WalkStep
  <2> QED
    BY <2>1 DEF LockedAt, Looked, Ptr
<1>2. put[p] = None /\ (~LinkTarget(p) => ip[p] = None)
  BY <1>1 DEF Locals, LocalsAt, CallAt, Loc, InPut, LinkTarget
<1> HIDE DEF n
<1>3. /\ ref' = [ref EXCEPT ![n] = @ + 1] /\ cwd' = cwd /\ dp' = dp /\ fip' = fip
      /\ put' = [put EXCEPT ![p] = cur[p]]
      /\ IF Last(p) THEN ip' = [ip EXCEPT ![p] = n] /\ cur' = [cur EXCEPT ![p] = None]
         ELSE cur' = [cur EXCEPT ![p] = n] /\ UNCHANGED ip
      /\ Last(p) => ~LinkTarget(p)
  BY DEF WalkStep, n, Iget, Iput, Set, files, WantsParent
<1>4. /\ ref \in [Inode -> Int] /\ None \notin Inode
      /\ cur \in [Proc -> Ptr] /\ ip \in [Proc -> Ptr] /\ put \in [Proc -> Ptr]
  BY NoneNotPtr DEF TypeOK, TableOK, ProcsOK
<1>5. \A i : N(File, fip, i) \in Nat /\ N(File, fip', i) = N(File, fip, i)
  BY <1>3, Unchanged, Finite
<1>6. ASSUME NEW i \in Inode
      PROVE  Own(p, i)' - Own(p, i) = One(n = i)
  <2>1. CASE Last(p)
    BY <1>1, <1>2, <1>3, <1>4, <2>1 DEF Own, One
  <2>2. CASE ~Last(p)
    BY <1>1, <1>2, <1>3, <1>4, <2>2 DEF Own, One
  <2> QED
    BY <2>1, <2>2
<1>7. \A i \in Inode : ref'[i] = ref[i] + One(n = i)
  BY <1>1, <1>3, <1>4 DEF One
<1>8. \A i : Own(p, i) \in Int /\ Own(p, i)' \in Int /\ One(n = i) \in Int
  BY DEF Own, One
<1> QED
  BY <1>4, <1>5, <1>6, <1>7, <1>8 DEF Counts

LEMMA CountsStep ==
    ASSUME TypeOK, Locals, RefExact, NEW p \in Proc, Step(p)
    PROVE  Counts(p)
<1>a. LockedAt(p) /\ LocalsAt(p) /\ CallAt(p) /\ Looked(p)
  BY Ilocked, LookedUp DEF Locals
<1>c. /\ DOMAIN pc = Proc /\ DOMAIN ret = Proc /\ DOMAIN put = Proc /\ DOMAIN cur = Proc
      /\ DOMAIN ip = Proc /\ DOMAIN dp = Proc /\ DOMAIN cwd = Proc /\ DOMAIN fd = Proc
      /\ cur[p] \in Ptr /\ dp[p] \in Ptr /\ ip[p] \in Ptr /\ put[p] \in Ptr /\ cwd[p] \in Ptr
      /\ fd[p] \in File \cup {None}
      /\ ref \in [Inode -> Int]
  BY DEF TypeOK, ProcsOK, TableOK, FilesOK
<1>d. None \notin Inode /\ IsFiniteSet(File) /\ None \notin File
  BY NoneNotPtr, Finite
<1>e. \A i : N(File, fip, i) \in Nat /\ (fip' = fip => N(File, fip', i) = N(File, fip, i))
  BY <1>d, Unchanged
<1>f. /\ Ilock(p, "walk") => pc[p] = "walk" /\ cur[p] \in Inode
      /\ Ilock(p, "parent") => pc[p] = "parent" /\ dp[p] \in Inode
      /\ \A s \in {"found", "exists", "new", "victim", "bad"} :
            Ilock(p, s) => pc[p] = s /\ ip[p] \in Inode
  BY <1>a DEF LockedAt, IpPlaces
<1>g. LocalsAt(p)
  BY <1>a
<1>h. \A path : Loc(p) # "gone" => From(p, path) \in Inode
  BY FromType
<1>i. /\ Ilock(p, "walk") => Entry(cur[p], NextName(p)) \in Ptr
      /\ Ilock(p, "parent") => Entry(dp[p], NextName(p)) \in Ptr
  BY <1>a DEF Looked
<1>j. /\ Loc(p) = "parent" /\ call[p].op # "link" => ip[p] = None
      /\ Loc(p) = "walk" /\ ~LinkTarget(p) => ip[p] = None
  BY <1>a DEF CallAt, LinkTarget
<1>k. FilesOK
  BY DEF TypeOK
<1> USE DEF Goto, Set, Iput, Iget, Load, Update, Return, Resume, disk, table, files, local, iput,
           Counts, Own, One, LocalsAt, Loc, InPut, Places, WithDp, WithIp, Ptr
<1>1. CASE WalkStep(p)
  BY <1>1, WalkCounts
<1>2. CASE WalkParent(p)
  BY <1>2, <1>c, <1>d, <1>e, <1>f, <1>g DEF WalkParent
<1>3. CASE WalkFails(p)
  BY <1>3, <1>c, <1>d, <1>e, <1>f, <1>g DEF WalkFails, Fail
<1>4. CASE DropRef(p)
  BY <1>4, <1>c, <1>d, <1>e, <1>f, <1>g DEF DropRef
<1>5. CASE LockLast(p)
  BY <1>5, <1>c, <1>d, <1>e, <1>f, <1>g DEF LockLast
<1>6. CASE Truncate(p)
  BY <1>6, <1>c, <1>d, <1>e, <1>f, <1>g DEF Truncate
<1>7. CASE Invalidate(p)
  BY <1>7, <1>c, <1>d, <1>e, <1>f, <1>g DEF Invalidate
<1>8. CASE Open(p)
  <2>1. LowestFile \in File /\ fref[LowestFile] = 0 /\ fip[LowestFile] = None
    BY <1>8, LowestFileFree, Closed DEF Open, CanOpen
  <2>2. /\ fip \in [File -> Ptr] /\ fip'[LowestFile] = ip[p]
        /\ \A g \in File : g # LowestFile => fip'[g] = fip[g]
    BY <1>8, <2>1, <1>k DEF Open, OpenFile, FilesOK
  <2>3. \A i \in Inode : N(File, fip', i) = N(File, fip, i) + One(ip[p] = i)
    <3> TAKE i \in Inode
    <3>1. Moved(File, fip, fip', LowestFile, i)
      BY <1>d, <2>1, <2>2, PointUpdate
    <3> QED
      BY <3>1, <1>d, <2>1, <2>2 DEF Moved
  <2>4. /\ ref' = ref /\ cur' = cur /\ dp' = dp /\ put' = put /\ cwd' = cwd
        /\ ip'[p] = None /\ ip[p] \in Ptr
    BY <1>8, <1>c DEF Open, OpenFile
  <2> QED
    BY <2>3, <2>4, <1>c, <1>d, <1>e
<1>9. CASE UnlockPut(p)
  BY <1>9, <1>c, <1>d, <1>e, <1>f, <1>g DEF UnlockPut
<1>10. CASE Chdir(p)
  BY <1>10, <1>c, <1>d, <1>e, <1>f, <1>g DEF Chdir
<1>11. CASE LinkOld(p)
  BY <1>11, <1>c, <1>d, <1>e, <1>f, <1>g, <1>h DEF LinkOld
<1>12. CASE LinkTaken(p)
  BY <1>12, <1>c, <1>d, <1>e, <1>f, <1>g, <1>i DEF LinkTaken
<1>13. CASE LinkNoRoom(p)
  BY <1>13, <1>c, <1>d, <1>e, <1>f, <1>g DEF LinkNoRoom
<1>14. CASE LinkNew(p)
  BY <1>14, <1>c, <1>d, <1>e, <1>f, <1>g DEF LinkNew
<1>15. CASE PutIp(p)
  BY <1>15, <1>c, <1>d, <1>e, <1>f, <1>g DEF PutIp
<1>16. CASE LinkUndo(p)
  BY <1>16, <1>c, <1>d, <1>e, <1>f, <1>g DEF LinkUndo
<1>17. CASE PutParent(p)
  BY <1>17, <1>c, <1>d, <1>e, <1>f, <1>g DEF PutParent
<1>18. CASE UnlinkFind(p)
  BY <1>18, <1>c, <1>d, <1>e, <1>f, <1>g, <1>i, <1>j DEF UnlinkFind
<1>19. CASE UnlinkFails(p)
  BY <1>19, <1>c, <1>d, <1>e, <1>f, <1>g DEF UnlinkFails
<1>20. CASE UnlinkNotEmpty(p)
  BY <1>20, <1>c, <1>d, <1>e, <1>f, <1>g DEF UnlinkNotEmpty
<1>21. CASE UnlinkEntry(p)
  BY <1>21, <1>c, <1>d, <1>e, <1>f, <1>g DEF UnlinkEntry
<1>22. CASE Unlink(p)
  BY <1>22, <1>c, <1>d, <1>e, <1>f, <1>g DEF Unlink
<1>23. CASE CreateFind(p)
  BY <1>23, <1>c, <1>d, <1>e, <1>f, <1>g, <1>i, <1>j DEF CreateFind, Creates
<1>24. ASSUME NEW i \in Inode, CreateAlloc(p, i) PROVE Counts(p)
  BY <1>24, <1>c, <1>d, <1>e, <1>f, <1>g, <1>j DEF CreateAlloc, Creates
<1>25. CASE CreateNoInode(p)
  BY <1>25, <1>c, <1>d, <1>e, <1>f, <1>g DEF CreateNoInode
<1>26. CASE CreateNew(p)
  BY <1>26, <1>c, <1>d, <1>e, <1>f, <1>g DEF CreateNew
<1>27. CASE CreateFails(p)
  BY <1>27, <1>c, <1>d, <1>e, <1>f, <1>g DEF CreateFails
<1>28. CASE OpenCreated(p)
  <2>1. LowestFile \in File /\ fref[LowestFile] = 0 /\ fip[LowestFile] = None
    BY <1>28, LowestFileFree, Closed DEF OpenCreated, CanOpen
  <2>2. /\ fip \in [File -> Ptr] /\ fip'[LowestFile] = ip[p]
        /\ \A g \in File : g # LowestFile => fip'[g] = fip[g]
    BY <1>28, <2>1, <1>k DEF OpenCreated, OpenFile, FilesOK
  <2>3. \A i \in Inode : N(File, fip', i) = N(File, fip, i) + One(ip[p] = i)
    <3> TAKE i \in Inode
    <3>1. Moved(File, fip, fip', LowestFile, i)
      BY <1>d, <2>1, <2>2, PointUpdate
    <3> QED
      BY <3>1, <1>d, <2>1, <2>2 DEF Moved
  <2>4. /\ ref' = ref /\ cur' = cur /\ dp' = dp /\ put' = put /\ cwd' = cwd
        /\ ip'[p] = None /\ ip[p] \in Ptr
    BY <1>28, <1>c DEF OpenCreated, OpenFile
  <2> QED
    BY <2>3, <2>4, <1>c, <1>d, <1>e
<1>29. CASE PutCreated(p)
  BY <1>29, <1>c, <1>d, <1>e, <1>f, <1>g DEF PutCreated, Ready
<1>30. CASE Close(p)
  <2>1. fip \in [File -> Ptr] /\ fip' \in [File -> Ptr] /\ \A g \in File : g # fd[p] => fip'[g] = fip[g]
    BY <1>30, <1>c, <1>k DEF Close, FileClose, FilesOK
  <2>2. CASE fd[p] = None
    BY <1>30, <2>2, <1>c, <1>d, <1>e, <1>f, <1>g DEF Close, FileClose
  <2>3. CASE fd[p] # None /\ ~LastClose(fd[p])
    BY <1>30, <2>3, <1>c, <1>d, <1>e, <1>f, <1>g DEF Close, FileClose
  <2>4. CASE fd[p] # None /\ LastClose(fd[p])
    <3>1. fip[fd[p]] \in Inode /\ fd[p] \in File
      BY <2>1, <2>4, <1>c, Opened DEF LastClose, Ptr
    <3>2. fip'[fd[p]] = None /\ put'[p] = fip[fd[p]]
      BY <1>30, <2>4, <3>1, <1>c, <1>k DEF Close, FileClose, FilesOK
    <3>3. \A i \in Inode : N(File, fip', i) = N(File, fip, i) - One(fip[fd[p]] = i)
      <4> TAKE i \in Inode
      <4>1. Moved(File, fip, fip', fd[p], i)
        BY <1>d, <2>1, <3>1, PointUpdate
      <4> QED
        BY <4>1, <1>d, <3>2 DEF Moved
    <3> QED
      BY <1>30, <2>4, <3>1, <3>2, <3>3, <1>c, <1>d, <1>e, <1>f, <1>g DEF Close, FileClose
  <2> QED
    BY <2>2, <2>3, <2>4
<1>31. CASE Exit(p)
  <2>1. fip \in [File -> Ptr] /\ fip' \in [File -> Ptr] /\ \A g \in File : g # fd[p] => fip'[g] = fip[g]
    BY <1>31, <1>c, <1>k DEF Exit, FileClose, FilesOK
  <2>2. CASE fd[p] = None
    BY <1>31, <2>2, <1>c, <1>d, <1>e, <1>f, <1>g DEF Exit, FileClose
  <2>3. CASE fd[p] # None /\ ~LastClose(fd[p])
    BY <1>31, <2>3, <1>c, <1>d, <1>e, <1>f, <1>g DEF Exit, FileClose
  <2>4. CASE fd[p] # None /\ LastClose(fd[p])
    <3>1. fip[fd[p]] \in Inode /\ fd[p] \in File
      BY <2>1, <2>4, <1>c, Opened DEF LastClose, Ptr
    <3>2. fip'[fd[p]] = None /\ put'[p] = fip[fd[p]]
      BY <1>31, <2>4, <3>1, <1>c, <1>k DEF Exit, FileClose, FilesOK
    <3>3. \A i \in Inode : N(File, fip', i) = N(File, fip, i) - One(fip[fd[p]] = i)
      <4> TAKE i \in Inode
      <4>1. Moved(File, fip, fip', fd[p], i)
        BY <1>d, <2>1, <3>1, PointUpdate
      <4> QED
        BY <4>1, <1>d, <3>2 DEF Moved
    <3> QED
      BY <1>31, <2>4, <3>1, <3>2, <3>3, <1>c, <1>d, <1>e, <1>f, <1>g DEF Exit, FileClose
  <2> QED
    BY <2>2, <2>3, <2>4
<1>32. CASE ExitPut(p)
  BY <1>32, <1>c, <1>d, <1>e, <1>f, <1>g DEF ExitPut
<1>33. ASSUME NEW c \in Calls, Call(p, c) PROVE Counts(p)
  BY <1>33, <1>c, <1>d, <1>e, <1>f, <1>g, <1>h DEF Call
<1> QED
  BY <1>1, <1>2, <1>3, <1>4, <1>5, <1>6, <1>7, <1>8, <1>9, <1>10, <1>11, <1>12, <1>13,
     <1>14, <1>15, <1>16, <1>17, <1>18, <1>19, <1>20, <1>21, <1>22, <1>23, <1>24, <1>25,
     <1>26, <1>27, <1>28, <1>29, <1>30, <1>31, <1>32, <1>33
     DEF Step, Namex, IputStep, NameCall, UnlinkStep, CreateStep

(* What a step does with files: nothing, or it opens or closes one.          *)
OpensOne(p)  == OpenFile(p) /\ CanOpen(p) /\ ip[p] \in Inode
ClosesOne(p) == fd[p] # None /\ \E s : FileClose(p, s)
FilesMove(p) == UNCHANGED <<fip, fref, fd>> \/ OpensOne(p) \/ ClosesOne(p)

LEMMA FilesMoveStep ==
    ASSUME TypeOK, Locals, NEW p \in Proc, Step(p)
    PROVE  FilesMove(p)
<1>a. /\ Ilock(p, "found") \/ Ilock(p, "exists") => ip[p] \in Inode
      /\ pc[p] = "created" => ip[p] \in Inode
  <2>1. LockedAt(p) /\ LocalsAt(p)
    BY Ilocked DEF Locals
  <2>2. ip[p] \in Ptr
    BY DEF TypeOK, ProcsOK
  <2> QED
    BY <2>1, <2>2 DEF LockedAt, LocalsAt, IpPlaces, Loc, InPut, WithIp, Ptr
<1> USE DEF FilesMove
<1>1. CASE WalkStep(p)
  BY <1>1 DEF WalkStep, files
<1>2. CASE WalkParent(p)
  BY <1>2 DEF WalkParent, files
<1>3. CASE WalkFails(p)
  BY <1>3 DEF WalkFails, files
<1>4. CASE DropRef(p)
  BY <1>4 DEF DropRef, files, Resume
<1>5. CASE LockLast(p)
  BY <1>5 DEF LockLast, files
<1>6. CASE Truncate(p)
  BY <1>6 DEF Truncate, files
<1>7. CASE Invalidate(p)
  BY <1>7 DEF Invalidate, files
<1>8. CASE Open(p)
  BY <1>8, <1>a DEF Open, OpensOne
<1>9. CASE UnlockPut(p)
  BY <1>9 DEF UnlockPut, files
<1>10. CASE Chdir(p)
  BY <1>10 DEF Chdir, files
<1>11. CASE LinkOld(p)
  BY <1>11 DEF LinkOld, files
<1>12. CASE LinkTaken(p)
  BY <1>12 DEF LinkTaken, files
<1>13. CASE LinkNoRoom(p)
  BY <1>13 DEF LinkNoRoom, files
<1>14. CASE LinkNew(p)
  BY <1>14 DEF LinkNew, files
<1>15. CASE PutIp(p)
  BY <1>15 DEF PutIp, files
<1>16. CASE LinkUndo(p)
  BY <1>16 DEF LinkUndo, files
<1>17. CASE PutParent(p)
  BY <1>17 DEF PutParent, files
<1>18. CASE UnlinkFind(p)
  BY <1>18 DEF UnlinkFind, files
<1>19. CASE UnlinkFails(p)
  BY <1>19 DEF UnlinkFails, files
<1>20. CASE UnlinkNotEmpty(p)
  BY <1>20 DEF UnlinkNotEmpty, files
<1>21. CASE UnlinkEntry(p)
  BY <1>21 DEF UnlinkEntry, files
<1>22. CASE Unlink(p)
  BY <1>22 DEF Unlink, files
<1>23. CASE CreateFind(p)
  BY <1>23 DEF CreateFind, files
<1>24. ASSUME NEW i \in Inode, CreateAlloc(p, i) PROVE FilesMove(p)
  BY <1>24 DEF CreateAlloc, files
<1>25. CASE CreateNoInode(p)
  BY <1>25 DEF CreateNoInode, files
<1>26. CASE CreateNew(p)
  BY <1>26 DEF CreateNew, files
<1>27. CASE CreateFails(p)
  BY <1>27 DEF CreateFails, files
<1>28. CASE OpenCreated(p)
  BY <1>28, <1>a DEF OpenCreated, OpensOne, Ready
<1>29. CASE PutCreated(p)
  BY <1>29 DEF PutCreated, files
<1>30. CASE Close(p)
  BY <1>30 DEF Close, ClosesOne
<1>31. CASE Exit(p)
  BY <1>31 DEF Exit, files, ClosesOne
<1>32. CASE ExitPut(p)
  BY <1>32 DEF ExitPut, files
<1>33. ASSUME NEW c \in Calls, Call(p, c) PROVE FilesMove(p)
  BY <1>33 DEF Call, files
<1> QED
  BY <1>1, <1>2, <1>3, <1>4, <1>5, <1>6, <1>7, <1>8, <1>9, <1>10, <1>11, <1>12, <1>13,
     <1>14, <1>15, <1>16, <1>17, <1>18, <1>19, <1>20, <1>21, <1>22, <1>23, <1>24, <1>25,
     <1>26, <1>27, <1>28, <1>29, <1>30, <1>31, <1>32, <1>33
     DEF Step, Namex, IputStep, NameCall, UnlinkStep, CreateStep


FileExact == \A f \in File : /\ fref[f] = N(Proc, fd, f) /\ fref[f] \in Nat
                             /\ fref[f] > 0 <=> fip[f] # None

LEMMA CountIsNat == ASSUME NEW f, NEW v PROVE N(Proc, f, v) \in Nat
  BY Unchanged, FsAssumption

LEMMA Exact == RefExact <=> (\A i \in Inode : ref[i] = Cardinality(Holders(i))) /\ FileExact
<1>1. \A f : N(Proc, fd, f) = Cardinality({p \in Proc : fd[p] = f})
  BY DEF N
<1>2. \A f : N(Proc, fd, f) \in Nat
  BY CountIsNat
<1>3. ASSUME NEW f \in File
      PROVE  fref[f] = Cardinality({p \in Proc : fd[p] = f}) /\ (fref[f] > 0 <=> fip[f] # None)
             <=> /\ fref[f] = N(Proc, fd, f) /\ fref[f] \in Nat
                 /\ fref[f] > 0 <=> fip[f] # None
  <2>1. N(Proc, fd, f) = Cardinality({p \in Proc : fd[p] = f}) /\ N(Proc, fd, f) \in Nat
    BY <1>1, <1>2
  <2> HIDE DEF N
  <2> QED
    BY <2>1, Zenon
<1> QED
  BY <1>3, Zenon DEF RefExact, FileExact

LEMMA ExactNext == RefExact' <=> (\A i \in Inode : ref[i] = Cardinality(Holders(i)))' /\ FileExact'
  BY Exact, PTL

LEMMA FileExactStep ==
    ASSUME TypeOK, FileExact, NEW p \in Proc, \A q \in Proc : q # p => Same(q), FilesMove(p)
    PROVE  FileExact'
<1> SUFFICES ASSUME NEW f \in File
             PROVE  /\ fref'[f] = N(Proc, fd', f) /\ fref'[f] \in Nat
                    /\ fref'[f] > 0 <=> fip'[f] # None
  BY DEF FileExact, N
<1>1. fref[f] = N(Proc, fd, f) /\ fref[f] \in Nat /\ (fref[f] > 0 <=> fip[f] # None)
  BY DEF FileExact
<1>2. /\ fd \in [Proc -> File \cup {None}] /\ fref \in [File -> Int] /\ fip \in [File -> Ptr]
      /\ None \notin File /\ None \notin Inode
  BY NoneNotPtr DEF TypeOK, FilesOK
<1>3. Moved(Proc, fd, fd', p, f)
  <2>1. \A q \in Proc : q # p => fd'[q] = fd[q]
    BY DEF Same
  <2> QED
    BY <2>1, PointUpdate, FsAssumption
<1>4. CASE UNCHANGED <<fip, fref, fd>>
  BY <1>1, <1>4
<1>5. CASE OpensOne(p)
  <2>1. LowestFile \in File /\ fref[LowestFile] = 0 /\ fd[p] = None
    BY <1>5, LowestFileFree DEF OpensOne, CanOpen
  <2>2. /\ fip' = [fip EXCEPT ![LowestFile] = ip[p]] /\ fref' = [fref EXCEPT ![LowestFile] = 1]
        /\ fd'[p] = LowestFile /\ ip[p] \in Inode
    BY <1>2, <1>5 DEF OpensOne, OpenFile, Set
  <2>3. N(Proc, fd', f) = fref[f] + One(LowestFile = f)
    BY <1>1, <1>2, <1>3, <2>1, <2>2 DEF Moved, One
  <2>4. CASE f = LowestFile
    BY <1>2, <2>1, <2>2, <2>3, <2>4 DEF One
  <2>5. CASE f # LowestFile
    BY <1>1, <1>2, <2>2, <2>3, <2>5 DEF One
  <2> QED
    BY <2>4, <2>5
<1>6. CASE ClosesOne(p)
  <2>1. /\ fd[p] \in File /\ fd'[p] = None /\ fref' = [fref EXCEPT ![fd[p]] = @ - 1]
        /\ fip' = IF fref[fd[p]] = 1 THEN [fip EXCEPT ![fd[p]] = None] ELSE fip
    BY <1>2, <1>6 DEF ClosesOne, FileClose, Set, LastClose
  <2>2. N(Proc, fd', f) = fref[f] - One(fd[p] = f) /\ N(Proc, fd', f) \in Nat
    <3>1. N(Proc, fd', f) \in Nat
      BY Unchanged, FsAssumption
    <3> QED
      BY <1>1, <1>2, <1>3, <2>1, <3>1 DEF Moved, One
  <2>3. CASE f = fd[p]
    BY <1>1, <1>2, <2>1, <2>2, <2>3 DEF One
  <2>4. CASE f # fd[p]
    BY <1>1, <1>2, <2>1, <2>2, <2>4 DEF One
  <2> QED
    BY <2>3, <2>4
<1> QED
  BY <1>4, <1>5, <1>6 DEF FilesMove

LEMMA RefStep ==
    ASSUME TypeOK, Locals, RefExact, NEW p \in Proc, Step(p)
    PROVE  RefExact'
<1>1. \A q \in Proc : q # p => Same(q)
  BY Elsewhere
<1>2. ASSUME NEW i \in Inode PROVE ref'[i] = Cardinality(Holders(i))'
  <2>1. ref[i] = Cardinality(Holders(i))
    BY Exact
  <2>2. ref'[i] = ref[i] - Own(p, i) + Own(p, i)' - N(File, fip, i) + N(File, fip', i)
    BY CountsStep DEF Counts
  <2> QED
    BY <1>1, <2>1, <2>2, HoldersMoved
<1>3. FileExact'
  BY <1>1, Exact, FilesMoveStep, FileExactStep
<1> QED
  BY <1>2, <1>3, ExactNext

-----------------------------------------------------------------------------
(* fork: only the new process changes. *)
LEMMA Forked ==
    ASSUME TypeOK, Locals, NEW p \in Proc, NEW q \in Proc, Fork(p, q)
    PROVE  /\ UNCHANGED <<disk, node, valid, lock, fip, call, local, iput>>
           /\ \A r \in Proc : r # q => Same(r)
           /\ pc[q] = "gone" /\ pc' = [pc EXCEPT ![q] = "user"]
           /\ cwd[q] = None /\ cwd' = [cwd EXCEPT ![q] = cwd[p]] /\ cwd[p] \in Inode
           /\ fd[q] = None /\ fd' = [fd EXCEPT ![q] = fd[p]]
           /\ ref' = [ref EXCEPT ![cwd[p]] = @ + 1]
           /\ cur[q] = None /\ ip[q] = None /\ dp[q] = None /\ put[q] = None
           /\ pc[p] = "user" /\ p # q
<1>1. pc[q] = "gone" /\ pc[p] = "user"
  BY DEF Fork
<1>2. LocalsAt(q) /\ LocalsAt(p)
  BY DEF Locals
<1>3. cwd[p] \in Ptr
  BY DEF TypeOK, ProcsOK
<1>4. /\ cwd[q] = None /\ fd[q] = None /\ cwd[p] \in Inode
      /\ cur[q] = None /\ ip[q] = None /\ dp[q] = None /\ put[q] = None
  BY <1>1, <1>2, <1>3 DEF LocalsAt, Loc, InPut, WithDp, WithIp, Ptr
<1>5. \A r \in Proc : r # q => Same(r)
  BY DEF Fork, Same, Set, Goto, TypeOK, ProcsOK, FilesOK, local, iput
<1> QED
  BY <1>1, <1>4, <1>5 DEF Fork, Set, Goto, Iget

LEMMA ForkTypes ==
    ASSUME TypeOK, Locals, NEW p \in Proc, NEW q \in Proc, Fork(p, q)
    PROVE  TypeOK'
<1>1. DiskOK'
  BY Forked DEF TypeOK, DiskOK, disk
<1>2. TableOK'
  BY Forked DEF TypeOK, TableOK
<1>3. FilesOK'
  <2>1. fref' \in [File -> Int]
    BY DEF Fork, TypeOK, FilesOK
  <2> QED
    BY <2>1, Forked DEF TypeOK, FilesOK
<1>4. ProcsOK'
  BY Forked DEF TypeOK, ProcsOK, local, iput, Places, Ptr
<1> QED
  BY <1>1, <1>2, <1>3, <1>4 DEF TypeOK

LEMMA ForkLocals ==
    ASSUME TypeOK, Locals, NEW p \in Proc, NEW q \in Proc, Fork(p, q)
    PROVE  Locals'
<1> SUFFICES ASSUME NEW r \in Proc PROVE LocalsAt(r)' /\ CallAt(r)'
  BY DEF Locals
<1>1. CASE r = q
  <2>1. pc'[q] = "user" /\ Loc(q)' = "user" /\ cwd'[q] # None
    BY Forked, NoneNotPtr DEF TypeOK, ProcsOK, Loc, InPut
  <2>2. cur'[q] = None /\ ip'[q] = None /\ dp'[q] = None /\ put'[q] = None
    BY Forked DEF local, iput
  <2> QED
    BY <1>1, <2>1, <2>2 DEF LocalsAt, CallAt, InPut, WithDp, WithIp
<1>2. CASE r # q
  <2>1. Same(r)
    BY <1>2, Forked
  <2> QED
    BY <2>1, SameLoc DEF Locals
<1> QED
  BY <1>1, <1>2

LEMMA ForkLocks ==
    ASSUME TypeOK, Locals, Locks, NEW p \in Proc, NEW q \in Proc, Fork(p, q)
    PROVE  Locks'
<1> SUFFICES ASSUME NEW r \in Proc PROVE LocksAt(r)'
  BY DEF Locks
<1>1. LocksAt(r) /\ lock' = lock
  BY Forked DEF Locks
<1>2. CASE r = q
  <2>1. ~Frees(q)' /\ \A i \in Inode : ~Holds(q, i)'
    BY Forked DEF TypeOK, ProcsOK, Frees, Holds, Loc, InPut, LockedDp, LockedIp
  <2>2. \A i \in Inode : ~Holds(q, i)
    BY Forked DEF Frees, Holds, Loc, InPut, LockedDp, LockedIp
  <2> QED
    BY <1>1, <1>2, <2>1, <2>2 DEF LocksAt
<1>3. CASE r # q
  <2>1. Same(r)
    BY <1>3, Forked
  <2> QED
    BY <1>1, <2>1, SameLoc DEF LocksAt, Same
<1> QED
  BY <1>2, <1>3

LEMMA ForkRefs ==
    ASSUME TypeOK, Locals, RefExact, NEW p \in Proc, NEW q \in Proc, Fork(p, q)
    PROVE  RefExact'
<1>1. \A r \in Proc : r # q => Same(r)
  BY Forked
<1>2. ASSUME NEW i \in Inode PROVE ref'[i] = Cardinality(Holders(i))'
  <2>1. ref[i] = Cardinality(Holders(i))
    BY Exact
  <2>2. /\ ref'[i] = ref[i] + One(cwd[p] = i)
        /\ Own(q, i)' = Own(q, i) + One(cwd[p] = i)
    BY Forked, NoneNotPtr DEF TypeOK, TableOK, ProcsOK, Own, One, local, iput
  <2>3. N(File, fip, i) \in Nat /\ N(File, fip', i) = N(File, fip, i)
    <3>1. fip' = fip /\ IsFiniteSet(File)
      BY Forked, Finite
    <3> QED
      BY <3>1, Unchanged
  <2>4. Own(q, i) \in Int /\ One(cwd[p] = i) \in Int
    BY DEF Own, One
  <2> QED
    BY <1>1, <2>1, <2>2, <2>3, <2>4, HoldersMoved
<1>3. FileExact'
  <2> SUFFICES ASSUME NEW f \in File
               PROVE  /\ fref'[f] = N(Proc, fd', f) /\ fref'[f] \in Nat
                      /\ fref'[f] > 0 <=> fip'[f] # None
    BY DEF FileExact, N
  <2>1. fref[f] = N(Proc, fd, f) /\ fref[f] \in Nat /\ (fref[f] > 0 <=> fip[f] # None)
    BY Exact DEF FileExact
  <2>2. Moved(Proc, fd, fd', q, f)
    <3>1. \A r \in Proc : r # q => fd'[r] = fd[r]
      BY <1>1 DEF Same
    <3> QED
      BY <3>1, PointUpdate, FsAssumption
  <2>3. N(Proc, fd', f) = fref[f] + One(fd[p] = f)
    BY <2>1, <2>2, Forked, NoneNotPtr DEF TypeOK, FilesOK, Moved, One
  <2>4. fref'[f] = fref[f] + One(fd[p] = f)
    BY NoneNotPtr, <2>1 DEF Fork, TypeOK, FilesOK, One
  <2>5. fd[p] = f => fref[f] > 0
    <3> SUFFICES ASSUME fd[p] = f PROVE fref[f] > 0
      OBVIOUS
    <3>1. p \in {r \in Proc : fd[r] = f} /\ IsFiniteSet({r \in Proc : fd[r] = f})
      BY FS_Subset, FsAssumption
    <3>2. N(Proc, fd, f) # 0
      BY <3>1, FS_EmptySet DEF N
    <3> QED
      BY <2>1, <3>2
  <2>6. fip' = fip
    BY Forked
  <2> QED
    BY <2>1, <2>3, <2>4, <2>5, <2>6 DEF One
<1> QED
  BY <1>2, <1>3, ExactNext

-----------------------------------------------------------------------------
(* What a process sees of an inode that it has locked is what the disk has. *)
LEMMA NotGoing ==
    ASSUME TypeOK, Locks, NEW i \in Inode, NEW p \in Proc,
           lock[i] = None \/ (lock[i] = p /\ ~(pc[p] = "invalidate" /\ put[p] = i))
    PROVE  ~Going(i)
<1> SUFFICES ASSUME NEW q \in Proc, pc[q] = "invalidate", put[q] = i
             PROVE  FALSE
  BY DEF Going
<1>1. lock[i] = q
  BY DEF Locks, LocksAt, Holds, Frees
<1> QED
  BY <1>1, FsAssumption

LEMMA SeenTrue ==
    ASSUME Coherent, NEW i \in Inode, ~Going(i)
    PROVE  Seen(i) = dinode[i] /\ (~NoType(i) => dinode[i].type # "free")
  BY DEF Coherent, Seen, NoType

True(i) == i \in Inode /\ ~Going(i) /\ Seen(i) = dinode[i]
Clear(p) ==
    /\ Ilock(p, "walk") => True(cur[p]) /\ lock[cur[p]] = None /\ dinode[cur[p]].type # "free"
    /\ Ilock(p, "parent") => True(dp[p]) /\ lock[dp[p]] = None /\ dinode[dp[p]].type # "free"
    /\ \A s \in IpPlaces :
         Ilock(p, s) => True(ip[p]) /\ lock[ip[p]] = None /\ dinode[ip[p]].type # "free"
    /\ Loc(p) \in LockedDp => True(dp[p]) /\ lock[dp[p]] = p
    /\ Loc(p) \in LockedIp => True(ip[p]) /\ lock[ip[p]] = p
    /\ pc[p] = "trunc" => True(put[p]) /\ lock[put[p]] = p
    /\ pc[p] = "invalidate" => put[p] \in Inode /\ lock[put[p]] = p

LEMMA Cleared ==
    ASSUME TypeOK, Locals, Locks, Coherent, NEW p \in Proc PROVE Clear(p)
<1>1. LockedAt(p) /\ LocalsAt(p) /\ LocksAt(p)
  BY Ilocked DEF Locals, Locks
<1>2. \A i \in Inode : lock[i] = None /\ ~NoType(i) => True(i) /\ dinode[i].type # "free"
  BY NotGoing, SeenTrue DEF True
<1>3. \A i \in Inode : lock[i] = p /\ ~(pc[p] = "invalidate" /\ put[p] = i) => True(i)
  BY NotGoing, SeenTrue DEF True
<1>4. dp[p] \in Ptr /\ ip[p] \in Ptr /\ put[p] \in Ptr
  BY DEF TypeOK, ProcsOK
<1>5. Loc(p) \in LockedDp => dp[p] \in Inode /\ lock[dp[p]] = p /\ (Frees(p) => put[p] # dp[p])
  BY <1>1, <1>4 DEF LocksAt, LocalsAt, Holds, LockedDp, WithDp, Ptr
<1>6. Loc(p) \in LockedIp => ip[p] \in Inode /\ lock[ip[p]] = p /\ (Frees(p) => put[p] # ip[p])
  BY <1>1, <1>4 DEF LocksAt, LocalsAt, Holds, LockedIp, WithIp, Ptr
<1>7. Frees(p) => put[p] \in Inode /\ lock[put[p]] = p
  BY <1>1, <1>4 DEF LocksAt, LocalsAt, Holds, Frees, InPut, Ptr
<1>8. (Loc(p) \in LockedDp => True(dp[p])) /\ (Loc(p) \in LockedIp => True(ip[p]))
  BY <1>3, <1>5, <1>6 DEF Frees
<1>9. pc[p] = "trunc" => True(put[p])
  BY <1>3, <1>7 DEF Frees
<1> QED
  BY <1>1, <1>2, <1>5, <1>6, <1>7, <1>8, <1>9 DEF Clear, LockedAt, Frees

(* The types of inodes change when one is freed and when one is taken.      *)
Freed(p, i)   == /\ pc[p] = "trunc" /\ pc'[p] = "invalidate" /\ i = put[p] /\ put' = put
                 /\ dinode'[i].type = "free" /\ ent'[i] = NoEntries
                 /\ UNCHANGED <<cur, ip, dp, cwd, fip>>
Alloced(p, i) == /\ pc[p] = "parent" /\ pc'[p] = "new" /\ i = ip'[p] /\ call' = call
                 /\ dinode[i].type = "free" /\ dinode'[i].type = Kind(p)
TypesKept(p) == \A i \in Inode :
    dinode'[i].type = dinode[i].type \/ Freed(p, i) \/ Alloced(p, i)

LEMMA TypesStep ==
    ASSUME TypeOK, Locals, Locks, Coherent, NEW p \in Proc, Step(p)
    PROVE  TypesKept(p)
<1>a. Clear(p)
  BY Cleared
<1>b. /\ Ilock(p, "walk") => cur[p] \in Inode /\ Seen(cur[p]) = dinode[cur[p]]
      /\ Ilock(p, "parent") => dp[p] \in Inode /\ Seen(dp[p]) = dinode[dp[p]]
      /\ \A s \in {"found", "exists", "new", "victim", "bad"} :
           Ilock(p, s) => /\ ip[p] \in Inode /\ Seen(ip[p]) = dinode[ip[p]] /\ pc[p] = s
                          /\ lock[ip[p]] = None
      /\ pc[p] \in {"new", "victim"} =>
           dp[p] \in Inode /\ Seen(dp[p]) = dinode[dp[p]] /\ lock[dp[p]] = p
      /\ pc[p] \in {"unlinked", "created"} => ip[p] \in Inode /\ Seen(ip[p]) = dinode[ip[p]]
      /\ pc[p] = "trunc" => put[p] \in Inode /\ Seen(put[p]) = dinode[put[p]]
  BY <1>a DEF Clear, True, IpPlaces, Loc, InPut, LockedDp, LockedIp, Ilock
<1>c. DOMAIN pc = Proc /\ DOMAIN ip = Proc /\ dinode \in [Inode -> Dinode] /\ None \notin Proc
  BY FsAssumption DEF TypeOK, ProcsOK, DiskOK
<1>z. ent \in [Inode -> [Name -> Ptr]]
  BY DEF TypeOK, DiskOK
<1>d. \A i \in Inode : dinode[i] \in Dinode
  BY <1>c
<1>e. \A d \in Dinode, n \in Int :
         [d EXCEPT !.nlink = @ + n].type = d.type /\ [d EXCEPT !.nlink = n].type = d.type
  BY DEF Dinode
<1> USE DEF Goto, Set, Iput, Iget, Load, Update, Return, Resume, disk, table, files, local,
           iput, TypesKept
<1>1. CASE WalkStep(p)
  BY <1>1 DEF WalkStep
<1>2. CASE WalkParent(p)
  BY <1>2 DEF WalkParent
<1>3. CASE WalkFails(p)
  BY <1>3 DEF WalkFails
<1>4. CASE DropRef(p)
  BY <1>4 DEF DropRef
<1>5. CASE LockLast(p)
  BY <1>5 DEF LockLast
<1>6. CASE Truncate(p)
  BY <1>6, <1>b, <1>c, <1>z DEF Truncate, Freed, Dinode
<1>7. CASE Invalidate(p)
  BY <1>7 DEF Invalidate
<1>8. CASE Open(p)
  BY <1>8 DEF Open, OpenFile
<1>9. CASE UnlockPut(p)
  BY <1>9 DEF UnlockPut
<1>10. CASE Chdir(p)
  BY <1>10 DEF Chdir
<1>11. CASE LinkOld(p)
  BY <1>11, <1>b, <1>c, <1>d, <1>e DEF LinkOld, Linked
<1>12. CASE LinkTaken(p)
  BY <1>12 DEF LinkTaken
<1>13. CASE LinkNoRoom(p)
  BY <1>13 DEF LinkNoRoom
<1>14. CASE LinkNew(p)
  BY <1>14 DEF LinkNew
<1>15. CASE PutIp(p)
  BY <1>15 DEF PutIp
<1>16. CASE LinkUndo(p)
  BY <1>16, <1>b, <1>c, <1>d, <1>e DEF LinkUndo, Linked
<1>17. CASE PutParent(p)
  BY <1>17 DEF PutParent
<1>18. CASE UnlinkFind(p)
  BY <1>18 DEF UnlinkFind
<1>19. CASE UnlinkFails(p)
  BY <1>19 DEF UnlinkFails
<1>20. CASE UnlinkNotEmpty(p)
  BY <1>20 DEF UnlinkNotEmpty
<1>21. CASE UnlinkEntry(p)
  BY <1>21, <1>b, <1>c, <1>d, <1>e DEF UnlinkEntry, Linked
<1>22. CASE Unlink(p)
  BY <1>22, <1>b, <1>c, <1>d, <1>e DEF Unlink, Linked
<1>23. CASE CreateFind(p)
  BY <1>23 DEF CreateFind
<1>24. ASSUME NEW i \in Inode, CreateAlloc(p, i) PROVE TypesKept(p)
  BY <1>24, <1>b, <1>c DEF CreateAlloc, Alloced, FreeInodes, Ilock
<1>25. CASE CreateNoInode(p)
  BY <1>25 DEF CreateNoInode
<1>26. CASE CreateNew(p)
  <2> DEFINE new == [Seen(ip[p]) EXCEPT !.nlink = 1]
             dir == IF Kind(p) = "dir" THEN Linked(dp[p], 1) ELSE Seen(dp[p])
  <2>1. Ilock(p, "new") /\ dinode' = [dinode EXCEPT ![ip[p]] = new, ![dp[p]] = dir]
    BY <1>26 DEF CreateNew
  <2>2. ip[p] \in Inode /\ dp[p] \in Inode
    BY <1>b, <2>1
  <2>3. new.type = dinode[ip[p]].type /\ dir.type = dinode[dp[p]].type
    BY <1>b, <1>d, <1>e, <2>1, <2>2 DEF Linked
  <2> HIDE DEF new, dir
  <2> QED
    BY <1>c, <2>1, <2>2, <2>3
<1>27. CASE CreateFails(p)
  BY <1>27, <1>b, <1>c, <1>d, <1>e DEF CreateFails, Linked
<1>28. CASE OpenCreated(p)
  BY <1>28 DEF OpenCreated, OpenFile, Ready
<1>29. CASE PutCreated(p)
  BY <1>29 DEF PutCreated
<1>30. CASE Close(p)
  BY <1>30 DEF Close, FileClose
<1>31. CASE Exit(p)
  BY <1>31 DEF Exit, FileClose
<1>32. CASE ExitPut(p)
  BY <1>32 DEF ExitPut
<1>33. ASSUME NEW c \in Calls, Call(p, c) PROVE TypesKept(p)
  BY <1>33 DEF Call
<1> QED
  BY <1>1, <1>2, <1>3, <1>4, <1>5, <1>6, <1>7, <1>8, <1>9, <1>10, <1>11, <1>12, <1>13,
     <1>14, <1>15, <1>16, <1>17, <1>18, <1>19, <1>20, <1>21, <1>22, <1>23, <1>24, <1>25,
     <1>26, <1>27, <1>28, <1>29, <1>30, <1>31, <1>32, <1>33
     DEF Step, Namex, IputStep, NameCall, UnlinkStep, CreateStep

(* The copies in the table.                                                *)
Copied(p) == \A i \in Inode :
    \/ node'[i] = node[i] /\ dinode'[i] = dinode[i] /\ (valid'[i] => valid[i])
    \/ node'[i] = dinode'[i] /\ dinode[i].type # "free"
    \/ Freed(p, i)
    \/ Alloced(p, i) /\ valid'[i] = valid[i]

LEMMA CopiedStep ==
    ASSUME TypeOK, Locals, Locks, Coherent, Settled, NEW p \in Proc, Step(p)
    PROVE  Copied(p)
<1>a. Clear(p)
  BY Cleared
<1>b. /\ Ilock(p, "walk") => cur[p] \in Inode /\ Seen(cur[p]) = dinode[cur[p]]
      /\ Ilock(p, "parent") => dp[p] \in Inode /\ Seen(dp[p]) = dinode[dp[p]]
      /\ \A s \in {"found", "exists", "new", "victim", "bad"} :
           Ilock(p, s) => /\ ip[p] \in Inode /\ Seen(ip[p]) = dinode[ip[p]] /\ pc[p] = s
                          /\ lock[ip[p]] = None
      /\ pc[p] \in {"new", "victim"} =>
           dp[p] \in Inode /\ Seen(dp[p]) = dinode[dp[p]] /\ lock[dp[p]] = p
      /\ pc[p] \in {"unlinked", "created"} => ip[p] \in Inode /\ Seen(ip[p]) = dinode[ip[p]]
      /\ pc[p] = "trunc" => put[p] \in Inode /\ Seen(put[p]) = dinode[put[p]]
  BY <1>a DEF Clear, True, IpPlaces, Loc, InPut, LockedDp, LockedIp, Ilock
<1>c. DOMAIN pc = Proc /\ DOMAIN ip = Proc /\ dinode \in [Inode -> Dinode] /\ None \notin Proc
  BY FsAssumption DEF TypeOK, ProcsOK, DiskOK
<1>z. ent \in [Inode -> [Name -> Ptr]]
  BY DEF TypeOK, DiskOK
<1>d. \A i \in Inode : dinode[i] \in Dinode
  BY <1>c
<1>e. \A d \in Dinode, n \in Int :
         [d EXCEPT !.nlink = @ + n].type = d.type /\ [d EXCEPT !.nlink = n].type = d.type
  BY DEF Dinode
<1>f. /\ Ilock(p, "walk") => cur[p] \in Inode /\ Seen(cur[p]) = dinode[cur[p]] /\ dinode[cur[p]].type # "free"
      /\ Ilock(p, "parent") => dp[p] \in Inode /\ Seen(dp[p]) = dinode[dp[p]] /\ dinode[dp[p]].type # "free"
      /\ \A s \in {"found", "exists", "new", "victim", "bad"} :
           Ilock(p, s) => /\ ip[p] \in Inode /\ Seen(ip[p]) = dinode[ip[p]] /\ pc[p] = s
                          /\ dinode[ip[p]].type # "free" /\ lock[ip[p]] = None
                          /\ s \in {"new", "victim"} => /\ dp[p] \in Inode /\ dinode[dp[p]].type # "free"
                                                        /\ Seen(dp[p]) = dinode[dp[p]] /\ lock[dp[p]] = p
      /\ pc[p] \in {"unlinked", "created"} => ip[p] \in Inode /\ Seen(ip[p]) = dinode[ip[p]] /\ dinode[ip[p]].type # "free"
  <2>1. pc[p] \in {"unlinked", "created"} => dinode[ip[p]].type # "free"
    BY DEF Settled, Loc, InPut, LockedIp
  <2>2. pc[p] \in {"new", "victim"} => dinode[dp[p]].type = "dir"
    BY DEF Settled, Locals, LocalsAt, Loc, InPut, WithDp
  <2> QED
    BY <1>a, <1>b, <2>1, <2>2 DEF Clear, True, IpPlaces, Loc, InPut, LockedDp, LockedIp
<1>g. node \in [Inode -> Dinode] /\ valid \in [Inode -> BOOLEAN] /\ dinode \in [Inode -> Dinode]
  BY DEF TypeOK, TableOK, DiskOK
<1> USE DEF Goto, Set, Iput, Iget, Load, Update, Return, Resume, disk, table, files, local,
           iput, Copied
<1>1. CASE WalkStep(p)
  BY <1>1, <1>b, <1>f, <1>g DEF WalkStep
<1>2. CASE WalkParent(p)
  BY <1>2, <1>b, <1>f, <1>g DEF WalkParent
<1>3. CASE WalkFails(p)
  BY <1>3, <1>b, <1>f, <1>g DEF WalkFails
<1>4. CASE DropRef(p)
  BY <1>4, <1>b, <1>f, <1>g DEF DropRef
<1>5. CASE LockLast(p)
  BY <1>5, <1>b, <1>f, <1>g DEF LockLast
<1>6. CASE Truncate(p)
  BY <1>6, <1>b, <1>c, <1>g, <1>z DEF Truncate, Freed, Dinode
<1>7. CASE Invalidate(p)
  BY <1>7, <1>b, <1>f, <1>g DEF Invalidate, Invalid
<1>8. CASE Open(p)
  BY <1>8, <1>b, <1>f, <1>g DEF Open, OpenFile
<1>9. CASE UnlockPut(p)
  BY <1>9, <1>b, <1>f, <1>g DEF UnlockPut
<1>10. CASE Chdir(p)
  BY <1>10, <1>b, <1>f, <1>g DEF Chdir
<1>11. CASE LinkOld(p)
  BY <1>11, <1>b, <1>f, <1>g DEF LinkOld
<1>12. CASE LinkTaken(p)
  BY <1>12, <1>b, <1>f, <1>g DEF LinkTaken
<1>13. CASE LinkNoRoom(p)
  BY <1>13, <1>b, <1>f, <1>g DEF LinkNoRoom
<1>14. CASE LinkNew(p)
  BY <1>14, <1>b, <1>f, <1>g DEF LinkNew
<1>15. CASE PutIp(p)
  BY <1>15, <1>b, <1>f, <1>g DEF PutIp
<1>16. CASE LinkUndo(p)
  BY <1>16, <1>b, <1>f, <1>g DEF LinkUndo
<1>17. CASE PutParent(p)
  BY <1>17, <1>b, <1>f, <1>g DEF PutParent
<1>18. CASE UnlinkFind(p)
  BY <1>18, <1>b, <1>f, <1>g DEF UnlinkFind
<1>19. CASE UnlinkFails(p)
  BY <1>19, <1>b, <1>f, <1>g DEF UnlinkFails
<1>20. CASE UnlinkNotEmpty(p)
  BY <1>20, <1>b, <1>f, <1>g DEF UnlinkNotEmpty
<1>21. CASE UnlinkEntry(p)
  <2> DEFINE dir == IF IsDir(ip[p]) THEN Linked(dp[p], -1) ELSE Seen(dp[p])
  <2>1. /\ Ilock(p, "victim") /\ node' = [node EXCEPT ![ip[p]] = Seen(ip[p]), ![dp[p]] = dir]
        /\ dinode' = IF IsDir(ip[p]) THEN [dinode EXCEPT ![dp[p]] = dir] ELSE dinode
        /\ valid' = [valid EXCEPT ![ip[p]] = TRUE]
    BY <1>21 DEF UnlinkEntry
  <2>2. /\ ip[p] \in Inode /\ dp[p] \in Inode /\ dp[p] # ip[p] /\ Seen(ip[p]) = dinode[ip[p]]
        /\ dinode[ip[p]].type # "free" /\ dinode[dp[p]].type # "free"
    BY <1>f, <1>c, <2>1
  <2>3. ~IsDir(ip[p]) => dir = dinode[dp[p]]
    BY <1>f, <2>1
  <2> HIDE DEF dir
  <2> QED
    BY <1>g, <2>1, <2>2, <2>3
<1>22. CASE Unlink(p)
  BY <1>22, <1>b, <1>f, <1>g DEF Unlink, Linked
<1>23. CASE CreateFind(p)
  BY <1>23, <1>b, <1>f, <1>g DEF CreateFind
<1>24. ASSUME NEW i \in Inode, CreateAlloc(p, i) PROVE Copied(p)
  BY <1>24, <1>f, <1>c, <1>g DEF CreateAlloc, Alloced, FreeInodes, Ilock
<1>25. CASE CreateNoInode(p)
  BY <1>25, <1>b, <1>f, <1>g DEF CreateNoInode
<1>26. CASE CreateNew(p)
  <2> DEFINE new == [Seen(ip[p]) EXCEPT !.nlink = 1]
             dir == IF Kind(p) = "dir" THEN Linked(dp[p], 1) ELSE Seen(dp[p])
  <2>1. /\ Ilock(p, "new") /\ dinode' = [dinode EXCEPT ![ip[p]] = new, ![dp[p]] = dir]
        /\ node' = [node EXCEPT ![ip[p]] = new, ![dp[p]] = dir] /\ valid' = [valid EXCEPT ![ip[p]] = TRUE]
    BY <1>26 DEF CreateNew
  <2>2. ip[p] \in Inode /\ dp[p] \in Inode /\ dinode[ip[p]].type # "free" /\ dinode[dp[p]].type # "free"
    BY <1>f, <2>1
  <2> HIDE DEF new, dir
  <2> QED
    BY <1>g, <2>1, <2>2
<1>27. CASE CreateFails(p)
  BY <1>27, <1>b, <1>f, <1>g DEF CreateFails
<1>28. CASE OpenCreated(p)
  BY <1>28, <1>b, <1>f, <1>g DEF OpenCreated, OpenFile, Ready, Ready
<1>29. CASE PutCreated(p)
  BY <1>29, <1>b, <1>f, <1>g DEF PutCreated, Ready
<1>30. CASE Close(p)
  BY <1>30, <1>b, <1>f, <1>g DEF Close, FileClose
<1>31. CASE Exit(p)
  BY <1>31, <1>b, <1>f, <1>g DEF Exit, FileClose
<1>32. CASE ExitPut(p)
  BY <1>32, <1>b, <1>f, <1>g DEF ExitPut
<1>33. ASSUME NEW c \in Calls, Call(p, c) PROVE Copied(p)
  BY <1>33, <1>b, <1>f, <1>g DEF Call
<1> QED
  BY <1>1, <1>2, <1>3, <1>4, <1>5, <1>6, <1>7, <1>8, <1>9, <1>10, <1>11, <1>12, <1>13,
     <1>14, <1>15, <1>16, <1>17, <1>18, <1>19, <1>20, <1>21, <1>22, <1>23, <1>24, <1>25,
     <1>26, <1>27, <1>28, <1>29, <1>30, <1>31, <1>32, <1>33
     DEF Step, Namex, IputStep, NameCall, UnlinkStep, CreateStep

(* An inode stops to be one that is going when its copy is marked invalid.  *)
Ends(p) == pc[p] = "invalidate" => put[p] \in Inode /\ valid'[put[p]] = FALSE
LEMMA EndsStep ==
    ASSUME TypeOK, Locals, Locks, Coherent, NEW p \in Proc, Step(p)
    PROVE  Ends(p)
<1>a. pc[p] = "invalidate" => put[p] \in Inode
  BY Cleared DEF Clear
<1>b. valid \in [Inode -> BOOLEAN]
  BY DEF TypeOK, TableOK
<1> USE DEF Ends, Ilock, Set, Goto
<1>1. CASE WalkStep(p)
  BY <1>1 DEF WalkStep
<1>2. CASE WalkParent(p)
  BY <1>2 DEF WalkParent
<1>3. CASE WalkFails(p)
  BY <1>3 DEF WalkFails
<1>4. CASE DropRef(p)
  BY <1>4 DEF DropRef
<1>5. CASE LockLast(p)
  BY <1>5 DEF LockLast
<1>6. CASE Truncate(p)
  BY <1>6 DEF Truncate
<1>7. CASE Invalidate(p)
  BY <1>7, <1>a, <1>b DEF Invalidate, Invalid
<1>8. CASE Open(p)
  BY <1>8 DEF Open, OpenFile
<1>9. CASE UnlockPut(p)
  BY <1>9 DEF UnlockPut
<1>10. CASE Chdir(p)
  BY <1>10 DEF Chdir
<1>11. CASE LinkOld(p)
  BY <1>11 DEF LinkOld
<1>12. CASE LinkTaken(p)
  BY <1>12 DEF LinkTaken
<1>13. CASE LinkNoRoom(p)
  BY <1>13 DEF LinkNoRoom
<1>14. CASE LinkNew(p)
  BY <1>14 DEF LinkNew
<1>15. CASE PutIp(p)
  BY <1>15 DEF PutIp
<1>16. CASE LinkUndo(p)
  BY <1>16 DEF LinkUndo
<1>17. CASE PutParent(p)
  BY <1>17 DEF PutParent
<1>18. CASE UnlinkFind(p)
  BY <1>18 DEF UnlinkFind
<1>19. CASE UnlinkFails(p)
  BY <1>19 DEF UnlinkFails
<1>20. CASE UnlinkNotEmpty(p)
  BY <1>20 DEF UnlinkNotEmpty
<1>21. CASE UnlinkEntry(p)
  BY <1>21 DEF UnlinkEntry
<1>22. CASE Unlink(p)
  BY <1>22 DEF Unlink
<1>23. CASE CreateFind(p)
  BY <1>23 DEF CreateFind
<1>24. ASSUME NEW i \in Inode, CreateAlloc(p, i) PROVE Ends(p)
  BY <1>24 DEF CreateAlloc
<1>25. CASE CreateNoInode(p)
  BY <1>25 DEF CreateNoInode
<1>26. CASE CreateNew(p)
  BY <1>26 DEF CreateNew
<1>27. CASE CreateFails(p)
  BY <1>27 DEF CreateFails
<1>28. CASE OpenCreated(p)
  BY <1>28 DEF OpenCreated, OpenFile, Ready, Ready
<1>29. CASE PutCreated(p)
  BY <1>29 DEF PutCreated, Ready
<1>30. CASE Close(p)
  BY <1>30 DEF Close, FileClose
<1>31. CASE Exit(p)
  BY <1>31 DEF Exit, FileClose
<1>32. CASE ExitPut(p)
  BY <1>32 DEF ExitPut
<1>33. ASSUME NEW c \in Calls, Call(p, c) PROVE Ends(p)
  BY <1>33 DEF Call
<1> QED
  BY <1>1, <1>2, <1>3, <1>4, <1>5, <1>6, <1>7, <1>8, <1>9, <1>10, <1>11, <1>12, <1>13,
     <1>14, <1>15, <1>16, <1>17, <1>18, <1>19, <1>20, <1>21, <1>22, <1>23, <1>24, <1>25,
     <1>26, <1>27, <1>28, <1>29, <1>30, <1>31, <1>32, <1>33
     DEF Step, Namex, IputStep, NameCall, UnlinkStep, CreateStep


LEMMA CoherentStep ==
    ASSUME TypeOK, Locals, Locks, Coherent, Settled, NEW p \in Proc, Step(p)
    PROVE  Coherent'
<1> SUFFICES ASSUME NEW i \in Inode, valid'[i], ~Going(i)'
             PROVE  node'[i] = dinode'[i] /\ dinode'[i].type # "free"
  BY DEF Coherent
<1>1. Ends(p) /\ Copied(p) /\ TypesKept(p)
  BY EndsStep, CopiedStep, TypesStep
<1>2. ~Going(i)
  <2> SUFFICES ASSUME NEW q \in Proc, pc[q] = "invalidate", put[q] = i PROVE FALSE
    BY DEF Going
  <2>1. CASE q = p
    BY <1>1, <2>1 DEF Ends
  <2>2. CASE q # p
    BY <2>2, Elsewhere DEF Same, Going
  <2> QED
    BY <2>1, <2>2
<1>3. ~Freed(p, i)
  BY DEF Freed, Going
<1>4. ~(Alloced(p, i) /\ valid[i])
  BY <1>2 DEF Alloced, Coherent
<1>5. valid[i] => node[i] = dinode[i] /\ dinode[i].type # "free"
  BY <1>2 DEF Coherent
<1>6. dinode[i].type # "free" => dinode'[i].type # "free"
  BY <1>1, <1>3 DEF TypesKept, Alloced
<1> QED
  BY <1>1, <1>3, <1>4, <1>5, <1>6 DEF Copied

-----------------------------------------------------------------------------
(* How entries change: all of an inode that is freed go; link and create    *)
(* write one, in a directory where the name is not; unlink clears one.      *)
Truncated(p, d)   == pc[p] = "trunc" /\ d = put[p] /\ lock[d] = p /\ \A n \in Name : ent'[d][n] = None
NamedAt(p, d, n) ==
    /\ d = dp[p] /\ n = NextName(p) /\ ent'[d][n] = ip[p] /\ ip[p] \in Inode /\ pc'[p] = "put"
    /\ \/ pc[p] = "parent" /\ lock[d] = None /\ Target(p) /\ ent[d][n] = None
       \/ pc[p] = "new" /\ lock[d] = p
Unnamed(p, d, n) == /\ pc[p] = "victim" /\ d = dp[p] /\ lock[d] = p /\ n = NextName(p)
                    /\ ent'[d][n] = None
EntriesMove(p) == \A d \in Inode, n \in Name :
    ent'[d][n] = ent[d][n] \/ Truncated(p, d) \/ NamedAt(p, d, n) \/ Unnamed(p, d, n)

LEMMA EntriesStep ==
    ASSUME TypeOK, Locals, Locks, Coherent, Settled, NEW p \in Proc, Step(p)
    PROVE  EntriesMove(p)
<1>a. Clear(p)
  BY Cleared
<1>b. /\ Ilock(p, "parent") => pc[p] = "parent" /\ dp[p] \in Inode /\ lock[dp[p]] = None
      /\ Ilock(p, "new") => pc[p] = "new" /\ ip[p] \in Inode /\ dp[p] \in Inode /\ lock[dp[p]] = p
      /\ Ilock(p, "victim") => pc[p] = "victim" /\ dp[p] \in Inode /\ lock[dp[p]] = p
      /\ pc[p] = "trunc" => put[p] \in Inode /\ lock[put[p]] = p
  BY <1>a DEF Clear, True, IpPlaces, Loc, InPut, LockedDp, Ilock
<1>c. /\ DOMAIN pc = Proc /\ ent \in [Inode -> [Name -> Ptr]] /\ up \in [Inode -> Inode]
      /\ None \notin Inode
  BY NoneNotPtr DEF TypeOK, ProcsOK, DiskOK
<1>d. pc[p] = "parent" /\ call[p].op = "link" => ip[p] \in Inode /\ Target(p)
  <2>1. LocalsAt(p) /\ CallAt(p) /\ ip[p] \in Ptr
    BY DEF Locals, TypeOK, ProcsOK
  <2> QED
    BY <2>1, <1>c DEF CallAt, Target, Loc, InPut, Ptr
<1>e. \A d \in Inode, n \in Name : Entry(d, n) = None => ent[d][n] = None
  BY <1>c DEF Entry
<1> USE DEF Goto, Set, Iput, Iget, Load, Update, Return, Resume, disk, table, files, local,
           iput, EntriesMove
<1>1. CASE WalkStep(p)
  BY <1>1 DEF WalkStep
<1>2. CASE WalkParent(p)
  BY <1>2 DEF WalkParent
<1>3. CASE WalkFails(p)
  BY <1>3 DEF WalkFails
<1>4. CASE DropRef(p)
  BY <1>4 DEF DropRef
<1>5. CASE LockLast(p)
  BY <1>5 DEF LockLast
<1>6. CASE Truncate(p)
  BY <1>6, <1>b, <1>c DEF Truncate, Truncated, NoEntries
<1>7. CASE Invalidate(p)
  BY <1>7 DEF Invalidate
<1>8. CASE Open(p)
  BY <1>8 DEF Open, OpenFile
<1>9. CASE UnlockPut(p)
  BY <1>9 DEF UnlockPut
<1>10. CASE Chdir(p)
  BY <1>10 DEF Chdir
<1>11. CASE LinkOld(p)
  BY <1>11 DEF LinkOld
<1>12. CASE LinkTaken(p)
  BY <1>12 DEF LinkTaken
<1>13. CASE LinkNoRoom(p)
  BY <1>13 DEF LinkNoRoom
<1>14. CASE LinkNew(p)
  BY <1>14, <1>b, <1>c, <1>d, <1>e DEF LinkNew, NamedAt
<1>15. CASE PutIp(p)
  BY <1>15 DEF PutIp
<1>16. CASE LinkUndo(p)
  BY <1>16 DEF LinkUndo
<1>17. CASE PutParent(p)
  BY <1>17 DEF PutParent
<1>18. CASE UnlinkFind(p)
  BY <1>18 DEF UnlinkFind
<1>19. CASE UnlinkFails(p)
  BY <1>19 DEF UnlinkFails
<1>20. CASE UnlinkNotEmpty(p)
  BY <1>20 DEF UnlinkNotEmpty
<1>21. CASE UnlinkEntry(p)
  BY <1>21, <1>b, <1>c DEF UnlinkEntry, Unnamed
<1>22. CASE Unlink(p)
  BY <1>22 DEF Unlink
<1>23. CASE CreateFind(p)
  BY <1>23 DEF CreateFind
<1>24. ASSUME NEW i \in Inode, CreateAlloc(p, i) PROVE EntriesMove(p)
  BY <1>24 DEF CreateAlloc
<1>25. CASE CreateNoInode(p)
  BY <1>25 DEF CreateNoInode
<1>26. CASE CreateNew(p)
  BY <1>26, <1>b, <1>c DEF CreateNew, NamedAt
<1>27. CASE CreateFails(p)
  BY <1>27 DEF CreateFails
<1>28. CASE OpenCreated(p)
  BY <1>28 DEF OpenCreated, OpenFile, Ready
<1>29. CASE PutCreated(p)
  BY <1>29 DEF PutCreated
<1>30. CASE Close(p)
  BY <1>30 DEF Close, FileClose
<1>31. CASE Exit(p)
  BY <1>31 DEF Exit, FileClose
<1>32. CASE ExitPut(p)
  BY <1>32 DEF ExitPut
<1>33. ASSUME NEW c \in Calls, Call(p, c) PROVE EntriesMove(p)
  BY <1>33 DEF Call
<1> QED
  BY <1>1, <1>2, <1>3, <1>4, <1>5, <1>6, <1>7, <1>8, <1>9, <1>10, <1>11, <1>12, <1>13,
     <1>14, <1>15, <1>16, <1>17, <1>18, <1>19, <1>20, <1>21, <1>22, <1>23, <1>24, <1>25,
     <1>26, <1>27, <1>28, <1>29, <1>30, <1>31, <1>32, <1>33
     DEF Step, Namex, IputStep, NameCall, UnlinkStep, CreateStep

-----------------------------------------------------------------------------
(* How a process comes to what it relies on: a directory that it has locked *)
(* and seen to be one, a file that it links, an inode that it took or       *)
(* locked, the entry that it found.                                         *)
DirMoves(p) == dp'[p] # None =>
    \/ dp'[p] = dp[p]
    \/ cur[p] \in Inode /\ dp'[p] = cur[p] /\ dinode[cur[p]].type = "dir" /\ lock[cur[p]] = None
TargetMoves(p) == Target(p)' =>
    /\ ip'[p] = ip[p]
    /\ Target(p) \/ (ip[p] \in Inode /\ dinode[ip[p]].type = "file" /\ lock[ip[p]] = None)
NewMoves(p) == Loc(p)' = "new" =>
    /\ Alloced(p, ip'[p]) /\ ip'[p] \in Inode /\ dp' = dp /\ dp[p] \in Inode /\ ent' = ent
    /\ UNCHANGED <<cur, cwd>>
    /\ NextName(p) \in Name /\ ent[dp[p]][NextName(p)] = None
LockedMoves(p) == Loc(p)' \in LockedIp =>
    /\ ip'[p] = ip[p]
    /\ Loc(p) \in LockedIp \/ (ip[p] \in Inode /\ lock[ip[p]] = None /\ dinode[ip[p]].type # "free")
VictimMoves(p) == pc'[p] = "victim" =>
    /\ dp' = dp /\ dp[p] \in Inode /\ call' = call /\ ent' = ent
    /\ NextName(p) \in Name /\ ent[dp[p]][NextName(p)] = ip'[p]
TruncMoves(p) == pc'[p] = "trunc" =>
    /\ pc[p] = "put" /\ put[p] \in Inode /\ put' = put /\ ret' = ret /\ UNCHANGED <<disk, local, call, ref>>
    /\ ref[put[p]] = 1 /\ dinode[put[p]].type # "free" /\ dinode[put[p]].nlink = 0
FirmMoves(p) == /\ DirMoves(p) /\ TargetMoves(p) /\ NewMoves(p)
                /\ LockedMoves(p) /\ VictimMoves(p) /\ TruncMoves(p)

LEMMA DirStep ==
    ASSUME TypeOK, Locals, Locks, Coherent, Settled, NEW p \in Proc, Step(p)
    PROVE  DirMoves(p)
<1>a. Clear(p) /\ LockedAt(p) /\ AtName(p) /\ LocalsAt(p) /\ CallAt(p)
  BY Cleared, Ilocked, Named DEF Locals
<1>c. /\ DOMAIN pc = Proc /\ DOMAIN ret = Proc /\ DOMAIN put = Proc /\ DOMAIN cur = Proc
      /\ DOMAIN ip = Proc /\ DOMAIN dp = Proc /\ DOMAIN call = Proc
      /\ cur[p] \in Ptr /\ dp[p] \in Ptr /\ ip[p] \in Ptr /\ put[p] \in Ptr
      /\ pc[p] \in Places \cup InPut
  BY DEF TypeOK, ProcsOK
<1>d. None \notin Inode
  BY NoneNotPtr
<1>f. /\ Ilock(p, "walk") => /\ pc[p] = "walk" /\ cur[p] \in Inode /\ lock[cur[p]] = None
                             /\ Seen(cur[p]) = dinode[cur[p]] /\ ip[p] \in Ptr
      /\ Ilock(p, "parent") => pc[p] = "parent" /\ dp[p] \in Inode
      /\ \A s \in {"found", "exists", "new", "victim", "bad"} :
            Ilock(p, s) => /\ pc[p] = s /\ ip[p] \in Inode /\ lock[ip[p]] = None
                           /\ dinode[ip[p]].type # "free" /\ Seen(ip[p]) = dinode[ip[p]]
  BY <1>a, <1>c DEF LockedAt, Clear, True, IpPlaces
<1>g. LocalsAt(p) /\ CallAt(p)
  BY <1>a
<1>h. dinode \in [Inode -> Dinode]
  BY DEF TypeOK, DiskOK
<1> USE DEF Goto, Set, Iput, Iget, Load, Update, Return, Resume, disk, table, files, local,
           iput, DirMoves
<1>1. CASE WalkStep(p)
  BY <1>1, <1>c, <1>f DEF WalkStep
<1>2. CASE WalkParent(p)
  BY <1>2, <1>c, <1>f DEF WalkParent, IsDir
<1>3. CASE WalkFails(p)
  BY <1>3, <1>c, <1>f DEF WalkFails
<1>4. CASE DropRef(p)
  BY <1>4, <1>c, <1>f DEF DropRef
<1>5. CASE LockLast(p)
  BY <1>5, <1>c, <1>f DEF LockLast
<1>6. CASE Truncate(p)
  BY <1>6, <1>c, <1>f DEF Truncate
<1>7. CASE Invalidate(p)
  BY <1>7, <1>c, <1>f DEF Invalidate
<1>8. CASE Open(p)
  BY <1>8, <1>c, <1>f DEF Open, OpenFile
<1>9. CASE UnlockPut(p)
  BY <1>9, <1>c, <1>f DEF UnlockPut
<1>10. CASE Chdir(p)
  BY <1>10, <1>c, <1>f DEF Chdir
<1>11. CASE LinkOld(p)
  BY <1>11, <1>c, <1>f DEF LinkOld
<1>12. CASE LinkTaken(p)
  BY <1>12, <1>c, <1>f DEF LinkTaken
<1>13. CASE LinkNoRoom(p)
  BY <1>13, <1>c, <1>f DEF LinkNoRoom
<1>14. CASE LinkNew(p)
  BY <1>14, <1>c, <1>f DEF LinkNew
<1>15. CASE PutIp(p)
  BY <1>15, <1>c, <1>f DEF PutIp
<1>16. CASE LinkUndo(p)
  BY <1>16, <1>c, <1>f DEF LinkUndo
<1>17. CASE PutParent(p)
  BY <1>17, <1>c, <1>f DEF PutParent
<1>18. CASE UnlinkFind(p)
  BY <1>18, <1>c, <1>f DEF UnlinkFind
<1>19. CASE UnlinkFails(p)
  BY <1>19, <1>c, <1>f DEF UnlinkFails
<1>20. CASE UnlinkNotEmpty(p)
  BY <1>20, <1>c, <1>f DEF UnlinkNotEmpty
<1>21. CASE UnlinkEntry(p)
  BY <1>21, <1>c, <1>f DEF UnlinkEntry
<1>22. CASE Unlink(p)
  BY <1>22, <1>c, <1>f DEF Unlink
<1>23. CASE CreateFind(p)
  BY <1>23, <1>c, <1>f DEF CreateFind
<1>24. ASSUME NEW i \in Inode, CreateAlloc(p, i) PROVE DirMoves(p)
  BY <1>24, <1>c, <1>f DEF CreateAlloc
<1>25. CASE CreateNoInode(p)
  BY <1>25, <1>c, <1>f DEF CreateNoInode
<1>26. CASE CreateNew(p)
  BY <1>26, <1>c, <1>f DEF CreateNew
<1>27. CASE CreateFails(p)
  BY <1>27, <1>c, <1>f DEF CreateFails
<1>28. CASE OpenCreated(p)
  BY <1>28, <1>c, <1>f DEF OpenCreated, OpenFile, Ready
<1>29. CASE PutCreated(p)
  BY <1>29, <1>c, <1>f DEF PutCreated
<1>30. CASE Close(p)
  BY <1>30, <1>c, <1>f DEF Close, FileClose
<1>31. CASE Exit(p)
  BY <1>31, <1>c, <1>f DEF Exit, FileClose
<1>32. CASE ExitPut(p)
  BY <1>32, <1>c, <1>f DEF ExitPut
<1>33. ASSUME NEW c \in Calls, Call(p, c) PROVE DirMoves(p)
  BY <1>33, <1>c, <1>f DEF Call
<1> QED
  BY <1>1, <1>2, <1>3, <1>4, <1>5, <1>6, <1>7, <1>8, <1>9, <1>10, <1>11, <1>12, <1>13,
     <1>14, <1>15, <1>16, <1>17, <1>18, <1>19, <1>20, <1>21, <1>22, <1>23, <1>24, <1>25,
     <1>26, <1>27, <1>28, <1>29, <1>30, <1>31, <1>32, <1>33
     DEF Step, Namex, IputStep, NameCall, UnlinkStep, CreateStep

LEMMA TargetStep ==
    ASSUME TypeOK, Locals, Locks, Coherent, Settled, NEW p \in Proc, Step(p)
    PROVE  TargetMoves(p)
<1>a. Clear(p) /\ LockedAt(p) /\ AtName(p) /\ LocalsAt(p) /\ CallAt(p)
  BY Cleared, Ilocked, Named DEF Locals
<1>c. /\ DOMAIN pc = Proc /\ DOMAIN ret = Proc /\ DOMAIN put = Proc /\ DOMAIN cur = Proc
      /\ DOMAIN ip = Proc /\ DOMAIN dp = Proc /\ DOMAIN call = Proc
      /\ cur[p] \in Ptr /\ dp[p] \in Ptr /\ ip[p] \in Ptr /\ put[p] \in Ptr
      /\ pc[p] \in Places \cup InPut
  BY DEF TypeOK, ProcsOK
<1>d. None \notin Inode
  BY NoneNotPtr
<1>f. /\ Ilock(p, "walk") => /\ pc[p] = "walk" /\ cur[p] \in Inode /\ lock[cur[p]] = None
                             /\ Seen(cur[p]) = dinode[cur[p]] /\ ip[p] \in Ptr
      /\ Ilock(p, "parent") => pc[p] = "parent" /\ dp[p] \in Inode
      /\ \A s \in {"found", "exists", "new", "victim", "bad"} :
            Ilock(p, s) => /\ pc[p] = s /\ ip[p] \in Inode /\ lock[ip[p]] = None
                           /\ dinode[ip[p]].type # "free" /\ Seen(ip[p]) = dinode[ip[p]]
  BY <1>a, <1>c DEF LockedAt, Clear, True, IpPlaces
<1>g. LocalsAt(p) /\ CallAt(p)
  BY <1>a
<1>h. dinode \in [Inode -> Dinode]
  BY DEF TypeOK, DiskOK
<1> USE DEF Goto, Set, Iput, Iget, Load, Update, Return, Resume, disk, table, files, local,
           iput, TargetMoves, Target, Loc, InPut, Places, LocalsAt, WithDp, WithIp
<1>1. CASE WalkStep(p)
  BY <1>1, <1>c, <1>d, <1>f, <1>g DEF WalkStep, WantsParent, Last, LinkTarget
<1>2. CASE WalkParent(p)
  BY <1>2, <1>c, <1>d, <1>f, <1>g DEF WalkParent
<1>3. CASE WalkFails(p)
  BY <1>3, <1>c, <1>d, <1>f, <1>g DEF WalkFails, Fail, LinkTarget
<1>4. CASE DropRef(p)
  BY <1>4, <1>c, <1>d, <1>f, <1>g DEF DropRef
<1>5. CASE LockLast(p)
  BY <1>5, <1>c, <1>d, <1>f, <1>g DEF LockLast
<1>6. CASE Truncate(p)
  BY <1>6, <1>c, <1>d, <1>f, <1>g DEF Truncate
<1>7. CASE Invalidate(p)
  BY <1>7, <1>c, <1>d, <1>f, <1>g DEF Invalidate
<1>8. CASE Open(p)
  BY <1>8, <1>c, <1>d, <1>f, <1>g DEF Open, OpenFile
<1>9. CASE UnlockPut(p)
  BY <1>9, <1>c, <1>d, <1>f, <1>g DEF UnlockPut
<1>10. CASE Chdir(p)
  BY <1>10, <1>c, <1>d, <1>f, <1>g DEF Chdir
<1>11. CASE LinkOld(p)
  BY <1>11, <1>c, <1>d, <1>f, <1>g, <1>h DEF LinkOld, IsDir, Dinode
<1>12. CASE LinkTaken(p)
  BY <1>12, <1>c, <1>d, <1>f, <1>g DEF LinkTaken
<1>13. CASE LinkNoRoom(p)
  BY <1>13, <1>c, <1>d, <1>f, <1>g DEF LinkNoRoom
<1>14. CASE LinkNew(p)
  BY <1>14, <1>c, <1>d, <1>f, <1>g DEF LinkNew
<1>15. CASE PutIp(p)
  BY <1>15, <1>c, <1>d, <1>f, <1>g DEF PutIp
<1>16. CASE LinkUndo(p)
  BY <1>16, <1>c, <1>d, <1>f, <1>g DEF LinkUndo
<1>17. CASE PutParent(p)
  BY <1>17, <1>c, <1>d, <1>f, <1>g DEF PutParent
<1>18. CASE UnlinkFind(p)
  BY <1>18, <1>c, <1>d, <1>f, <1>g DEF UnlinkFind
<1>19. CASE UnlinkFails(p)
  BY <1>19, <1>c, <1>d, <1>f, <1>g DEF UnlinkFails
<1>20. CASE UnlinkNotEmpty(p)
  BY <1>20, <1>c, <1>d, <1>f, <1>g DEF UnlinkNotEmpty
<1>21. CASE UnlinkEntry(p)
  BY <1>21, <1>c, <1>d, <1>f, <1>g DEF UnlinkEntry
<1>22. CASE Unlink(p)
  BY <1>22, <1>c, <1>d, <1>f, <1>g DEF Unlink
<1>23. CASE CreateFind(p)
  BY <1>23, <1>c, <1>d, <1>f, <1>g DEF CreateFind
<1>24. ASSUME NEW i \in Inode, CreateAlloc(p, i) PROVE TargetMoves(p)
  BY <1>24, <1>c, <1>d, <1>f, <1>g DEF CreateAlloc
<1>25. CASE CreateNoInode(p)
  BY <1>25, <1>c, <1>d, <1>f, <1>g DEF CreateNoInode
<1>26. CASE CreateNew(p)
  BY <1>26, <1>c, <1>d, <1>f, <1>g DEF CreateNew
<1>27. CASE CreateFails(p)
  BY <1>27, <1>c, <1>d, <1>f, <1>g DEF CreateFails
<1>28. CASE OpenCreated(p)
  BY <1>28, <1>c, <1>d, <1>f, <1>g DEF OpenCreated, OpenFile, Ready
<1>29. CASE PutCreated(p)
  BY <1>29, <1>c, <1>d, <1>f, <1>g DEF PutCreated
<1>30. CASE Close(p)
  BY <1>30, <1>c, <1>d, <1>f, <1>g DEF Close, FileClose
<1>31. CASE Exit(p)
  BY <1>31, <1>c, <1>d, <1>f, <1>g DEF Exit, FileClose
<1>32. CASE ExitPut(p)
  BY <1>32, <1>c, <1>d, <1>f, <1>g DEF ExitPut
<1>33. ASSUME NEW c \in Calls, Call(p, c) PROVE TargetMoves(p)
  BY <1>33, <1>c, <1>d, <1>f, <1>g DEF Call
<1> QED
  BY <1>1, <1>2, <1>3, <1>4, <1>5, <1>6, <1>7, <1>8, <1>9, <1>10, <1>11, <1>12, <1>13,
     <1>14, <1>15, <1>16, <1>17, <1>18, <1>19, <1>20, <1>21, <1>22, <1>23, <1>24, <1>25,
     <1>26, <1>27, <1>28, <1>29, <1>30, <1>31, <1>32, <1>33
     DEF Step, Namex, IputStep, NameCall, UnlinkStep, CreateStep

LEMMA NewStep ==
    ASSUME TypeOK, Locals, Locks, Coherent, Settled, NEW p \in Proc, Step(p)
    PROVE  NewMoves(p)
<1>a. Clear(p) /\ LockedAt(p) /\ AtName(p) /\ LocalsAt(p) /\ CallAt(p)
  BY Cleared, Ilocked, Named DEF Locals
<1>c. /\ DOMAIN pc = Proc /\ DOMAIN ret = Proc /\ DOMAIN put = Proc /\ DOMAIN cur = Proc
      /\ DOMAIN ip = Proc /\ DOMAIN dp = Proc /\ DOMAIN call = Proc
      /\ cur[p] \in Ptr /\ dp[p] \in Ptr /\ ip[p] \in Ptr /\ put[p] \in Ptr
      /\ pc[p] \in Places \cup InPut
  BY DEF TypeOK, ProcsOK
<1>d. None \notin Inode
  BY NoneNotPtr
<1>f. /\ Ilock(p, "walk") => /\ pc[p] = "walk" /\ cur[p] \in Inode /\ lock[cur[p]] = None
                             /\ Seen(cur[p]) = dinode[cur[p]] /\ ip[p] \in Ptr
      /\ Ilock(p, "parent") => pc[p] = "parent" /\ dp[p] \in Inode
      /\ \A s \in {"found", "exists", "new", "victim", "bad"} :
            Ilock(p, s) => /\ pc[p] = s /\ ip[p] \in Inode /\ lock[ip[p]] = None
                           /\ dinode[ip[p]].type # "free" /\ Seen(ip[p]) = dinode[ip[p]]
  BY <1>a, <1>c DEF LockedAt, Clear, True, IpPlaces
<1>g. LocalsAt(p) /\ CallAt(p)
  BY <1>a
<1>h. dinode \in [Inode -> Dinode]
  BY DEF TypeOK, DiskOK
<1>i. /\ ent \in [Inode -> [Name -> Ptr]] /\ up \in [Inode -> Inode] /\ dinode \in [Inode -> Dinode]
  BY DEF TypeOK, DiskOK
<1>j. Ilock(p, "parent") /\ Entry(dp[p], NextName(p)) = None =>
         /\ NextName(p) \in Name /\ ent[dp[p]][NextName(p)] = None /\ dp[p] \in Inode
         /\ \A d \in Dinode : [dinode EXCEPT ![dp[p]] = d] \in [Inode -> Dinode]
         /\ dinode \in [Inode -> Dinode]
  <2> SUFFICES ASSUME pc[p] = "parent", dp[p] \in Inode, Entry(dp[p], NextName(p)) = None
               PROVE  NextName(p) \in Name /\ ent[dp[p]][NextName(p)] = None
    BY <1>f, <1>i
  <2>1. NextName(p) \in Elem
    BY <1>a DEF AtName, Loc, InPut
  <2> QED
    BY <2>1, <1>d, <1>i DEF Entry, Elem
<1> USE DEF Goto, Set, Iput, Iget, Load, Update, Return, Resume, disk, table, files, local,
           iput, NewMoves, Loc, InPut, Places, LocalsAt
<1>1. CASE WalkStep(p)
  BY <1>1, <1>c, <1>d, <1>f, <1>g DEF WalkStep
<1>2. CASE WalkParent(p)
  BY <1>2, <1>c, <1>d, <1>f, <1>g DEF WalkParent
<1>3. CASE WalkFails(p)
  BY <1>3, <1>c, <1>d, <1>f, <1>g DEF WalkFails, Fail
<1>4. CASE DropRef(p)
  BY <1>4, <1>c, <1>d, <1>f, <1>g DEF DropRef
<1>5. CASE LockLast(p)
  BY <1>5, <1>c, <1>d, <1>f, <1>g DEF LockLast
<1>6. CASE Truncate(p)
  BY <1>6, <1>c, <1>d, <1>f, <1>g DEF Truncate
<1>7. CASE Invalidate(p)
  BY <1>7, <1>c, <1>d, <1>f, <1>g DEF Invalidate
<1>8. CASE Open(p)
  BY <1>8, <1>c, <1>d, <1>f, <1>g DEF Open, OpenFile
<1>9. CASE UnlockPut(p)
  BY <1>9, <1>c, <1>d, <1>f, <1>g DEF UnlockPut
<1>10. CASE Chdir(p)
  BY <1>10, <1>c, <1>d, <1>f, <1>g DEF Chdir
<1>11. CASE LinkOld(p)
  BY <1>11, <1>c, <1>d, <1>f, <1>g DEF LinkOld
<1>12. CASE LinkTaken(p)
  BY <1>12, <1>c, <1>d, <1>f, <1>g DEF LinkTaken
<1>13. CASE LinkNoRoom(p)
  BY <1>13, <1>c, <1>d, <1>f, <1>g DEF LinkNoRoom
<1>14. CASE LinkNew(p)
  BY <1>14, <1>c, <1>d, <1>f, <1>g DEF LinkNew
<1>15. CASE PutIp(p)
  BY <1>15, <1>c, <1>d, <1>f, <1>g DEF PutIp
<1>16. CASE LinkUndo(p)
  BY <1>16, <1>c, <1>d, <1>f, <1>g DEF LinkUndo
<1>17. CASE PutParent(p)
  BY <1>17, <1>c, <1>d, <1>f, <1>g DEF PutParent
<1>18. CASE UnlinkFind(p)
  BY <1>18, <1>c, <1>d, <1>f, <1>g DEF UnlinkFind
<1>19. CASE UnlinkFails(p)
  BY <1>19, <1>c, <1>d, <1>f, <1>g DEF UnlinkFails
<1>20. CASE UnlinkNotEmpty(p)
  BY <1>20, <1>c, <1>d, <1>f, <1>g DEF UnlinkNotEmpty
<1>21. CASE UnlinkEntry(p)
  BY <1>21, <1>c, <1>d, <1>f, <1>g DEF UnlinkEntry
<1>22. CASE Unlink(p)
  BY <1>22, <1>c, <1>d, <1>f, <1>g DEF Unlink
<1>23. CASE CreateFind(p)
  BY <1>23, <1>c, <1>d, <1>f, <1>g DEF CreateFind
<1>24. ASSUME NEW i \in Inode, CreateAlloc(p, i) PROVE NewMoves(p)
  BY <1>24, <1>c, <1>d, <1>f, <1>g, <1>j DEF CreateAlloc, Alloced, FreeInodes
<1>25. CASE CreateNoInode(p)
  BY <1>25, <1>c, <1>d, <1>f, <1>g DEF CreateNoInode
<1>26. CASE CreateNew(p)
  BY <1>26, <1>c, <1>d, <1>f, <1>g DEF CreateNew
<1>27. CASE CreateFails(p)
  BY <1>27, <1>c, <1>d, <1>f, <1>g DEF CreateFails
<1>28. CASE OpenCreated(p)
  BY <1>28, <1>c, <1>d, <1>f, <1>g DEF OpenCreated, OpenFile, Ready
<1>29. CASE PutCreated(p)
  BY <1>29, <1>c, <1>d, <1>f, <1>g DEF PutCreated
<1>30. CASE Close(p)
  BY <1>30, <1>c, <1>d, <1>f, <1>g DEF Close, FileClose
<1>31. CASE Exit(p)
  BY <1>31, <1>c, <1>d, <1>f, <1>g DEF Exit, FileClose
<1>32. CASE ExitPut(p)
  BY <1>32, <1>c, <1>d, <1>f, <1>g DEF ExitPut
<1>33. ASSUME NEW c \in Calls, Call(p, c) PROVE NewMoves(p)
  BY <1>33, <1>c, <1>d, <1>f, <1>g DEF Call
<1> QED
  BY <1>1, <1>2, <1>3, <1>4, <1>5, <1>6, <1>7, <1>8, <1>9, <1>10, <1>11, <1>12, <1>13,
     <1>14, <1>15, <1>16, <1>17, <1>18, <1>19, <1>20, <1>21, <1>22, <1>23, <1>24, <1>25,
     <1>26, <1>27, <1>28, <1>29, <1>30, <1>31, <1>32, <1>33
     DEF Step, Namex, IputStep, NameCall, UnlinkStep, CreateStep

LEMMA LockedStep ==
    ASSUME TypeOK, Locals, Locks, Coherent, Settled, NEW p \in Proc, Step(p)
    PROVE  LockedMoves(p)
<1>a. Clear(p) /\ LockedAt(p) /\ AtName(p) /\ LocalsAt(p) /\ CallAt(p)
  BY Cleared, Ilocked, Named DEF Locals
<1>c. /\ DOMAIN pc = Proc /\ DOMAIN ret = Proc /\ DOMAIN put = Proc /\ DOMAIN cur = Proc
      /\ DOMAIN ip = Proc /\ DOMAIN dp = Proc /\ DOMAIN call = Proc
      /\ cur[p] \in Ptr /\ dp[p] \in Ptr /\ ip[p] \in Ptr /\ put[p] \in Ptr
      /\ pc[p] \in Places \cup InPut
  BY DEF TypeOK, ProcsOK
<1>d. None \notin Inode
  BY NoneNotPtr
<1>f. /\ Ilock(p, "walk") => /\ pc[p] = "walk" /\ cur[p] \in Inode /\ lock[cur[p]] = None
                             /\ Seen(cur[p]) = dinode[cur[p]] /\ ip[p] \in Ptr
      /\ Ilock(p, "parent") => pc[p] = "parent" /\ dp[p] \in Inode
      /\ \A s \in {"found", "exists", "new", "victim", "bad"} :
            Ilock(p, s) => /\ pc[p] = s /\ ip[p] \in Inode /\ lock[ip[p]] = None
                           /\ dinode[ip[p]].type # "free" /\ Seen(ip[p]) = dinode[ip[p]]
  BY <1>a, <1>c DEF LockedAt, Clear, True, IpPlaces
<1>g. LocalsAt(p) /\ CallAt(p)
  BY <1>a
<1>h. dinode \in [Inode -> Dinode]
  BY DEF TypeOK, DiskOK
<1> USE DEF Goto, Set, Iput, Iget, Load, Update, Return, Resume, disk, table, files, local,
           iput, LockedMoves, LockedIp, Loc, InPut, Places, LocalsAt
<1>1. CASE WalkStep(p)
  BY <1>1, <1>c, <1>d, <1>f, <1>g DEF WalkStep
<1>2. CASE WalkParent(p)
  BY <1>2, <1>c, <1>d, <1>f, <1>g DEF WalkParent
<1>3. CASE WalkFails(p)
  BY <1>3, <1>c, <1>d, <1>f, <1>g DEF WalkFails, Fail
<1>4. CASE DropRef(p)
  BY <1>4, <1>c, <1>d, <1>f, <1>g DEF DropRef
<1>5. CASE LockLast(p)
  BY <1>5, <1>c, <1>d, <1>f, <1>g DEF LockLast
<1>6. CASE Truncate(p)
  BY <1>6, <1>c, <1>d, <1>f, <1>g DEF Truncate
<1>7. CASE Invalidate(p)
  BY <1>7, <1>c, <1>d, <1>f, <1>g DEF Invalidate
<1>8. CASE Open(p)
  BY <1>8, <1>c, <1>d, <1>f, <1>g DEF Open, OpenFile
<1>9. CASE UnlockPut(p)
  BY <1>9, <1>c, <1>d, <1>f, <1>g DEF UnlockPut
<1>10. CASE Chdir(p)
  BY <1>10, <1>c, <1>d, <1>f, <1>g DEF Chdir
<1>11. CASE LinkOld(p)
  BY <1>11, <1>c, <1>d, <1>f, <1>g DEF LinkOld
<1>12. CASE LinkTaken(p)
  BY <1>12, <1>c, <1>d, <1>f, <1>g DEF LinkTaken
<1>13. CASE LinkNoRoom(p)
  BY <1>13, <1>c, <1>d, <1>f, <1>g DEF LinkNoRoom
<1>14. CASE LinkNew(p)
  BY <1>14, <1>c, <1>d, <1>f, <1>g DEF LinkNew
<1>15. CASE PutIp(p)
  BY <1>15, <1>c, <1>d, <1>f, <1>g DEF PutIp
<1>16. CASE LinkUndo(p)
  BY <1>16, <1>c, <1>d, <1>f, <1>g DEF LinkUndo
<1>17. CASE PutParent(p)
  BY <1>17, <1>c, <1>d, <1>f, <1>g DEF PutParent
<1>18. CASE UnlinkFind(p)
  BY <1>18, <1>c, <1>d, <1>f, <1>g DEF UnlinkFind
<1>19. CASE UnlinkFails(p)
  BY <1>19, <1>c, <1>d, <1>f, <1>g DEF UnlinkFails
<1>20. CASE UnlinkNotEmpty(p)
  BY <1>20, <1>c, <1>d, <1>f, <1>g DEF UnlinkNotEmpty
<1>21. CASE UnlinkEntry(p)
  BY <1>21, <1>c, <1>d, <1>f, <1>g DEF UnlinkEntry
<1>22. CASE Unlink(p)
  BY <1>22, <1>c, <1>d, <1>f, <1>g DEF Unlink
<1>23. CASE CreateFind(p)
  BY <1>23, <1>c, <1>d, <1>f, <1>g DEF CreateFind
<1>24. ASSUME NEW i \in Inode, CreateAlloc(p, i) PROVE LockedMoves(p)
  BY <1>24, <1>c, <1>d, <1>f, <1>g DEF CreateAlloc
<1>25. CASE CreateNoInode(p)
  BY <1>25, <1>c, <1>d, <1>f, <1>g DEF CreateNoInode
<1>26. CASE CreateNew(p)
  BY <1>26, <1>c, <1>d, <1>f, <1>g DEF CreateNew
<1>27. CASE CreateFails(p)
  BY <1>27, <1>c, <1>d, <1>f, <1>g DEF CreateFails
<1>28. CASE OpenCreated(p)
  BY <1>28, <1>c, <1>d, <1>f, <1>g DEF OpenCreated, OpenFile, Ready
<1>29. CASE PutCreated(p)
  BY <1>29, <1>c, <1>d, <1>f, <1>g DEF PutCreated
<1>30. CASE Close(p)
  BY <1>30, <1>c, <1>d, <1>f, <1>g DEF Close, FileClose
<1>31. CASE Exit(p)
  BY <1>31, <1>c, <1>d, <1>f, <1>g DEF Exit, FileClose
<1>32. CASE ExitPut(p)
  BY <1>32, <1>c, <1>d, <1>f, <1>g DEF ExitPut
<1>33. ASSUME NEW c \in Calls, Call(p, c) PROVE LockedMoves(p)
  BY <1>33, <1>c, <1>d, <1>f, <1>g DEF Call
<1> QED
  BY <1>1, <1>2, <1>3, <1>4, <1>5, <1>6, <1>7, <1>8, <1>9, <1>10, <1>11, <1>12, <1>13,
     <1>14, <1>15, <1>16, <1>17, <1>18, <1>19, <1>20, <1>21, <1>22, <1>23, <1>24, <1>25,
     <1>26, <1>27, <1>28, <1>29, <1>30, <1>31, <1>32, <1>33
     DEF Step, Namex, IputStep, NameCall, UnlinkStep, CreateStep

LEMMA VictimStep ==
    ASSUME TypeOK, Locals, Locks, Coherent, Settled, NEW p \in Proc, Step(p)
    PROVE  VictimMoves(p)
<1>a. Clear(p) /\ LockedAt(p) /\ AtName(p) /\ LocalsAt(p) /\ CallAt(p)
  BY Cleared, Ilocked, Named DEF Locals
<1>c. /\ DOMAIN pc = Proc /\ DOMAIN ret = Proc /\ DOMAIN put = Proc /\ DOMAIN cur = Proc
      /\ DOMAIN ip = Proc /\ DOMAIN dp = Proc /\ DOMAIN call = Proc
      /\ cur[p] \in Ptr /\ dp[p] \in Ptr /\ ip[p] \in Ptr /\ put[p] \in Ptr
      /\ pc[p] \in Places \cup InPut
  BY DEF TypeOK, ProcsOK
<1>d. None \notin Inode
  BY NoneNotPtr
<1>f. /\ Ilock(p, "walk") => /\ pc[p] = "walk" /\ cur[p] \in Inode /\ lock[cur[p]] = None
                             /\ Seen(cur[p]) = dinode[cur[p]] /\ ip[p] \in Ptr
      /\ Ilock(p, "parent") => pc[p] = "parent" /\ dp[p] \in Inode
      /\ \A s \in {"found", "exists", "new", "victim", "bad"} :
            Ilock(p, s) => /\ pc[p] = s /\ ip[p] \in Inode /\ lock[ip[p]] = None
                           /\ dinode[ip[p]].type # "free" /\ Seen(ip[p]) = dinode[ip[p]]
  BY <1>a, <1>c DEF LockedAt, Clear, True, IpPlaces
<1>g. LocalsAt(p) /\ CallAt(p)
  BY <1>a
<1>h. dinode \in [Inode -> Dinode]
  BY DEF TypeOK, DiskOK
<1>i. /\ ent \in [Inode -> [Name -> Ptr]] /\ up \in [Inode -> Inode]
  BY DEF TypeOK, DiskOK
<1>j. Ilock(p, "parent") /\ NextName(p) \notin {".", ".."} =>
         NextName(p) \in Name /\ ent[dp[p]][NextName(p)] = Entry(dp[p], NextName(p)) /\ dp[p] \in Inode
  <2> SUFFICES ASSUME pc[p] = "parent", dp[p] \in Inode, NextName(p) \notin {".", ".."}
               PROVE  NextName(p) \in Name /\ ent[dp[p]][NextName(p)] = Entry(dp[p], NextName(p))
    BY <1>f
  <2>1. NextName(p) \in Elem
    BY <1>a DEF AtName, Loc, InPut
  <2> QED
    BY <2>1 DEF Entry, Elem
<1> USE DEF Goto, Set, Iput, Iget, Load, Update, Return, Resume, disk, table, files, local,
           iput, VictimMoves, Loc, InPut, Places, LocalsAt
<1>1. CASE WalkStep(p)
  BY <1>1, <1>c, <1>d, <1>f, <1>g DEF WalkStep
<1>2. CASE WalkParent(p)
  BY <1>2, <1>c, <1>d, <1>f, <1>g DEF WalkParent
<1>3. CASE WalkFails(p)
  BY <1>3, <1>c, <1>d, <1>f, <1>g DEF WalkFails
<1>4. CASE DropRef(p)
  BY <1>4, <1>c, <1>d, <1>f, <1>g DEF DropRef
<1>5. CASE LockLast(p)
  BY <1>5, <1>c, <1>d, <1>f, <1>g DEF LockLast
<1>6. CASE Truncate(p)
  BY <1>6, <1>c, <1>d, <1>f, <1>g DEF Truncate
<1>7. CASE Invalidate(p)
  BY <1>7, <1>c, <1>d, <1>f, <1>g DEF Invalidate
<1>8. CASE Open(p)
  BY <1>8, <1>c, <1>d, <1>f, <1>g DEF Open, OpenFile
<1>9. CASE UnlockPut(p)
  BY <1>9, <1>c, <1>d, <1>f, <1>g DEF UnlockPut
<1>10. CASE Chdir(p)
  BY <1>10, <1>c, <1>d, <1>f, <1>g DEF Chdir
<1>11. CASE LinkOld(p)
  BY <1>11, <1>c, <1>d, <1>f, <1>g DEF LinkOld
<1>12. CASE LinkTaken(p)
  BY <1>12, <1>c, <1>d, <1>f, <1>g DEF LinkTaken
<1>13. CASE LinkNoRoom(p)
  BY <1>13, <1>c, <1>d, <1>f, <1>g DEF LinkNoRoom
<1>14. CASE LinkNew(p)
  BY <1>14, <1>c, <1>d, <1>f, <1>g DEF LinkNew
<1>15. CASE PutIp(p)
  BY <1>15, <1>c, <1>d, <1>f, <1>g DEF PutIp
<1>16. CASE LinkUndo(p)
  BY <1>16, <1>c, <1>d, <1>f, <1>g DEF LinkUndo
<1>17. CASE PutParent(p)
  BY <1>17, <1>c, <1>d, <1>f, <1>g DEF PutParent
<1>18. CASE UnlinkFind(p)
  BY <1>18, <1>c, <1>d, <1>f, <1>g, <1>j DEF UnlinkFind
<1>19. CASE UnlinkFails(p)
  BY <1>19, <1>c, <1>d, <1>f, <1>g DEF UnlinkFails
<1>20. CASE UnlinkNotEmpty(p)
  BY <1>20, <1>c, <1>d, <1>f, <1>g DEF UnlinkNotEmpty
<1>21. CASE UnlinkEntry(p)
  BY <1>21, <1>c, <1>d, <1>f, <1>g DEF UnlinkEntry
<1>22. CASE Unlink(p)
  BY <1>22, <1>c, <1>d, <1>f, <1>g DEF Unlink
<1>23. CASE CreateFind(p)
  BY <1>23, <1>c, <1>d, <1>f, <1>g DEF CreateFind
<1>24. ASSUME NEW i \in Inode, CreateAlloc(p, i) PROVE VictimMoves(p)
  BY <1>24, <1>c, <1>d, <1>f, <1>g DEF CreateAlloc
<1>25. CASE CreateNoInode(p)
  BY <1>25, <1>c, <1>d, <1>f, <1>g DEF CreateNoInode
<1>26. CASE CreateNew(p)
  BY <1>26, <1>c, <1>d, <1>f, <1>g DEF CreateNew
<1>27. CASE CreateFails(p)
  BY <1>27, <1>c, <1>d, <1>f, <1>g DEF CreateFails
<1>28. CASE OpenCreated(p)
  BY <1>28, <1>c, <1>d, <1>f, <1>g DEF OpenCreated, OpenFile, Ready
<1>29. CASE PutCreated(p)
  BY <1>29, <1>c, <1>d, <1>f, <1>g DEF PutCreated
<1>30. CASE Close(p)
  BY <1>30, <1>c, <1>d, <1>f, <1>g DEF Close, FileClose
<1>31. CASE Exit(p)
  BY <1>31, <1>c, <1>d, <1>f, <1>g DEF Exit, FileClose
<1>32. CASE ExitPut(p)
  BY <1>32, <1>c, <1>d, <1>f, <1>g DEF ExitPut
<1>33. ASSUME NEW c \in Calls, Call(p, c) PROVE VictimMoves(p)
  BY <1>33, <1>c, <1>d, <1>f, <1>g DEF Call
<1> QED
  BY <1>1, <1>2, <1>3, <1>4, <1>5, <1>6, <1>7, <1>8, <1>9, <1>10, <1>11, <1>12, <1>13,
     <1>14, <1>15, <1>16, <1>17, <1>18, <1>19, <1>20, <1>21, <1>22, <1>23, <1>24, <1>25,
     <1>26, <1>27, <1>28, <1>29, <1>30, <1>31, <1>32, <1>33
     DEF Step, Namex, IputStep, NameCall, UnlinkStep, CreateStep

LEMMA TruncStep ==
    ASSUME TypeOK, Locals, Locks, Coherent, Settled, NEW p \in Proc, Step(p)
    PROVE  TruncMoves(p)
<1>a. Clear(p) /\ LockedAt(p) /\ AtName(p) /\ LocalsAt(p) /\ CallAt(p)
  BY Cleared, Ilocked, Named DEF Locals
<1>c. /\ DOMAIN pc = Proc /\ DOMAIN ret = Proc /\ DOMAIN put = Proc /\ DOMAIN cur = Proc
      /\ DOMAIN ip = Proc /\ DOMAIN dp = Proc /\ DOMAIN call = Proc
      /\ cur[p] \in Ptr /\ dp[p] \in Ptr /\ ip[p] \in Ptr /\ put[p] \in Ptr
      /\ pc[p] \in Places \cup InPut
  BY DEF TypeOK, ProcsOK
<1>d. None \notin Inode
  BY NoneNotPtr
<1>f. /\ Ilock(p, "walk") => /\ pc[p] = "walk" /\ cur[p] \in Inode /\ lock[cur[p]] = None
                             /\ Seen(cur[p]) = dinode[cur[p]] /\ ip[p] \in Ptr
      /\ Ilock(p, "parent") => pc[p] = "parent" /\ dp[p] \in Inode
      /\ \A s \in {"found", "exists", "new", "victim", "bad"} :
            Ilock(p, s) => /\ pc[p] = s /\ ip[p] \in Inode /\ lock[ip[p]] = None
                           /\ dinode[ip[p]].type # "free" /\ Seen(ip[p]) = dinode[ip[p]]
  BY <1>a, <1>c DEF LockedAt, Clear, True, IpPlaces
<1>g. LocalsAt(p) /\ CallAt(p)
  BY <1>a
<1>h. dinode \in [Inode -> Dinode]
  BY DEF TypeOK, DiskOK
<1>j. \A i \in Inode : lock[i] = None /\ valid[i] => node[i] = dinode[i] /\ dinode[i].type # "free"
  BY NotGoing DEF Coherent
<1> USE DEF Goto, Set, Iput, Iget, Load, Update, Return, Resume, disk, table, files, local,
           iput, TruncMoves, Loc, InPut, Places, LocalsAt
<1>1. CASE WalkStep(p)
  BY <1>1, <1>c, <1>f, <1>g DEF WalkStep
<1>2. CASE WalkParent(p)
  BY <1>2, <1>c, <1>f, <1>g DEF WalkParent
<1>3. CASE WalkFails(p)
  BY <1>3, <1>c, <1>f, <1>g DEF WalkFails, Fail
<1>4. CASE DropRef(p)
  BY <1>4, <1>c, <1>f, <1>g DEF DropRef
<1>5. CASE LockLast(p)
  BY <1>5, <1>c, <1>d, <1>g, <1>j DEF LockLast, LastUse, Free, Ptr
<1>6. CASE Truncate(p)
  BY <1>6, <1>c, <1>f, <1>g DEF Truncate
<1>7. CASE Invalidate(p)
  BY <1>7, <1>c, <1>f, <1>g DEF Invalidate
<1>8. CASE Open(p)
  BY <1>8, <1>c, <1>f, <1>g DEF Open, OpenFile
<1>9. CASE UnlockPut(p)
  BY <1>9, <1>c, <1>f, <1>g DEF UnlockPut
<1>10. CASE Chdir(p)
  BY <1>10, <1>c, <1>f, <1>g DEF Chdir
<1>11. CASE LinkOld(p)
  BY <1>11, <1>c, <1>f, <1>g DEF LinkOld
<1>12. CASE LinkTaken(p)
  BY <1>12, <1>c, <1>f, <1>g DEF LinkTaken
<1>13. CASE LinkNoRoom(p)
  BY <1>13, <1>c, <1>f, <1>g DEF LinkNoRoom
<1>14. CASE LinkNew(p)
  BY <1>14, <1>c, <1>f, <1>g DEF LinkNew
<1>15. CASE PutIp(p)
  BY <1>15, <1>c, <1>f, <1>g DEF PutIp
<1>16. CASE LinkUndo(p)
  BY <1>16, <1>c, <1>f, <1>g DEF LinkUndo
<1>17. CASE PutParent(p)
  BY <1>17, <1>c, <1>f, <1>g DEF PutParent
<1>18. CASE UnlinkFind(p)
  BY <1>18, <1>c, <1>f, <1>g DEF UnlinkFind
<1>19. CASE UnlinkFails(p)
  BY <1>19, <1>c, <1>f, <1>g DEF UnlinkFails
<1>20. CASE UnlinkNotEmpty(p)
  BY <1>20, <1>c, <1>f, <1>g DEF UnlinkNotEmpty
<1>21. CASE UnlinkEntry(p)
  BY <1>21, <1>c, <1>f, <1>g DEF UnlinkEntry
<1>22. CASE Unlink(p)
  BY <1>22, <1>c, <1>f, <1>g DEF Unlink
<1>23. CASE CreateFind(p)
  BY <1>23, <1>c, <1>f, <1>g DEF CreateFind
<1>24. ASSUME NEW i \in Inode, CreateAlloc(p, i) PROVE TruncMoves(p)
  BY <1>24, <1>c, <1>f, <1>g DEF CreateAlloc
<1>25. CASE CreateNoInode(p)
  BY <1>25, <1>c, <1>f, <1>g DEF CreateNoInode
<1>26. CASE CreateNew(p)
  BY <1>26, <1>c, <1>f, <1>g DEF CreateNew
<1>27. CASE CreateFails(p)
  BY <1>27, <1>c, <1>f, <1>g DEF CreateFails
<1>28. CASE OpenCreated(p)
  BY <1>28, <1>c, <1>f, <1>g DEF OpenCreated, OpenFile, Ready
<1>29. CASE PutCreated(p)
  BY <1>29, <1>c, <1>f, <1>g DEF PutCreated
<1>30. CASE Close(p)
  BY <1>30, <1>c, <1>f, <1>g DEF Close, FileClose
<1>31. CASE Exit(p)
  BY <1>31, <1>c, <1>f, <1>g DEF Exit, FileClose
<1>32. CASE ExitPut(p)
  BY <1>32, <1>c, <1>f, <1>g DEF ExitPut
<1>33. ASSUME NEW c \in Calls, Call(p, c) PROVE TruncMoves(p)
  BY <1>33, <1>c, <1>f, <1>g DEF Call
<1> QED
  BY <1>1, <1>2, <1>3, <1>4, <1>5, <1>6, <1>7, <1>8, <1>9, <1>10, <1>11, <1>12, <1>13,
     <1>14, <1>15, <1>16, <1>17, <1>18, <1>19, <1>20, <1>21, <1>22, <1>23, <1>24, <1>25,
     <1>26, <1>27, <1>28, <1>29, <1>30, <1>31, <1>32, <1>33
     DEF Step, Namex, IputStep, NameCall, UnlinkStep, CreateStep

LEMMA FirmStep ==
    ASSUME TypeOK, Locals, Locks, Coherent, Settled, NEW p \in Proc, Step(p)
    PROVE  FirmMoves(p)
  BY DirStep, TargetStep, NewStep, LockedStep, VictimStep, TruncStep DEF FirmMoves

(* The steps of one process and the invariants of the tree.                 *)
LEMMA SamePlaces ==
    ASSUME NEW r \in Proc, Same(r)
    PROVE  /\ dp'[r] = dp[r] /\ ip'[r] = ip[r] /\ put'[r] = put[r] /\ pc'[r] = pc[r]
           /\ Loc(r)' = Loc(r) /\ Target(r)' = Target(r)
           /\ Kind(r)' = Kind(r) /\ NextName(r)' = NextName(r)
  BY SameLoc DEF Same

(* A type changes only when nobody relies on it.                            *)
LEMMA Relied ==
    ASSUME Base, Tree, NEW p \in Proc, Step(p), NEW r \in Proc
    PROVE  /\ dp[r] # None => dinode'[dp[r]].type = "dir"
           /\ Target(r) => dinode'[ip[r]].type = "file"
           /\ Loc(r) = "new" => dinode'[ip[r]].type = Kind(r)
           /\ Loc(r) \in LockedIp => dinode'[ip[r]].type # "free"
<1>1. TypesKept(p)
  BY TypesStep DEF Base, Tree
<1>2. /\ dp[r] # None => dinode[dp[r]].type = "dir" /\ dp[r] \in Inode
      /\ Target(r) => dinode[ip[r]].type = "file" /\ ip[r] \in Inode
      /\ Loc(r) = "new" => dinode[ip[r]].type = Kind(r) /\ ip[r] \in Inode
      /\ Loc(r) \in LockedIp => dinode[ip[r]].type # "free" /\ ip[r] \in Inode
  <2>1. dp[r] \in Ptr /\ ip[r] \in Ptr /\ LocalsAt(r)
    BY DEF Base, TypeOK, ProcsOK, Locals
  <2> QED
    BY <2>1 DEF Tree, Settled, Ptr, LocalsAt, WithIp, LockedIp, Target
<1>3. ASSUME NEW i \in Inode, Freed(p, i)
      PROVE  /\ dp[r] # i
             /\ (Target(r) \/ Loc(r) \in {"new"} \cup LockedIp) => ip[r] # i
  BY <1>3 DEF Tree, Doomed, Freed
<1>4. \A i \in Inode : Alloced(p, i) => dinode[i].type = "free"
  BY DEF Alloced
<1>5. Kind(r) \in {"dir", "file"}
  BY DEF Kind
<1> QED
  BY <1>1, <1>2, <1>3, <1>4, <1>5 DEF TypesKept

LEMMA SettledStep ==
    ASSUME Base, Tree, NEW p \in Proc, Step(p)
    PROVE  Settled'
<1> SUFFICES ASSUME NEW r \in Proc
             PROVE  /\ dp'[r] # None => dinode'[dp'[r]].type = "dir"
                    /\ Target(r)' => dinode'[ip'[r]].type = "file"
                    /\ Loc(r)' = "new" => dinode'[ip'[r]].type = Kind(r)'
                    /\ Loc(r)' \in LockedIp => dinode'[ip'[r]].type # "free"
  BY DEF Settled
<1>1. /\ dp[r] # None => dinode'[dp[r]].type = "dir"
      /\ Target(r) => dinode'[ip[r]].type = "file"
      /\ Loc(r) = "new" => dinode'[ip[r]].type = Kind(r)
      /\ Loc(r) \in LockedIp => dinode'[ip[r]].type # "free"
  BY Relied
<1>2. CASE r # p
  <2>1. Same(r)
    BY <1>2, Elsewhere DEF Base
  <2> QED
    BY <1>1, <2>1, SamePlaces
<1>3. CASE r = p
  <2>9. /\ dp[p] # None => dinode'[dp[p]].type = "dir"
        /\ Target(p) => dinode'[ip[p]].type = "file"
        /\ Loc(p) \in LockedIp => dinode'[ip[p]].type # "free"
    BY Relied
  <2>1. FirmMoves(p) /\ TypesKept(p)
    BY FirmStep, TypesStep DEF Base, Tree
  <2>2. \A i \in Inode : lock[i] = None => ~Freed(p, i)
    <3>1. Clear(p)
      BY Cleared DEF Base, Tree
    <3> QED
      BY <3>1, FsAssumption DEF Clear, Freed
  <2>3. \A i \in Inode : dinode[i].type # "free" => ~Alloced(p, i)
    BY DEF Alloced
  <2>4. \A i \in Inode : lock[i] = None /\ dinode[i].type # "free" => dinode'[i].type = dinode[i].type
    BY <2>1, <2>2, <2>3 DEF TypesKept
  <2>5. dp'[p] # None => dinode'[dp'[p]].type = "dir"
    BY <2>1, <2>4, <2>9 DEF FirmMoves, DirMoves
  <2>6. Target(p)' => dinode'[ip'[p]].type = "file"
    BY <2>1, <2>4, <2>9 DEF FirmMoves, TargetMoves
  <2>7. Loc(p)' = "new" => dinode'[ip'[p]].type = Kind(p)'
    BY <2>1 DEF FirmMoves, NewMoves, Alloced, Kind
  <2>8. Loc(p)' \in LockedIp => dinode'[ip'[p]].type # "free"
    BY <2>1, <2>4, <2>9 DEF FirmMoves, LockedMoves
  <2> QED
    BY <1>3, <2>5, <2>6, <2>7, <2>8
<1> QED
  BY <1>2, <1>3

LEMMA OnlyDirsStep ==
    ASSUME Base, Tree, NEW p \in Proc, Step(p)
    PROVE  OnlyDirs'
<1> SUFFICES ASSUME NEW i \in Inode, NEW n \in Name, ent'[i][n] # None
             PROVE  dinode'[i].type = "dir"
  BY DEF OnlyDirs
<1>1. EntriesMove(p) /\ TypesKept(p)
  BY EntriesStep, TypesStep DEF Base, Tree
<1>2. ~Truncated(p, i) /\ ~Unnamed(p, i, n)
  BY DEF Truncated, Unnamed
<1>3. CASE NamedAt(p, i, n)
  <2>1. i = dp[p] /\ i # None
    BY <1>3, NoneNotPtr DEF NamedAt
  <2> QED
    BY <2>1, Relied
<1>4. CASE ent'[i][n] = ent[i][n]
  <2>1. dinode[i].type = "dir"
    BY <1>4 DEF Tree, OnlyDirs
  <2>2. ~Freed(p, i)
    BY DEF Freed, NoEntries
  <2> QED
    BY <1>1, <2>1, <2>2 DEF TypesKept, Alloced
<1> QED
  BY <1>1, <1>2, <1>3, <1>4 DEF EntriesMove

(* Who holds the only reference to an inode has the only pointer to it.     *)
LEMMA OnlyOne ==
    ASSUME Base, NEW p \in Proc, NEW i \in Inode, ref[i] = 1, put[p] = i
    PROVE  /\ \A r \in Proc : /\ cur[r] # i /\ ip[r] # i /\ dp[r] # i /\ cwd[r] # i
                              /\ put[r] = i => r = p
           /\ \A f \in File : fip[f] # i
           /\ Holders(i) = {<<p, "put">>}
<1>1. Cardinality(Holders(i)) = 1 /\ IsFiniteSet(Holders(i))
  BY PointersCount, HoldersAre DEF Base, RefExact
<1>2. PICK x : Holders(i) = {x}
  BY <1>1, FS_Singleton
<1>3. <<p, "put">> \in Holders(i)
  BY DEF Holders
<1>4. Holders(i) = {<<p, "put">>}
  BY <1>2, <1>3
<1>5. ASSUME NEW r \in Proc
      PROVE  cur[r] # i /\ ip[r] # i /\ dp[r] # i /\ cwd[r] # i /\ (put[r] = i => r = p)
  <2>1. /\ cur[r] = i => <<r, "cur">> \in Holders(i)
        /\ ip[r] = i => <<r, "ip">> \in Holders(i)
        /\ dp[r] = i => <<r, "dp">> \in Holders(i)
        /\ cwd[r] = i => <<r, "cwd">> \in Holders(i)
        /\ put[r] = i => <<r, "put">> \in Holders(i)
    BY DEF Holders
  <2> QED
    BY <1>4, <2>1
<1>6. ASSUME NEW f \in File PROVE fip[f] # i
  <2>1. fip[f] = i => <<f, "file">> \in Holders(i)
    BY DEF Holders
  <2> QED
    BY <1>4, <2>1
<1> QED
  BY <1>4, <1>5, <1>6

LEMMA DoomedStep ==
    ASSUME Base, Tree, NEW p \in Proc, Step(p)
    PROVE  Doomed'
<1> SUFFICES ASSUME NEW q \in Proc, pc'[q] = "trunc", NEW r \in Proc
             PROVE  /\ dinode'[put'[q]].type # "free"
                    /\ dp'[r] # put'[q]
                    /\ (Target(r) \/ Loc(r) \in {"new"} \cup LockedIp)' => ip'[r] # put'[q]
  BY DEF Doomed
<1>1. FirmMoves(p) /\ TypesKept(p)
  BY FirmStep, TypesStep DEF Base, Tree
<1>2. CASE q = p
  <2>1. /\ put[p] \in Inode /\ put' = put /\ dinode' = dinode /\ ip' = ip /\ dp' = dp
        /\ ref[put[p]] = 1 /\ dinode[put[p]].type # "free"
    BY <1>1, <1>2 DEF FirmMoves, TruncMoves, disk, local
  <2>2. dp[r] # put[p] /\ ip[r] # put[p]
    BY <2>1, OnlyOne
  <2> QED
    BY <1>2, <2>1, <2>2
<1>3. CASE q # p
  <2>1. pc[q] = "trunc" /\ put'[q] = put[q]
    BY <1>3, Elsewhere DEF Base, Same
  <2>2. Clear(q)
    BY Cleared DEF Base, Tree
  <2>3. put[q] \in Inode /\ lock[put[q]] = q
    BY <2>1, <2>2 DEF Clear, True
  <2>4. /\ dinode[put[q]].type # "free"
        /\ dp[r] # put[q]
        /\ Target(r) \/ Loc(r) \in {"new"} \cup LockedIp => ip[r] # put[q]
    BY <2>1 DEF Tree, Doomed
  <2>5. ~Freed(p, put[q])
    <3>1. Clear(p)
      BY Cleared DEF Base, Tree
    <3> QED
      BY <1>3, <2>3, <3>1 DEF Clear, Freed
  <2>6. dinode'[put[q]].type # "free"
    BY <1>1, <2>3, <2>4, <2>5 DEF TypesKept, Alloced
  <2>7. CASE r # p
    <3>1. Same(r)
      BY <2>7, Elsewhere DEF Base
    <3> QED
      BY <2>1, <2>4, <2>6, <3>1, SamePlaces
  <2>8. CASE r = p
    <3>1. /\ dp[p] # put[q]
          /\ Target(p) => ip[p] # put[q]
          /\ Loc(p) \in LockedIp => ip[p] # put[q]
      BY <2>4, <2>8
    <3>2. lock[put[q]] # None
      BY <2>3, FsAssumption
    <3>3. dp'[p] # put[q]
      BY <1>1, <2>3, <3>1, <3>2, NoneNotPtr DEF FirmMoves, DirMoves
    <3>4. Target(p)' => ip'[p] # put[q]
      BY <1>1, <3>1, <3>2 DEF FirmMoves, TargetMoves
    <3>5. Loc(p)' = "new" => ip'[p] # put[q]
      BY <1>1, <2>4 DEF FirmMoves, NewMoves, Alloced
    <3>6. Loc(p)' \in LockedIp => ip'[p] # put[q]
      BY <1>1, <3>1, <3>2 DEF FirmMoves, LockedMoves
    <3> QED
      BY <2>1, <2>6, <2>8, <3>3, <3>4, <3>5, <3>6
  <2> QED
    BY <2>7, <2>8
<1> QED
  BY <1>2, <1>3

(* An entry that is written names a file, or the new inode.                 *)
LEMMA NamedFacts ==
    ASSUME Base, Tree, NEW p \in Proc, NEW d \in Inode, NEW n \in Name, NamedAt(p, d, n)
    PROVE  /\ d # ip[p]
           /\ \A m \in Name : ent[ip[p]][m] # d
           /\ pc[p] = "parent" => \A m \in Name : ent[ip[p]][m] = None
           /\ dinode[d].type = "dir"
<1>1. dinode[d].type = "dir" /\ d = dp[p] /\ ip[p] \in Inode
  BY NoneNotPtr DEF NamedAt, Tree, Settled
<1>2. CASE pc[p] = "parent"
  <2>1. dinode[ip[p]].type = "file"
    BY <1>2 DEF NamedAt, Tree, Settled
  <2>2. \A m \in Name : ent[ip[p]][m] = None
    BY <1>1, <2>1 DEF Tree, OnlyDirs
  <2> QED
    BY <1>1, <2>1, <2>2, NoneNotPtr
<1>3. CASE pc[p] = "new"
  BY <1>1, <1>3 DEF Tree, NewApart
<1> QED
  BY <1>2, <1>3 DEF NamedAt

LEMMA NoTwoCycleStep ==
    ASSUME Base, Tree, NEW p \in Proc, Step(p)
    PROVE  NoTwoCycle'
<1> SUFFICES ASSUME NEW d \in Inode, NEW i \in Inode, NEW n \in Name, NEW m \in Name,
                    ent'[d][n] = i, ent'[i][m] = d
             PROVE  FALSE
  BY DEF NoTwoCycle
<1>1. EntriesMove(p)
  BY EntriesStep DEF Base, Tree
<1>2. ent'[d][n] = ent[d][n] \/ NamedAt(p, d, n)
  BY <1>1, NoneNotPtr DEF EntriesMove, Truncated, Unnamed
<1>3. ent'[i][m] = ent[i][m] \/ NamedAt(p, i, m)
  BY <1>1, NoneNotPtr DEF EntriesMove, Truncated, Unnamed
<1>4. CASE NamedAt(p, d, n)
  <2>1. i = ip[p] /\ d # i /\ ent[i][m] # d
    BY <1>4, NamedFacts DEF NamedAt
  <2>2. ~NamedAt(p, i, m)
    BY <1>4, <2>1 DEF NamedAt
  <2> QED
    BY <1>3, <2>1, <2>2
<1>5. CASE NamedAt(p, i, m)
  <2>1. d = ip[p] /\ i # d /\ ent[d][n] # i
    BY <1>5, NamedFacts DEF NamedAt
  <2>2. ~NamedAt(p, d, n)
    BY <1>5, <2>1 DEF NamedAt
  <2> QED
    BY <1>2, <2>1, <2>2
<1>6. CASE ent'[d][n] = ent[d][n] /\ ent'[i][m] = ent[i][m]
  BY <1>6 DEF Tree, NoTwoCycle
<1> QED
  BY <1>2, <1>3, <1>4, <1>5, <1>6

(* A process leaves the entries of a directory alone that another holds.    *)
LEMMA EntriesHeld ==
    ASSUME Base, Tree, NEW p \in Proc, Step(p), NEW r \in Proc, r # p,
           Loc(r) \in LockedDp, NEW n \in Name
    PROVE  ent'[dp[r]][n] = ent[dp[r]][n]
<1>1. dp[r] \in Inode /\ lock[dp[r]] = r
  BY Cleared DEF Base, Tree, Clear, True
<1>2. EntriesMove(p)
  BY EntriesStep DEF Base, Tree
<1> QED
  BY <1>1, <1>2, FsAssumption DEF EntriesMove, Truncated, NamedAt, Unnamed

LEMMA NewApartStep ==
    ASSUME Base, Tree, NEW p \in Proc, Step(p)
    PROVE  NewApart'
<1> SUFFICES ASSUME NEW r \in Proc, pc'[r] = "new"
             PROVE  /\ \A m \in Name : ent'[ip'[r]][m] # dp'[r]
                    /\ \A q \in Proc : pc'[q] = "new" => ~(ip'[r] = dp'[q] /\ ip'[q] = dp'[r])
                    /\ NextName(r)' \in Name /\ ent'[dp'[r]][NextName(r)'] = None
  BY DEF NewApart
<1>1. FirmMoves(p) /\ EntriesMove(p)
  BY FirmStep, EntriesStep DEF Base, Tree
<1>2. pc'[p] = "new" => Loc(p)' = "new"
  BY DEF Loc, InPut
<1>3. ASSUME NEW q \in Proc, q # p, pc'[q] = "new"
      PROVE  /\ pc[q] = "new" /\ ip'[q] = ip[q] /\ dp'[q] = dp[q] /\ NextName(q)' = NextName(q)
             /\ dp[q] \in Inode /\ ip[q] \in Inode /\ dinode[dp[q]].type = "dir"
  <2>1. pc[q] = "new" /\ ip'[q] = ip[q] /\ dp'[q] = dp[q] /\ NextName(q)' = NextName(q)
    BY <1>3, Elsewhere, SamePlaces DEF Base
  <2>2. dp[q] \in Ptr /\ ip[q] \in Ptr /\ LocalsAt(q)
    BY DEF Base, TypeOK, ProcsOK, Locals
  <2>3. dp[q] \in Inode /\ ip[q] \in Inode
    BY <2>1, <2>2 DEF LocalsAt, Loc, InPut, WithDp, WithIp, Ptr
  <2> QED
    BY <2>1, <2>3, NoneNotPtr DEF Tree, Settled
<1>4. pc'[p] = "new" =>
         /\ ip'[p] \in Inode /\ dp' = dp /\ ent' = ent /\ dp[p] \in Inode /\ NextName(p)' = NextName(p)
         /\ NextName(p) \in Name /\ ent[dp[p]][NextName(p)] = None
         /\ dinode[ip'[p]].type = "free" /\ dinode[dp[p]].type = "dir"
  <2> SUFFICES ASSUME pc'[p] = "new"
               PROVE  /\ ip'[p] \in Inode /\ dp' = dp /\ ent' = ent /\ dp[p] \in Inode /\ NextName(p)' = NextName(p)
                      /\ NextName(p) \in Name /\ ent[dp[p]][NextName(p)] = None
                      /\ dinode[ip'[p]].type = "free" /\ dinode[dp[p]].type = "dir"
    OBVIOUS
  <2>1. NewMoves(p) /\ Loc(p)' = "new"
    BY <1>1, <1>2 DEF FirmMoves
  <2>2. /\ Alloced(p, ip'[p]) /\ ip'[p] \in Inode /\ dp' = dp /\ dp[p] \in Inode /\ ent' = ent
        /\ NextName(p) \in Name /\ ent[dp[p]][NextName(p)] = None
    BY <2>1 DEF NewMoves
  <2>3. call' = call /\ dinode[ip'[p]].type = "free"
    BY <2>2 DEF Alloced
  <2>4. dinode[dp[p]].type = "dir"
    BY <2>2, NoneNotPtr DEF Tree, Settled
  <2> QED
    BY <2>2, <2>3, <2>4 DEF NextName
<1>5. ASSUME NEW q \in Proc, pc'[q] = "new"
      PROVE  ~(ip'[r] = dp'[q] /\ ip'[q] = dp'[r])
  <2>1. CASE r = p
    <3>1. dinode[ip'[p]].type = "free" /\ dinode[dp'[q]].type = "dir"
      BY <1>3, <1>4, <1>5, <2>1
    <3> QED
      BY <2>1, <3>1
  <2>2. CASE q = p
    <3>1. dinode[ip'[p]].type = "free" /\ dinode[dp'[r]].type = "dir"
      BY <1>3, <1>4, <1>5, <2>2
    <3> QED
      BY <2>2, <3>1
  <2>3. CASE r # p /\ q # p
    BY <1>3, <1>5, <2>3 DEF Tree, NewApart
  <2> QED
    BY <2>1, <2>2, <2>3
<1>6. CASE r = p
  <2>1. \A m \in Name : ent[ip'[p]][m] = None
    BY <1>4, <1>6 DEF Tree, OnlyDirs
  <2>2. \A m \in Name : ent'[ip'[p]][m] # dp'[p]
    BY <1>4, <1>6, <2>1, NoneNotPtr
  <2> QED
    BY <1>4, <1>5, <1>6, <2>2
<1>7. CASE r # p
  <2>1. /\ pc[r] = "new" /\ ip'[r] = ip[r] /\ dp'[r] = dp[r] /\ NextName(r)' = NextName(r)
        /\ dp[r] \in Inode /\ ip[r] \in Inode /\ dinode[dp[r]].type = "dir"
    BY <1>3, <1>7
  <2>2. NextName(r) \in Name /\ ent[dp[r]][NextName(r)] = None /\ \A m \in Name : ent[ip[r]][m] # dp[r]
    BY <2>1 DEF Tree, NewApart
  <2>3. ent'[dp[r]][NextName(r)] = None
    <3>1. Loc(r) \in LockedDp
      BY <2>1 DEF Loc, InPut, LockedDp
    <3> QED
      BY <1>7, <2>2, <3>1, EntriesHeld
  <2>4. ASSUME NEW m \in Name PROVE ent'[ip[r]][m] # dp[r]
    <3> SUFFICES ASSUME ent'[ip[r]][m] = dp[r] PROVE FALSE
      OBVIOUS
    <3>1. NamedAt(p, ip[r], m)
      BY <1>1, <2>1, <2>2, NoneNotPtr DEF EntriesMove, Truncated, Unnamed
    <3>2. ip[r] = dp[p] /\ ip[p] = dp[r]
      BY <3>1 DEF NamedAt
    <3>3. CASE pc[p] = "parent"
      <4>1. dinode[ip[p]].type = "file"
        BY <3>1, <3>3 DEF NamedAt, Tree, Settled
      <4> QED
        BY <2>1, <3>2, <4>1
    <3>4. CASE pc[p] = "new"
      BY <2>1, <3>2, <3>4 DEF Tree, NewApart
    <3> QED
      BY <3>1, <3>3, <3>4 DEF NamedAt
  <2> QED
    BY <1>5, <2>1, <2>2, <2>3, <2>4
<1> QED
  BY <1>6, <1>7

LEMMA VictimNamedStep ==
    ASSUME Base, Tree, NEW p \in Proc, Step(p)
    PROVE  VictimNamed'
<1> SUFFICES ASSUME NEW r \in Proc, pc'[r] = "victim"
             PROVE  NextName(r)' \in Name /\ ent'[dp'[r]][NextName(r)'] = ip'[r]
  BY DEF VictimNamed
<1>1. CASE r = p
  <2>1. VictimMoves(p)
    BY FirmStep DEF Base, Tree, FirmMoves
  <2> QED
    BY <1>1, <2>1 DEF VictimMoves, NextName
<1>2. CASE r # p
  <2>1. /\ pc[r] = "victim" /\ ip'[r] = ip[r] /\ dp'[r] = dp[r] /\ NextName(r)' = NextName(r)
    BY <1>2, Elsewhere, SamePlaces DEF Base
  <2>2. NextName(r) \in Name /\ ent[dp[r]][NextName(r)] = ip[r]
    BY <2>1 DEF Tree, VictimNamed
  <2>3. Loc(r) \in LockedDp
    BY <2>1 DEF Loc, InPut, LockedDp
  <2> QED
    BY <1>2, <2>1, <2>2, <2>3, EntriesHeld
<1> QED
  BY <1>1, <1>2

LEMMA ForkTree ==
    ASSUME Base, Tree, NEW p \in Proc, NEW q \in Proc, Fork(p, q)
    PROVE  Tree'
<1>1. /\ UNCHANGED <<dinode, ent, up, node, valid, lock, call, cur, ip, dp, put, ret>>
      /\ pc[q] = "gone" /\ pc' = [pc EXCEPT ![q] = "user"] /\ dp[q] = None /\ ip[q] = None
      /\ \A r \in Proc : r # q => Same(r)
  BY Forked DEF Base, disk, local, iput
<1>2. \A r \in Proc, s \in Places \cup InPut : s \notin {"user", "gone"} => (pc'[r] = s <=> pc[r] = s)
  BY <1>1 DEF Base, TypeOK, ProcsOK
<1>3. /\ \A r \in Proc : pc'[r] = "trunc" => pc[r] = "trunc"
      /\ \A r \in Proc : pc'[r] = "new" => pc[r] = "new"
      /\ \A r \in Proc : pc'[r] = "victim" => pc[r] = "victim"
      /\ \A r \in Proc : pc'[r] = "invalidate" <=> pc[r] = "invalidate"
  BY <1>2 DEF Places, InPut
<1>4. \A i : Going(i)' <=> Going(i)
  BY <1>1, <1>3 DEF Going
<1>5. \A r \in Proc : /\ Kind(r)' = Kind(r) /\ NextName(r)' = NextName(r)
                      /\ Target(r)' => Target(r)
                      /\ Loc(r)' = "new" => Loc(r) = "new"
                      /\ Loc(r)' \in LockedIp => Loc(r) \in LockedIp
  <2> TAKE r \in Proc
  <2>1. Kind(r)' = Kind(r) /\ NextName(r)' = NextName(r)
    BY <1>1 DEF Kind, NextName
  <2>2. CASE r = q
    <3>1. Loc(q)' = "user"
      BY <1>1 DEF Base, TypeOK, ProcsOK, Loc, InPut
    <3> QED
      BY <2>1, <2>2, <3>1 DEF Target, LockedIp
  <2>3. CASE r # q
    BY <1>1, <2>1, <2>3, SamePlaces
  <2> QED
    BY <2>2, <2>3
<1>6. Coherent'
  BY <1>1, <1>4 DEF Tree, Coherent
<1>7. OnlyDirs' /\ NoTwoCycle'
  BY <1>1 DEF Tree, OnlyDirs, NoTwoCycle
<1>8. Settled'
  BY <1>1, <1>5 DEF Tree, Settled
<1>9. Doomed'
  BY <1>1, <1>3, <1>5 DEF Tree, Doomed
<1>10. NewApart'
  BY <1>1, <1>3, <1>5 DEF Tree, NewApart
<1>11. VictimNamed'
  BY <1>1, <1>3, <1>5 DEF Tree, VictimNamed
<1> QED
  BY <1>6, <1>7, <1>8, <1>9, <1>10, <1>11 DEF Tree

-----------------------------------------------------------------------------
LEMMA InitTypes == Init => TypeOK
<1> SUFFICES ASSUME Init PROVE TypeOK
  OBVIOUS
<1>1. DiskOK
  BY NoneNotPtr DEF Init, DiskOK, Dinode, Ptr, NoEntries
<1>2. TableOK
  BY NoneNotPtr DEF Init, TableOK, Dinode
<1>3. FilesOK
  BY DEF Init, FilesOK, Ptr
<1>4. ProcsOK
  BY NoneNotPtr DEF Init, ProcsOK, Ptr, Places
<1> QED
  BY <1>1, <1>2, <1>3, <1>4 DEF TypeOK

LEMMA InitProcs == Init => Locals /\ Locks
<1> SUFFICES ASSUME Init PROVE Locals /\ Locks
  OBVIOUS
<1>1. \A p \in Proc : /\ Loc(p) \in {"user", "gone"} /\ Loc(p) = pc[p]
                      /\ cwd[p] # None <=> Loc(p) # "gone"
  BY NoneNotPtr DEF Init, Loc, InPut
<1>2. \A p \in Proc : /\ cur[p] = None /\ dp[p] = None /\ ip[p] = None /\ put[p] = None
                      /\ fd[p] = None /\ pc[p] \notin InPut
  BY DEF Init, InPut
<1>3. Locals
  BY <1>1, <1>2 DEF Locals, LocalsAt, CallAt, WithDp, WithIp
<1>4. Locks
  <2>1. \A p \in Proc : ~Frees(p) /\ Loc(p) \notin LockedDp \cup LockedIp
    BY <1>1, <1>2 DEF Frees, InPut, LockedDp, LockedIp
  <2>2. \A i \in Inode, p \in Proc : lock[i] # p
    BY FsAssumption DEF Init
  <2> QED
    BY <2>1, <2>2 DEF Locks, LocksAt, Holds
<1> QED
  BY <1>3, <1>4

LEMMA InitRefs == Init => RefExact
<1> SUFFICES ASSUME Init PROVE RefExact
  OBVIOUS
<1>1. ASSUME NEW i \in Inode PROVE ref[i] = Cardinality(Holders(i))
  <2>1. Holders(i) = IF i = ROOTINO THEN {<<initproc, "cwd">>} ELSE {}
    <3>1. \A p \in Proc : cur[p] # i /\ ip[p] # i /\ dp[p] # i /\ put[p] # i
      BY NoneNotPtr DEF Init
    <3>2. \A p \in Proc : cwd[p] = i <=> p = initproc /\ i = ROOTINO
      BY NoneNotPtr DEF Init
    <3>3. \A f \in File : fip[f] # i
      BY NoneNotPtr DEF Init
    <3>4. initproc \in Proc
      BY FsAssumption
    <3> QED
      BY <3>1, <3>2, <3>3, <3>4 DEF Holders
  <2>2. ref[i] = IF i = ROOTINO THEN 1 ELSE 0
    BY DEF Init
  <2> QED
    BY <2>1, <2>2, FS_EmptySet, FS_Singleton
<1>2. FileExact
  <2> SUFFICES ASSUME NEW f \in File PROVE fref[f] = N(Proc, fd, f) /\ fref[f] = 0 /\ fip[f] = None
    BY DEF FileExact
  <2>1. {p \in Proc : fd[p] = f} = {}
    BY NoneNotPtr DEF Init
  <2> QED
    BY <2>1, FS_EmptySet DEF Init, N
<1> QED
  BY <1>1, <1>2, Exact

LEMMA InitTree == Init => Tree
<1> SUFFICES ASSUME Init PROVE Tree
  OBVIOUS
<1>1. /\ \A p \in Proc : Loc(p) \in {"user", "gone"} /\ pc[p] \in {"user", "gone"} /\ dp[p] = None /\ ip[p] = None
      /\ \A i \in Inode : ~valid[i] /\ \A n \in Name : ent[i][n] = None
  BY DEF Init, Loc, InPut, NoEntries
<1> QED
  BY <1>1, NoneNotPtr DEF Tree, Coherent, OnlyDirs, Settled, Doomed, NoTwoCycle, NewApart,
     VictimNamed,
     Target, LockedIp

LEMMA InitIInv == Init => IInv
  BY InitTypes, InitProcs, InitRefs, InitTree DEF IInv, Base

LEMMA StepIInv ==
    ASSUME IInv, NEW p \in Proc, Step(p)
    PROVE  IInv'
<1>1. Base /\ Tree
  BY DEF IInv
<1>2. TypeOK' /\ Locals' /\ Locks' /\ RefExact'
  BY <1>1, TypeStep, LocalsStep, LocksStep, RefStep DEF Base
<1>3. Coherent'
  BY <1>1, CoherentStep DEF Base, Tree
<1>4. OnlyDirs' /\ Settled' /\ Doomed' /\ NoTwoCycle' /\ NewApart' /\ VictimNamed'
  BY <1>1, OnlyDirsStep, SettledStep, DoomedStep, NoTwoCycleStep, NewApartStep, VictimNamedStep
<1> QED
  BY <1>2, <1>3, <1>4 DEF IInv, Base, Tree

LEMMA ForkIInv ==
    ASSUME IInv, NEW p \in Proc, NEW q \in Proc, Fork(p, q)
    PROVE  IInv'
  BY ForkTypes, ForkLocals, ForkLocks, ForkRefs, ForkTree DEF IInv, Base

LEMMA StutterIInv == IInv /\ UNCHANGED vars => IInv'
<1> SUFFICES ASSUME IInv, UNCHANGED vars PROVE IInv'
  OBVIOUS
<1> USE DEF vars, disk, table, files, local, iput
<1>1. TypeOK'
  BY DEF IInv, Base, TypeOK, DiskOK, TableOK, FilesOK, ProcsOK
<1>2. \A p \in Proc : Same(p)
  BY DEF Same
<1>3. Locals'
  BY <1>2, SameLoc DEF IInv, Base, Locals
<1>4. Locks'
  BY <1>2, SameLoc DEF IInv, Base, Locks, LocksAt, Same
<1>5. RefExact'
  BY DEF IInv, Base, RefExact, Holders
<1>6. \A i : Going(i)' <=> Going(i)
  BY DEF Going
<1>7. Coherent' /\ OnlyDirs' /\ NoTwoCycle'
  BY <1>6 DEF IInv, Tree, Coherent, OnlyDirs, NoTwoCycle
<1>8. Settled' /\ Doomed' /\ NewApart' /\ VictimNamed'
  BY <1>2, SamePlaces DEF IInv, Tree, Settled, Doomed, NewApart, VictimNamed
<1> QED
  BY <1>1, <1>3, <1>4, <1>5, <1>7, <1>8 DEF IInv, Base, Tree

(* The invariant for every instance.                                        *)
THEOREM Inductive == Spec => []IInv
<1>1. Init => IInv
  BY InitIInv
<1>2. IInv /\ [Next]_vars => IInv'
  <2> SUFFICES ASSUME IInv, [Next]_vars PROVE IInv'
    OBVIOUS
  <2>1. CASE UNCHANGED vars
    BY <2>1, StutterIInv
  <2>2. CASE Next
    BY <2>2, Steps, StepIInv, ForkIInv
  <2> QED
    BY <2>1, <2>2
<1> QED
  BY <1>1, <1>2, PTL DEF Spec

(* Every variable keeps its type.                                           *)
THEOREM TypeCorrect == Spec => []TypeOK
<1>1. IInv => TypeOK
  BY DEF IInv, Base
<1> QED
  BY <1>1, Inductive, PTL

(* ref of an inode is the number of pointers to it, ref of a file the       *)
(* number of processes that have it open (iget, idup, iput, filedup,        *)
(* fileclose).                                                              *)
THEOREM ReferencesExact == Spec => []RefExact
<1>1. IInv => RefExact
  BY DEF IInv, Base
<1> QED
  BY <1>1, Inductive, PTL

(* A process that waits waits for one that is in a call, holds the lock,    *)
(* and does not wait for it.                                                *)
LEMMA WaitsFor ==
    ASSUME IInv, NEW p \in Proc, Blocker(p) # None
    PROVE  /\ Wants(p) \in Inode /\ Blocker(p) \in Proc /\ Holds(Blocker(p), Wants(p))
           /\ \/ pc[p] = "walk" /\ Wants(p) = cur[p]
              \/ pc[p] = "parent" /\ Wants(p) = dp[p]
              \/ pc[p] \in IpPlaces /\ Wants(p) = ip[p]
<1>1. Wants(p) # None /\ Blocker(p) = lock[Wants(p)]
  BY DEF Blocker
<1>2. \/ pc[p] = "walk" /\ Wants(p) = cur[p]
      \/ pc[p] = "parent" /\ Wants(p) = dp[p]
      \/ pc[p] \in IpPlaces /\ Wants(p) = ip[p]
  BY <1>1 DEF Wants, IpPlaces
<1>3. Wants(p) \in Inode
  BY <1>1, <1>2 DEF IInv, Base, TypeOK, ProcsOK, Ptr
<1>4. Blocker(p) \in Proc
  BY <1>1, <1>3 DEF IInv, Base, TypeOK, TableOK
<1>5. Holds(Blocker(p), Wants(p))
  BY <1>1, <1>3, <1>4 DEF IInv, Base, Locks, LocksAt
<1> QED
  BY <1>2, <1>3, <1>4, <1>5

(* Nobody waits for the sleep-lock of an inode with a process that is out   *)
(* of its call, with itself, or with one that waits for it (unlink and      *)
(* create hold a directory while they lock a second inode).                 *)
THEOREM NoDeadlock == Spec => []LockProgress
<1>1. IInv => LockProgress
  <2> SUFFICES ASSUME IInv, NEW p \in Proc, Blocker(p) # None
               PROVE  /\ pc[Blocker(p)] \notin {"user", "gone"}
                      /\ Blocker(p) # p /\ Blocker(Blocker(p)) # p
    BY DEF LockProgress
  <2> DEFINE b == Blocker(p)
  <2>1. /\ Wants(p) \in Inode /\ b \in Proc /\ Holds(b, Wants(p))
        /\ \/ pc[p] = "walk" /\ Wants(p) = cur[p]
           \/ pc[p] = "parent" /\ Wants(p) = dp[p]
           \/ pc[p] \in IpPlaces /\ Wants(p) = ip[p]
    BY WaitsFor
  <2>2. /\ \A q \in Proc : pc[q] \in {"new", "victim"} =>
              ip[q] # dp[q] /\ ip[q] \in Inode /\ dp[q] \in Inode
        /\ \A q \in Proc : pc[q] = "victim" => \E n \in Name : ent[dp[q]][n] = ip[q]
    <3> SUFFICES ASSUME NEW q \in Proc, pc[q] \in {"new", "victim"}
                 PROVE  /\ ip[q] # dp[q] /\ ip[q] \in Inode /\ dp[q] \in Inode
                        /\ pc[q] = "victim" => \E n \in Name : ent[dp[q]][n] = ip[q]
      OBVIOUS
    <3>1. ip[q] \in Inode /\ dp[q] \in Inode
      <4>1. ip[q] \in Ptr /\ dp[q] \in Ptr /\ LocalsAt(q)
        BY DEF IInv, Base, TypeOK, ProcsOK, Locals
      <4> QED
        BY <4>1 DEF LocalsAt, Loc, InPut, WithDp, WithIp, Ptr
    <3>2. CASE pc[q] = "new"
      BY <3>1, <3>2 DEF IInv, Tree, NewApart
    <3>3. CASE pc[q] = "victim"
      BY <3>1, <3>3 DEF IInv, Tree, VictimNamed, NoTwoCycle
    <3> QED
      BY <3>1, <3>2, <3>3
  <2>3. \A q \in Proc, i \in Inode :
           Holds(q, i) => /\ pc[q] \notin {"user", "gone", "walk", "parent", "found", "exists", "bad"}
                          /\ pc[q] \in {"new", "victim"} => dp[q] = i
    BY DEF Holds, Loc, Frees, InPut, LockedDp, LockedIp
  <2> HIDE DEF b
  <2>4. b # p
    BY <2>1, <2>2, <2>3 DEF IpPlaces
  <2>5. ASSUME Blocker(b) = p PROVE FALSE
    <3>1. /\ Wants(b) \in Inode /\ Holds(p, Wants(b))
          /\ \/ pc[b] = "walk" /\ Wants(b) = cur[b]
             \/ pc[b] = "parent" /\ Wants(b) = dp[b]
             \/ pc[b] \in IpPlaces /\ Wants(b) = ip[b]
      BY <2>1, <2>5, FsAssumption, WaitsFor
    <3>2. /\ pc[p] \in {"new", "victim"} /\ pc[b] \in {"new", "victim"}
          /\ ip[p] = dp[b] /\ ip[b] = dp[p]
      BY <2>1, <2>3, <3>1 DEF IpPlaces
    <3>3. CASE pc[p] = "new" /\ pc[b] = "new"
      BY <2>1, <3>2, <3>3 DEF IInv, Tree, NewApart
    <3>4. CASE pc[p] = "new" /\ pc[b] = "victim"
      BY <2>1, <2>2, <3>2, <3>4 DEF IInv, Tree, NewApart
    <3>5. CASE pc[p] = "victim" /\ pc[b] = "new"
      BY <2>1, <2>2, <3>2, <3>5 DEF IInv, Tree, NewApart
    <3>6. CASE pc[p] = "victim" /\ pc[b] = "victim"
      BY <2>1, <2>2, <3>2, <3>6 DEF IInv, Tree, NoTwoCycle
    <3> QED
      BY <3>2, <3>3, <3>4, <3>5, <3>6
  <2> QED
    BY <2>1, <2>3, <2>4, <2>5 DEF b
<1> QED
  BY <1>1, Inductive, PTL

(* iput does not wait for an inode's lock with itable.lock held: whoever    *)
(* holds the lock has a reference.                                          *)
LEMMA IputNeverWaits ==
    ASSUME IInv, NEW p \in Proc PROVE ~IputPanics(p)
<1> SUFFICES ASSUME pc[p] = "put", LastUse(put[p]), lock[put[p]] # None
             PROVE  FALSE
  BY DEF IputPanics, Free
<1>1. put[p] \in Inode
  <2>1. put[p] \in Ptr /\ LocalsAt(p)
    BY DEF IInv, Base, TypeOK, ProcsOK, Locals
  <2> QED
    BY <2>1 DEF LocalsAt, InPut, Ptr
<1>2. PICK q \in Proc : lock[put[p]] = q
  BY <1>1 DEF IInv, Base, TypeOK, TableOK
<1>3. Holds(q, put[p])
  BY <1>1, <1>2 DEF IInv, Base, Locks, LocksAt
<1>4. /\ ip[q] # put[p] /\ dp[q] # put[p]
      /\ put[q] = put[p] => q = p
  BY <1>1, OnlyOne DEF IInv, LastUse
<1> QED
  BY <1>3, <1>4 DEF Holds, Frees

-----------------------------------------------------------------------------
(* The second part: links, for calls without "..".                          *)
NoDotDot == \A c \in Calls : /\ Names(c.path) \in Seq(Name \cup {"."})
                             /\ Names(c.new) \in Seq(Name \cup {"."})

PlainAt(p) == Loc(p) \notin {"user", "gone", "exiting"} =>
    /\ call[p].path \in Seq(Name \cup {"."})
    /\ Names(call[p].new) \in Seq(Name \cup {"."})
Plain == \A p \in Proc : PlainAt(p)

(* The links of an inode: the entries that name it, the directories that it *)
(* names (whose ".." is it), the processes that have counted an entry which *)
(* they have not written, or have cleared one which they have not counted   *)
(* off, and the root's own.                                                 *)
OwedAt == {"walk", "parent", "dpbad", "bad", "unlinked"}
Owes(p) == IF Loc(p) \in OwedAt THEN ip[p] ELSE None
OwedTo == [p \in Proc |-> Owes(p)]
SubDirs(i) == {n \in Name : ent[i][n] # None /\ dinode[ent[i][n]].type = "dir"}
Links(i) == Cardinality(NamedBy(i)) + Cardinality(SubDirs(i)) + N(Proc, OwedTo, i) + One(i = ROOTINO)
Counted == \A i \in Inode : Links(i) <= dinode[i].nlink
FreeClean == \A i \in Inode : dinode[i].type = "free" => dinode[i].nlink = 0

(* Who has a pointer to an inode, unless it is going, keeps it allocated; a *)
(* process that frees one is the only one with a pointer to it; and nobody  *)
(* else has one to an inode that is just made.                              *)
Has(p, i) == \/ cur[p] = i \/ ip[p] = i \/ dp[p] = i \/ cwd[p] = i
             \/ pc[p] \in {"put", "trunc"} /\ put[p] = i
Allocated == \A i \in Inode : dinode[i].type = "free" =>
    (\A p \in Proc : ~Has(p, i)) /\ (\A f \in File : fip[f] # i)
Alone == \A q \in Proc : pc[q] = "trunc" => ref[put[q]] = 1 /\ dinode[put[q]].nlink = 0
Fresh == \A p \in Proc : pc[p] = "new" =>
    /\ dinode[ip[p]].nlink = 0 /\ cur[p] # ip[p] /\ dp[p] # ip[p] /\ cwd[p] # ip[p]
    /\ \A q \in Proc : q # p => ~Has(q, ip[p])
    /\ \A f \in File : fip[f] # ip[p]

Tied == Plain /\ Counted /\ FreeClean /\ Allocated /\ Alone /\ Fresh

-----------------------------------------------------------------------------
(* A path without ".." stays one.                                           *)
LEMMA PlainStep ==
    ASSUME NoDotDot, TypeOK, Locals, Plain, NEW p \in Proc, Step(p)
    PROVE  PlainAt(p)'
<1>a. call \in [Proc -> CallRec \cup {None}]
  BY DEF TypeOK, ProcsOK
<1>b. PlainAt(p)
  BY DEF Plain
<1>c. /\ DOMAIN pc = Proc /\ DOMAIN ret = Proc /\ LocalsAt(p)
      /\ pc[p] \in Places \cup InPut
  BY DEF TypeOK, ProcsOK, Locals
<1> USE DEF Goto, Set, Iput, Iget, Load, Update, Return, Resume, disk, table, files, local, iput,
           PlainAt, Loc, InPut, LocalsAt, Places
<1>1. CASE WalkStep(p)
  <2>1. /\ [call[p] EXCEPT !.path = Tail(call[p].path)].path = Tail(call[p].path)
        /\ [call[p] EXCEPT !.path = Tail(call[p].path)].new = call[p].new
        /\ Tail(call[p].path) \in Seq(Name \cup {"."})
    <3>1. call[p] \in CallRec /\ call[p].path # <<>>
      BY <1>1, <1>a, Named DEF WalkStep, Ilock, Locals, CallAt, Loc, InPut
    <3>2. Tail(call[p].path) \in Seq(Name \cup {"."})
      BY <1>1, <1>b, <3>1, HeadTailProperties DEF WalkStep, Ilock
    <3> QED
      BY <3>1, <3>2 DEF CallRec
  <2> QED
    BY <1>1, <1>a, <1>b, <1>c, <2>1 DEF WalkStep, Ilock
<1>2. CASE WalkParent(p)
  BY <1>2, <1>a, <1>b, <1>c DEF WalkParent, Ilock
<1>3. CASE WalkFails(p)
  BY <1>3, <1>a, <1>b, <1>c DEF WalkFails, Ilock, Fail
<1>4. CASE DropRef(p)
  BY <1>4, <1>a, <1>b, <1>c DEF DropRef, Ilock
<1>5. CASE LockLast(p)
  BY <1>5, <1>a, <1>b, <1>c DEF LockLast, Ilock
<1>6. CASE Truncate(p)
  BY <1>6, <1>a, <1>b, <1>c DEF Truncate, Ilock
<1>7. CASE Invalidate(p)
  BY <1>7, <1>a, <1>b, <1>c DEF Invalidate, Ilock
<1>8. CASE Open(p)
  BY <1>8, <1>a, <1>b, <1>c DEF Open, OpenFile, Ilock
<1>9. CASE UnlockPut(p)
  BY <1>9, <1>a, <1>b, <1>c DEF UnlockPut, Ilock
<1>10. CASE Chdir(p)
  BY <1>10, <1>a, <1>b, <1>c DEF Chdir, Ilock
<1>11. CASE LinkOld(p)
  <2>1. /\ [call[p] EXCEPT !.path = Names(call[p].new)].path = Names(call[p].new)
        /\ [call[p] EXCEPT !.path = Names(call[p].new)].new = call[p].new
    <3>1. call[p] \in CallRec
      BY <1>11, <1>a DEF LinkOld, Ilock, Locals, CallAt, Loc, InPut
    <3> QED
      BY <3>1 DEF CallRec
  <2> QED
    BY <1>11, <1>a, <1>b, <1>c, <2>1 DEF LinkOld, Ilock
<1>12. CASE LinkTaken(p)
  BY <1>12, <1>a, <1>b, <1>c DEF LinkTaken, Ilock
<1>13. CASE LinkNoRoom(p)
  BY <1>13, <1>a, <1>b, <1>c DEF LinkNoRoom, Ilock
<1>14. CASE LinkNew(p)
  BY <1>14, <1>a, <1>b, <1>c DEF LinkNew, Ilock
<1>15. CASE PutIp(p)
  BY <1>15, <1>a, <1>b, <1>c DEF PutIp, Ilock
<1>16. CASE LinkUndo(p)
  BY <1>16, <1>a, <1>b, <1>c DEF LinkUndo, Ilock
<1>17. CASE PutParent(p)
  BY <1>17, <1>a, <1>b, <1>c DEF PutParent, Ilock
<1>18. CASE UnlinkFind(p)
  BY <1>18, <1>a, <1>b, <1>c DEF UnlinkFind, Ilock
<1>19. CASE UnlinkFails(p)
  BY <1>19, <1>a, <1>b, <1>c DEF UnlinkFails, Ilock
<1>20. CASE UnlinkNotEmpty(p)
  BY <1>20, <1>a, <1>b, <1>c DEF UnlinkNotEmpty, Ilock
<1>21. CASE UnlinkEntry(p)
  BY <1>21, <1>a, <1>b, <1>c DEF UnlinkEntry, Ilock
<1>22. CASE Unlink(p)
  BY <1>22, <1>a, <1>b, <1>c DEF Unlink, Ilock
<1>23. CASE CreateFind(p)
  BY <1>23, <1>a, <1>b, <1>c DEF CreateFind, Ilock
<1>24. ASSUME NEW i \in Inode, CreateAlloc(p, i) PROVE PlainAt(p)'
  BY <1>24, <1>a, <1>b, <1>c DEF CreateAlloc, Ilock
<1>25. CASE CreateNoInode(p)
  BY <1>25, <1>a, <1>b, <1>c DEF CreateNoInode, Ilock
<1>26. CASE CreateNew(p)
  BY <1>26, <1>a, <1>b, <1>c DEF CreateNew, Ilock
<1>27. CASE CreateFails(p)
  BY <1>27, <1>a, <1>b, <1>c DEF CreateFails, Ilock
<1>28. CASE OpenCreated(p)
  BY <1>28, <1>a, <1>b, <1>c DEF OpenCreated, OpenFile, Ready, Ilock
<1>29. CASE PutCreated(p)
  BY <1>29, <1>a, <1>b, <1>c DEF PutCreated, Ilock
<1>30. CASE Close(p)
  BY <1>30, <1>a, <1>b, <1>c DEF Close, FileClose, Ilock
<1>31. CASE Exit(p)
  BY <1>31, <1>a, <1>b, <1>c DEF Exit, FileClose, Ilock
<1>32. CASE ExitPut(p)
  BY <1>32, <1>a, <1>b, <1>c DEF ExitPut, Ilock
<1>33. ASSUME NEW c \in Calls, Call(p, c) PROVE PlainAt(p)'
  <2>1. /\ [c EXCEPT !.path = Names(c.path)].path = Names(c.path)
        /\ [c EXCEPT !.path = Names(c.path)].new = c.new
        /\ Names(c.path) \in Seq(Name \cup {"."}) /\ Names(c.new) \in Seq(Name \cup {"."})
    BY FsAssumption DEF NoDotDot
  <2> QED
    BY <1>33, <1>a, <2>1 DEF Call
<1> QED
  BY <1>1, <1>2, <1>3, <1>4, <1>5, <1>6, <1>7, <1>8, <1>9, <1>10, <1>11, <1>12, <1>13,
     <1>14, <1>15, <1>16, <1>17, <1>18, <1>19, <1>20, <1>21, <1>22, <1>23, <1>24, <1>25,
     <1>26, <1>27, <1>28, <1>29, <1>30, <1>31, <1>32, <1>33
     DEF Step, Namex, IputStep, NameCall, UnlinkStep, CreateStep

-----------------------------------------------------------------------------
(* Where a pointer comes from: the process had one, or a file has one, or   *)
(* it was looked up, or it is to the inode that was just taken.             *)
Reached(i) == NamedBy(i) # {} \/ i = ROOTINO
Comes(p, i) == Has(p, i) \/ (\E f \in File : fip[f] = i) \/ Reached(i) \/ Alloced(p, i)
PtrMoves(p) == /\ \A i \in Inode : Has(p, i)' => Comes(p, i)
               /\ pc'[p] \in {"invalidate", "unref"} => put'[p] = put[p]
FilePtrs(p) == \A f \in File, i \in Inode : fip'[f] = i => fip[f] = i \/ Has(p, i)

(* What a path without ".." names is there by an entry.                     *)
Finds(p) == /\ Ilock(p, "walk") => \A i \in Inode :
                  Entry(cur[p], NextName(p)) = i => i = cur[p] \/ Reached(i)
            /\ Ilock(p, "parent") => \A i \in Inode :
                  Entry(dp[p], NextName(p)) = i => i = dp[p] \/ Reached(i)

LEMMA PlainName ==
    ASSUME TypeOK, Locals, Plain, NEW p \in Proc, pc[p] \in {"walk", "parent"}
    PROVE  NextName(p) \in Name \cup {"."}
<1>1. Loc(p) = pc[p]
  BY DEF Loc, InPut
<1>2. call[p].path \in Seq(Name \cup {"."}) /\ call[p].path # <<>>
  BY <1>1 DEF Plain, PlainAt, Locals, CallAt
<1> QED
  BY <1>2, HeadTailProperties DEF NextName

LEMMA Found ==
    ASSUME TypeOK, Locals, Plain, NEW p \in Proc PROVE Finds(p)
<1>1. LockedAt(p)
  BY Ilocked
<1>2. ASSUME NEW d \in Inode, NEW n \in Name \cup {"."}, NEW i \in Inode, Entry(d, n) = i
      PROVE  i = d \/ Reached(i)
  <2>1. CASE n = "."
    BY <1>2, <2>1 DEF Entry
  <2>2. CASE n # "." /\ n # ".."
    <3>1. ent[d][n] = i /\ n \in Name
      BY <1>2, <2>2 DEF Entry
    <3>2. <<d, n>> \in NamedBy(i)
      BY <3>1 DEF NamedBy
    <3> QED
      BY <3>2 DEF Reached
  <2>3. CASE n = ".." /\ n # "."
    BY <2>3, FsAssumption
  <2> QED
    BY <2>1, <2>2, <2>3
<1>3. pc[p] \in {"walk", "parent"} => NextName(p) \in Name \cup {"."}
  BY PlainName
<1> QED
  BY <1>1, <1>2, <1>3 DEF LockedAt, Finds

(* The pointers of the process that moves.                                  *)
LEMMA PtrStep ==
    ASSUME TypeOK, Locals, RefExact, Plain, NEW p \in Proc, Step(p)
    PROVE  PtrMoves(p)
<1>a. LockedAt(p) /\ Finds(p) /\ LocalsAt(p)
  BY Ilocked, Found DEF Locals
<1>c. /\ DOMAIN pc = Proc /\ DOMAIN ret = Proc /\ DOMAIN put = Proc /\ DOMAIN cur = Proc
      /\ DOMAIN ip = Proc /\ DOMAIN dp = Proc /\ DOMAIN cwd = Proc
      /\ pc[p] \in Places \cup InPut /\ ret[p] \in Places \cup {None}
      /\ fd[p] \in File \cup {None} /\ DOMAIN fd = Proc /\ DOMAIN fip = File
  BY DEF TypeOK, ProcsOK, FilesOK
<1>d. None \notin Inode
  BY NoneNotPtr
<1>f. /\ Ilock(p, "walk") => /\ pc[p] = "walk" /\ cur[p] \in Inode
                             /\ \A i \in Inode : Entry(cur[p], NextName(p)) = i => i = cur[p] \/ Reached(i)
      /\ Ilock(p, "parent") => /\ pc[p] = "parent" /\ dp[p] \in Inode
                               /\ \A i \in Inode : Entry(dp[p], NextName(p)) = i => i = dp[p] \/ Reached(i)
      /\ \A s \in IpPlaces : Ilock(p, s) => pc[p] = s /\ ip[p] \in Inode
  BY <1>a DEF LockedAt, Finds
<1>g. /\ pc[p] \in InPut => ret[p] \in Places \ {"parent", "new", "victim"}
      /\ Loc(p) \in WithIp => ip[p] # None
  BY <1>a DEF LocalsAt
<1>h. DOMAIN dinode = Inode
  BY DEF TypeOK, DiskOK
<1> USE DEF Goto, Set, Iput, Iget, Load, Update, Return, Resume, disk, table, files, local,
           iput, PtrMoves, Comes, Has, Places, InPut
<1>1. CASE WalkStep(p)
  BY <1>1, <1>c, <1>d, <1>f, <1>g DEF WalkStep, IpPlaces
<1>2. CASE WalkParent(p)
  BY <1>2, <1>c, <1>d, <1>f, <1>g DEF WalkParent, IpPlaces
<1>3. CASE WalkFails(p)
  BY <1>3, <1>c, <1>d, <1>f, <1>g DEF WalkFails, IpPlaces
<1>4. CASE DropRef(p)
  BY <1>4, <1>c, <1>d, <1>f, <1>g DEF DropRef, IpPlaces
<1>5. CASE LockLast(p)
  BY <1>5, <1>c, <1>d, <1>f, <1>g DEF LockLast, IpPlaces
<1>6. CASE Truncate(p)
  BY <1>6, <1>c, <1>d, <1>f, <1>g DEF Truncate, IpPlaces
<1>7. CASE Invalidate(p)
  BY <1>7, <1>c, <1>d, <1>f, <1>g DEF Invalidate, IpPlaces
<1>8. CASE Open(p)
  BY <1>8, <1>c, <1>d, <1>f, <1>g DEF Open, OpenFile, IpPlaces
<1>9. CASE UnlockPut(p)
  BY <1>9, <1>c, <1>d, <1>f, <1>g DEF UnlockPut, IpPlaces
<1>10. CASE Chdir(p)
  BY <1>10, <1>c, <1>d, <1>f, <1>g DEF Chdir, IpPlaces
<1>11. CASE LinkOld(p)
  BY <1>11, <1>c, <1>d, <1>f, <1>g DEF LinkOld, IpPlaces, From, Reached
<1>12. CASE LinkTaken(p)
  BY <1>12, <1>c, <1>d, <1>f, <1>g DEF LinkTaken, IpPlaces
<1>13. CASE LinkNoRoom(p)
  BY <1>13, <1>c, <1>d, <1>f, <1>g DEF LinkNoRoom, IpPlaces
<1>14. CASE LinkNew(p)
  BY <1>14, <1>c, <1>d, <1>f, <1>g DEF LinkNew, IpPlaces
<1>15. CASE PutIp(p)
  BY <1>15, <1>c, <1>d, <1>f, <1>g DEF PutIp, IpPlaces
<1>16. CASE LinkUndo(p)
  BY <1>16, <1>c, <1>d, <1>f, <1>g DEF LinkUndo, IpPlaces
<1>17. CASE PutParent(p)
  BY <1>17, <1>c, <1>d, <1>f, <1>g DEF PutParent, IpPlaces
<1>18. CASE UnlinkFind(p)
  BY <1>18, <1>c, <1>d, <1>f, <1>g DEF UnlinkFind, IpPlaces
<1>19. CASE UnlinkFails(p)
  BY <1>19, <1>c, <1>d, <1>f, <1>g DEF UnlinkFails, IpPlaces
<1>20. CASE UnlinkNotEmpty(p)
  BY <1>20, <1>c, <1>d, <1>f, <1>g DEF UnlinkNotEmpty, IpPlaces
<1>21. CASE UnlinkEntry(p)
  BY <1>21, <1>c, <1>d, <1>f, <1>g DEF UnlinkEntry, IpPlaces
<1>22. CASE Unlink(p)
  BY <1>22, <1>c, <1>d, <1>f, <1>g DEF Unlink, IpPlaces
<1>23. CASE CreateFind(p)
  BY <1>23, <1>c, <1>d, <1>f, <1>g DEF CreateFind, IpPlaces
<1>24. ASSUME NEW i \in Inode, CreateAlloc(p, i) PROVE PtrMoves(p)
  BY <1>24, <1>c, <1>d, <1>f, <1>g, <1>h DEF CreateAlloc, Alloced, FreeInodes
<1>25. CASE CreateNoInode(p)
  BY <1>25, <1>c, <1>d, <1>f, <1>g DEF CreateNoInode, IpPlaces
<1>26. CASE CreateNew(p)
  BY <1>26, <1>c, <1>d, <1>f, <1>g DEF CreateNew, IpPlaces
<1>27. CASE CreateFails(p)
  BY <1>27, <1>c, <1>d, <1>f, <1>g DEF CreateFails, IpPlaces
<1>28. CASE OpenCreated(p)
  BY <1>28, <1>c, <1>d, <1>f, <1>g DEF OpenCreated, OpenFile, Ready, IpPlaces
<1>29. CASE PutCreated(p)
  BY <1>29, <1>c, <1>d, <1>f, <1>g DEF PutCreated, IpPlaces
<1>30. CASE Close(p)
  BY <1>30, <1>c, <1>d, <1>f, <1>g DEF Close, FileClose, IpPlaces
<1>31. CASE Exit(p)
  BY <1>31, <1>c, <1>d, <1>f, <1>g DEF Exit, FileClose, IpPlaces
<1>32. CASE ExitPut(p)
  BY <1>32, <1>c, <1>d, <1>f, <1>g DEF ExitPut, IpPlaces
<1>33. ASSUME NEW c \in Calls, Call(p, c) PROVE PtrMoves(p)
  BY <1>33, <1>c, <1>d, <1>f, <1>g DEF Call, From, Reached
<1> QED
  BY <1>1, <1>2, <1>3, <1>4, <1>5, <1>6, <1>7, <1>8, <1>9, <1>10, <1>11, <1>12, <1>13,
     <1>14, <1>15, <1>16, <1>17, <1>18, <1>19, <1>20, <1>21, <1>22, <1>23, <1>24, <1>25,
     <1>26, <1>27, <1>28, <1>29, <1>30, <1>31, <1>32, <1>33
     DEF Step, Namex, IputStep, NameCall, UnlinkStep, CreateStep

LEMMA FilePtrStep ==
    ASSUME TypeOK, Locals, NEW p \in Proc, Step(p)
    PROVE  FilePtrs(p)
<1> USE DEF Goto, Set, Iput, FilePtrs
<1>1. FilesMove(p)
  BY FilesMoveStep
<1>2. CASE UNCHANGED <<fip, fref, fd>>
  BY <1>2
<1>3. CASE OpensOne(p)
  <2>1. LowestFile \in File
    BY <1>3, LowestFileFree DEF OpensOne, CanOpen
  <2> QED
    BY <1>3, <2>1 DEF OpensOne, OpenFile, Has, TypeOK, FilesOK
<1>4. CASE ClosesOne(p)
  BY <1>4, NoneNotPtr DEF ClosesOne, FileClose, TypeOK, FilesOK
<1> QED
  BY <1>1, <1>2, <1>3, <1>4 DEF FilesMove

(* Links change only at an inode to which the process has a pointer.        *)
NlinkMoves(p) == \A i \in Inode :
    /\ dinode'[i].nlink = dinode[i].nlink \/ Has(p, i) \/ Alloced(p, i)
    /\ Alloced(p, i) => dinode'[i].nlink = 0
    /\ Freed(p, i) => dinode'[i].nlink = dinode[i].nlink

LEMMA NlinkStep ==
    ASSUME TypeOK, Locals, Locks, Coherent, NEW p \in Proc, Step(p)
    PROVE  NlinkMoves(p)
<1>a. Clear(p)
  BY Cleared
<1>c. /\ DOMAIN pc = Proc /\ dinode \in [Inode -> Dinode] /\ pc[p] \in Places \cup InPut
      /\ DOMAIN ip = Proc
  BY DEF TypeOK, ProcsOK, DiskOK
<1>f. /\ Ilock(p, "walk") => pc[p] = "walk"
      /\ Ilock(p, "parent") => pc[p] = "parent"
      /\ \A s \in IpPlaces : Ilock(p, s) => pc[p] = s /\ ip[p] \in Inode /\ Seen(ip[p]) = dinode[ip[p]]
      /\ pc[p] = "unlinked" => ip[p] \in Inode /\ Seen(ip[p]) = dinode[ip[p]]
      /\ pc[p] \in {"new", "victim"} => dp[p] \in Inode /\ Seen(dp[p]) = dinode[dp[p]]
      /\ pc[p] = "trunc" => put[p] \in Inode /\ Seen(put[p]) = dinode[put[p]]
  BY <1>a DEF Clear, True, Ilock, Loc, InPut, LockedIp, LockedDp
<1> USE DEF Goto, Set, Iput, Iget, Load, Update, Return, Resume, disk, table, files, local,
           iput, NlinkMoves, Has, Alloced, Freed
<1>1. CASE WalkStep(p)
  BY <1>1, <1>c, <1>f DEF WalkStep, IpPlaces
<1>2. CASE WalkParent(p)
  BY <1>2, <1>c, <1>f DEF WalkParent, IpPlaces
<1>3. CASE WalkFails(p)
  BY <1>3, <1>c, <1>f DEF WalkFails, IpPlaces
<1>4. CASE DropRef(p)
  BY <1>4, <1>c, <1>f DEF DropRef, IpPlaces
<1>5. CASE LockLast(p)
  BY <1>5, <1>c, <1>f DEF LockLast, IpPlaces
<1>6. CASE Truncate(p)
  BY <1>6, <1>c, <1>f DEF Truncate, IpPlaces, Linked, Dinode
<1>7. CASE Invalidate(p)
  BY <1>7, <1>c, <1>f DEF Invalidate, IpPlaces
<1>8. CASE Open(p)
  BY <1>8, <1>c, <1>f DEF Open, OpenFile, IpPlaces
<1>9. CASE UnlockPut(p)
  BY <1>9, <1>c, <1>f DEF UnlockPut, IpPlaces
<1>10. CASE Chdir(p)
  BY <1>10, <1>c, <1>f DEF Chdir, IpPlaces
<1>11. CASE LinkOld(p)
  BY <1>11, <1>c, <1>f DEF LinkOld, IpPlaces, Linked, Dinode
<1>12. CASE LinkTaken(p)
  BY <1>12, <1>c, <1>f DEF LinkTaken, IpPlaces
<1>13. CASE LinkNoRoom(p)
  BY <1>13, <1>c, <1>f DEF LinkNoRoom, IpPlaces
<1>14. CASE LinkNew(p)
  BY <1>14, <1>c, <1>f DEF LinkNew, IpPlaces
<1>15. CASE PutIp(p)
  BY <1>15, <1>c, <1>f DEF PutIp, IpPlaces
<1>16. CASE LinkUndo(p)
  BY <1>16, <1>c, <1>f DEF LinkUndo, IpPlaces, Linked, Dinode
<1>17. CASE PutParent(p)
  BY <1>17, <1>c, <1>f DEF PutParent, IpPlaces
<1>18. CASE UnlinkFind(p)
  BY <1>18, <1>c, <1>f DEF UnlinkFind, IpPlaces
<1>19. CASE UnlinkFails(p)
  BY <1>19, <1>c, <1>f DEF UnlinkFails, IpPlaces
<1>20. CASE UnlinkNotEmpty(p)
  BY <1>20, <1>c, <1>f DEF UnlinkNotEmpty, IpPlaces
<1>21. CASE UnlinkEntry(p)
  BY <1>21, <1>c, <1>f DEF UnlinkEntry, IpPlaces, Linked, Dinode
<1>22. CASE Unlink(p)
  BY <1>22, <1>c, <1>f DEF Unlink, IpPlaces, Linked, Dinode
<1>23. CASE CreateFind(p)
  BY <1>23, <1>c, <1>f DEF CreateFind, IpPlaces
<1>24. ASSUME NEW i \in Inode, CreateAlloc(p, i) PROVE NlinkMoves(p)
  BY <1>24, <1>c, <1>f DEF CreateAlloc, FreeInodes
<1>25. CASE CreateNoInode(p)
  BY <1>25, <1>c, <1>f DEF CreateNoInode, IpPlaces
<1>26. CASE CreateNew(p)
  BY <1>26, <1>c, <1>f DEF CreateNew, IpPlaces, Linked, Dinode
<1>27. CASE CreateFails(p)
  BY <1>27, <1>c, <1>f DEF CreateFails, IpPlaces, Linked, Dinode
<1>28. CASE OpenCreated(p)
  BY <1>28, <1>c, <1>f DEF OpenCreated, OpenFile, Ready, IpPlaces
<1>29. CASE PutCreated(p)
  BY <1>29, <1>c, <1>f DEF PutCreated, IpPlaces
<1>30. CASE Close(p)
  BY <1>30, <1>c, <1>f DEF Close, FileClose, IpPlaces
<1>31. CASE Exit(p)
  BY <1>31, <1>c, <1>f DEF Exit, FileClose, IpPlaces
<1>32. CASE ExitPut(p)
  BY <1>32, <1>c, <1>f DEF ExitPut, IpPlaces
<1>33. ASSUME NEW c \in Calls, Call(p, c) PROVE NlinkMoves(p)
  BY <1>33, <1>c, <1>f DEF Call, IpPlaces
<1> QED
  BY <1>1, <1>2, <1>3, <1>4, <1>5, <1>6, <1>7, <1>8, <1>9, <1>10, <1>11, <1>12, <1>13,
     <1>14, <1>15, <1>16, <1>17, <1>18, <1>19, <1>20, <1>21, <1>22, <1>23, <1>24, <1>25,
     <1>26, <1>27, <1>28, <1>29, <1>30, <1>31, <1>32, <1>33
     DEF Step, Namex, IputStep, NameCall, UnlinkStep, CreateStep

-----------------------------------------------------------------------------
(* What a step does to the counts of links: three steps write or clear an   *)
(* entry, and the others count a link when the process owes one, and no     *)
(* more.                                                                    *)
Balanced(p) ==
    /\ \A d \in Inode, n \in Name : ent'[d][n] = ent[d][n] \/ ent'[d][n] = None
    /\ \A j \in Inode : dinode'[j].nlink - One(Owes(p)' = j) = dinode[j].nlink - One(Owes(p) = j)
OwesMove(p) == Balanced(p) \/ LinkNew(p) \/ UnlinkEntry(p) \/ CreateNew(p)

LEMMA OwesStep ==
    ASSUME TypeOK, Locals, Locks, RefExact, Coherent, FreeClean, Fresh, NEW p \in Proc, Step(p)
    PROVE  OwesMove(p)
<1>a. Clear(p)
  BY Cleared
<1>b. LocalsAt(p) /\ CallAt(p) /\ \A i \in Inode : i # None
  BY NoneNotPtr DEF Locals
<1>c. /\ DOMAIN pc = Proc /\ dinode \in [Inode -> Dinode] /\ pc[p] \in Places \cup InPut
      /\ DOMAIN ip = Proc /\ DOMAIN ret = Proc /\ DOMAIN call = Proc /\ DOMAIN put = Proc
      /\ DOMAIN ent = Inode
  BY DEF TypeOK, ProcsOK, DiskOK
<1>f. /\ Ilock(p, "walk") => pc[p] = "walk"
      /\ Ilock(p, "parent") => pc[p] = "parent"
      /\ \A s \in IpPlaces : Ilock(p, s) => pc[p] = s /\ ip[p] \in Inode /\ Seen(ip[p]) = dinode[ip[p]]
      /\ pc[p] = "unlinked" => ip[p] \in Inode /\ Seen(ip[p]) = dinode[ip[p]]
      /\ pc[p] = "trunc" => put[p] \in Inode /\ Seen(put[p]) = dinode[put[p]]
  BY <1>a DEF Clear, True, Ilock, Loc, InPut, LockedIp
<1>g. /\ pc[p] \in InPut => ret[p] \in Places \ {"parent", "new", "victim"}
      /\ ip[p] # None => Loc(p) \in WithIp \cup {"walk", "parent"}
      /\ Loc(p) \in {"walk", "parent"} /\ ip[p] # None => call[p].op = "link"
  BY <1>b DEF LocalsAt, CallAt
<1> USE DEF One
<1> USE DEF Goto, Set, Iput, Iget, Load, Update, Return, Resume, disk, table, files, local, iput,
           OwesMove, Balanced, Owes, OwedAt, Loc, Places, InPut, WithIp
<1>1. CASE WalkStep(p)
  BY <1>1, <1>b, <1>c, <1>f, <1>g DEF WalkStep, Last, WantsParent, LinkTarget
<1>2. CASE WalkParent(p)
  BY <1>2, <1>b, <1>c, <1>f, <1>g DEF WalkParent, IpPlaces
<1>3. CASE WalkFails(p)
  BY <1>3, <1>b, <1>c, <1>f, <1>g DEF WalkFails, Fail, LinkTarget
<1>4. CASE DropRef(p)
  BY <1>4, <1>b, <1>c, <1>f, <1>g DEF DropRef, IpPlaces
<1>5. CASE LockLast(p)
  BY <1>5, <1>b, <1>c, <1>f, <1>g DEF LockLast, IpPlaces
<1>6. CASE Truncate(p)
  BY <1>6, <1>b, <1>c, <1>f, <1>g DEF Truncate, Dinode, NoEntries
<1>7. CASE Invalidate(p)
  BY <1>7, <1>b, <1>c, <1>f, <1>g DEF Invalidate, IpPlaces
<1>8. CASE Open(p)
  BY <1>8, <1>b, <1>c, <1>f, <1>g DEF Open, OpenFile, IpPlaces
<1>9. CASE UnlockPut(p)
  BY <1>9, <1>b, <1>c, <1>f, <1>g DEF UnlockPut, IpPlaces
<1>10. CASE Chdir(p)
  BY <1>10, <1>b, <1>c, <1>f, <1>g DEF Chdir, IpPlaces
<1>11. CASE LinkOld(p)
  BY <1>11, <1>b, <1>c, <1>f, <1>g DEF LinkOld, IpPlaces, Linked, Dinode
<1>12. CASE LinkTaken(p)
  BY <1>12, <1>b, <1>c, <1>f, <1>g DEF LinkTaken, IpPlaces
<1>13. CASE LinkNoRoom(p)
  BY <1>13, <1>b, <1>c, <1>f, <1>g DEF LinkNoRoom, IpPlaces
<1>14. CASE LinkNew(p)
  BY <1>14 DEF OwesMove
<1>15. CASE PutIp(p)
  BY <1>15, <1>b, <1>c, <1>f, <1>g DEF PutIp, IpPlaces
<1>16. CASE LinkUndo(p)
  BY <1>16, <1>b, <1>c, <1>f, <1>g DEF LinkUndo, IpPlaces, Linked, Dinode
<1>17. CASE PutParent(p)
  BY <1>17, <1>b, <1>c, <1>f, <1>g DEF PutParent, IpPlaces
<1>18. CASE UnlinkFind(p)
  BY <1>18, <1>b, <1>c, <1>f, <1>g DEF UnlinkFind, IpPlaces
<1>19. CASE UnlinkFails(p)
  BY <1>19, <1>b, <1>c, <1>f, <1>g DEF UnlinkFails, IpPlaces
<1>20. CASE UnlinkNotEmpty(p)
  BY <1>20, <1>b, <1>c, <1>f, <1>g DEF UnlinkNotEmpty, IpPlaces
<1>21. CASE UnlinkEntry(p)
  BY <1>21 DEF OwesMove
<1>22. CASE Unlink(p)
  BY <1>22, <1>b, <1>c, <1>f, <1>g DEF Unlink, IpPlaces, Linked, Dinode
<1>23. CASE CreateFind(p)
  BY <1>23, <1>b, <1>c, <1>f, <1>g DEF CreateFind, Creates
<1>24. ASSUME NEW i \in Inode, CreateAlloc(p, i) PROVE OwesMove(p)
  BY <1>24, <1>b, <1>c, <1>f, <1>g DEF CreateAlloc, Creates, FreeInodes, FreeClean
<1>25. CASE CreateNoInode(p)
  BY <1>25, <1>b, <1>c, <1>f, <1>g DEF CreateNoInode, Creates
<1>26. CASE CreateNew(p)
  BY <1>26 DEF OwesMove
<1>27. CASE CreateFails(p)
  BY <1>27, <1>b, <1>c, <1>f, <1>g DEF CreateFails, IpPlaces, Dinode, Fresh
<1>28. CASE OpenCreated(p)
  BY <1>28, <1>b, <1>c, <1>f, <1>g DEF OpenCreated, OpenFile, Ready, IpPlaces
<1>29. CASE PutCreated(p)
  BY <1>29, <1>b, <1>c, <1>f, <1>g DEF PutCreated, Ready, IpPlaces
<1>30. CASE Close(p)
  BY <1>30, <1>b, <1>c, <1>f, <1>g DEF Close, FileClose, IpPlaces
<1>31. CASE Exit(p)
  BY <1>31, <1>b, <1>c, <1>f, <1>g DEF Exit, FileClose, IpPlaces
<1>32. CASE ExitPut(p)
  BY <1>32, <1>b, <1>c, <1>f, <1>g DEF ExitPut, IpPlaces
<1>33. ASSUME NEW c \in Calls, Call(p, c) PROVE OwesMove(p)
  BY <1>33, <1>b, <1>c, <1>f, <1>g DEF Call
<1> QED
  BY <1>1, <1>2, <1>3, <1>4, <1>5, <1>6, <1>7, <1>8, <1>9, <1>10, <1>11, <1>12, <1>13,
     <1>14, <1>15, <1>16, <1>17, <1>18, <1>19, <1>20, <1>21, <1>22, <1>23, <1>24, <1>25,
     <1>26, <1>27, <1>28, <1>29, <1>30, <1>31, <1>32, <1>33
     DEF Step, Namex, IputStep, NameCall, UnlinkStep, CreateStep

(* Counting the entries that name an inode and the directories that it names. *)
EntAt == [e \in Inode \X Name |-> ent[e[1]][e[2]]]
KindNamed(i, n) == IF ent[i][n] = None THEN "none" ELSE dinode[ent[i][n]].type
KindAt(i) == [n \in Name |-> KindNamed(i, n)]

LEMMA CountedBy ==
    ASSUME NEW i
    PROVE  /\ Cardinality(NamedBy(i)) = N(Inode \X Name, EntAt, i)
           /\ Cardinality(NamedBy(i))' = N(Inode \X Name, EntAt', i)
           /\ Cardinality(SubDirs(i)) = N(Name, KindAt(i), "dir")
           /\ Cardinality(SubDirs(i))' = N(Name, KindAt(i)', "dir")
<1>1. NamedBy(i) = {e \in Inode \X Name : EntAt[e] = i}
  BY DEF NamedBy, EntAt
<1>2. NamedBy(i)' = {e \in Inode \X Name : EntAt'[e] = i}
  BY DEF NamedBy, EntAt
<1>3. SubDirs(i) = {n \in Name : KindAt(i)[n] = "dir"}
  BY DEF SubDirs, KindAt, KindNamed
<1>4. SubDirs(i)' = {n \in Name : KindAt(i)'[n] = "dir"}
  BY DEF SubDirs, KindAt, KindNamed
<1> QED
  BY <1>1, <1>2, <1>3, <1>4 DEF N

LEMMA FinitePlaces == IsFiniteSet(Inode) /\ IsFiniteSet(Name) /\ IsFiniteSet(Inode \X Name)
<1>1. IsFiniteSet(Inode) /\ IsFiniteSet(Name)
  BY Finite
<1> QED
  BY <1>1, FS_Product

LEMMA LinkNats ==
    ASSUME NEW i
    PROVE  /\ Cardinality(NamedBy(i)) \in Nat /\ Cardinality(SubDirs(i)) \in Nat
           /\ N(Proc, OwedTo, i) \in Nat
           /\ IsFiniteSet(NamedBy(i)) /\ IsFiniteSet(SubDirs(i))
<1>1. IsFiniteSet(NamedBy(i)) /\ IsFiniteSet(SubDirs(i))
  BY FinitePlaces, FS_Subset DEF NamedBy, SubDirs
<1> QED
  BY <1>1, FS_CardinalityType, CountIsNat

(* A change of one entry.                                                   *)
LEMMA OneEntry ==
    ASSUME NEW d \in Inode, NEW n \in Name, NEW j \in Inode,
           \A e \in Inode, m \in Name : e # d \/ m # n => ent'[e][m] = ent[e][m],
           \A e \in Inode, m \in Name : ent[e][m] \in Ptr,
           \A i \in Inode : dinode'[i].type = dinode[i].type
    PROVE  /\ Cardinality(NamedBy(j))' = Cardinality(NamedBy(j)) - One(ent[d][n] = j) + One(ent'[d][n] = j)
           /\ Cardinality(SubDirs(j))' = Cardinality(SubDirs(j))
                 - One(j = d /\ KindNamed(d, n) = "dir") + One(j = d /\ KindNamed(d, n)' = "dir")
<1>1. /\ EntAt[<<d, n>>] = ent[d][n] /\ EntAt'[<<d, n>>] = ent'[d][n] /\ <<d, n>> \in Inode \X Name
      /\ \A e \in Inode \X Name : e # <<d, n>> => EntAt'[e] = EntAt[e]
  BY DEF EntAt
<1>2. Moved(Inode \X Name, EntAt, EntAt', <<d, n>>, j)
  BY <1>1, FinitePlaces, PointUpdate
<1>3. \A m \in Name : j # d \/ m # n => KindAt(j)'[m] = KindAt(j)[m]
  BY DEF KindAt, KindNamed, Ptr
<1>4. KindAt(d)[n] = KindNamed(d, n) /\ KindAt(d)'[n] = KindNamed(d, n)'
  BY DEF KindAt
<1>5. CASE j = d
  <2>1. Moved(Name, KindAt(j), KindAt(j)', n, "dir")
    BY <1>3, <1>5, FinitePlaces, PointUpdate
  <2> QED
    BY <1>1, <1>2, <1>4, <1>5, <2>1, CountedBy DEF Moved
<1>6. CASE j # d
  <2>1. N(Name, KindAt(j)', "dir") = N(Name, KindAt(j), "dir") /\ N(Name, KindAt(j), "dir") \in Nat
    BY <1>3, <1>6, FinitePlaces, Unchanged
  <2>2. One(j = d /\ KindNamed(d, n) = "dir") = 0 /\ One(j = d /\ KindNamed(d, n)' = "dir") = 0
    BY <1>6 DEF One
  <2>3. Cardinality(NamedBy(j))' = Cardinality(NamedBy(j)) - One(ent[d][n] = j) + One(ent'[d][n] = j)
    BY <1>1, <1>2, CountedBy DEF Moved
  <2>4. Cardinality(SubDirs(j))' = Cardinality(SubDirs(j)) /\ Cardinality(SubDirs(j)) \in Nat
    BY <2>1, CountedBy
  <2> QED
    BY <2>2, <2>3, <2>4
<1> QED
  BY <1>5, <1>6

(* Who owes a link to an inode.                                             *)
LEMMA OwedMoves ==
    ASSUME NEW p \in Proc, \A q \in Proc : q # p => Same(q), NEW j
    PROVE  N(Proc, OwedTo', j) = N(Proc, OwedTo, j) - One(Owes(p) = j) + One(Owes(p)' = j)
<1>1. \A q \in Proc : OwedTo[q] = Owes(q) /\ OwedTo'[q] = Owes(q)'
  BY DEF OwedTo
<1>2. \A q \in Proc : q # p => Owes(q)' = Owes(q)
  BY SameLoc DEF Owes, Same
<1>3. Moved(Proc, OwedTo, OwedTo', p, j)
  BY <1>1, <1>2, FsAssumption, PointUpdate
<1> QED
  BY <1>1, <1>3 DEF Moved

(* What is reached has a link.                                              *)
LEMMA ReachedLinked ==
    ASSUME Counted, NEW i \in Inode, dinode[i].nlink \in Int, Reached(i)
    PROVE  dinode[i].nlink >= 1
<1>1. /\ Cardinality(NamedBy(i)) \in Nat /\ Cardinality(SubDirs(i)) \in Nat
      /\ N(Proc, OwedTo, i) \in Nat /\ IsFiniteSet(NamedBy(i))
  BY LinkNats
<1>2. One(i = ROOTINO) \in {0, 1} /\ (i = ROOTINO => One(i = ROOTINO) = 1)
  BY DEF One
<1>3. NamedBy(i) # {} => Cardinality(NamedBy(i)) # 0
  BY <1>1, FS_EmptySet
<1> QED
  BY <1>1, <1>2, <1>3 DEF Counted, Links, Reached
(* Links cover the entries after each step.                                 *)
LEMMA BalancedCounted ==
    ASSUME IInv, TypeOK', Counted, FreeClean, NEW p \in Proc, Step(p), Balanced(p)
    PROVE  Counted'
<1> SUFFICES ASSUME NEW j \in Inode PROVE Links(j)' <= dinode'[j].nlink
  BY DEF Counted
<1>1. dinode[j].nlink \in Int /\ dinode'[j].nlink \in Int
  BY DEF IInv, Base, TypeOK, DiskOK, Dinode
<1>2. NamedBy(j)' \subseteq NamedBy(j)
  BY NoneNotPtr DEF Balanced, NamedBy
<1>3. SubDirs(j)' \subseteq SubDirs(j)
  <2> SUFFICES ASSUME NEW n \in Name, ent'[j][n] # None, dinode'[ent'[j][n]].type = "dir"
               PROVE  ent[j][n] # None /\ dinode[ent[j][n]].type = "dir"
    BY DEF SubDirs
  <2>1. ent'[j][n] = ent[j][n] /\ ent[j][n] \in Inode
    BY DEF Balanced, IInv, Base, TypeOK, DiskOK, Ptr
  <2>2. dinode[ent[j][n]].nlink >= 1
    <3>1. <<j, n>> \in NamedBy(ent[j][n])
      BY DEF NamedBy
    <3>2. dinode[ent[j][n]].nlink \in Int
      BY <2>1 DEF IInv, Base, TypeOK, DiskOK, Dinode
    <3> QED
      BY <2>1, <3>1, <3>2, ReachedLinked DEF Reached
  <2>3. dinode[ent[j][n]].type # "free"
    BY <2>1, <2>2 DEF FreeClean
  <2>4. TypesKept(p)
    BY TypesStep DEF IInv, Base, Tree
  <2> QED
    BY <2>1, <2>3, <2>4 DEF TypesKept, Freed, Alloced
<1>4. /\ Cardinality(NamedBy(j)) \in Nat /\ Cardinality(SubDirs(j)) \in Nat
      /\ IsFiniteSet(NamedBy(j)) /\ IsFiniteSet(SubDirs(j)) /\ N(Proc, OwedTo, j) \in Nat
  BY LinkNats
<1>5. /\ Cardinality(NamedBy(j))' <= Cardinality(NamedBy(j)) /\ Cardinality(NamedBy(j))' \in Nat
      /\ Cardinality(SubDirs(j))' <= Cardinality(SubDirs(j)) /\ Cardinality(SubDirs(j))' \in Nat
  BY <1>2, <1>3, <1>4, FS_Subset, FS_CardinalityType
<1>6. N(Proc, OwedTo', j) = N(Proc, OwedTo, j) - One(Owes(p) = j) + One(Owes(p)' = j)
  BY Elsewhere, OwedMoves DEF IInv, Base
<1>7. One(Owes(p) = j) \in Int /\ One(Owes(p)' = j) \in Int /\ One(j = ROOTINO) \in Int
  BY DEF One
<1>8. dinode'[j].nlink - One(Owes(p)' = j) = dinode[j].nlink - One(Owes(p) = j)
  BY DEF Balanced
<1>9. Links(j) <= dinode[j].nlink
  BY DEF Counted
<1> QED
  BY <1>1, <1>4, <1>5, <1>6, <1>7, <1>8, <1>9 DEF Links

(* One entry is written or cleared, in a directory d that the process has   *)
(* looked up by name.                                                       *)
OneLink(p, d, n) ==
    /\ d \in Inode /\ n \in Name
    /\ \A e \in Inode, m \in Name : e # d \/ m # n => ent'[e][m] = ent[e][m]
    /\ \A i \in Inode : dinode'[i].type = dinode[i].type

Delta(p, d, n, j) == One(ent'[d][n] = j) - One(ent[d][n] = j)
                     + One(j = d /\ KindNamed(d, n)' = "dir") - One(j = d /\ KindNamed(d, n) = "dir")
                     + One(Owes(p)' = j) - One(Owes(p) = j)

LEMMA OneLinkCounted ==
    ASSUME IInv, TypeOK', Counted, NEW p \in Proc, Step(p), NEW d, NEW n, OneLink(p, d, n),
           \A j \in Inode : dinode[j].nlink + Delta(p, d, n, j) <= dinode'[j].nlink
    PROVE  Counted'
<1> SUFFICES ASSUME NEW j \in Inode PROVE Links(j)' <= dinode'[j].nlink
  BY DEF Counted
<1>1. dinode[j].nlink \in Int /\ dinode'[j].nlink \in Int
  BY DEF IInv, Base, TypeOK, DiskOK, Dinode
<1>2. \A e \in Inode, m \in Name : ent[e][m] \in Ptr
  BY DEF IInv, Base, TypeOK, DiskOK
<1>3. /\ Cardinality(NamedBy(j))' = Cardinality(NamedBy(j)) - One(ent[d][n] = j) + One(ent'[d][n] = j)
      /\ Cardinality(SubDirs(j))' = Cardinality(SubDirs(j))
            - One(j = d /\ KindNamed(d, n) = "dir") + One(j = d /\ KindNamed(d, n)' = "dir")
  BY <1>2, OneEntry DEF OneLink
<1>4. Cardinality(NamedBy(j)) \in Nat /\ Cardinality(SubDirs(j)) \in Nat /\ N(Proc, OwedTo, j) \in Nat
  BY LinkNats
<1>5. N(Proc, OwedTo', j) = N(Proc, OwedTo, j) - One(Owes(p) = j) + One(Owes(p)' = j)
  BY Elsewhere, OwedMoves DEF IInv, Base
<1>6. Links(j) <= dinode[j].nlink
  BY DEF Counted
<1>7. \A b : One(b) \in {0, 1}
  BY DEF One
<1> QED
  BY <1>1, <1>3, <1>4, <1>5, <1>6, <1>7 DEF Links, Delta

LEMMA LinkNewCounted ==
    ASSUME IInv, TypeOK', Plain, Counted, NEW p \in Proc, LinkNew(p)
    PROVE  Counted'
<1> USE DEF Goto, Set, Iput
<1>a. /\ pc[p] = "parent" /\ dp[p] \in Inode /\ Loc(p) = "parent" /\ call[p].op = "link"
      /\ Entry(dp[p], NextName(p)) = None
  BY Ilocked DEF IInv, Base, LockedAt, LinkNew, Loc, InPut
<1>b. NextName(p) \in Name /\ ent[dp[p]][NextName(p)] = None
  BY <1>a, PlainName, NoneNotPtr, FsAssumption DEF IInv, Base, Entry
<1>1. PICK d \in Inode, n \in Name : d = dp[p] /\ n = NextName(p)
  BY <1>a, <1>b
<1>2. ent[d][n] = None
  BY <1>1, <1>b
<1>3. ip[p] \in Inode /\ dinode[ip[p]].type = "file"
  BY <1>a DEF IInv, Base, Tree, Locals, CallAt, Settled, Target, TypeOK, ProcsOK, Ptr
<1>4. ent'[d][n] = ip[p] /\ dinode' = dinode
  BY <1>1, <1>2 DEF LinkNew, IInv, Base, TypeOK, DiskOK
<1>5. OneLink(p, d, n)
  BY <1>1, <1>2, <1>4 DEF LinkNew, OneLink, IInv, Base, TypeOK, DiskOK
<1>6. Owes(p) = ip[p] /\ Owes(p)' = None
  <2>1. Loc(p)' = "putip"
    BY DEF LinkNew, Loc, InPut, IInv, Base, TypeOK, ProcsOK
  <2> QED
    BY <1>a, <2>1 DEF Owes, OwedAt
<1>7. KindNamed(d, n) = "none" /\ KindNamed(d, n)' = "file"
  BY <1>2, <1>3, <1>4, NoneNotPtr DEF KindNamed
<1>8. \A j \in Inode : dinode[j].nlink + Delta(p, d, n, j) <= dinode'[j].nlink
  <2> TAKE j \in Inode
  <2>1. Delta(p, d, n, j) = 0
    BY <1>2, <1>4, <1>6, <1>7, NoneNotPtr DEF Delta, One
  <2>2. dinode[j].nlink \in Int
    BY DEF IInv, Base, TypeOK, DiskOK, Dinode
  <2> QED
    BY <1>4, <2>1, <2>2
<1>9. Step(p)
  BY DEF Step, NameCall
<1> QED
  BY <1>5, <1>8, <1>9, OneLinkCounted

LEMMA UnlinkEntryCounted ==
    ASSUME IInv, TypeOK', Counted, NEW p \in Proc, UnlinkEntry(p)
    PROVE  Counted'
<1> USE DEF Goto, Set, Iput
<1>a. Clear(p) /\ LockedAt(p) /\ Ilock(p, "victim")
  BY Cleared, Ilocked DEF IInv, Base, Tree, UnlinkEntry
<1>b. /\ pc[p] = "victim" /\ Loc(p) = "victim" /\ ip[p] \in Inode /\ Seen(ip[p]) = dinode[ip[p]]
      /\ dp[p] \in Inode /\ Seen(dp[p]) = dinode[dp[p]]
  BY <1>a DEF Clear, True, LockedAt, IpPlaces, Loc, InPut, LockedDp
<1>c. NextName(p) \in Name
  BY <1>b DEF IInv, Tree, VictimNamed, NewApart
<1>1. PICK d \in Inode, i \in Inode, n \in Name : d = dp[p] /\ i = ip[p] /\ n = NextName(p)
  BY <1>b, <1>c
<1>2. /\ pc[p] = "victim" /\ Loc(p) = "victim"
      /\ Seen(i) = dinode[i] /\ Seen(d) = dinode[d]
  BY <1>1, <1>b
<1>3. ent[d][n] = i
  BY <1>1, <1>2 DEF IInv, Tree, VictimNamed
<1>4. ent'[d][n] = None
  BY <1>1, <1>2, <1>3 DEF UnlinkEntry, IInv, Base, TypeOK, DiskOK
<1>5. /\ \A j \in Inode : dinode'[j].type = dinode[j].type
      /\ \A j \in Inode : dinode'[j].nlink = dinode[j].nlink - One(j = d /\ dinode[i].type = "dir")
  BY <1>1, <1>2 DEF UnlinkEntry, IsDir, Linked, IInv, Base, TypeOK, DiskOK, Dinode, One
<1>6. OneLink(p, d, n)
  BY <1>1, <1>2, <1>3, <1>5 DEF UnlinkEntry, OneLink, IInv, Base, TypeOK, DiskOK
<1>7. Owes(p) = None /\ Owes(p)' = i
  <2>1. Loc(p)' = "unlinked" /\ ip' = ip
    BY DEF UnlinkEntry, Loc, InPut, IInv, Base, TypeOK, ProcsOK
  <2> QED
    BY <1>1, <1>2, <2>1 DEF Owes, OwedAt
<1>8. KindNamed(d, n) = dinode[i].type /\ KindNamed(d, n)' = "none"
  BY <1>1, <1>2, <1>3, <1>4, NoneNotPtr DEF KindNamed
<1>9. \A j \in Inode : dinode[j].nlink + Delta(p, d, n, j) <= dinode'[j].nlink
  <2> TAKE j \in Inode
  <2>1. Delta(p, d, n, j) = 0 - One(j = d /\ dinode[i].type = "dir")
    BY <1>1, <1>3, <1>4, <1>7, <1>8, NoneNotPtr DEF Delta, One
  <2>2. dinode[j].nlink \in Int /\ One(j = d /\ dinode[i].type = "dir") \in Int
    BY DEF IInv, Base, TypeOK, DiskOK, Dinode, One
  <2> QED
    BY <1>5, <2>1, <2>2
<1>10. Step(p)
  BY DEF Step, UnlinkStep
<1> QED
  BY <1>6, <1>9, <1>10, OneLinkCounted

LEMMA CreateNewCounted ==
    ASSUME IInv, TypeOK', Counted, Fresh, NEW p \in Proc, CreateNew(p)
    PROVE  Counted'
<1> USE DEF Goto, Set, Iput
<1>a. Clear(p) /\ LockedAt(p) /\ Ilock(p, "new")
  BY Cleared, Ilocked DEF IInv, Base, Tree, CreateNew
<1>b. /\ pc[p] = "new" /\ Loc(p) = "new" /\ ip[p] \in Inode /\ Seen(ip[p]) = dinode[ip[p]]
      /\ dp[p] \in Inode /\ Seen(dp[p]) = dinode[dp[p]]
  BY <1>a DEF Clear, True, LockedAt, IpPlaces, Loc, InPut, LockedDp
<1>c. NextName(p) \in Name
  BY <1>b DEF IInv, Tree, VictimNamed, NewApart
<1>1. PICK d \in Inode, i \in Inode, n \in Name : d = dp[p] /\ i = ip[p] /\ n = NextName(p)
  BY <1>b, <1>c
<1>2. /\ pc[p] = "new" /\ Loc(p) = "new"
      /\ Seen(i) = dinode[i] /\ Seen(d) = dinode[d]
  BY <1>1, <1>b
<1>3. ent[d][n] = None /\ i # d /\ dinode[i].nlink = 0 /\ dinode[i].type = Kind(p)
  BY <1>1, <1>2 DEF IInv, Tree, NewApart, Fresh, Settled
<1>4. ent'[d][n] = i
  BY <1>1, <1>2, <1>3 DEF CreateNew, IInv, Base, TypeOK, DiskOK
<1>5. /\ \A j \in Inode : dinode'[j].type = dinode[j].type
      /\ \A j \in Inode : dinode'[j].nlink = dinode[j].nlink + One(j = i) + One(j = d /\ Kind(p) = "dir")
  <2>1. /\ dinode'[i] = [dinode[i] EXCEPT !.nlink = 1]
        /\ dinode'[d] = IF Kind(p) = "dir" THEN [dinode[d] EXCEPT !.nlink = @ + 1] ELSE dinode[d]
        /\ \A j \in Inode : j # i /\ j # d => dinode'[j] = dinode[j]
    BY <1>1, <1>2, <1>3 DEF CreateNew, Linked, IInv, Base, TypeOK, DiskOK
  <2>2. \A j \in Inode : dinode[j] \in Dinode
    BY DEF IInv, Base, TypeOK, DiskOK
  <2>3. dinode'[i].type = dinode[i].type /\ dinode'[i].nlink = 1
    BY <2>1, <2>2 DEF Dinode
  <2>4. /\ dinode'[d].type = dinode[d].type
        /\ dinode'[d].nlink = dinode[d].nlink + One(Kind(p) = "dir")
    <3>1. dinode[d] \in Dinode
      BY <2>2
    <3>2. CASE Kind(p) = "dir"
      BY <2>1, <3>1, <3>2 DEF Dinode, One
    <3>3. CASE Kind(p) # "dir"
      BY <2>1, <3>1, <3>3 DEF Dinode, One
    <3> QED
      BY <3>2, <3>3
  <2>5. ASSUME NEW j \in Inode
        PROVE  /\ dinode'[j].type = dinode[j].type
               /\ dinode'[j].nlink = dinode[j].nlink + One(j = i) + One(j = d /\ Kind(p) = "dir")
    <3>1. dinode[j].nlink \in Int
      BY <2>2 DEF Dinode
    <3>2. CASE j = i
      BY <1>3, <2>3, <3>2 DEF One
    <3>3. CASE j = d
      BY <1>3, <2>4, <3>1, <3>3 DEF One
    <3>4. CASE j # i /\ j # d
      BY <2>1, <3>1, <3>4 DEF One
    <3> QED
      BY <3>2, <3>3, <3>4
  <2> QED
    BY <2>5
<1>6. OneLink(p, d, n)
  <2>1. \A e \in Inode, m \in Name : e # d \/ m # n => ent'[e][m] = ent[e][m]
    BY <1>1 DEF CreateNew, IInv, Base, TypeOK, DiskOK
  <2> QED
    BY <1>5, <2>1 DEF OneLink
<1>7. Owes(p) = None /\ Owes(p)' = None
  <2>1. Loc(p)' = "created"
    BY DEF CreateNew, Loc, InPut, IInv, Base, TypeOK, ProcsOK
  <2> QED
    BY <1>1, <1>2, <2>1 DEF Owes, OwedAt
<1>8. KindNamed(d, n) = "none" /\ KindNamed(d, n)' = Kind(p)
  BY <1>1, <1>2, <1>3, <1>4, <1>5, NoneNotPtr DEF KindNamed
<1>9. \A j \in Inode : dinode[j].nlink + Delta(p, d, n, j) <= dinode'[j].nlink
  <2> TAKE j \in Inode
  <2>1. Delta(p, d, n, j) = One(j = i) + One(j = d /\ Kind(p) = "dir")
    BY <1>1, <1>3, <1>4, <1>7, <1>8, NoneNotPtr DEF Delta, One
  <2>2. /\ dinode[j].nlink \in Int
        /\ One(j = i) \in Int /\ One(j = d /\ Kind(p) = "dir") \in Int
    BY DEF IInv, Base, TypeOK, DiskOK, Dinode, One
  <2> QED
    BY <1>5, <2>1, <2>2
<1>10. Step(p)
  BY DEF Step, CreateStep
<1> QED
  BY <1>6, <1>9, <1>10, OneLinkCounted

LEMMA CountedStep ==
    ASSUME IInv, Tied, NEW p \in Proc, Step(p)
    PROVE  Counted'
<1>1. OwesMove(p) /\ TypeOK'
  BY OwesStep, TypeStep DEF IInv, Base, Tree, Tied
<1> QED
  BY <1>1, BalancedCounted, LinkNewCounted, UnlinkEntryCounted, CreateNewCounted DEF OwesMove, Tied
-----------------------------------------------------------------------------
(* Nobody has a pointer to an inode that another frees.                     *)
LEMMA TruncAlone ==
    ASSUME IInv, Alone, NEW q \in Proc, pc[q] = "trunc"
    PROVE  /\ put[q] \in Inode /\ ref[put[q]] = 1
           /\ \A r \in Proc : r # q => ~Has(r, put[q]) /\ put[r] # put[q]
           /\ cur[q] # put[q] /\ ip[q] # put[q] /\ dp[q] # put[q] /\ cwd[q] # put[q]
           /\ \A f \in File : fip[f] # put[q]
<1>1. put[q] \in Inode /\ ref[put[q]] = 1
  <2>1. put[q] \in Ptr /\ LocalsAt(q)
    BY DEF IInv, Base, TypeOK, ProcsOK, Locals
  <2> QED
    BY <2>1 DEF Alone, LocalsAt, InPut, Ptr
<1> QED
  BY <1>1, OnlyOne DEF IInv, Has

LEMMA SameHas ==
    ASSUME NEW q \in Proc, Same(q), NEW i
    PROVE  Has(q, i)' <=> Has(q, i)
  BY DEF Same, Has

(* What a step can say of an inode that is not reached.                     *)
LEMMA Untouched ==
    ASSUME IInv, Tied, NEW p \in Proc, Step(p), NEW i \in Inode,
           dinode[i].nlink = 0, ~Alloced(p, i), ~Has(p, i), \A f \in File : fip[f] # i
    PROVE  ~Has(p, i)' /\ (\A f \in File : fip'[f] # i) /\ dinode'[i].nlink = 0
<1>1. PtrMoves(p) /\ FilePtrs(p) /\ NlinkMoves(p)
  BY PtrStep, FilePtrStep, NlinkStep DEF IInv, Base, Tree, Tied
<1>2. ~Reached(i)
  BY ReachedLinked DEF Tied
<1> QED
  BY <1>1, <1>2 DEF PtrMoves, Comes, FilePtrs, NlinkMoves

LEMMA FreeCleanStep ==
    ASSUME IInv, Tied, NEW p \in Proc, Step(p)
    PROVE  FreeClean'
<1> SUFFICES ASSUME NEW i \in Inode, dinode'[i].type = "free" PROVE dinode'[i].nlink = 0
  BY DEF FreeClean
<1>1. NlinkMoves(p) /\ TypesKept(p)
  BY NlinkStep, TypesStep DEF IInv, Base, Tree
<1>2. CASE Freed(p, i)
  BY <1>1, <1>2 DEF NlinkMoves, Freed, Tied, Alone
<1>3. CASE Alloced(p, i)
  BY <1>1, <1>3 DEF NlinkMoves
<1>4. CASE dinode[i].type = "free" /\ ~Alloced(p, i)
  BY <1>1, <1>4 DEF NlinkMoves, Tied, FreeClean, Allocated
<1> QED
  BY <1>1, <1>2, <1>3, <1>4 DEF TypesKept

LEMMA AllocatedStep ==
    ASSUME IInv, Tied, NEW p \in Proc, Step(p)
    PROVE  Allocated'
<1> SUFFICES ASSUME NEW i \in Inode, dinode'[i].type = "free"
             PROVE  (\A q \in Proc : ~Has(q, i)') /\ (\A f \in File : fip'[f] # i)
  BY DEF Allocated
<1>1. TypesKept(p) /\ \A q \in Proc : q # p => Same(q)
  BY TypesStep, Elsewhere DEF IInv, Base, Tree
<1>2. CASE Freed(p, i)
  <2>1. /\ i = put[p] /\ pc[p] = "trunc" /\ pc'[p] = "invalidate"
        /\ UNCHANGED <<cur, ip, dp, cwd, fip>>
    BY <1>2 DEF Freed
  <2>2. /\ \A r \in Proc : r # p => ~Has(r, i)
        /\ cur[p] # i /\ ip[p] # i /\ dp[p] # i /\ cwd[p] # i
        /\ \A f \in File : fip[f] # i
    BY <2>1, TruncAlone DEF Tied
  <2> QED
    BY <1>1, <2>1, <2>2, SameHas DEF Has
<1>3. CASE ~Freed(p, i)
  <2>1. ~Alloced(p, i)
    BY DEF Alloced, Kind
  <2>2. dinode[i].type = "free"
    BY <1>1, <1>3, <2>1 DEF TypesKept
  <2>3. /\ \A q \in Proc : ~Has(q, i)
        /\ \A f \in File : fip[f] # i
        /\ dinode[i].nlink = 0
    BY <2>2 DEF Tied, Allocated, FreeClean
  <2> QED
    BY <1>1, <2>1, <2>3, Untouched, SameHas
<1> QED
  BY <1>2, <1>3

LEMMA AloneStep ==
    ASSUME IInv, Tied, NEW p \in Proc, Step(p)
    PROVE  Alone'
<1> SUFFICES ASSUME NEW q \in Proc, pc'[q] = "trunc"
             PROVE  ref'[put'[q]] = 1 /\ dinode'[put'[q]].nlink = 0
  BY DEF Alone
<1>1. CASE q = p
  <2>1. TruncMoves(p)
    BY FirmStep DEF IInv, Base, Tree, FirmMoves
  <2> QED
    BY <1>1, <2>1 DEF TruncMoves, disk
<1>2. CASE q # p
  <2>1. pc[q] = "trunc" /\ put'[q] = put[q]
    BY <1>2, Elsewhere DEF IInv, Base, Same
  <2>a. PICK i \in Inode : i = put[q]
    BY <2>1, TruncAlone DEF Tied
  <2>2. /\ ref[i] = 1 /\ dinode[i].nlink = 0 /\ dinode[i].type # "free"
        /\ ~Has(p, i) /\ put[p] # i /\ \A f \in File : fip[f] # i
    BY <1>2, <2>1, <2>a, TruncAlone DEF Tied, Alone, IInv, Tree, Doomed
  <2>3. ~Alloced(p, i)
    BY <2>2 DEF Alloced
  <2>4. ~Has(p, i)' /\ (\A f \in File : fip'[f] # i) /\ dinode'[i].nlink = 0
    BY <2>2, <2>3, Untouched
  <2>5. put'[p] # i
    <3>1. PtrMoves(p) /\ LocalsAt(p)'
      BY PtrStep, LocalsAtStep DEF IInv, Base, Tied
    <3> QED
      BY <2>2, <2>4, <3>1, NoneNotPtr DEF PtrMoves, Has, LocalsAt, InPut
  <2>6. Own(p, i) = 0 /\ Own(p, i)' = 0
    BY <2>2, <2>4, <2>5 DEF Own, One, Has
  <2>7. N(File, fip, i) = 0 /\ N(File, fip', i) = 0
    <3>1. {f \in File : fip[f] = i} = {} /\ {f \in File : fip'[f] = i} = {}
      BY <2>2, <2>4
    <3> QED
      BY <3>1, FS_EmptySet DEF N
  <2>8. Counts(p)
    BY CountsStep DEF IInv, Base
  <2>9. ref'[i] = 1
    BY <2>2, <2>6, <2>7, <2>8 DEF Counts
  <2> QED
    BY <2>1, <2>a, <2>4, <2>9
<1> QED
  BY <1>1, <1>2

LEMMA FreshStep ==
    ASSUME IInv, Tied, NEW p \in Proc, Step(p)
    PROVE  Fresh'
<1> SUFFICES ASSUME NEW r \in Proc, pc'[r] = "new"
             PROVE  /\ dinode'[ip'[r]].nlink = 0
                    /\ cur'[r] # ip'[r] /\ dp'[r] # ip'[r] /\ cwd'[r] # ip'[r]
                    /\ \A q \in Proc : q # r => ~Has(q, ip[r])'
                    /\ \A f \in File : fip'[f] # ip'[r]
  BY DEF Fresh
<1>1. FilePtrs(p) /\ NlinkMoves(p) /\ FirmMoves(p) /\ \A q \in Proc : q # p => Same(q)
  BY FilePtrStep, NlinkStep, FirmStep, Elsewhere DEF IInv, Base, Tree, Tied
<1>2. CASE r = p
  <2>1. /\ Alloced(p, ip'[p]) /\ ip'[p] \in Inode /\ dp' = dp /\ UNCHANGED <<cur, cwd>>
    BY <1>1, <1>2 DEF FirmMoves, NewMoves, Loc, InPut
  <2>2. PICK i \in Inode : i = ip'[p]
    BY <2>1
  <2>3. /\ dinode'[i].nlink = 0
        /\ \A q \in Proc : ~Has(q, i)
        /\ \A f \in File : fip[f] # i
    BY <1>1, <2>1, <2>2 DEF NlinkMoves, Alloced, Tied, Allocated
  <2>4. \A q \in Proc : q # p => ~Has(q, i)'
    BY <1>1, <2>3, SameHas
  <2>5. \A q \in Proc : q # p => ~Has(q, ip[p])'
    BY <2>2, <2>4 DEF Has
  <2>6. cur'[p] # i /\ dp'[p] # i /\ cwd'[p] # i
    BY <2>1, <2>3 DEF Has
  <2>7. \A f \in File : fip'[f] # i
    BY <1>1, <2>3 DEF FilePtrs
  <2> QED
    BY <1>2, <2>2, <2>3, <2>5, <2>6, <2>7
<1>3. CASE r # p
  <2>1. pc[r] = "new" /\ Same(r) /\ Loc(r) = "new"
    BY <1>1, <1>3 DEF Same, Loc, InPut
  <2>2. ip[r] \in Inode
    <3>1. LocalsAt(r) /\ ip[r] \in Ptr
      BY DEF IInv, Base, TypeOK, ProcsOK, Locals
    <3> QED
      BY <2>1, <3>1 DEF LocalsAt, WithIp, Ptr
  <2>3. PICK i \in Inode : i = ip[r] /\ i = ip'[r]
    BY <2>1, <2>2 DEF Same
  <2>4. /\ dinode[i].nlink = 0 /\ dinode[i].type # "free"
        /\ cur[r] # i /\ dp[r] # i /\ cwd[r] # i
        /\ \A q \in Proc : q # r => ~Has(q, i)
        /\ \A f \in File : fip[f] # i
    BY <2>1, <2>3 DEF Tied, Fresh, IInv, Tree, Settled, Kind
  <2>5. ~Has(p, i)' /\ (\A f \in File : fip'[f] # i) /\ dinode'[i].nlink = 0
    BY <1>3, <2>4, Untouched DEF Alloced
  <2>6. \A q \in Proc : q # r => ~Has(q, i)'
    BY <1>1, <2>4, <2>5, SameHas
  <2>7. \A q \in Proc : q # r => ~Has(q, ip[r])'
    BY <2>3, <2>6 DEF Has
  <2> QED
    BY <2>1, <2>3, <2>4, <2>5, <2>7 DEF Same
<1> QED
  BY <1>2, <1>3

LEMMA PlainStay ==
    ASSUME NEW q \in Proc, Same(q), PlainAt(q) PROVE PlainAt(q)'
  BY SameLoc DEF PlainAt, Same

LEMMA TiedStep ==
    ASSUME NoDotDot, IInv, Tied, NEW p \in Proc, Step(p)
    PROVE  Tied'
<1>1. Plain'
  <2> SUFFICES ASSUME NEW q \in Proc PROVE PlainAt(q)'
    BY DEF Plain
  <2>1. CASE q = p
    BY <2>1, PlainStep DEF IInv, Base, Tied
  <2>2. CASE q # p
    BY <2>2, Elsewhere, PlainStay DEF IInv, Base, Tied, Plain
  <2> QED
    BY <2>1, <2>2
<1> QED
  BY <1>1, CountedStep, FreeCleanStep, AllocatedStep, AloneStep, FreshStep DEF Tied

-----------------------------------------------------------------------------
(* fork, and the start.                                                     *)
LEMMA ForkTied ==
    ASSUME IInv, Tied, NEW p \in Proc, NEW q \in Proc, Fork(p, q)
    PROVE  Tied'
<1>1. /\ UNCHANGED <<dinode, ent, up, node, valid, lock, fip, call, cur, ip, dp, put, ret>>
      /\ \A r \in Proc : r # q => Same(r)
      /\ pc[q] = "gone" /\ pc' = [pc EXCEPT ![q] = "user"]
      /\ cwd[q] = None /\ cwd' = [cwd EXCEPT ![q] = cwd[p]] /\ cwd[p] \in Inode
      /\ ref' = [ref EXCEPT ![cwd[p]] = @ + 1]
      /\ cur[q] = None /\ ip[q] = None /\ dp[q] = None /\ put[q] = None
      /\ pc[p] = "user" /\ p # q
  BY Forked DEF IInv, Base, disk, local, iput
<1>2. pc'[q] = "user" /\ Loc(q)' = "user" /\ Loc(q) = "gone" /\ cwd'[q] = cwd[p]
  BY <1>1 DEF IInv, Base, TypeOK, ProcsOK, Loc, InPut
<1>3. \A r \in Proc, i \in Inode : Has(r, i)' => Has(r, i) \/ cwd[p] = i
  BY <1>1, <1>2, SameHas, NoneNotPtr DEF Has
<1>4. \A i \in Inode : cwd[p] = i => Has(p, i)
  BY DEF Has
<1>5. Plain'
  BY <1>1, <1>2, PlainStay DEF Tied, Plain, PlainAt
<1>6. Counted'
  <2> SUFFICES ASSUME NEW i \in Inode PROVE Links(i)' <= dinode'[i].nlink
    BY DEF Counted
  <2>1. Owes(q) = None /\ Owes(q)' = None
    BY <1>1, <1>2 DEF Owes
  <2>2. N(Proc, OwedTo', i) = N(Proc, OwedTo, i) - One(Owes(q) = i) + One(Owes(q)' = i)
    BY <1>1, OwedMoves
  <2>3. N(Proc, OwedTo', i) = N(Proc, OwedTo, i)
    BY <2>1, <2>2, LinkNats, NoneNotPtr DEF One
  <2>4. NamedBy(i)' = NamedBy(i) /\ SubDirs(i)' = SubDirs(i)
    BY <1>1 DEF NamedBy, SubDirs
  <2> QED
    BY <1>1, <2>3, <2>4 DEF Tied, Counted, Links
<1>7. FreeClean'
  BY <1>1 DEF Tied, FreeClean
<1>8. Allocated'
  BY <1>1, <1>3, <1>4 DEF Tied, Allocated
<1>9. Alone'
  <2> SUFFICES ASSUME NEW r \in Proc, pc'[r] = "trunc"
               PROVE  ref'[put'[r]] = 1 /\ dinode'[put'[r]].nlink = 0
    BY DEF Alone
  <2>1. pc[r] = "trunc"
    BY <1>1, <1>2 DEF Same
  <2>2. put[r] \in Inode /\ ref[put[r]] = 1 /\ cwd[p] # put[r]
    BY <1>1, <2>1, TruncAlone DEF Tied, Has
  <2> QED
    BY <1>1, <2>1, <2>2 DEF Tied, Alone, IInv, Base, TypeOK, TableOK
<1>10. Fresh'
  <2> SUFFICES ASSUME NEW r \in Proc, pc'[r] = "new"
               PROVE  /\ dinode'[ip'[r]].nlink = 0
                      /\ cur'[r] # ip'[r] /\ dp'[r] # ip'[r] /\ cwd'[r] # ip'[r]
                      /\ \A s \in Proc : s # r => ~Has(s, ip[r])'
                      /\ \A f \in File : fip'[f] # ip'[r]
    BY DEF Fresh
  <2>1. pc[r] = "new" /\ r # q /\ r # p /\ Same(r)
    BY <1>1, <1>2 DEF Same
  <2>2. PICK i : i = ip[r] /\ i = ip'[r]
    BY <2>1 DEF Same
  <2>3. i \in Inode
    <3>1. LocalsAt(r) /\ ip[r] \in Ptr
      BY DEF IInv, Base, TypeOK, ProcsOK, Locals
    <3> QED
      BY <2>1, <2>2, <3>1 DEF LocalsAt, WithIp, Loc, InPut, Ptr
  <2>4. \A s \in Proc : s # r => ~Has(s, i)
    BY <2>1, <2>2 DEF Tied, Fresh
  <2>5. \A s \in Proc : s # r => ~Has(s, i)'
    BY <1>3, <1>4, <2>1, <2>3, <2>4
  <2>6. \A s \in Proc : s # r => ~Has(s, ip[r])'
    BY <2>2, <2>5 DEF Has
  <2> QED
    BY <1>1, <2>1, <2>6 DEF Tied, Fresh, Same
<1> QED
  BY <1>5, <1>6, <1>7, <1>8, <1>9, <1>10 DEF Tied

LEMMA StutterTied ==
    ASSUME Tied, UNCHANGED vars PROVE Tied'
<1> USE DEF vars, disk, table, files, local, iput
<1>1. \A q \in Proc : Same(q)
  BY DEF Same
<1>2. \A q \in Proc, i \in Inode : Has(q, i)' <=> Has(q, i)
  BY <1>1, SameHas
<1>3. Plain'
  BY <1>1, PlainStay DEF Tied, Plain
<1>4. Counted'
  <2>1. \A q \in Proc : Owes(q)' = Owes(q)
    BY DEF Owes, Loc
  <2>2. OwedTo' = OwedTo
    BY <2>1 DEF OwedTo
  <2>3. \A i : NamedBy(i)' = NamedBy(i) /\ SubDirs(i)' = SubDirs(i)
    BY DEF NamedBy, SubDirs
  <2> QED
    BY <2>2, <2>3 DEF Tied, Counted, Links
<1>5. FreeClean' /\ Allocated' /\ Alone' /\ Fresh'
  BY <1>2 DEF Tied, FreeClean, Allocated, Alone, Fresh, Has
<1> QED
  BY <1>3, <1>4, <1>5 DEF Tied

LEMMA InitTied == Init => Tied
<1> SUFFICES ASSUME Init PROVE Tied
  OBVIOUS
<1>1. /\ \A p \in Proc : /\ Loc(p) \in {"user", "gone"} /\ pc[p] \in {"user", "gone"}
                         /\ cur[p] = None /\ ip[p] = None /\ dp[p] = None
                         /\ cwd[p] \in {None, ROOTINO}
      /\ \A f \in File : fip[f] = None
      /\ \A i \in Inode, n \in Name : ent[i][n] = None
      /\ \A i \in Inode : dinode[i].nlink = One(i = ROOTINO) /\ (dinode[i].type = "free" <=> i # ROOTINO)
  BY DEF Init, Loc, InPut, NoEntries, One
<1>2. Counted
  <2> SUFFICES ASSUME NEW i \in Inode PROVE Links(i) <= dinode[i].nlink
    BY DEF Counted
  <2>1. NamedBy(i) = {} /\ SubDirs(i) = {}
    BY <1>1, NoneNotPtr DEF NamedBy, SubDirs
  <2>2. {p \in Proc : OwedTo[p] = i} = {}
    BY <1>1, NoneNotPtr DEF OwedTo, Owes
  <2>3. Links(i) = 0 + 0 + 0 + One(i = ROOTINO)
    BY <2>1, <2>2, FS_EmptySet DEF Links, N
  <2> QED
    BY <1>1, <2>3 DEF One
<1>3. Plain /\ FreeClean /\ Alone /\ Fresh
  BY <1>1 DEF Plain, PlainAt, FreeClean, Alone, Fresh, One
<1>4. Allocated
  BY <1>1, NoneNotPtr DEF Allocated, Has
<1> QED
  BY <1>2, <1>3, <1>4 DEF Tied

(* Where no path has "..", links cover the entries, and what anybody can    *)
(* reach is allocated.                                                      *)
THEOREM LinksCover == ASSUME NoDotDot PROVE Spec => [](IInv /\ Tied)
<1>1. Init => IInv /\ Tied
  BY InitIInv, InitTied
<1>2. IInv /\ Tied /\ [Next]_vars => (IInv /\ Tied)'
  <2> SUFFICES ASSUME IInv, Tied, [Next]_vars PROVE IInv' /\ Tied'
    OBVIOUS
  <2>1. CASE UNCHANGED vars
    BY <2>1, StutterIInv, StutterTied
  <2>2. CASE Next
    <3>1. CASE \E p \in Proc : Step(p)
      BY <3>1, StepIInv, TiedStep
    <3>2. CASE \E p, q \in Proc : Fork(p, q)
      BY <3>2, ForkIInv, ForkTied
    <3> QED
      BY <2>2, <3>1, <3>2, Steps
  <2> QED
    BY <2>1, <2>2
<1> QED
  BY <1>1, <1>2, PTL DEF Spec

(* No ilock meets an inode without a type, no iput has to wait with         *)
(* itable.lock held, and unlink finds no entry for an inode without links.  *)
THEOREM NeverPanics == ASSUME NoDotDot PROVE Spec => []NoPanic
<1>1. IInv /\ Tied => NoPanic
  <2> SUFFICES ASSUME IInv, Tied, NEW p \in Proc
               PROVE  ~IlockPanics(p) /\ ~IputPanics(p) /\ ~UnlinkPanics(p)
    BY DEF NoPanic
  <2>1. ASSUME IlockPanics(p) PROVE FALSE
    <3>1. Wants(p) # None /\ dinode[Wants(p)].type = "free"
      BY <2>1 DEF IlockPanics, NoType
    <3>2. Wants(p) \in {cur[p], ip[p], dp[p]}
      BY <3>1 DEF Wants
    <3>3. Wants(p) \in Inode /\ Has(p, Wants(p))
      BY <3>1, <3>2 DEF IInv, Base, TypeOK, ProcsOK, Ptr, Has
    <3> QED
      BY <3>1, <3>3 DEF Tied, Allocated
  <2>2. ASSUME UnlinkPanics(p) PROVE FALSE
    <3>1. Clear(p) /\ Ilock(p, "victim") /\ pc[p] = "victim" /\ Seen(ip[p]).nlink < 1
      BY <2>2, Cleared DEF IInv, Base, Tree, UnlinkPanics, Ilock
    <3>2. ip[p] \in Inode /\ dp[p] \in Inode /\ Seen(ip[p]) = dinode[ip[p]]
      BY <3>1 DEF Clear, True, IpPlaces, Loc, InPut, LockedDp
    <3>3. NextName(p) \in Name /\ ent[dp[p]][NextName(p)] = ip[p]
      BY <3>1 DEF IInv, Tree, VictimNamed
    <3>4. <<dp[p], NextName(p)>> \in NamedBy(ip[p])
      BY <3>2, <3>3 DEF NamedBy
    <3>5. dinode[ip[p]].nlink \in Int
      BY <3>2 DEF IInv, Base, TypeOK, DiskOK, Dinode
    <3>6. dinode[ip[p]].nlink >= 1
      BY <3>2, <3>4, <3>5, ReachedLinked DEF Reached, Tied
    <3> QED
      BY <3>1, <3>2, <3>5, <3>6
  <2> QED
    BY <2>1, <2>2, IputNeverWaits
<1> QED
  BY <1>1, LinksCover, PTL

(* Every pointer to an inode is counted by its ref and every entry by its   *)
(* nlink, and an entry names an inode that is allocated.                    *)
THEOREM CountsAreExact == ASSUME NoDotDot PROVE Spec => []CountsExact
<1>1. IInv /\ Tied => CountsExact
  <2> SUFFICES ASSUME IInv, Tied, NEW i \in Inode, NamedBy(i) # {}
               PROVE  dinode[i].type # "free" /\ dinode[i].nlink >= Cardinality(NamedBy(i))
    BY DEF CountsExact, LinksCounted, IInv, Base
  <2>1. dinode[i].nlink \in Int
    BY DEF IInv, Base, TypeOK, DiskOK, Dinode
  <2>2. dinode[i].nlink >= 1
    BY <2>1, ReachedLinked DEF Reached, Tied
  <2>3. dinode[i].type # "free"
    BY <2>1, <2>2 DEF Tied, FreeClean
  <2>4. /\ Cardinality(NamedBy(i)) \in Nat /\ Cardinality(SubDirs(i)) \in Nat
        /\ N(Proc, OwedTo, i) \in Nat /\ One(i = ROOTINO) \in {0, 1}
    BY LinkNats DEF One
  <2>5. Links(i) <= dinode[i].nlink
    BY DEF Tied, Counted
  <2> QED
    BY <2>1, <2>3, <2>4, <2>5 DEF Links
<1> QED
  BY <1>1, LinksCover, PTL

(* iput frees an inode with the only pointer to it, when no directory has   *)
(* an entry for it.                                                         *)
THEOREM FreesAlone == ASSUME NoDotDot PROVE Spec => FreedAlone
<1>1. ASSUME IInv, Tied, Next, NEW i \in Inode, dinode[i].type # "free", dinode'[i].type = "free"
      PROVE  Cardinality(Holders(i)) = 1 /\ NamedBy(i) = {}
  <2>1. CASE \E p \in Proc : Step(p)
    <3>1. PICK p \in Proc : Step(p)
      BY <2>1
    <3>2. Freed(p, i)
      <4>1. TypesKept(p)
        BY <1>1, <3>1, TypesStep DEF IInv, Base, Tree
      <4> QED
        BY <1>1, <4>1 DEF TypesKept, Alloced
    <3>3. pc[p] = "trunc" /\ i = put[p] /\ ref[i] = 1 /\ dinode[i].nlink = 0
      BY <1>1, <3>2 DEF Freed, Tied, Alone
    <3>4. Cardinality(Holders(i)) = 1
      BY <1>1, <3>3 DEF IInv, Base, RefExact
    <3>5. ~Reached(i)
      BY <1>1, <3>3, ReachedLinked DEF Tied
    <3> QED
      BY <3>4, <3>5 DEF Reached
  <2>2. CASE \E p, q \in Proc : Fork(p, q)
    BY <1>1, <2>2 DEF Fork, disk
  <2> QED
    BY <1>1, <2>1, <2>2, Steps
<1>2. IInv /\ Tied /\ [Next]_vars =>
         [\A i \in Inode : dinode[i].type # "free" /\ dinode'[i].type = "free" =>
             Cardinality(Holders(i)) = 1 /\ NamedBy(i) = {}]_vars
  BY <1>1
<1> QED
  BY <1>2, LinksCover, PTL DEF Spec, FreedAlone
===============================================================================
