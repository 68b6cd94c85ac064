---------------------------------- MODULE Fs ----------------------------------
(***************************************************************************)
(* The inode and directory layers (kernel/fs.c), open files (kernel/file.c)*)
(* and the system calls on names (kernel/sysfile.c), for several processes. *)
(*                                                                         *)
(* A step is a section under one inode's sleep-lock, or under itable.lock;  *)
(* a call that locks a second inode keeps the first lock across its steps,  *)
(* and iput's freeing of an inode is broken at each of its accesses.  The   *)
(* log makes a call atomic on the disk (module Log), so a crash does not    *)
(* appear here; contents of files do not either.                            *)
(***************************************************************************)
EXTENDS Integers, FiniteSets, Sequences

CONSTANTS Proc,
          NINODES,  \* inodes on the disk
          NFILE,    \* entries of ftable
          Name,     \* the names of directory entries, "." and ".." apart
          Calls,    \* bound: the calls that are made, with their paths
          initproc, \* the process that does not exit
          None

ROOTINO == 1
Inode == 1..NINODES
File  == 1..NFILE

Parental == {"creat", "mkdir", "mknod", "unlink"}
Ops == Parental \cup {"open", "exec", "chdir", "link"}

(* A path is a sequence of names, the first of which may be "/".            *)
Elem == Name \cup {".", ".."}
Path == Seq(Elem \cup {"/"})
Names(path) == IF path # <<>> /\ Head(path) = "/" THEN Tail(path) ELSE path

ASSUME FsAssumption ==
    /\ NINODES \in Nat \ {0} /\ NFILE \in Nat
    /\ IsFiniteSet(Proc) /\ IsFiniteSet(Name)
    /\ Name \cap {".", ".."} = {}
    /\ initproc \in Proc /\ None \notin Proc /\ None \notin Nat
    /\ Calls \subseteq [op : Ops, path : Path, new : Path]
    /\ \A c \in Calls : /\ Names(c.path) \in Seq(Elem) /\ Names(c.new) \in Seq(Elem)
                        /\ c.op \in Parental => Names(c.path) # <<>>
                        /\ c.op = "link" => Names(c.new) # <<>>

VARIABLES
  dinode, ent, up,   \* on the disk: type and nlink, the entries, ".."
  node, valid, ref,  \* itable: the copy of type and nlink, valid, ref
  lock,              \* ip->lock: its holder
  fip, fref,         \* ftable: ip and ref
  fd, cwd,           \* struct proc: an open file, the current directory
  pc, call,          \* per process: where it is, and in which call
  cur, ip, dp,       \* the locals of namex, and of the call
  put, ret           \* the argument of iput, and where it returns to

disk  == <<dinode, ent, up>>
table == <<node, valid, ref, lock>>
files == <<fip, fref>>
local == <<cur, ip, dp>>
iput  == <<put, ret>>
vars  == <<disk, table, files, fd, cwd, pc, call, local, iput>>

NoEntries == [n \in Name |-> None]

Init == /\ dinode = [i \in Inode |-> IF i = ROOTINO THEN [type |-> "dir", nlink |-> 1]
                                     ELSE [type |-> "free", nlink |-> 0]]
        /\ ent = [i \in Inode |-> NoEntries]
        /\ up = [i \in Inode |-> ROOTINO]
        /\ node = dinode
        /\ valid = [i \in Inode |-> FALSE]
        /\ ref = [i \in Inode |-> IF i = ROOTINO THEN 1 ELSE 0]
        /\ lock = [i \in Inode |-> None]
        /\ fip = [f \in File |-> None] /\ fref = [f \in File |-> 0]
        /\ fd = [p \in Proc |-> None]
        /\ cwd = [p \in Proc |-> IF p = initproc THEN ROOTINO ELSE None]
        /\ pc = [p \in Proc |-> IF p = initproc THEN "user" ELSE "gone"]
        /\ call = [p \in Proc |-> None]
        /\ cur = [p \in Proc |-> None]
        /\ ip = [p \in Proc |-> None]
        /\ dp = [p \in Proc |-> None]
        /\ put = [p \in Proc |-> None]
        /\ ret = [p \in Proc |-> None]

Goto(p, s) == pc' = [pc EXCEPT ![p] = s]
Set(v, p, x) == [v EXCEPT ![p] = x]
Return(p) == Goto(p, "user") /\ call' = Set(call, p, None)

(* iget and idup, both under itable.lock.                                   *)
Iget(i) == ref' = [ref EXCEPT ![i] = @ + 1]

(* iput(i), after which the call goes on at s.                              *)
Iput(p, i, s) == /\ put' = Set(put, p, i)
                 /\ ret' = Set(ret, p, s)
                 /\ Goto(p, "put")

-----------------------------------------------------------------------------
(* ilock: the inode whose lock a process is about to take.  What it sees is *)
(* the copy in the table, read from the disk if that is not valid.          *)
Wants(p) == CASE pc[p] = "walk" -> cur[p]
              [] pc[p] \in {"found", "exists", "new", "victim", "bad"} -> ip[p]
              [] pc[p] = "parent" -> dp[p]
              [] OTHER -> None

Seen(i) == IF valid[i] THEN node[i] ELSE dinode[i]
NoType(i) == ~valid[i] /\ dinode[i].type = "free"
Free(i) == lock[i] = None

Ilock(p, s) == pc[p] = s /\ Free(Wants(p)) /\ ~NoType(Wants(p))

Load(i) == /\ node' = Set(node, i, Seen(i))
           /\ valid' = Set(valid, i, TRUE)

(* A change of the copy in the table, and iupdate.                          *)
Update(i, d) == /\ node' = Set(node, i, d)
                /\ dinode' = Set(dinode, i, d)
                /\ valid' = Set(valid, i, TRUE)

Linked(i, n) == [Seen(i) EXCEPT !.nlink = @ + n]

-----------------------------------------------------------------------------
(* namex: for the parent of the path's last name, or for all of it.         *)
LinkTarget(p) == call[p].op = "link" /\ ip[p] # None
WantsParent(p) == call[p].op \in Parental \/ LinkTarget(p)
Fail(p) == IF LinkTarget(p) THEN "bad" ELSE "user"

From(p, path) == IF path # <<>> /\ Head(path) = "/" THEN ROOTINO ELSE cwd[p]

Call(p, c) ==
    LET i == From(p, c.path)
        names == Names(c.path) IN
    /\ pc[p] = "user"
    /\ call' = Set(call, p, [c EXCEPT !.path = names])
    /\ Iget(i)
    /\ IF names = <<>>
       THEN ip' = Set(ip, p, i) /\ Goto(p, "found") /\ UNCHANGED cur
       ELSE cur' = Set(cur, p, i) /\ Goto(p, "walk") /\ UNCHANGED ip
    /\ UNCHANGED <<disk, node, valid, lock, files, fd, cwd, dp, iput>>

Entry(i, n) == CASE n = "." -> i
                 [] n = ".." -> up[i]
                 [] OTHER -> ent[i][n]
NextName(p) == Head(call[p].path)
Last(p) == Tail(call[p].path) = <<>>
IsDir(i) == Seen(i).type = "dir"

(* dirlookup finds the entry and iget references it before the directory is *)
(* unlocked; then the directory's own reference goes.                       *)
WalkStep(p) ==
    LET i == cur[p]
        next == Entry(i, NextName(p)) IN
    /\ Ilock(p, "walk") /\ IsDir(i)
    /\ ~(WantsParent(p) /\ Last(p))
    /\ next # None
    /\ Load(i)
    /\ Iget(next)
    /\ call' = [call EXCEPT ![p].path = Tail(@)]
    /\ IF Last(p)
       THEN ip' = Set(ip, p, next) /\ cur' = Set(cur, p, None)
       ELSE cur' = Set(cur, p, next) /\ UNCHANGED ip
    /\ Iput(p, i, IF Last(p) THEN "found" ELSE "walk")
    /\ UNCHANGED <<disk, lock, files, fd, cwd, dp>>

WalkParent(p) ==
    LET i == cur[p] IN
    /\ Ilock(p, "walk") /\ IsDir(i)
    /\ WantsParent(p) /\ Last(p)
    /\ Load(i)
    /\ dp' = Set(dp, p, i) /\ cur' = Set(cur, p, None)
    /\ Goto(p, "parent")
    /\ UNCHANGED <<disk, ref, lock, files, fd, cwd, call, ip, iput>>

WalkFails(p) ==
    LET i == cur[p] IN
    /\ Ilock(p, "walk")
    /\ \/ ~IsDir(i)
       \/ ~(WantsParent(p) /\ Last(p)) /\ Entry(i, NextName(p)) = None
    /\ Load(i)
    /\ cur' = Set(cur, p, None)
    /\ Iput(p, i, Fail(p))
    /\ UNCHANGED <<disk, ref, lock, files, fd, cwd, call, ip, dp>>

-----------------------------------------------------------------------------
(* iput.  With no links and no other reference it frees the inode: it locks *)
(* it and lets itable.lock go; truncates it and writes type 0, from when    *)
(* ialloc may take it again; marks the copy invalid and unlocks it; and     *)
(* drops the reference at last.                                             *)
InUse(i) == valid[i] /\ node[i].nlink = 0  \* mutant
LastUse(i) == ref[i] = 1 /\ valid[i] /\ node[i].nlink = 0

Resume(p) == /\ put' = Set(put, p, None)
             /\ ret' = Set(ret, p, None)
             /\ Goto(p, ret[p])
             /\ call' = IF ret[p] \in {"user", "gone"} THEN Set(call, p, None) ELSE call

(* An entry of itable with ref 0 is anybody's: the next iget of the inode   *)
(* takes an empty entry, and that starts with valid = 0.                    *)
DropRef(p) ==
    LET i == put[p] IN
    /\ \/ pc[p] = "put" /\ ~LastUse(i)
       \/ pc[p] = "unref"
    /\ ref' = [ref EXCEPT ![i] = @ - 1]
    /\ valid' = IF ref[i] = 1 THEN Set(valid, i, FALSE) ELSE valid
    /\ Resume(p)
    /\ UNCHANGED <<disk, node, lock, files, fd, cwd, local>>

LockLast(p) ==
    /\ pc[p] = "put" /\ LastUse(put[p]) /\ Free(put[p])
    /\ lock' = Set(lock, put[p], p)
    /\ Goto(p, "trunc")
    /\ UNCHANGED <<disk, node, valid, ref, files, fd, cwd, call, local, iput>>

Truncate(p) ==
    LET i == put[p]
        d == [Seen(i) EXCEPT !.type = "free"] IN
    /\ pc[p] = "trunc"
    /\ ent' = Set(ent, i, NoEntries)
    /\ node' = Set(node, i, d) /\ dinode' = Set(dinode, i, d)
    /\ Goto(p, "invalidate")
    /\ UNCHANGED <<up, valid, ref, lock, files, fd, cwd, call, local, iput>>

Kept(i) == valid  \* mutant
Invalid(i) == Set(valid, i, FALSE)

Invalidate(p) ==
    /\ pc[p] = "invalidate"
    /\ valid' = Invalid(put[p])
    /\ lock' = Set(lock, put[p], None)
    /\ Goto(p, "unref")
    /\ UNCHANGED <<disk, node, ref, files, fd, cwd, call, local, iput>>

-----------------------------------------------------------------------------
(* Open files.  filealloc takes a free entry, fdalloc a free descriptor.    *)
FreeFiles == {f \in File : fref[f] = 0}
CanOpen(p) == FreeFiles # {} /\ fd[p] = None
LowestFile == CHOOSE f \in FreeFiles : \A g \in FreeFiles : f <= g

OpenFile(p) == /\ fip' = Set(fip, LowestFile, ip[p])
               /\ fref' = Set(fref, LowestFile, 1)
               /\ fd' = Set(fd, p, LowestFile)
               /\ ip' = Set(ip, p, None)
               /\ Return(p)

(* fileclose: the last close gives the inode back.                          *)
AnyClose(f) == TRUE  \* mutant
LastClose(f) == fref[f] = 1

FileClose(p, s) ==
    LET f == fd[p] IN
    /\ fd' = Set(fd, p, None)
    /\ fref' = [fref EXCEPT ![f] = @ - 1]
    /\ IF LastClose(f)
       THEN fip' = Set(fip, f, None) /\ Iput(p, fip[f], s)
       ELSE Goto(p, s) /\ UNCHANGED <<fip, iput>>

Close(p) ==
    /\ pc[p] = "user" /\ fd[p] # None
    /\ FileClose(p, "user")
    /\ UNCHANGED <<disk, table, cwd, call, local>>

(* fork: filedup and idup.                                                  *)
Fork(p, q) ==
    /\ pc[p] = "user" /\ pc[q] = "gone"
    /\ fd' = Set(fd, q, fd[p])
    /\ fref' = IF fd[p] = None THEN fref ELSE [fref EXCEPT ![fd[p]] = @ + 1]
    /\ cwd' = Set(cwd, q, cwd[p])
    /\ Iget(cwd[p])
    /\ Goto(q, "user")
    /\ UNCHANGED <<disk, node, valid, lock, fip, call, local, iput>>

(* exit: close the file, give back the directory.                           *)
Exit(p) ==
    /\ pc[p] = "user" /\ p # initproc
    /\ IF fd[p] = None
       THEN Goto(p, "exiting") /\ UNCHANGED <<files, fd, iput>>
       ELSE FileClose(p, "exiting")
    /\ UNCHANGED <<disk, table, cwd, call, local>>

ExitPut(p) ==
    /\ pc[p] = "exiting"
    /\ cwd' = Set(cwd, p, None)
    /\ Iput(p, cwd[p], "gone")
    /\ UNCHANGED <<disk, table, files, fd, call, local>>

-----------------------------------------------------------------------------
(* Calls on one name: open, exec, chdir, and the first half of link.        *)
Open(p) ==
    /\ Ilock(p, "found") /\ call[p].op = "open" /\ CanOpen(p)
    /\ Load(ip[p])
    /\ OpenFile(p)
    /\ UNCHANGED <<disk, ref, lock, cwd, cur, dp, iput>>

(* exec reads the program and is done with the inode; a directory is not    *)
(* opened for writing and not linked to; only a directory is changed to.    *)
GiveUp(p) == CASE call[p].op = "exec" -> TRUE
               [] call[p].op = "open" -> ~CanOpen(p) \/ IsDir(ip[p])
               [] call[p].op = "link" -> IsDir(ip[p])
               [] OTHER -> ~IsDir(ip[p])

UnlockPut(p) ==
    /\ Ilock(p, "found") /\ GiveUp(p)
    /\ Load(ip[p])
    /\ ip' = Set(ip, p, None)
    /\ Iput(p, ip[p], "user")
    /\ UNCHANGED <<disk, ref, lock, files, fd, cwd, call, cur, dp>>

Chdir(p) ==
    /\ Ilock(p, "found") /\ call[p].op = "chdir" /\ IsDir(ip[p])
    /\ Load(ip[p])
    /\ cwd' = Set(cwd, p, ip[p])
    /\ ip' = Set(ip, p, None)
    /\ Iput(p, cwd[p], "user")
    /\ UNCHANGED <<disk, ref, lock, files, fd, call, cur, dp>>

(* link counts the new name before it looks for its directory.              *)
LinkOld(p) ==
    LET i == From(p, call[p].new) IN
    /\ Ilock(p, "found") /\ call[p].op = "link" /\ ~IsDir(ip[p])
    /\ Update(ip[p], Linked(ip[p], 1))
    /\ cur' = Set(cur, p, i)
    /\ Iget(i)
    /\ call' = [call EXCEPT ![p].path = Names(call[p].new)]
    /\ Goto(p, "walk")
    /\ UNCHANGED <<ent, up, lock, files, fd, cwd, ip, dp, iput>>

(* dirlink finds the name taken: it gives the inode back, still holding the *)
(* directory ...                                                            *)
LinkTaken(p) ==
    LET e == Entry(dp[p], NextName(p)) IN
    /\ Ilock(p, "parent") /\ call[p].op = "link" /\ e # None
    /\ lock' = Set(lock, dp[p], p)
    /\ Load(dp[p])
    /\ Iget(e)
    /\ Iput(p, e, "dpbad")
    /\ UNCHANGED <<disk, files, fd, cwd, call, local>>

(* ... or finds no room (writei fails) ...                                  *)
LinkNoRoom(p) ==
    /\ Ilock(p, "parent") /\ call[p].op = "link"
    /\ Entry(dp[p], NextName(p)) = None
    /\ Load(dp[p])
    /\ dp' = Set(dp, p, None)
    /\ Iput(p, dp[p], "bad")
    /\ UNCHANGED <<disk, ref, lock, files, fd, cwd, call, cur, ip>>

(* ... or writes the entry.                                                 *)
LinkNew(p) ==
    /\ Ilock(p, "parent") /\ call[p].op = "link"
    /\ Entry(dp[p], NextName(p)) = None
    /\ Load(dp[p])
    /\ ent' = [ent EXCEPT ![dp[p]][NextName(p)] = ip[p]]
    /\ dp' = Set(dp, p, None)
    /\ Iput(p, dp[p], "putip")
    /\ UNCHANGED <<dinode, up, ref, lock, files, fd, cwd, call, cur, ip>>

PutIp(p) ==
    /\ pc[p] = "putip"
    /\ ip' = Set(ip, p, None)
    /\ Iput(p, ip[p], "user")
    /\ UNCHANGED <<disk, table, files, fd, cwd, call, cur, dp>>

LinkUndo(p) ==
    /\ Ilock(p, "bad")
    /\ Update(ip[p], Linked(ip[p], -1))
    /\ ip' = Set(ip, p, None)
    /\ Iput(p, ip[p], "user")
    /\ UNCHANGED <<ent, up, ref, lock, files, fd, cwd, call, cur, dp>>

(* iunlockput(dp) of a call that has kept dp locked.                        *)
StillLocked(p) == lock  \* mutant
Unlocked(p) == Set(lock, dp[p], None)

PutParent(p) ==
    /\ pc[p] \in {"dpbad", "dpuser"}
    /\ lock' = Unlocked(p)
    /\ dp' = Set(dp, p, None)
    /\ Iput(p, dp[p], IF pc[p] = "dpbad" THEN "bad" ELSE "user")
    /\ UNCHANGED <<disk, node, valid, ref, files, fd, cwd, call, cur, ip>>

-----------------------------------------------------------------------------
(* unlink: the directory stays locked until the entry is gone ...           *)
UnlinkFind(p) ==
    LET e == Entry(dp[p], NextName(p)) IN
    /\ Ilock(p, "parent") /\ call[p].op = "unlink"
    /\ NextName(p) \notin {".", ".."} /\ e # None
    /\ lock' = Set(lock, dp[p], p)
    /\ Load(dp[p])
    /\ Iget(e)
    /\ ip' = Set(ip, p, e)
    /\ Goto(p, "victim")
    /\ UNCHANGED <<disk, files, fd, cwd, call, cur, dp, iput>>

UnlinkFails(p) ==
    /\ Ilock(p, "parent") /\ call[p].op = "unlink"
    /\ NextName(p) \in {".", ".."} \/ Entry(dp[p], NextName(p)) = None
    /\ Load(dp[p])
    /\ dp' = Set(dp, p, None)
    /\ Iput(p, dp[p], "user")
    /\ UNCHANGED <<disk, ref, lock, files, fd, cwd, call, cur, ip>>

IsEmpty(i) == ent[i] = NoEntries

UnlinkNotEmpty(p) ==
    /\ Ilock(p, "victim") /\ Seen(ip[p]).nlink >= 1
    /\ IsDir(ip[p]) /\ ~IsEmpty(ip[p])
    /\ Load(ip[p])
    /\ ip' = Set(ip, p, None)
    /\ Iput(p, ip[p], "dpuser")
    /\ UNCHANGED <<disk, ref, lock, files, fd, cwd, call, cur, dp>>

(* ... and the inode until it has lost the link.                            *)
UnlinkEntry(p) ==
    LET i == ip[p]
        d == dp[p] IN
    /\ Ilock(p, "victim") /\ Seen(i).nlink >= 1
    /\ IsDir(i) => IsEmpty(i)
    /\ ent' = [ent EXCEPT ![d][NextName(p)] = None]
    /\ node' = [node EXCEPT ![i] = Seen(i),
                            ![d] = IF IsDir(i) THEN Linked(d, -1) ELSE Seen(d)]
    /\ dinode' = IF IsDir(i) THEN Set(dinode, d, Linked(d, -1)) ELSE dinode
    /\ valid' = Set(valid, i, TRUE)
    /\ lock' = [lock EXCEPT ![i] = p, ![d] = None]
    /\ dp' = Set(dp, p, None)
    /\ Iput(p, d, "unlinked")
    /\ UNCHANGED <<up, ref, files, fd, cwd, call, cur, ip>>

Unlink(p) ==
    /\ pc[p] = "unlinked"
    /\ Update(ip[p], Linked(ip[p], -1))
    /\ lock' = Set(lock, ip[p], None)
    /\ ip' = Set(ip, p, None)
    /\ Iput(p, ip[p], "user")
    /\ UNCHANGED <<ent, up, ref, files, fd, cwd, call, cur, dp>>

-----------------------------------------------------------------------------
(* create: an existing file is opened; otherwise ialloc marks a free inode  *)
(* on the disk, while the directory stays locked.                           *)
Creates(p) == call[p].op \in {"creat", "mkdir", "mknod"}
Kind(p) == IF call[p].op = "mkdir" THEN "dir" ELSE "file"
FreeInodes == {i \in Inode : dinode[i].type = "free"}

CreateFind(p) ==
    LET e == Entry(dp[p], NextName(p)) IN
    /\ Ilock(p, "parent") /\ Creates(p) /\ e # None
    /\ Load(dp[p])
    /\ Iget(e)
    /\ ip' = Set(ip, p, e)
    /\ dp' = Set(dp, p, None)
    /\ Iput(p, dp[p], "exists")
    /\ UNCHANGED <<disk, lock, files, fd, cwd, call, cur>>

(* ialloc takes the first free inode of its scan, while others free theirs. *)
CreateAlloc(p, i) ==
    /\ Ilock(p, "parent") /\ Creates(p)
    /\ Entry(dp[p], NextName(p)) = None
    /\ i \in FreeInodes
    /\ dinode' = Set(dinode, i, [type |-> Kind(p), nlink |-> 0])
    /\ Iget(i)
    /\ ip' = Set(ip, p, i)
    /\ lock' = Set(lock, dp[p], p)
    /\ Load(dp[p])
    /\ Goto(p, "new")
    /\ UNCHANGED <<ent, up, files, fd, cwd, call, cur, dp, iput>>

CreateNoInode(p) ==
    /\ Ilock(p, "parent") /\ Creates(p)
    /\ Entry(dp[p], NextName(p)) = None /\ FreeInodes = {}
    /\ Load(dp[p])
    /\ dp' = Set(dp, p, None)
    /\ Iput(p, dp[p], "user")
    /\ UNCHANGED <<disk, ref, lock, files, fd, cwd, call, cur, ip>>

(* The entries are written, "." and ".." of a directory first.  The type    *)
(* comes with ilock from the disk.                                          *)
CreateNew(p) ==
    LET i == ip[p]
        d == dp[p]
        new == [Seen(i) EXCEPT !.nlink = 1]
        dir == IF Kind(p) = "dir" THEN Linked(d, 1) ELSE Seen(d) IN
    /\ Ilock(p, "new")
    /\ node' = [node EXCEPT ![i] = new, ![d] = dir]
    /\ dinode' = [dinode EXCEPT ![i] = new, ![d] = dir]
    /\ valid' = Set(valid, i, TRUE)
    /\ up' = IF Kind(p) = "dir" THEN Set(up, i, d) ELSE up
    /\ ent' = [ent EXCEPT ![d][NextName(p)] = i]
    /\ lock' = [lock EXCEPT ![i] = p, ![d] = None]
    /\ dp' = Set(dp, p, None)
    /\ Iput(p, d, "created")
    /\ UNCHANGED <<ref, files, fd, cwd, call, cur, ip>>

(* A dirlink fails: the inode goes again.                                   *)
CreateFails(p) ==
    /\ Ilock(p, "new")
    /\ Update(ip[p], [Seen(ip[p]) EXCEPT !.nlink = 0])
    /\ ip' = Set(ip, p, None)
    /\ Iput(p, ip[p], "dpuser")
    /\ UNCHANGED <<ent, up, ref, lock, files, fd, cwd, call, cur, dp>>

(* sys_open after create, and the ends of mkdir and mknod.                  *)
Ready(p) == pc[p] = "created" \/ (Ilock(p, "exists") /\ ~IsDir(ip[p]))

OpenCreated(p) ==
    /\ Ready(p) /\ call[p].op = "creat" /\ CanOpen(p)
    /\ Load(ip[p])
    /\ lock' = Set(lock, ip[p], None)
    /\ OpenFile(p)
    /\ UNCHANGED <<disk, ref, cwd, cur, dp, iput>>

PutCreated(p) ==
    /\ \/ Ready(p) /\ ~(call[p].op = "creat" /\ CanOpen(p))
       \/ Ilock(p, "exists") /\ IsDir(ip[p])
    /\ Load(ip[p])
    /\ lock' = Set(lock, ip[p], None)
    /\ ip' = Set(ip, p, None)
    /\ Iput(p, ip[p], "user")
    /\ UNCHANGED <<disk, ref, files, fd, cwd, call, cur, dp>>

-----------------------------------------------------------------------------
Namex(p) == WalkStep(p) \/ WalkParent(p) \/ WalkFails(p)
IputStep(p) == DropRef(p) \/ LockLast(p) \/ Truncate(p) \/ Invalidate(p)
NameCall(p) == \/ Open(p) \/ UnlockPut(p) \/ Chdir(p)
               \/ LinkOld(p) \/ LinkTaken(p) \/ LinkNoRoom(p) \/ LinkNew(p)
               \/ PutIp(p) \/ LinkUndo(p) \/ PutParent(p)
UnlinkStep(p) == \/ UnlinkFind(p) \/ UnlinkFails(p) \/ UnlinkNotEmpty(p)
                 \/ UnlinkEntry(p) \/ Unlink(p)
CreateStep(p) == \/ CreateFind(p) \/ (\E i \in Inode : CreateAlloc(p, i))
                 \/ CreateNoInode(p) \/ CreateNew(p) \/ CreateFails(p)
                 \/ OpenCreated(p) \/ PutCreated(p)
FileStep(p) == Close(p) \/ Exit(p) \/ ExitPut(p) \/ \E q \in Proc : Fork(p, q)

Next == \E p \in Proc : \/ Namex(p) \/ IputStep(p) \/ NameCall(p)
                        \/ UnlinkStep(p) \/ CreateStep(p) \/ FileStep(p)
                        \/ \E c \in Calls : Call(p, c)

Spec == Init /\ [][Next]_vars

-----------------------------------------------------------------------------
(* The panics.  ilock meets an inode that is free on the disk; iput has to   *)
(* wait for the lock of an inode, with itable.lock held, which sched does   *)
(* not allow; unlink finds an entry for an inode without links.  A process  *)
(* that panics takes no further step.                                       *)
IlockPanics(p) == Wants(p) # None /\ Free(Wants(p)) /\ NoType(Wants(p))
IputPanics(p) == pc[p] = "put" /\ LastUse(put[p]) /\ ~Free(put[p])
UnlinkPanics(p) == Ilock(p, "victim") /\ Seen(ip[p]).nlink < 1

NoPanic == \A p \in Proc : ~IlockPanics(p) /\ ~IputPanics(p) /\ ~UnlinkPanics(p)

(* ref counts the pointers to an inode, and a file's ref the processes that *)
(* have it.                                                                 *)
Holders(i) ==
    {<<p, "cur">> : p \in {q \in Proc : cur[q] = i}}
    \cup {<<p, "ip">> : p \in {q \in Proc : ip[q] = i}}
    \cup {<<p, "dp">> : p \in {q \in Proc : dp[q] = i}}
    \cup {<<p, "put">> : p \in {q \in Proc : put[q] = i}}
    \cup {<<p, "cwd">> : p \in {q \in Proc : cwd[q] = i}}
    \cup {<<f, "file">> : f \in {g \in File : fip[g] = i}}

RefExact ==
    /\ \A i \in Inode : ref[i] = Cardinality(Holders(i))
    /\ \A f \in File : /\ fref[f] = Cardinality({p \in Proc : fd[p] = f})
                       /\ fref[f] > 0 <=> fip[f] # None

(* An inode has at least as many links as entries name it, and every entry  *)
(* names an allocated inode.                                                *)
NamedBy(i) == {e \in Inode \X Name : ent[e[1]][e[2]] = i}
LinksCounted ==
    \A i \in Inode : NamedBy(i) # {} =>
        /\ dinode[i].type # "free"
        /\ dinode[i].nlink >= Cardinality(NamedBy(i))

\* Who has a pointer to an inode, or a name for it, is counted.
CountsExact == RefExact /\ LinksCounted

(* An inode without links is not forgotten: somebody who will free it still *)
(* has a reference.                                                         *)
NoLeak == \A i \in Inode :
              dinode[i].type # "free" /\ dinode[i].nlink = 0 => ref[i] > 0

(* An inode is freed when nobody else has a pointer to it and no directory  *)
(* an entry.                                                                *)
FreedAlone ==
    [][\A i \in Inode : dinode[i].type # "free" /\ dinode'[i].type = "free" =>
          Cardinality(Holders(i)) = 1 /\ NamedBy(i) = {}]_vars

(* Whoever waits for an inode's lock waits for a process that is in a call  *)
(* and does not wait, in turn, for it.                                      *)
Blocker(p) == IF Wants(p) = None THEN None ELSE lock[Wants(p)]
LockProgress ==
    \A p \in Proc : Blocker(p) # None =>
        /\ pc[Blocker(p)] \notin {"user", "gone"}
        /\ Blocker(p) # p /\ Blocker(Blocker(p)) # p
===============================================================================
