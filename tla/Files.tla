-------------------------------- MODULE Files --------------------------------
(***************************************************************************)
(* Descriptors, the file table and pipe ends (file.c, sysfile.c, pipe.c):  *)
(* open, dup, pipe, close, fork and exit by several processes, with every  *)
(* way in which a file, a descriptor, a page or the address of the result  *)
(* may be missing half-way.  What happens under ftable.lock is one step; a *)
(* process's own descriptors are seen by nobody else and change with it.   *)
(* That an inode is found, and what is read and written, are the subjects  *)
(* of Fs, Pipe and Blocks.                                                 *)
(***************************************************************************)
EXTENDS Integers, Sequences, FiniteSets, Functions, FiniteSetsExt

CONSTANTS Procs, NOFILE, NFILE, NPages

FilesConstants == IsFiniteSet(Procs) /\ NOFILE \in Nat /\ NFILE \in Nat /\ NPages \in Nat

VARIABLES ofile,  \* process -> descriptor -> file, or 0
          ftable, \* file -> [ref, type, ip]: type "none", "inode", "read" or
                  \* "write", the latter two being ends of the pipe in page ip
          pages,  \* page -> the ends of its pipe that are open; {} if it is free
          inode,  \* the references to the one inode that is opened
          call    \* process -> [at, files, last, next, kid]: the files in hand, or
                  \* to be closed; the one closed last; where to go on after that

fvars == <<ofile, ftable, pages, inode, call>>

Fds       == 0 .. NOFILE - 1
FileNo    == 1 .. NFILE
Ends      == {"read", "write"}
Blank     == [ref |-> 0, type |-> "none", ip |-> 0]
Nothing   == [fd \in Fds |-> 0]
Idle(at)  == [at |-> at, files |-> <<>>, last |-> Blank, next |-> "", kid |-> 0]
User      == Idle("user")
Gone      == Idle("gone")
First     == Min(Procs)

Init == /\ ofile = [p \in Procs |-> Nothing]
        /\ ftable = [f \in FileNo |-> Blank]
        /\ pages = [g \in 1 .. NPages |-> {}]
        /\ inode = 0
        /\ call = [p \in Procs |-> IF p = First THEN User ELSE Gone]

-----------------------------------------------------------------------------
(* filealloc and fdalloc take the first that is free. *)

At(p, at)          == call[p].at = at
Goto(p, at, files) == call' = [call EXCEPT ![p].at = at, ![p].files = files]

Unused        == {f \in FileNo : ftable[f].ref = 0}
FileAlloc     == Min(Unused)
Room(p)       == {fd \in Fds : ofile[p][fd] = 0}
\* The descriptors of p with f in the first free one.
FdAlloc(p, f) == [ofile[p] EXCEPT ![Min(Room(p))] = f]

\* fileclose is called for each of files, and next follows.
CloseThen(p, files, next) == call' = [call EXCEPT ![p].at = "close", ![p].files = files, ![p].next = next]
Close(p, files)           == CloseThen(p, files, "user")

-----------------------------------------------------------------------------
(* open: the inode has been found and is referred to. *)

Open(p) ==
    /\ At(p, "user") /\ Unused # {} /\ Room(p) # {}
    /\ ftable' = [ftable EXCEPT ![FileAlloc] = [ref |-> 1, type |-> "inode", ip |-> 0]]
    /\ ofile' = [ofile EXCEPT ![p] = FdAlloc(p, FileAlloc)]
    /\ inode' = inode + 1
    /\ UNCHANGED <<pages, call>>

\* Without a descriptor the file is closed before it has a type; the inode is
\* put either way, and is not seen to have been found.
OpenFails(p) ==
    /\ At(p, "user") /\ Unused # {} /\ Room(p) = {}
    /\ ftable' = [ftable EXCEPT ![FileAlloc].ref = 1]
    /\ Close(p, <<FileAlloc>>)
    /\ UNCHANGED <<ofile, pages, inode>>

Dup(p, fd) ==
    LET f == ofile[p][fd] IN
    /\ At(p, "user") /\ f # 0 /\ Room(p) # {}
    /\ ofile' = [ofile EXCEPT ![p] = FdAlloc(p, f)]
    /\ ftable' = [ftable EXCEPT ![f].ref = @ + 1]
    /\ UNCHANGED <<pages, inode, call>>

-----------------------------------------------------------------------------
(* pipe. *)

\* The two files.  One that is left alone is closed again.
PipeFile(p) ==
    LET rf == call[p].files IN
    /\ At(p, "user") \/ At(p, "pipe2")
    /\ IF Unused = {} THEN rf # <<>> /\ Close(p, rf) /\ UNCHANGED ftable
       ELSE /\ ftable' = [ftable EXCEPT ![FileAlloc].ref = 1]
            /\ Goto(p, IF At(p, "user") THEN "pipe2" ELSE "page", Append(rf, FileAlloc))
    /\ UNCHANGED <<ofile, pages, inode>>

Second(S) == Min(S \ {Min(S)})
FreePages == {g \in DOMAIN pages : pages[g] = {}}

PipeNoPage(p) ==
    /\ At(p, "page") /\ FreePages = {}
    /\ Close(p, call[p].files)
    /\ UNCHANGED <<ofile, ftable, pages, inode>>

\* Mutant: where one descriptor is missing only the other end is closed.
OneClosed(files) == <<files[2]>>

Undone(files) == files

\* The page, and the descriptors: both, or none.
PipeMade(p) ==
    LET rf == call[p].files[1]
        wf == call[p].files[2]
        g  == Min(FreePages)
        two == Cardinality(Room(p)) >= 2
    IN  /\ At(p, "page") /\ FreePages # {}
        /\ pages' = [pages EXCEPT ![g] = Ends]
        /\ ftable' = [ftable EXCEPT ![rf].type = "read", ![wf].type = "write", ![rf].ip = g, ![wf].ip = g]
        /\ IF two THEN /\ ofile' = [ofile EXCEPT ![p] = [FdAlloc(p, rf) EXCEPT ![Second(Room(p))] = wf]]
                       /\ Goto(p, "copyout", <<rf, wf>>)
           ELSE Close(p, Undone(<<rf, wf>>)) /\ UNCHANGED ofile
        /\ UNCHANGED inode

\* copyout of the descriptors' numbers: to the process, or nowhere.
PipeReturns(p) ==
    /\ At(p, "copyout")
    /\ Goto(p, "user", <<>>)
    /\ UNCHANGED <<ofile, ftable, pages, inode>>

PipeFaults(p) ==
    /\ At(p, "copyout")
    /\ ofile' = [ofile EXCEPT ![p] = [fd \in Fds |-> IF @[fd] \in Range(call[p].files) THEN 0 ELSE @[fd]]]
    /\ Close(p, call[p].files)
    /\ UNCHANGED <<ftable, pages, inode>>

-----------------------------------------------------------------------------
(* close, and what ends in fileclose. *)

SysClose(p, fd) ==
    /\ At(p, "user") /\ ofile[p][fd] # 0
    /\ ofile' = [ofile EXCEPT ![p][fd] = 0]
    /\ Close(p, <<ofile[p][fd]>>)
    /\ UNCHANGED <<ftable, pages, inode>>

\* exit closes the descriptors one after the other.
Exit(p) ==
    /\ At(p, "user") \/ At(p, "exit")
    /\ IF ofile[p] = Nothing THEN call' = [call EXCEPT ![p] = Gone] /\ UNCHANGED ofile
       ELSE LET fd == Min(Fds \ Room(p)) IN
            /\ ofile' = [ofile EXCEPT ![p][fd] = 0]
            /\ CloseThen(p, <<ofile[p][fd]>>, "exit")
    /\ UNCHANGED <<ftable, pages, inode>>

Closing(p) == At(p, "close") /\ call[p].files # <<>>

\* fileclose of a file that is used elsewhere.
DropRef(p) ==
    LET f == Head(call[p].files) IN
    /\ Closing(p) /\ ftable[f].ref > 1
    /\ ftable' = [ftable EXCEPT ![f].ref = @ - 1]
    /\ call' = [call EXCEPT ![p].files = Tail(@)]
    /\ UNCHANGED <<ofile, pages, inode>>

\* The last one: the file is free before pipeclose or iput is called.
LastClose(p) ==
    LET f == Head(call[p].files) IN
    /\ Closing(p) /\ ftable[f].ref = 1
    /\ ftable' = [ftable EXCEPT ![f] = Blank]
    /\ call' = [call EXCEPT ![p].at = "release", ![p].files = Tail(@), ![p].last = ftable[f]]
    /\ UNCHANGED <<ofile, pages, inode>>

Release(p) ==
    LET ff == call[p].last IN
    /\ At(p, "release")
    /\ pages' = IF ff.type \in Ends THEN [pages EXCEPT ![ff.ip] = @ \ {ff.type}] ELSE pages
    /\ inode' = IF ff.type = "inode" THEN inode - 1 ELSE inode
    /\ call' = [call EXCEPT ![p].at = "close", ![p].last = Blank]
    /\ UNCHANGED <<ofile, ftable>>

Closed(p) ==
    /\ At(p, "close") /\ call[p].files = <<>>
    /\ call' = [call EXCEPT ![p] = Idle(@.next)]
    /\ UNCHANGED <<ofile, ftable, pages, inode>>

-----------------------------------------------------------------------------
(* fork copies the descriptors in order. *)

Fork(p, q) ==
    /\ At(p, "user") /\ At(q, "gone")
    /\ call' = [call EXCEPT ![p].at = "fork", ![p].kid = q, ![q].at = "new"]
    /\ UNCHANGED <<ofile, ftable, pages, inode>>

Left(p) == {fd \in Fds : ofile[p][fd] # ofile[call[p].kid][fd]}

ForkDup(p) ==
    LET q == call[p].kid
        fd == Min(Left(p))
    IN  /\ At(p, "fork") /\ Left(p) # {}
        /\ ftable' = [ftable EXCEPT ![ofile[p][fd]].ref = @ + 1]
        /\ ofile' = [ofile EXCEPT ![q][fd] = ofile[p][fd]]
        /\ UNCHANGED <<pages, inode, call>>

ForkDone(p) ==
    /\ At(p, "fork") /\ Left(p) = {}
    /\ call' = [call EXCEPT ![p] = User, ![call[p].kid] = User]
    /\ UNCHANGED <<ofile, ftable, pages, inode>>

-----------------------------------------------------------------------------
Next == \E p \in Procs :
    \/ Open(p) \/ OpenFails(p)
    \/ PipeFile(p) \/ PipeNoPage(p) \/ PipeMade(p) \/ PipeReturns(p) \/ PipeFaults(p)
    \/ Exit(p) \/ DropRef(p) \/ LastClose(p) \/ Release(p) \/ Closed(p)
    \/ ForkDup(p) \/ ForkDone(p)
    \/ \E fd \in Fds : Dup(p, fd) \/ SysClose(p, fd)
    \/ \E q \in Procs : Fork(p, q)

Spec == Init /\ [][Next]_fvars

-----------------------------------------------------------------------------
(* Properties. *)

\* The descriptors of f, and the calls that hold it in hand: those whose file
\* has no descriptor, or none any more.
Descriptors(f) == {d \in Procs \X Fds : ofile[d[1]][d[2]] = f}
InHand(f)      == {p \in Procs : ~ At(p, "copyout") /\ f \in Range(call[p].files)}

\* Each file has as many references as there are descriptors and calls that
\* hold it, so none is lost and none is used by two that do not share it; and
\* no call holds a file twice.
RefsExact ==
    /\ \A f \in FileNo : ftable[f].ref = Cardinality(Descriptors(f)) + Cardinality(InHand(f))
    /\ \A p \in Procs : IsInjective(call[p].files)

Releasing(type, g) == \E p \in Procs : call[p].last.type = type /\ call[p].last.ip = g

\* An end of a pipe is open for as long as there is a file for it, or the last
\* fileclose of one is on its way to pipeclose; so no file names a page that has
\* been freed, and no page is kept for ever.
EndsExact == \A g \in DOMAIN pages, end \in Ends :
    end \in pages[g] <=> (\E f \in FileNo : ftable[f].type = end /\ ftable[f].ip = g) \/ Releasing(end, g)

\* The inode is referred to once for each file it is open as.
InodeFiles == {f \in FileNo : ftable[f].type = "inode"}
InodePuts  == {p \in Procs : call[p].last.type = "inode"}
InodeExact == inode = Cardinality(InodeFiles) + Cardinality(InodePuts)

FilesExact == RefsExact /\ EndsExact /\ InodeExact
==============================================================================
