------------------------------- MODULE Blocks --------------------------------
(***************************************************************************)
(* The contents of files: block allocation, bmap, itrunc, readi and writei *)
(* (fs.c), with the loop of filewrite and the offset of fileread (file.c), *)
(* from the image that mkfs builds (mkfs.c).                               *)
(*                                                                         *)
(* Each process has one file open.  A step is what runs under the lock of  *)
(* one buffer: the search of one bitmap block, the write to one data       *)
(* block, the freeing of one block; who holds the lock of the inode keeps  *)
(* the others out of the file, but not out of the bitmap.                  *)
(* Blocks hold NIndirect words and BSize bytes, of one unit each, so that  *)
(* old file contents in a reused block would read as block numbers.        *)
(***************************************************************************)
EXTENDS Integers, Sequences, FiniteSetsExt

CONSTANTS Procs,
          Byte,         \* process -> the byte it writes
          Files,        \* inodes; RootFile is the root directory
          RootFile,
          NDirect, NIndirect, BSize,
          NBlocks,      \* sb.size
          NMeta,        \* blocks before the data blocks
          BPB,          \* bits of the bitmap to a bitmap block
          MaxOpBlocks,  \* MAXOPBLOCKS
          Appends,      \* what mkfs writes: a sequence of [file, n]
          Counts,       \* the n of read and write
          MaxCalls      \* bound: process -> how often it opens or writes a file

VARIABLES bitmap,   \* the blocks marked in use
          addrs,    \* file -> ip->addrs, the last being the indirect block
          data,     \* block -> its words
          size,     \* file -> ip->size
          holder,   \* file -> who holds ip->lock, or Nobody
          file,     \* process -> the file it has open
          off,      \* process -> f->off
          work,     \* process -> the call it is in
          calls,    \* process -> how often it has opened or written a file
          broken    \* a panic: freeing a free block

bvars == <<bitmap, addrs, data, size, holder, file, off, work, calls, broken>>

Nobody  == 0
Rest    == [call |-> "none"]
Words   == 0 .. BSize - 1
Zeroed  == [w \in Words |-> 0]
Stale   == [w \in Words |-> NMeta]
MaxFile == NDirect + NIndirect

-----------------------------------------------------------------------------
(* The map from the blocks of a file to the blocks of the disk. *)

\* Where the number of the file's block bn is kept.
Addr(ad, dt, bn) == IF bn < NDirect THEN ad[bn]
                    ELSE IF ad[NDirect] = 0 THEN 0 ELSE dt[ad[NDirect]][bn - NDirect]

\* bmap: the first thing that is missing for block bn is the indirect block
\* or the block itself; b is put in its place.
LacksIndirect(ad, bn) == bn >= NDirect /\ ad[NDirect] = 0

PutAddr(f, bn, b) ==
    IF bn < NDirect THEN addrs' = [addrs EXCEPT ![f][bn] = b]
    ELSE IF LacksIndirect(addrs[f], bn) THEN addrs' = [addrs EXCEPT ![f][NDirect] = b]
    ELSE UNCHANGED addrs

\* Mutant: a block is handed out as it is.
NotZeroed(dt, b) == dt

\* bzero
Bzero(dt, b) == [dt EXCEPT ![b] = Zeroed]

\* balloc zeroes the block; an entry of the indirect block is then set in it.
PutData(f, bn, b) ==
    LET zero == Bzero(data, b)
    IN  data' = IF bn < NDirect \/ LacksIndirect(addrs[f], bn) THEN zero
                ELSE [zero EXCEPT ![addrs[f][NDirect]][bn - NDirect] = b]

-----------------------------------------------------------------------------
(* mkfs: iappend takes blocks in order; the root directory's size is then  *)
(* rounded up, and balloc marks everything below freeblock.                *)

Blank == [next |-> NMeta, size |-> [f \in Files |-> 0],
          addrs |-> [f \in Files |-> [i \in 0 .. NDirect |-> 0]],
          data |-> [b \in 0 .. NBlocks - 1 |-> Zeroed]]

\* One byte (0 in the image) appended to f, with the blocks it needs.
Append1(im, f) ==
    LET bn  == im.size[f] \div BSize
        ind == IF LacksIndirect(im.addrs[f], bn) THEN 1 ELSE 0
        ib  == IF ind = 1 THEN im.next ELSE im.addrs[f][NDirect]
        new == Addr(im.addrs[f], im.data, bn) = 0
        b   == im.next + ind
    IN  [im EXCEPT !.size[f] = @ + 1,
                   !.next = IF new THEN b + 1 ELSE @,
                   !.addrs[f] = [i \in 0 .. NDirect |->
                        IF i = NDirect THEN ib ELSE IF new /\ i = bn THEN b ELSE @[i]],
                   !.data = IF new /\ bn >= NDirect THEN [@ EXCEPT ![ib][bn - NDirect] = b] ELSE @]

Image == LET build[k \in 0 .. Len(Appends)] ==
                 IF k = 0 THEN Blank
                 ELSE LET f == Appends[k].file
                          add[n \in 0 .. Appends[k].n] ==
                              IF n = 0 THEN build[k - 1] ELSE Append1(add[n - 1], f)
                      IN  add[Appends[k].n]
             im == build[Len(Appends)]
         IN  [im EXCEPT !.size[RootFile] = (@ \div BSize + 1) * BSize]

Init == /\ bitmap = 0 .. Image.next - 1
        /\ addrs = Image.addrs /\ data = Image.data /\ size = Image.size
        /\ holder = [f \in Files |-> Nobody]
        /\ file = [p \in Procs |-> RootFile]
        /\ off = [p \in Procs |-> 0]
        /\ work = [p \in Procs |-> Rest]
        /\ calls = [p \in Procs |-> 0]
        /\ broken = FALSE

-----------------------------------------------------------------------------
(* open and read. *)

Contents(f) == [i \in 1 .. size[f] |-> data[Addr(addrs[f], data, (i - 1) \div BSize)][(i - 1) % BSize]]

Begins(p) == /\ work[p] = Rest /\ calls[p] < MaxCalls[p]
             /\ calls' = [calls EXCEPT ![p] = @ + 1]

Open(p, f) == /\ Begins(p)
              /\ file' = [file EXCEPT ![p] = f]
              /\ off' = [off EXCEPT ![p] = 0]
              /\ UNCHANGED <<bitmap, addrs, data, size, holder, work, broken>>

\* fileread, with the inode locked from its start to its end.
Read(p, n) ==
    LET f == file[p] IN
    /\ work[p] = Rest /\ holder[f] = Nobody
    /\ off' = [off EXCEPT ![p] = IF @ > size[f] THEN @ ELSE Min({@ + n, size[f]})]
    /\ UNCHANGED <<bitmap, addrs, data, size, holder, file, work, broken, calls>>

-----------------------------------------------------------------------------
(* write. *)

CallWrite(p, n) ==
    /\ Begins(p)
    /\ work' = [work EXCEPT ![p] = [call |-> "write", left |-> n]]
    /\ UNCHANGED <<bitmap, addrs, data, size, holder, file, off, broken>>

\* The blocks that filewrite hands to one writei, in bytes.
MaxWrite == ((MaxOpBlocks - 1 - 1 - 2) \div 2) * BSize

\* ilock and the checks of writei; was is the file as it finds it.
BeginWrite(p) ==
    LET f == file[p]
        n == Min({work[p].left, MaxWrite})
    IN  /\ work[p].call = "write" /\ holder[f] = Nobody
        /\ IF off[p] > size[f] \/ off[p] + n > MaxFile * BSize
           THEN work' = [work EXCEPT ![p] = Rest] /\ UNCHANGED holder
           ELSE /\ holder' = [holder EXCEPT ![f] = p]
                /\ work' = [work EXCEPT ![p] = [call |-> "writei", left |-> @.left, n |-> n, tot |-> 0,
                                                map |-> 0, logged |-> {}, was |-> Contents(f)]]
        /\ UNCHANGED <<bitmap, addrs, data, size, file, off, broken, calls>>

Writing(p)  == work[p].call = "writei"
Pos(p)      == off[p] + work[p].tot
Bn(p)       == Pos(p) \div BSize
Missing(p)  == Addr(addrs[file[p]], data, Bn(p)) = 0
Unfinished(p) == Writing(p) /\ work[p].tot < work[p].n

\* balloc: the first free block of the bitmap block it looks at.
FreeIn(k) == {b \in k * BPB .. (k + 1) * BPB - 1 : b < NBlocks /\ b \notin bitmap}

BallocFinds(p) ==
    LET k == work[p].map IN
    /\ Unfinished(p) /\ Missing(p) /\ FreeIn(k) # {}
    /\ LET b == Min(FreeIn(k))
           f == file[p]
           ind == addrs[f][NDirect]
       IN  /\ bitmap' = bitmap \cup {b}
           /\ PutAddr(f, Bn(p), b) /\ PutData(f, Bn(p), b)
           /\ work' = [work EXCEPT ![p].map = 0,
                  ![p].logged = @ \cup {<<"map", k>>, <<"block", b>>}
                                  \cup IF Bn(p) >= NDirect /\ ind # 0 THEN {<<"block", ind>>} ELSE {}]
    /\ UNCHANGED <<size, holder, file, off, broken, calls>>

BallocPasses(p) ==
    LET k == work[p].map IN
    /\ Unfinished(p) /\ Missing(p) /\ FreeIn(k) = {} /\ k * BPB < NBlocks
    /\ work' = [work EXCEPT ![p].map = @ + 1]
    /\ UNCHANGED <<bitmap, addrs, data, size, holder, file, off, broken, calls>>

OutOfBlocks(p) == Missing(p) /\ work[p].map * BPB >= NBlocks


\* The bytes that go into the block: to its end, or to the end of the write.
Chunk(p) == Min({work[p].n - work[p].tot, BSize - (Pos(p) % BSize)})

WriteBlock(p) ==
    /\ Unfinished(p) /\ ~ Missing(p)
    /\ LET b == Addr(addrs[file[p]], data, Bn(p))
           o == Pos(p) % BSize
       IN  /\ data' = [data EXCEPT ![b] = [w \in Words |-> IF w \in o .. o + Chunk(p) - 1 THEN Byte[p] ELSE @[w]]]
           /\ work' = [work EXCEPT ![p].tot = @ + Chunk(p), ![p].logged = @ \cup {<<"block", b>>}]
    /\ UNCHANGED <<bitmap, addrs, size, holder, file, off, broken, calls>>

\* All is written, there are no blocks, or either_copyin fails; then size and
\* offset, and the next part if this one is complete.
EndWrite(p) ==
    LET f == file[p]
        w == work[p]
    IN  /\ Writing(p) /\ (Unfinished(p) /\ Missing(p) => OutOfBlocks(p))
        /\ size' = [size EXCEPT ![f] = Max({@, Pos(p)})]
        /\ off' = [off EXCEPT ![p] = Pos(p)]
        /\ holder' = [holder EXCEPT ![f] = Nobody]
        /\ work' = [work EXCEPT ![p] = IF w.tot = w.n /\ w.left > w.n
                                       THEN [call |-> "write", left |-> w.left - w.n] ELSE Rest]
        /\ UNCHANGED <<bitmap, addrs, data, file, broken, calls>>

-----------------------------------------------------------------------------
(* open with O_TRUNC; itrunc is the same when iput frees an inode. *)

\* The i-th thing that itrunc looks at: direct blocks, entries of the
\* indirect block, the indirect block.
Victim(f, i) == IF i < NDirect THEN addrs[f][i]
                ELSE IF addrs[f][NDirect] = 0 THEN 0
                ELSE IF i < MaxFile THEN data[addrs[f][NDirect]][i - NDirect]
                ELSE addrs[f][NDirect]

\* itrunc passes over what is 0.
NextVictim(f, i) == Min({j \in i + 1 .. MaxFile : Victim(f, j) # 0} \cup {MaxFile + 1})

CallTrunc(p, f) ==
    /\ Begins(p) /\ holder[f] = Nobody
    /\ holder' = [holder EXCEPT ![f] = p]
    /\ work' = [work EXCEPT ![p] = [call |-> "trunc", f |-> f, i |-> NextVictim(f, -1), was |-> Contents(f)]]
    /\ UNCHANGED <<bitmap, addrs, data, size, file, off, broken>>

\* bfree; addrs is cleared, the entries of the indirect block are not.
\* What a free block holds is forgotten: it is Stale, and no longer of use.
Bfree(p) ==
    LET i == work[p].i
        f == work[p].f
        b == Victim(f, i)
    IN  /\ work[p].call = "trunc" /\ i <= MaxFile
        /\ bitmap' = bitmap \ {b}
        /\ broken' = (broken \/ b \notin bitmap)
        /\ addrs' = IF i < NDirect THEN [addrs EXCEPT ![f][i] = 0]
                    ELSE IF i = MaxFile THEN [addrs EXCEPT ![f][NDirect] = 0] ELSE addrs
        /\ data' = [data EXCEPT ![b] = Stale]
        /\ work' = [work EXCEPT ![p].i = NextVictim(f, i)]
        /\ UNCHANGED <<size, holder, file, off, calls>>

EndTrunc(p) ==
    LET f == work[p].f IN
    /\ work[p].call = "trunc" /\ work[p].i > MaxFile
    /\ size' = [size EXCEPT ![f] = 0]
    /\ holder' = [holder EXCEPT ![f] = Nobody]
    /\ file' = [file EXCEPT ![p] = f]
    /\ off' = [off EXCEPT ![p] = 0]
    /\ work' = [work EXCEPT ![p] = Rest]
    /\ UNCHANGED <<bitmap, addrs, data, broken, calls>>

-----------------------------------------------------------------------------
Next ==
    \E p \in Procs :
        \/ \E f \in Files : Open(p, f) \/ CallTrunc(p, f)
        \/ \E n \in Counts : Read(p, n) \/ CallWrite(p, n)
        \/ BeginWrite(p) \/ BallocFinds(p) \/ BallocPasses(p) \/ WriteBlock(p) \/ EndWrite(p)
        \/ Bfree(p) \/ EndTrunc(p)

Spec == Init /\ [][Next]_bvars

-----------------------------------------------------------------------------
(* Properties. *)

\* The entries of f that count: those itrunc has not looked at yet.
Live(f) == (IF holder[f] # Nobody /\ work[holder[f]].call = "trunc" THEN work[holder[f]].i ELSE 0) .. MaxFile

\* A block is marked in use if and only if it is one of the first NMeta or
\* belongs to exactly one place of one file, also while files grow, shrink
\* and fail to grow at the same time; and every byte below the size of a file
\* that nobody is writing has a block, so that reading never allocates.
BlocksExact ==
    LET places == {x \in Files \X (0 .. MaxFile) : x[2] \in Live(x[1]) /\ Victim(x[1], x[2]) # 0}
        blocks == {Victim(x[1], x[2]) : x \in places}
    IN  /\ ~ broken
        /\ bitmap = (0 .. NMeta - 1) \cup blocks
        /\ blocks \cap (0 .. NMeta - 1) = {}
        /\ Cardinality(places) = Cardinality(blocks)
        /\ \A f \in Files : holder[f] = Nobody =>
               \A i \in 0 .. size[f] - 1 : Addr(addrs[f], data, i \div BSize) # 0

\* filewrite cuts a write into parts small enough for the MAXOPBLOCKS blocks
\* that begin_op reserves: with the inode, the bitmap blocks, the indirect
\* block and an unaligned start none writes more.
WithinReservation ==
    \A p \in Procs : Writing(p) => Cardinality(work[p].logged) + 1 <= MaxOpBlocks

\* Reads and writes see a file as a sequence of bytes: a write that is done,
\* or cut short by a full disk or a bad address, has put a prefix of its bytes
\* at its offset and changed nothing else.
Flat == INSTANCE FileBytes WITH
    MaxBytes <- MaxFile * BSize,
    bytes <- [f \in Files |-> IF holder[f] = Nobody THEN Contents(f) ELSE work[holder[f]].was]

Refines == Flat!Spec
==============================================================================
