------------------------------ MODULE FileBytes ------------------------------
(***************************************************************************)
(* What reading and writing promise, with no blocks in sight: a file is a  *)
(* sequence of bytes; a write puts a prefix of what it was asked to write  *)
(* at its offset, which is at most the file's length, and moves the offset *)
(* by as much as it wrote; a read moves it by what is left to read.        *)
(***************************************************************************)
EXTENDS Integers, Sequences

CONSTANTS Procs, Files, Byte, MaxBytes

VARIABLES bytes,    \* file -> its contents
          file,     \* process -> the file it has open
          off       \* process -> its offset in it

avars == <<bytes, file, off>>

Lesser(a, b) == IF a < b THEN a ELSE b

\* s with k bytes x written from position o on
Written(s, o, k, x) ==
    [i \in 1 .. (IF o + k > Len(s) THEN o + k ELSE Len(s)) |-> IF i \in o + 1 .. o + k THEN x ELSE s[i]]

Write(p, k) ==
    /\ k > 0 /\ off[p] <= Len(bytes[file[p]]) /\ off[p] + k <= MaxBytes
    /\ bytes' = [bytes EXCEPT ![file[p]] = Written(@, off[p], k, Byte[p])]
    /\ off' = [off EXCEPT ![p] = @ + k]
    /\ UNCHANGED file

Read(p, n) ==
    /\ off[p] <= Len(bytes[file[p]])
    /\ off' = [off EXCEPT ![p] = Lesser(@ + n, Len(bytes[file[p]]))]
    /\ UNCHANGED <<bytes, file>>

Open(p, f) ==
    /\ file' = [file EXCEPT ![p] = f]
    /\ off' = [off EXCEPT ![p] = 0]
    /\ UNCHANGED bytes

\* open with O_TRUNC
OpenEmpty(p, f) ==
    /\ bytes' = [bytes EXCEPT ![f] = <<>>]
    /\ file' = [file EXCEPT ![p] = f]
    /\ off' = [off EXCEPT ![p] = 0]

Next == \E p \in Procs : \/ \E k \in 1 .. MaxBytes : Write(p, k) \/ Read(p, k)
                         \/ \E f \in Files : Open(p, f) \/ OpenEmpty(p, f)

\* Whatever the files hold at the start.
Spec == [][Next]_avars
==============================================================================
