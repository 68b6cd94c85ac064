-------------------------------- MODULE Names --------------------------------
(***************************************************************************)
(* Names of files: skipelem cuts a path into elements, dirlink and namecmp *)
(* (fs.c) keep and compare them in arrays of DIRSIZ characters with        *)
(* strncpy and strncmp (string.c).  A name that fills its array has no     *)
(* terminator; the array skipelem fills is used again for each element and *)
(* keeps what was in it behind the terminator.                             *)
(***************************************************************************)
EXTENDS Integers, Sequences, SequencesExt, FiniteSetsExt

CONSTANTS DIRSIZ,
          Paths,      \* sequences of characters, "/" among them
          Garbage     \* what may be in an array at first

VARIABLES path,       \* what skipelem has left
          name,       \* the array of namex
          entries,    \* de.name of the entries of a directory
          whole,      \* history: the path at first
          elems,      \* history: the elements found so far
          linked      \* history: the names given to dirlink

nvars == <<path, name, entries, whole, elems, linked>>

Index == 0 .. DIRSIZ - 1
NUL   == "nul"

Init == /\ path \in Paths /\ whole = path
        /\ name = [i \in Index |-> Garbage]
        /\ entries = {} /\ elems = <<>> /\ linked = {}

-----------------------------------------------------------------------------
(* string.c. *)

\* The place where two strings first differ, or one of them ends, before n.
Stops(p, q, n) == {i \in 0 .. n - 1 : p[i] = NUL \/ p[i] # q[i]}

\* strncmp(p, q, n) = 0
SameUpTo(p, q, n) == Stops(p, q, n) = {} \/ LET i == Min(Stops(p, q, n)) IN p[i] = q[i]

\* strncpy(s, t, n)
StrNCpy(t, n) == [i \in 0 .. n - 1 |-> IF \E j \in 0 .. i : t[j] = NUL THEN NUL ELSE t[i]]

-----------------------------------------------------------------------------
(* fs.c. *)

SkipSlashes(s) == LET other == SelectInSeq(s, LAMBDA c : c # "/") IN
                  IF other = 0 THEN <<>> ELSE SubSeq(s, other, Len(s))

ElemLen(s) == LET slash == SelectInSeq(s, LAMBDA c : c = "/") IN
              IF slash = 0 THEN Len(s) ELSE slash - 1

\* memmove to name, and a terminator if there is room for it
Put(s, len) == [i \in Index |-> IF i < len THEN s[i + 1]
                                ELSE IF i = len THEN NUL ELSE name[i]]

SkipElem ==
    LET s == SkipSlashes(path)
        len == ElemLen(s)
    IN  /\ s # <<>>
        /\ name' = Put(s, Min({len, DIRSIZ}))
        /\ path' = SkipSlashes(SubSeq(s, len + 1, Len(s)))
        /\ elems' = Append(elems, SubSeq(s, 1, Min({len, DIRSIZ})))
        /\ UNCHANGED <<entries, whole, linked>>

NameCmp(s, t) == SameUpTo(s, t, DIRSIZ)

DirLookup == \E de \in entries : NameCmp(name, de)

DirLink ==
    /\ elems # <<>> /\ ~DirLookup
    /\ entries' = entries \cup {StrNCpy(name, DIRSIZ)}
    /\ linked' = linked \cup {Last(elems)}
    /\ UNCHANGED <<path, name, whole, elems>>

Next == SkipElem \/ DirLink

Spec == Init /\ [][Next]_nvars

-----------------------------------------------------------------------------
\* The parts of a path between its slashes, cut to DIRSIZ characters.
Slashes(s) == {0, Len(s) + 1} \cup {i \in 1 .. Len(s) : s[i] = "/"}

Parts(s) == LET starts == SetToSortSeq({i \in Slashes(s) : i <= Len(s) /\ i + 1 \notin Slashes(s)}, <)
                End(i) == Min({j \in Slashes(s) : j > i})
            IN  [k \in 1 .. Len(starts) |-> SubSeq(s, starts[k] + 1, Min({End(starts[k]) - 1, starts[k] + DIRSIZ}))]

(* The elements skipelem finds are the parts of the path, in their order;  *)
(* a name is found in a directory exactly if a name with the same first    *)
(* DIRSIZ characters has been put there, whatever is left in the arrays    *)
(* behind them, and no name is there twice.                                *)
NamesExact ==
    /\ IsPrefix(elems, Parts(whole)) /\ (path = <<>> /\ whole # <<>> => elems = Parts(whole))
    /\ (elems # <<>> => (DirLookup <=> Last(elems) \in linked))
    /\ Cardinality(entries) = Cardinality(linked)
==============================================================================
