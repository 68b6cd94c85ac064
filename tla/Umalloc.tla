------------------------------- MODULE Umalloc -------------------------------
(***************************************************************************)
(* malloc and free of user programs (user/umalloc.c), in units of a        *)
(* header.  hdr holds the headers that are in use, by address; base is at  *)
(* 0, below the heap, whose end is top.  The program may call sbrk itself, *)
(* and asks for less than 2^31 bytes: what morecore asks sbrk for is then  *)
(* what it adds to the list.                                               *)
(***************************************************************************)
EXTENDS Integers, FiniteSets, Functions

CONSTANTS Requests,   \* units a program asks for, the header included
          Foreign,    \* units a program gets from sbrk itself
          MinCore,    \* 4096
          MaxTop      \* bound on the heap

VARIABLES hdr,     \* address -> [ptr, size]
          freep,
          top,
          used,    \* header of a block that is handed out -> units asked for
          foreign  \* addresses the program got from sbrk

mvars == <<hdr, freep, top, used, foreign>>

Base == 0
Null == -1

Init == /\ hdr = [a \in {Base} |-> [ptr |-> Null, size |-> 0]]
        /\ freep = Null /\ top = 1
        /\ used = [a \in {} |-> 0]
        /\ foreign = {}

With(h, a, ptr, size) == [x \in DOMAIN h \cup {a} |-> IF x = a THEN [ptr |-> ptr, size |-> size] ELSE h[x]]
Drop(f, a) == Restrict(f, DOMAIN f \ {a})

-----------------------------------------------------------------------------
(* free. *)

AtEnds(h, p, bp) == p >= h[p].ptr /\ (bp > p \/ bp < h[p].ptr)

\* The block after which bp belongs, looked for from p.
RECURSIVE Place(_, _, _)
Place(h, p, bp) ==
    IF (bp > p /\ bp < h[p].ptr) \/ AtEnds(h, p, bp) THEN p ELSE Place(h, h[p].ptr, bp)

JoinAbove(h, p, bp) ==
    LET next == h[p].ptr IN
    IF bp + h[bp].size = next THEN With(Drop(h, next), bp, h[next].ptr, h[bp].size + h[next].size)
    ELSE With(h, bp, next, h[bp].size)

JoinBelow(h, p, bp) ==
    IF p + h[p].size = bp THEN With(Drop(h, bp), p, h[bp].ptr, h[p].size + h[bp].size)
    ELSE With(h, p, bp, h[p].size)

\* The heap and freep after bp has been put in the list.
Freed(h, fp, bp) == LET p == Place(h, fp, bp) IN [h |-> JoinBelow(JoinAbove(h, p, bp), p, bp), fp |-> p]

Free(a) ==
    LET f == Freed(hdr, freep, a) IN
    /\ hdr' = f.h /\ freep' = f.fp
    /\ used' = Drop(used, a)
    /\ UNCHANGED <<top, foreign>>

-----------------------------------------------------------------------------
(* malloc. *)

\* The first block of at least n units after prevp, and its predecessor, or
\* Null when the search is back at freep.
RECURSIVE Search(_, _, _, _)
Search(h, prevp, fp, n) ==
    LET p == h[prevp].ptr IN
    IF h[p].size >= n THEN prevp ELSE IF p = fp THEN Null ELSE Search(h, p, fp, n)

\* malloc makes a ring of base when it is first called.
Ring  == IF freep = Null THEN With(hdr, Base, Base, 0) ELSE hdr
Start == IF freep = Null THEN Base ELSE freep

\* The block behind prevp, or its upper part, is handed out.
Taken(h, prevp, n) ==
    LET p == h[prevp].ptr IN
    /\ freep' = prevp
    /\ IF h[p].size = n
       THEN /\ hdr' = With(h, prevp, h[p].ptr, h[prevp].size)
            /\ used' = [x \in DOMAIN used \cup {p} |-> IF x = p THEN n ELSE used[x]]
       ELSE LET rest == h[p].size - n
                a    == p + rest
            IN  /\ hdr' = With(With(h, p, h[p].ptr, rest), a, Null, n)
                /\ used' = [x \in DOMAIN used \cup {a} |-> IF x = a THEN n ELSE used[x]]

\* morecore
Core(n) == IF n < MinCore THEN MinCore ELSE n

Malloc(n) ==
    LET found == Search(Ring, Start, Start, n) IN
    \/ found # Null /\ Taken(Ring, found, n) /\ UNCHANGED <<top, foreign>>
    \/ /\ found = Null /\ top + Core(n) <= MaxTop
       /\ LET f == Freed(With(Ring, top, Null, Core(n)), Start, top) IN
          Taken(f.h, Search(f.h, f.fp, f.fp, n), n)
       /\ top' = top + Core(n)
       /\ UNCHANGED foreign
    \/ /\ found = Null
       /\ hdr' = Ring /\ freep' = Start
       /\ UNCHANGED <<top, used, foreign>>

Sbrk(n) ==
    /\ top + n <= MaxTop
    /\ top' = top + n
    /\ foreign' = foreign \cup (top .. top + n - 1)
    /\ UNCHANGED <<hdr, freep, used>>

-----------------------------------------------------------------------------
Next == \/ \E n \in Requests : Malloc(n)
        \/ \E a \in DOMAIN used : Free(a)
        \/ \E n \in Foreign : Sbrk(n)

Spec == Init /\ [][Next]_mvars

-----------------------------------------------------------------------------
(* Properties. *)

Units(a)   == a .. a + hdr[a].size - 1
Listed     == DOMAIN hdr \ DOMAIN used

\* Blocks handed out have the size asked for; with the free ones they fill the
\* heap and overlap nothing, least of all what the program got from sbrk; the
\* free blocks are one ring in the order of addresses, and no two of them
\* touch, so a heap that is all free is as large as it ever was.
HeapExact ==
    /\ \A a \in DOMAIN used : a \in DOMAIN hdr /\ hdr[a].size = used[a]
    /\ \A a \in DOMAIN hdr : \A b \in DOMAIN hdr \ {a} : Units(a) \cap Units(b) = {}
    /\ (UNION {Units(a) : a \in DOMAIN hdr}) = (1 .. top - 1) \ foreign
    /\ freep = Null \/ /\ freep \in Listed
                       /\ \A a \in Listed :
                            /\ a # Base => a + hdr[a].size \notin Listed
                            /\ LET above == {b \in Listed : b > a} IN
                               hdr[a].ptr = IF above = {} THEN Base ELSE CHOOSE b \in above : \A c \in above : b <= c
==============================================================================
