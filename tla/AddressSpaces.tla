---------------------------- MODULE AddressSpaces ----------------------------
(***************************************************************************)
(* What the kernel promises of user memory: a process has a size and the   *)
(* pages below it, each with its protection; fork copies them, sbrk adds   *)
(* or removes pages at the end, exec replaces them all, and each call      *)
(* happens at once or not at all.                                          *)
(***************************************************************************)
EXTENDS Integers, Sequences, FiniteSetsExt

CONSTANTS Slots, First, Unit, Deltas, Programs

VARIABLE space   \* slot -> [sz, prot], or NoSpace

NoSpace == [sz |-> -1, prot |-> <<>>]

Up(x) == (x + Unit - 1) \div Unit

\* n more units at the end: readable and writable pages.
Resized(s, n) ==
    [sz |-> s.sz + n,
     prot |-> [v \in 0 .. Up(s.sz + n) - 1 |-> IF v < Up(s.sz) THEN s.prot[v] ELSE "user"]]

\* The segments of a program, and above them a guard page and a stack page.
Image(segs) ==
    LET top == Up(Max({0} \cup {segs[i].end : i \in DOMAIN segs}))
    IN  [sz |-> (top + 2) * Unit,
         prot |-> [v \in 0 .. top + 1 |-> IF v = top THEN "guard" ELSE "user"]]

Init == space = [s \in Slots |->
            IF s = First THEN [sz |-> Unit, prot |-> [v \in {0} |-> "user"]] ELSE NoSpace]

Fork(p, q) == /\ space[p] # NoSpace /\ space[q] = NoSpace
              /\ space' = [space EXCEPT ![q] = space[p]]

Sbrk(p, n) == /\ space[p] # NoSpace /\ space[p].sz + n >= 0
              /\ space' = [space EXCEPT ![p] = Resized(@, n)]

Exec(p, prog) == /\ space[p] # NoSpace
                 /\ space' = [space EXCEPT ![p] = Image(prog.segs)]

Wait(q) == /\ space[q] # NoSpace
           /\ space' = [space EXCEPT ![q] = NoSpace]

Next == \E p \in Slots : \/ \E q \in Slots : Fork(p, q)
                         \/ \E n \in Deltas : Sbrk(p, n)
                         \/ \E prog \in Programs : Exec(p, prog)
                         \/ Wait(p)

Spec == Init /\ [][Next]_space
==============================================================================
