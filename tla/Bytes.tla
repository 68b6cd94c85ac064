-------------------------------- MODULE Bytes --------------------------------
(***************************************************************************)
(* Two loops the kernel and its programs have in a version each: memmove,  *)
(* a byte per step (kernel/string.c and user/ulib.c), and printing a       *)
(* number, a digit per step (kernel/printf.c and user/printf.c).           *)
(***************************************************************************)
EXTENDS Integers, Sequences, SequencesExt

CONSTANTS Size,     \* bytes of memory
          Word,     \* 2^32, for int and uint
          Bases     \* 10 and 16

VARIABLES call,     \* what has been called: [op, side, ...]
          mem,      \* address -> the byte that was at this address at first
          dst, src, left,    \* memmove
          x, digits          \* printint: x, and what is in its buf

bvars == <<call, mem, dst, src, left, x, digits>>

Sides == {"kernel", "user"}
Moves == [op : {"memmove"}, side : Sides, dst : 0 .. Size, src : 0 .. Size, n : 0 .. Size]
Prints == [op : {"printint"}, side : Sides, xx : 0 .. Word - 1, base : Bases, sgn : BOOLEAN]

\* An int is kept as the word of its bits.
Negative(w) == w >= Word \div 2
Neg(w)      == (Word - w) % Word

InMemory(c) == c.dst + c.n <= Size /\ c.src + c.n <= Size

Init == /\ call \in {c \in Moves : InMemory(c)} \cup Prints
        /\ mem = [a \in 0 .. Size - 1 |-> a]
        /\ digits = <<>>
        /\ IF call.op = "memmove" THEN dst = call.dst /\ src = call.src /\ left = call.n /\ x = 0
           ELSE /\ dst = 0 /\ src = 0 /\ left = 0
                /\ x = IF call.sgn /\ Negative(call.xx) THEN Neg(call.xx) ELSE call.xx

-----------------------------------------------------------------------------
(* memmove. *)

\* The kernel copies from the last byte down if the destination starts inside
\* the source, a program does unless the source is above the destination.
Downwards(c) == IF c.side = "kernel" THEN c.src < c.dst /\ c.src + c.n > c.dst
                ELSE c.src <= c.dst

\* left bytes from dst on are still to be written: the first or the last goes next.
CopyByte ==
    LET i == IF Downwards(call) THEN left - 1 ELSE 0 IN
    /\ call.op = "memmove" /\ left > 0
    /\ mem' = [mem EXCEPT ![dst + i] = mem[src + i]]
    /\ left' = left - 1
    /\ IF Downwards(call) THEN UNCHANGED <<dst, src>> ELSE dst' = dst + 1 /\ src' = src + 1
    /\ UNCHANGED <<call, x, digits>>

-----------------------------------------------------------------------------
(* printint. *)

\* The loop runs once for 0.
Digit ==
    /\ call.op = "printint" /\ (x > 0 \/ digits = <<>>)
    /\ digits' = Append(digits, x % call.base)
    /\ x' = x \div call.base
    /\ UNCHANGED <<call, mem, dst, src, left>>

Next == CopyByte \/ Digit

Spec == Init /\ [][Next]_bvars

Printed == [neg |-> call.sgn /\ Negative(call.xx), digits |-> Reverse(digits)]

\* atoi of what has been printed without a sign
Atoi(s) == FoldLeft(LAMBDA n, d : (n * 10 + d) % Word, 0, s)

-----------------------------------------------------------------------------
(* memmove leaves at its destination what was at its source when it was    *)
(* called and nothing else changed, overlap or not.  What printint prints  *)
(* is the number, the least one included, without leading zeros; atoi      *)
(* reads it back.                                                          *)
BytesExact ==
    IF call.op = "memmove"
    THEN left = 0 => mem = [a \in 0 .. Size - 1 |->
                               IF a \in call.dst .. call.dst + call.n - 1 THEN a - call.dst + call.src ELSE a]
    ELSE digits # <<>> /\ x = 0 =>
         LET value == FoldLeft(LAMBDA n, d : n * call.base + d, 0, Printed.digits) IN
         /\ IF Printed.neg THEN value > 0 /\ call.xx - Word = -value ELSE value = call.xx
         /\ Printed.digits[1] = 0 => Len(digits) = 1
         /\ ~Printed.neg /\ call.base = 10 => Atoi(Printed.digits) = call.xx
==============================================================================
