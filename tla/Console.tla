------------------------------- MODULE Console -------------------------------
(***************************************************************************)
(* The input half of the console (console.c): the interrupt handler edits  *)
(* a line in a ring with three indices, readers take what is complete.     *)
(*                                                                         *)
(* cons.lock is a variable.  The handler holds it from its first step to   *)
(* its last and is one action, which waits for the lock; a reader keeps it *)
(* from one character to the next.  Echo is the subject of Uart.           *)
(***************************************************************************)
EXTENDS Integers, Sequences

CONSTANTS Readers,
          Size,       \* INPUT_BUF_SIZE
          Wrap,       \* r, w, e are modulo this (2^32), a multiple of Size
          Plain,      \* characters without a meaning for the console
          Counts      \* the n of read

ConsoleConstants == /\ Size \in Nat \ {0} /\ Wrap \in Nat /\ Wrap > Size /\ Wrap % Size = 0
                    /\ "nobody" \notin Readers /\ Counts \subseteq Int

VARIABLES buf, r, w, e,        \* cons
          conslock,
          reader,              \* reader -> [pc, n, target]
          killed

cvars == <<buf, r, w, e, conslock, reader, killed>>

Nobody == "nobody"

Init == /\ buf = [i \in 0 .. Size - 1 |-> "nul"] /\ r = 0 /\ w = 0 /\ e = 0
        /\ conslock = Nobody
        /\ reader = [p \in Readers |-> [pc |-> "user", n |-> 0, target |-> 0]]
        /\ killed = {}

Sub(a, b) == (a - b) % Wrap

-----------------------------------------------------------------------------
(* consoleread. *)

Goto(p, pc) == reader' = [reader EXCEPT ![p].pc = pc]

CallRead(p, n) ==
    /\ reader[p].pc = "user" /\ p \notin killed
    /\ reader' = [reader EXCEPT ![p] = [pc |-> "enter", n |-> n, target |-> n]]
    /\ UNCHANGED <<buf, r, w, e, conslock, killed>>

\* acquire, at the start or on the way out of sleep
ReadLock(p) ==
    /\ reader[p].pc = "enter" /\ conslock = Nobody
    /\ conslock' = p
    /\ Goto(p, "loop")
    /\ UNCHANGED <<buf, r, w, e, killed>>

Looping(p) == reader[p].pc = "loop" /\ reader[p].n > 0
NoInput    == r = w

\* Nothing to read: give up if killed.  A kill after this look comes too late.
ReadWait(p) ==
    /\ Looping(p) /\ NoInput
    /\ IF p \in killed THEN conslock' = Nobody /\ Goto(p, "user")
                       ELSE UNCHANGED conslock /\ Goto(p, "doze")
    /\ UNCHANGED <<buf, r, w, e, killed>>

ReadSleep(p) ==
    /\ reader[p].pc = "doze"
    /\ conslock' = Nobody
    /\ Goto(p, "sleep")
    /\ UNCHANGED <<buf, r, w, e, killed>>

Char == buf[r % Size]

\* An end of file stays for the next read if this one has something already.
SaveEof(p) == reader[p].n < reader[p].target

ReadEof(p) ==
    /\ Looping(p) /\ ~ NoInput /\ Char = "eof"
    /\ r' = IF SaveEof(p) THEN r ELSE (r + 1) % Wrap
    /\ Goto(p, "done")
    /\ UNCHANGED <<buf, w, e, conslock, killed>>

ReadChar(p) ==
    /\ Looping(p) /\ ~ NoInput /\ Char # "eof"
    /\ r' = (r + 1) % Wrap
    /\ reader' = [reader EXCEPT ![p].n = @ - 1, ![p].pc = IF Char = "nl" THEN "done" ELSE "loop"]
    /\ UNCHANGED <<buf, w, e, conslock, killed>>

\* The user's buffer is not mapped: the character is gone.
ReadFault(p) ==
    /\ Looping(p) /\ ~ NoInput /\ Char # "eof"
    /\ r' = (r + 1) % Wrap
    /\ Goto(p, "done")
    /\ UNCHANGED <<buf, w, e, conslock, killed>>

ReadReturn(p) ==
    /\ reader[p].pc = "done" \/ (reader[p].pc = "loop" /\ reader[p].n <= 0)
    /\ conslock' = Nobody
    /\ reader' = [reader EXCEPT ![p] = [pc |-> "user", n |-> 0, target |-> 0]]
    /\ UNCHANGED <<buf, r, w, e, killed>>

Kill(p) ==
    /\ p \notin killed
    /\ killed' = killed \cup {p}
    /\ Goto(p, IF reader[p].pc = "sleep" THEN "enter" ELSE reader[p].pc)
    /\ UNCHANGED <<buf, r, w, e, conslock>>

-----------------------------------------------------------------------------
(* consoleintr. *)

\* ^H and ^U.  The loop of ^U looks for a newline, but between w and e there
\* is none: it ends at w.
Erase(kill) ==
    /\ conslock = Nobody
    /\ e # w
    /\ e' = IF kill THEN w ELSE Sub(e, 1)
    /\ UNCHANGED <<buf, r, w, conslock, reader, killed>>

\* Mutant: only the line being typed has to fit.
RoomInLine == Sub(e, w) < Size

Room == Sub(e, r) < Size

\* A newline, an end of file and a full buffer complete the line.
Completes(c) == c \in {"nl", "eof"} \/ Sub(e + 1, r) = Size

\* wakeup(&cons.r)
Woken(p) == reader[p].pc = "sleep"

WakeReaders == reader' = [p \in Readers |->
                   IF Woken(p) THEN [reader[p] EXCEPT !.pc = "enter"] ELSE reader[p]]

Type(c) ==
    /\ conslock = Nobody
    /\ Room
    /\ buf' = [buf EXCEPT ![e % Size] = c]
    /\ e' = (e + 1) % Wrap
    /\ IF Completes(c) THEN w' = e' /\ WakeReaders ELSE UNCHANGED <<w, reader>>
    /\ UNCHANGED <<r, conslock, killed>>

-----------------------------------------------------------------------------
Handler == (\E c \in Plain \cup {"nl", "eof"} : Type(c)) \/ (\E kill \in BOOLEAN : Erase(kill))

Reads(p) == \/ ReadLock(p) \/ ReadWait(p) \/ ReadSleep(p) \/ ReadEof(p)
            \/ ReadChar(p) \/ ReadFault(p) \/ ReadReturn(p)

Next == \/ Handler
        \/ \E p \in Readers : (\E n \in Counts : CallRead(p, n)) \/ Reads(p) \/ Kill(p)

Spec == Init /\ [][Next]_cvars

-----------------------------------------------------------------------------
(* Properties. *)

\* The input is a line editor in front of a queue: although the indices wrap, a
\* line is read only once it is complete, erasing stops at what is complete, no
\* key overwrites what is unread, and an end of file put back is still next.
Lines == INSTANCE LineInput WITH
    ready <- [i \in 1 .. Sub(w, r) |-> buf[(r + i - 1) % Size]],
    edit  <- [i \in 1 .. Sub(e, w) |-> buf[(w + i - 1) % Size]]

Refines == Lines!Spec

\* No reader sleeps over a complete line, although it looks, is killed and is
\* woken at times of its own, several wait for the same line, and one may put
\* an end of file back that another waits for.
NoLostWakeup == \A p \in Readers : reader[p].pc \in {"doze", "sleep"} => NoInput
==============================================================================
