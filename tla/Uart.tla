-------------------------------- MODULE Uart ---------------------------------
(***************************************************************************)
(* The transmit half of the UART driver (uart.c): writers to the console   *)
(* put characters in a ring, uartstart moves them to the UART on behalf of *)
(* writers and of the interrupt handler, and uartputc_sync, for echo and   *)
(* for printf, goes past the ring.                                         *)
(*                                                                         *)
(* uart_tx_lock is a variable.  Looking at the line status register and    *)
(* writing to the transmit register are separate steps, since              *)
(* uartputc_sync does both without the lock.  The UART is external: it     *)
(* sends what is in its FIFO, is idle when that is empty, and interrupts.  *)
(***************************************************************************)
EXTENDS Integers, Sequences, FiniteSets

CONSTANTS Writers, Echoers,
          TxSize,     \* UART_TX_BUF_SIZE
          FifoDepth,  \* characters the UART can hold
          MaxWritten, MaxEcho   \* bounds: characters of each writer, of each echoer

\* Every echo that has seen the UART idle fits, with one character of uartstart.
UartConstants == /\ TxSize \in Nat \ {0} /\ FifoDepth \in Nat
                 /\ IsFiniteSet(Echoers) /\ Cardinality(Echoers) < FifoDepth
                 /\ Writers \cap Echoers = {} /\ Writers \cap {"nobody", "intr"} = {}

VARIABLES txbuf, tx_r, tx_w, txlock,
          writer,     \* writer -> [pc, k]: it is at its k-th character
          handler,    \* uartintr: "off", "enter", "start", "send"
          echo,       \* echoer -> [pc, k]
          fifo, irq,  \* the UART
          sent        \* what it has sent of the writers' characters

uvars == <<txbuf, tx_r, tx_w, txlock, writer, handler, echo, fifo, irq, sent>>

Nobody == "nobody"
Intr   == "intr"

Init == /\ txbuf = [i \in 0 .. TxSize - 1 |-> <<>>] /\ tx_r = 0 /\ tx_w = 0
        /\ txlock = Nobody
        /\ writer = [p \in Writers |-> [pc |-> "user", k |-> 0]]
        /\ handler = "off"
        /\ echo = [x \in Echoers |-> [pc |-> "off", k |-> 0]]
        /\ fifo = <<>> /\ irq = FALSE /\ sent = <<>>

-----------------------------------------------------------------------------
(* uartputc, for each character of a console write. *)

CallPut(p) ==
    /\ writer[p].pc = "user" /\ writer[p].k < MaxWritten
    /\ writer' = [writer EXCEPT ![p] = [pc |-> "enter", k |-> @.k + 1]]
    /\ UNCHANGED <<txbuf, tx_r, tx_w, txlock, handler, echo, fifo, irq, sent>>

\* Mutant: the ring is filled by one character too many.
FullLate == tx_w = tx_r + TxSize + 1

TxFull == tx_w = tx_r + TxSize

PutWait(p) ==
    /\ writer[p].pc = "enter" /\ txlock = Nobody /\ TxFull
    /\ writer' = [writer EXCEPT ![p].pc = "sleep"]
    /\ UNCHANGED <<txbuf, tx_r, tx_w, txlock, handler, echo, fifo, irq, sent>>

Put(p) ==
    /\ writer[p].pc = "enter" /\ txlock = Nobody /\ ~ TxFull
    /\ txbuf' = [txbuf EXCEPT ![tx_w % TxSize] = <<p, writer[p].k>>]
    /\ tx_w' = tx_w + 1
    /\ txlock' = p
    /\ writer' = [writer EXCEPT ![p].pc = "start"]
    /\ UNCHANGED <<tx_r, handler, echo, fifo, irq, sent>>

-----------------------------------------------------------------------------
(* uartstart, run by a writer or by the handler. *)

At(x, pc) == IF x = Intr THEN handler = pc ELSE writer[x].pc = pc

Goto(x, pc) == IF x = Intr THEN handler' = pc /\ UNCHANGED writer
               ELSE writer' = [writer EXCEPT ![x].pc = pc] /\ UNCHANGED handler

\* LSR_TX_IDLE
TxIdle == fifo = <<>>

StartEnds(x) ==
    /\ At(x, "start") /\ (tx_w = tx_r \/ ~ TxIdle)
    /\ txlock' = Nobody
    /\ Goto(x, IF x = Intr THEN "off" ELSE "user")
    /\ UNCHANGED <<txbuf, tx_r, tx_w, echo, fifo, irq, sent>>

\* A character leaves the ring; who waits for room is woken.
Roused(p) == writer[p].pc = "sleep"

StartTakes(x) ==
    LET pc(p) == IF p = x THEN "send" ELSE IF Roused(p) THEN "enter" ELSE writer[p].pc IN
    /\ At(x, "start") /\ tx_w # tx_r /\ TxIdle
    /\ tx_r' = tx_r + 1
    /\ writer' = [p \in Writers |-> [writer[p] EXCEPT !.pc = pc(p)]]
    /\ handler' = IF x = Intr THEN "send" ELSE handler
    /\ UNCHANGED <<txbuf, tx_w, txlock, echo, fifo, irq, sent>>

StartSends(x) ==
    /\ At(x, "send")
    /\ fifo' = Append(fifo, txbuf[(tx_r - 1) % TxSize])
    /\ Goto(x, "start")
    /\ UNCHANGED <<txbuf, tx_r, tx_w, txlock, echo, irq, sent>>

-----------------------------------------------------------------------------
(* uartputc_sync. *)

EchoReady(x) ==
    /\ echo[x].pc = "off" /\ echo[x].k < MaxEcho /\ TxIdle
    /\ echo' = [echo EXCEPT ![x] = [pc |-> "send", k |-> @.k + 1]]
    /\ UNCHANGED <<txbuf, tx_r, tx_w, txlock, writer, handler, fifo, irq, sent>>

EchoSend(x) ==
    /\ echo[x].pc = "send"
    /\ fifo' = Append(fifo, <<x, echo[x].k>>)
    /\ echo' = [echo EXCEPT ![x].pc = "off"]
    /\ UNCHANGED <<txbuf, tx_r, tx_w, txlock, writer, handler, irq, sent>>

-----------------------------------------------------------------------------
(* The UART, and uartintr after it has dealt with the input. *)

Transmit ==
    /\ fifo # <<>>
    /\ fifo' = Tail(fifo)
    /\ sent' = IF Head(fifo)[1] \in Writers THEN Append(sent, Head(fifo)) ELSE sent
    /\ irq' = (irq \/ Len(fifo) = 1)
    /\ UNCHANGED <<txbuf, tx_r, tx_w, txlock, writer, handler, echo>>

Interrupt ==
    /\ irq /\ handler = "off"
    /\ irq' = FALSE /\ handler' = "enter"
    /\ UNCHANGED <<txbuf, tx_r, tx_w, txlock, writer, echo, fifo, sent>>

IntrLock ==
    /\ handler = "enter" /\ txlock = Nobody
    /\ txlock' = Intr /\ handler' = "start"
    /\ UNCHANGED <<txbuf, tx_r, tx_w, writer, echo, fifo, irq, sent>>

-----------------------------------------------------------------------------
Putting(p) == PutWait(p) \/ Put(p)
Starts(x)  == StartEnds(x) \/ StartTakes(x) \/ StartSends(x)

Next == \/ \E p \in Writers : CallPut(p) \/ Putting(p)
        \/ \E x \in Writers \cup {Intr} : Starts(x)
        \/ \E x \in Echoers : EchoReady(x) \/ EchoSend(x)
        \/ Transmit \/ Interrupt \/ IntrLock

Spec == Init /\ [][Next]_uvars

-----------------------------------------------------------------------------
(* Properties. *)

\* Where a writer's characters are, from first to last.
Pending == [i \in 1 .. tx_w - tx_r |-> txbuf[(tx_r + i - 1) % TxSize]]
InHand  == IF \E x \in Writers \cup {Intr} : At(x, "send")
           THEN <<txbuf[(tx_r - 1) % TxSize]>> ELSE <<>>
Stream  == (sent \o fifo) \o (InHand \o Pending)

\* How many characters uartputc has taken from p.
Taken(p) == writer[p].k - (IF writer[p].pc \in {"enter", "sleep"} THEN 1 ELSE 0)

\* In s are p's characters 1 to n, in their order.
InOrder(s, p, n) ==
    LET own == {i \in 1 .. Len(s) : s[i][1] = p} IN
    /\ {s[i][2] : i \in own} = 1 .. n
    /\ \A i, j \in own : i < j => s[i][2] < s[j][2]

\* What a process writes comes out in its order, none lost and none twice,
\* although it goes through a ring and other characters go past it; and the
\* UART is never given more than it holds, although uartputc_sync looks
\* whether it is idle without the lock of uartstart.
OutputExact == /\ Len(fifo) <= FifoDepth
               /\ \A p \in Writers : InOrder(Stream, p, Taken(p))

\* When the UART is idle and its handler has run, nothing is left to send and
\* no writer sleeps: the interrupt of an idle UART continues what uartstart had
\* to leave.  Behaviours are finite, so all that is written gets sent.
NothingLeft == fifo = <<>> /\ ~ irq /\ handler = "off" /\ txlock = Nobody
                  => tx_w = tx_r /\ \A p \in Writers : writer[p].pc # "sleep"
==============================================================================
