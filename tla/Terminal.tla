------------------------------- MODULE Terminal -------------------------------
(***************************************************************************)
(* The terminal of any sizes: its input, Console, and its output, Uart,    *)
(* which share no variable.  The properties are proved in DeviceProofs and *)
(* checked in MCPrograms.                                                  *)
(***************************************************************************)
CONSTANTS Readers, Size, Wrap, Plain, Counts
VARIABLES buf, cons_r, cons_w, cons_e, conslock, reader, dying

Con == INSTANCE Console WITH r <- cons_r, w <- cons_w, e <- cons_e, killed <- dying

CONSTANTS Writers, Echoers, TxSize, FifoDepth, MaxWritten, MaxEcho
VARIABLES txbuf, tx_r, tx_w, txlock, writer, uartintr, echo, fifo, uartirq, sent

Tx == INSTANCE Uart WITH handler <- uartintr, irq <- uartirq

-----------------------------------------------------------------------------
\* consoleread and consoleintr give readers the lines typed, and each piece of
\* input to one reader.
LinesKept == Con!Refines

\* No reader of the console sleeps over a line.
ReadersWoken == Con!NoLostWakeup

\* The UART sends every writer's characters once and in order.
OutputExact == Tx!OutputExact

\* No character stays in the transmit ring, and no writer asleep, behind an idle
\* UART.
NothingLeft == Tx!NothingLeft

\* Nobody at the terminal is forgotten, and nothing sent is lost, repeated or
\* out of order.
TerminalExact == ReadersWoken /\ OutputExact /\ NothingLeft
==============================================================================
