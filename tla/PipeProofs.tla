------------------------------ MODULE PipeProofs ------------------------------
(***************************************************************************)
(* Proofs about module Pipe: its types, that no wakeup is lost, that the   *)
(* pipe's page is freed once, and that it is a Fifo, for any processes,     *)
(* sizes and moduli.                                                        *)
(*                                                                         *)
(* The strengthening adds to the three invariants what they rest on: the   *)
(* lock is held exactly inside the critical sections (Mutex); who is in a   *)
(* call holds a reference (Refs), and the ends are closed by who dropped    *)
(* the last one (Closing, Freeing); and, while the lock is held, which      *)
(* process still owes the sleepers a wakeup (WriterCause, ReaderCause).     *)
(* The refinement needs little of that (an end in use is open), but facts   *)
(* about counters that wrap at one modulus and slots that wrap at another.  *)
(***************************************************************************)
EXTENDS Pipe, SequenceTheorems, TLAPS

Mutex == \A p \in Proc : Holds(p) <=> lock = p

Ends == \A p \in Proc : /\ pc[p] \in ReadPC => p \in Reader
                        /\ pc[p] \in WritePC => p \in Writer

Refs == /\ \A p \in Proc : pc[p] \in ReadPC \cup WritePC => p \in open
        /\ \A p \in Proc : pc[p] \in {"closing", "freeing", "gone"} => p \notin open
        /\ ~readopen => open \cap Reader = {}
        /\ ~writeopen => open \cap Writer = {}

Closing ==
    /\ \A p \in Proc : pc[p] = "closing" =>
          /\ open \cap SameEnd(p) = {}
          /\ p \in Writer => writeopen
          /\ p \in Reader => readopen
    /\ \A p, q \in Proc :
          pc[p] = "closing" /\ pc[q] = "closing" /\ SameEnd(p) = SameEnd(q) => p = q

Freeing ==
    /\ \A p \in Proc : pc[p] = "freeing" => ~readopen /\ ~writeopen /\ ~freed
    /\ \A p, q \in Proc : pc[p] = "freeing" /\ pc[q] = "freeing" => p = q
    /\ freed => ~readopen /\ ~writeopen

(* A sleeping writer finds the pipe full, or a reader is about to wake it.  *)
WriterCause ==
    \A p \in Proc : pc[p] \in {"wsleep", "wasleep"} =>
        \/ Full /\ readopen
        \/ \E q \in Proc : pc[q] = "rcopy"

(* A sleeping reader finds it empty, or a writer is about to wake it, or    *)
(* was killed.                                                              *)
ReaderCause ==
    \A p \in Proc : pc[p] \in {"rsleep", "rasleep"} =>
        \/ Empty /\ writeopen
        \/ \E q \in Proc : pc[q] = "wloop"
        \/ \E q \in Writer : killed[q]

IInv == /\ TypeOK /\ Mutex /\ Ends /\ Refs /\ Closing /\ Freeing
        /\ WriterCause /\ ReaderCause

-----------------------------------------------------------------------------
(* A remainder is smaller than the modulus.                                 *)
LEMMA ModRange ==
    ASSUME NEW a \in Int, NEW n \in Nat, n > 0
    PROVE  a % n \in 0..n - 1
  OBVIOUS

LEMMA InitIInv == Init => IInv
  <1> SUFFICES ASSUME Init PROVE IInv
    OBVIOUS
  <1> USE PipeAssumption DEF Init
  <1>1. TypeOK
    <2>1. nread \in 0..UMAX - 1 /\ nwrite \in 0..UMAX - 1 /\ left \in [Proc -> 0..MaxN]
      OBVIOUS
    <2>2. killed \in [Proc -> BOOLEAN]
      OBVIOUS
    <2>3. data \in [0..PIPESIZE - 1 -> Byte \cup {None}] /\ pc \in [Proc -> PC]
      BY DEF PC
    <2> QED
      BY <2>1, <2>2, <2>3 DEF TypeOK
  <1>2. Mutex /\ Ends /\ Refs /\ Closing /\ Freeing /\ WriterCause /\ ReaderCause
    BY DEF Mutex, Holds, Ends, Refs, Closing, Freeing, WriterCause, ReaderCause,
           ReadPC, WritePC, Proc
  <1> QED
    BY <1>1, <1>2 DEF IInv

(* Every action preserves it.                                               *)
LEMMA StepIInv == IInv /\ [Next]_vars => IInv'
  <1> SUFFICES ASSUME IInv, [Next]_vars PROVE IInv'
    OBVIOUS
  <1>t. TypeOK /\ Mutex /\ Ends /\ Refs /\ Closing /\ Freeing /\ WriterCause /\ ReaderCause
    BY DEF IInv
  <1> USE PipeAssumption, <1>t DEF Goto, pipe, Proc, ReadPC, WritePC
  <1>1. ASSUME NEW p \in Proc, Enter(p)
        PROVE  IInv'
    <2>1. TypeOK'
      BY <1>1, ModRange DEF Enter, TypeOK, PC
    <2>2. Mutex' /\ Ends'
      BY <1>1 DEF Enter, TypeOK, Mutex, Holds, Ends
    <2>3. Refs'
      BY <1>1 DEF Enter, TypeOK, Ends, Refs, Closing, SameEnd
    <2>4. Closing' /\ Freeing'
      BY <1>1 DEF Enter, TypeOK, Ends, Refs, Closing, Freeing, SameEnd
    <2>5. WriterCause'
      BY <1>1 DEF Enter, TypeOK, Mutex, Holds, Ends, WriterCause, Full
    <2>6. ReaderCause'
      BY <1>1 DEF Enter, TypeOK, Mutex, Holds, Ends, Refs, ReaderCause, Empty
    <2> QED
      BY <2>1, <2>2, <2>3, <2>4, <2>5, <2>6 DEF IInv
  <1>2. ASSUME NEW p \in Proc, Sleep(p)
        PROVE  IInv'
    <2>1. TypeOK'
      BY <1>2, ModRange DEF Sleep, TypeOK, PC
    <2>2. Mutex' /\ Ends'
      BY <1>2 DEF Sleep, TypeOK, Mutex, Holds, Ends
    <2>3. Refs'
      BY <1>2 DEF Sleep, TypeOK, Ends, Refs, Closing, SameEnd
    <2>4. Closing' /\ Freeing'
      BY <1>2 DEF Sleep, TypeOK, Ends, Refs, Closing, Freeing, SameEnd
    <2>5. WriterCause'
      BY <1>2 DEF Sleep, TypeOK, Mutex, Holds, Ends, WriterCause, Full
    <2>6. ReaderCause'
      BY <1>2 DEF Sleep, TypeOK, Mutex, Holds, Ends, Refs, ReaderCause, Empty
    <2> QED
      BY <2>1, <2>2, <2>3, <2>4, <2>5, <2>6 DEF IInv
  <1>3. ASSUME NEW p \in Proc, WriteFails(p)
        PROVE  IInv'
    <2>1. TypeOK'
      BY <1>3, ModRange DEF WriteFails, Return, Wants, Hopeless, TypeOK, PC
    <2>2. Mutex' /\ Ends'
      BY <1>3 DEF WriteFails, Return, Wants, Hopeless, TypeOK, Mutex, Holds, Ends
    <2>3. Refs'
      BY <1>3 DEF WriteFails, Return, Wants, Hopeless, TypeOK, Ends, Refs, Closing, SameEnd
    <2>4. Closing' /\ Freeing'
      BY <1>3 DEF WriteFails, Return, Wants, Hopeless, TypeOK, Ends, Refs, Closing, Freeing, SameEnd
    <2>5. WriterCause'
      BY <1>3 DEF WriteFails, Return, Wants, Hopeless, TypeOK, Mutex, Holds, Ends, WriterCause, Full
    <2>6. ReaderCause'
      BY <1>3 DEF WriteFails, Return, Wants, Hopeless, TypeOK, Mutex, Holds, Ends, Refs, ReaderCause, Empty
    <2> QED
      BY <2>1, <2>2, <2>3, <2>4, <2>5, <2>6 DEF IInv
  <1>4. ASSUME NEW p \in Proc, WriteFull(p)
        PROVE  IInv'
    <2>1. TypeOK'
      BY <1>4, ModRange DEF WriteFull, WakeReaders, Wants, Hopeless, Full, TypeOK, PC
    <2>2. Mutex' /\ Ends'
      BY <1>4 DEF WriteFull, WakeReaders, Wants, Hopeless, Full, TypeOK, Mutex, Holds, Ends
    <2>3. Refs'
      BY <1>4 DEF WriteFull, WakeReaders, Wants, Hopeless, Full, TypeOK, Ends, Refs, Closing, SameEnd
    <2>4. Closing' /\ Freeing'
      BY <1>4 DEF WriteFull, WakeReaders, Wants, Hopeless, Full, TypeOK, Ends, Refs, Closing, Freeing, SameEnd
    <2>5. WriterCause'
      BY <1>4 DEF WriteFull, WakeReaders, Wants, Hopeless, Full, TypeOK, Mutex, Holds, Ends, WriterCause, Full
    <2>6. ReaderCause'
      BY <1>4 DEF WriteFull, WakeReaders, Wants, Hopeless, Full, TypeOK, Mutex, Holds, Ends, Refs, ReaderCause, Empty
    <2> QED
      BY <2>1, <2>2, <2>3, <2>4, <2>5, <2>6 DEF IInv
  <1>5. ASSUME NEW p \in Proc, NEW x \in Byte, WriteByte(p, x)
        PROVE  IInv'
    <2>1. TypeOK'
      BY <1>5, ModRange DEF WriteByte, Wants, Hopeless, Full, TypeOK, PC
    <2>2. Mutex' /\ Ends'
      BY <1>5 DEF WriteByte, Wants, Hopeless, Full, TypeOK, Mutex, Holds, Ends
    <2>3. Refs'
      BY <1>5 DEF WriteByte, Wants, Hopeless, Full, TypeOK, Ends, Refs, Closing, SameEnd
    <2>4. Closing' /\ Freeing'
      BY <1>5 DEF WriteByte, Wants, Hopeless, Full, TypeOK, Ends, Refs, Closing, Freeing, SameEnd
    <2>5. WriterCause'
      BY <1>5 DEF WriteByte, Wants, Hopeless, Full, TypeOK, Mutex, Holds, Ends, WriterCause, Full
    <2>6. ReaderCause'
      BY <1>5 DEF WriteByte, Wants, Hopeless, Full, TypeOK, Mutex, Holds, Ends, Refs, ReaderCause, Empty
    <2> QED
      BY <2>1, <2>2, <2>3, <2>4, <2>5, <2>6 DEF IInv
  <1>6. ASSUME NEW p \in Proc, WriteEnd(p)
        PROVE  IInv'
    <2>1. TypeOK'
      BY <1>6, ModRange DEF WriteEnd, Return, WakeReaders, Wants, Hopeless, Full, TypeOK, PC
    <2>2. Mutex' /\ Ends'
      BY <1>6 DEF WriteEnd, Return, WakeReaders, Wants, Hopeless, Full, TypeOK, Mutex, Holds, Ends
    <2>3. Refs'
      BY <1>6 DEF WriteEnd, Return, WakeReaders, Wants, Hopeless, Full, TypeOK, Ends, Refs, Closing, SameEnd
    <2>4. Closing' /\ Freeing'
      BY <1>6 DEF WriteEnd, Return, WakeReaders, Wants, Hopeless, Full, TypeOK, Ends, Refs, Closing, Freeing, SameEnd
    <2>5. WriterCause'
      BY <1>6 DEF WriteEnd, Return, WakeReaders, Wants, Hopeless, Full, TypeOK, Mutex, Holds, Ends, WriterCause, Full
    <2>6. ReaderCause'
      BY <1>6 DEF WriteEnd, Return, WakeReaders, Wants, Hopeless, Full, TypeOK, Mutex, Holds, Ends, Refs, ReaderCause, Empty
    <2> QED
      BY <2>1, <2>2, <2>3, <2>4, <2>5, <2>6 DEF IInv
  <1>7. ASSUME NEW p \in Proc, ReadWait(p)
        PROVE  IInv'
    <2>1. TypeOK'
      BY <1>7, ModRange DEF ReadWait, Return, Empty, TypeOK, PC
    <2>2. Mutex' /\ Ends'
      BY <1>7 DEF ReadWait, Return, Empty, TypeOK, Mutex, Holds, Ends
    <2>3. Refs'
      BY <1>7 DEF ReadWait, Return, Empty, TypeOK, Ends, Refs, Closing, SameEnd
    <2>4. Closing' /\ Freeing'
      BY <1>7 DEF ReadWait, Return, Empty, TypeOK, Ends, Refs, Closing, Freeing, SameEnd
    <2>5. WriterCause'
      BY <1>7 DEF ReadWait, Return, Empty, TypeOK, Mutex, Holds, Ends, WriterCause, Full
    <2>6. ReaderCause'
      BY <1>7 DEF ReadWait, Return, Empty, TypeOK, Mutex, Holds, Ends, Refs, ReaderCause, Empty
    <2> QED
      BY <2>1, <2>2, <2>3, <2>4, <2>5, <2>6 DEF IInv
  <1>8. ASSUME NEW p \in Proc, ReadReady(p)
        PROVE  IInv'
    <2>1. TypeOK'
      BY <1>8, ModRange DEF ReadReady, Empty, TypeOK, PC
    <2>2. Mutex' /\ Ends'
      BY <1>8 DEF ReadReady, Empty, TypeOK, Mutex, Holds, Ends
    <2>3. Refs'
      BY <1>8 DEF ReadReady, Empty, TypeOK, Ends, Refs, Closing, SameEnd
    <2>4. Closing' /\ Freeing'
      BY <1>8 DEF ReadReady, Empty, TypeOK, Ends, Refs, Closing, Freeing, SameEnd
    <2>5. WriterCause'
      BY <1>8 DEF ReadReady, Empty, TypeOK, Mutex, Holds, Ends, WriterCause, Full
    <2>6. ReaderCause'
      BY <1>8 DEF ReadReady, Empty, TypeOK, Mutex, Holds, Ends, Refs, ReaderCause, Empty
    <2> QED
      BY <2>1, <2>2, <2>3, <2>4, <2>5, <2>6 DEF IInv
  <1>9. ASSUME NEW p \in Proc, ReadByte(p)
        PROVE  IInv'
    <2>1. TypeOK'
      BY <1>9, ModRange DEF ReadByte, Wants, Empty, TypeOK, PC
    <2>2. Mutex' /\ Ends'
      BY <1>9 DEF ReadByte, Wants, Empty, TypeOK, Mutex, Holds, Ends
    <2>3. Refs'
      BY <1>9 DEF ReadByte, Wants, Empty, TypeOK, Ends, Refs, Closing, SameEnd
    <2>4. Closing' /\ Freeing'
      BY <1>9 DEF ReadByte, Wants, Empty, TypeOK, Ends, Refs, Closing, Freeing, SameEnd
    <2>5. WriterCause'
      BY <1>9 DEF ReadByte, Wants, Empty, TypeOK, Mutex, Holds, Ends, WriterCause, Full
    <2>6. ReaderCause'
      BY <1>9 DEF ReadByte, Wants, Empty, TypeOK, Mutex, Holds, Ends, Refs, ReaderCause, Empty
    <2> QED
      BY <2>1, <2>2, <2>3, <2>4, <2>5, <2>6 DEF IInv
  <1>10. ASSUME NEW p \in Proc, ReadEnd(p)
        PROVE  IInv'
    <2>1. TypeOK'
      BY <1>10, ModRange DEF ReadEnd, Return, WakeWriters, Wants, Empty, TypeOK, PC
    <2>2. Mutex' /\ Ends'
      BY <1>10 DEF ReadEnd, Return, WakeWriters, Wants, Empty, TypeOK, Mutex, Holds, Ends
    <2>3. Refs'
      BY <1>10 DEF ReadEnd, Return, WakeWriters, Wants, Empty, TypeOK, Ends, Refs, Closing, SameEnd
    <2>4. Closing' /\ Freeing'
      BY <1>10 DEF ReadEnd, Return, WakeWriters, Wants, Empty, TypeOK, Ends, Refs, Closing, Freeing, SameEnd
    <2>5. WriterCause'
      BY <1>10 DEF ReadEnd, Return, WakeWriters, Wants, Empty, TypeOK, Mutex, Holds, Ends, WriterCause, Full
    <2>6. ReaderCause'
      BY <1>10 DEF ReadEnd, Return, WakeWriters, Wants, Empty, TypeOK, Mutex, Holds, Ends, Refs, ReaderCause, Empty
    <2> QED
      BY <2>1, <2>2, <2>3, <2>4, <2>5, <2>6 DEF IInv
  <1>11. ASSUME NEW p \in Proc, PipeClose(p)
        PROVE  IInv'
    <2>1. TypeOK'
      <3>1. pc' \in [Proc -> PC]
        BY <1>11 DEF PipeClose, WakeReaders, WakeWriters, TypeOK, PC
      <3>2. readopen' \in BOOLEAN /\ writeopen' \in BOOLEAN
        BY <1>11 DEF PipeClose, TypeOK
      <3> QED
        BY <1>11, <3>1, <3>2 DEF PipeClose, TypeOK
    <2>2. Mutex' /\ Ends'
      BY <1>11 DEF PipeClose, WakeReaders, WakeWriters, BothClosed, TypeOK, Mutex, Holds, Ends
    <2>3. Refs'
      BY <1>11 DEF PipeClose, WakeReaders, WakeWriters, BothClosed, TypeOK, Ends, Refs, Closing, SameEnd
    <2>4. Closing' /\ Freeing'
      BY <1>11 DEF PipeClose, WakeReaders, WakeWriters, BothClosed, TypeOK, Ends, Refs, Closing, Freeing, SameEnd
    <2>5. WriterCause'
      BY <1>11 DEF PipeClose, WakeReaders, WakeWriters, BothClosed, TypeOK, Mutex, Holds, Ends, WriterCause, Full
    <2>6. ReaderCause'
      BY <1>11 DEF PipeClose, WakeReaders, WakeWriters, BothClosed, TypeOK, Mutex, Holds, Ends, Refs, ReaderCause, Empty
    <2> QED
      BY <2>1, <2>2, <2>3, <2>4, <2>5, <2>6 DEF IInv
  <1>12. ASSUME NEW p \in Proc, Free(p)
        PROVE  IInv'
    <2>1. TypeOK'
      BY <1>12, ModRange DEF Free, TypeOK, PC
    <2>2. Mutex' /\ Ends'
      BY <1>12 DEF Free, TypeOK, Mutex, Holds, Ends
    <2>3. Refs'
      BY <1>12 DEF Free, TypeOK, Ends, Refs, Closing, SameEnd
    <2>4. Closing' /\ Freeing'
      BY <1>12 DEF Free, TypeOK, Ends, Refs, Closing, Freeing, SameEnd
    <2>5. WriterCause'
      BY <1>12 DEF Free, TypeOK, Mutex, Holds, Ends, WriterCause, Full
    <2>6. ReaderCause'
      BY <1>12 DEF Free, TypeOK, Mutex, Holds, Ends, Refs, ReaderCause, Empty
    <2> QED
      BY <2>1, <2>2, <2>3, <2>4, <2>5, <2>6 DEF IInv
  <1>13. ASSUME NEW p \in Proc, Close(p)
        PROVE  IInv'
    <2>1. TypeOK'
      BY <1>13, ModRange DEF Close, TypeOK, PC
    <2>2. Mutex' /\ Ends'
      BY <1>13 DEF Close, TypeOK, Mutex, Holds, Ends
    <2>3. Refs'
      BY <1>13 DEF Close, TypeOK, Ends, Refs, Closing, SameEnd
    <2>4. Closing' /\ Freeing'
      BY <1>13 DEF Close, TypeOK, Ends, Refs, Closing, Freeing, SameEnd
    <2>5. WriterCause'
      BY <1>13 DEF Close, TypeOK, Mutex, Holds, Ends, WriterCause, Full
    <2>6. ReaderCause'
      BY <1>13 DEF Close, TypeOK, Mutex, Holds, Ends, Refs, ReaderCause, Empty
    <2> QED
      BY <2>1, <2>2, <2>3, <2>4, <2>5, <2>6 DEF IInv
  <1>14. ASSUME NEW p \in Proc, Kill(p)
        PROVE  IInv'
    <2>1. TypeOK'
      BY <1>14, ModRange DEF Kill, TypeOK, PC
    <2>2. Mutex' /\ Ends'
      BY <1>14 DEF Kill, TypeOK, Mutex, Holds, Ends
    <2>3. Refs'
      BY <1>14 DEF Kill, TypeOK, Ends, Refs, Closing, SameEnd
    <2>4. Closing' /\ Freeing'
      BY <1>14 DEF Kill, TypeOK, Ends, Refs, Closing, Freeing, SameEnd
    <2>5. WriterCause'
      BY <1>14 DEF Kill, TypeOK, Mutex, Holds, Ends, WriterCause, Full
    <2>6. ReaderCause'
      BY <1>14 DEF Kill, TypeOK, Mutex, Holds, Ends, Refs, ReaderCause, Empty
    <2> QED
      BY <2>1, <2>2, <2>3, <2>4, <2>5, <2>6 DEF IInv
  <1>15. ASSUME NEW p \in Proc, NEW n \in 0..MaxN, CallWrite(p, n)
        PROVE  IInv'
    <2>1. TypeOK'
      BY <1>15, ModRange DEF CallWrite, TypeOK, PC
    <2>2. Mutex' /\ Ends'
      BY <1>15 DEF CallWrite, TypeOK, Mutex, Holds, Ends
    <2>3. Refs'
      BY <1>15 DEF CallWrite, TypeOK, Ends, Refs, Closing, SameEnd
    <2>4. Closing' /\ Freeing'
      BY <1>15 DEF CallWrite, TypeOK, Ends, Refs, Closing, Freeing, SameEnd
    <2>5. WriterCause'
      BY <1>15 DEF CallWrite, TypeOK, Mutex, Holds, Ends, WriterCause, Full
    <2>6. ReaderCause'
      BY <1>15 DEF CallWrite, TypeOK, Mutex, Holds, Ends, Refs, ReaderCause, Empty
    <2> QED
      BY <2>1, <2>2, <2>3, <2>4, <2>5, <2>6 DEF IInv
  <1>16. ASSUME NEW p \in Proc, NEW n \in 0..MaxN, CallRead(p, n)
        PROVE  IInv'
    <2>1. TypeOK'
      BY <1>16, ModRange DEF CallRead, TypeOK, PC
    <2>2. Mutex' /\ Ends'
      BY <1>16 DEF CallRead, TypeOK, Mutex, Holds, Ends
    <2>3. Refs'
      BY <1>16 DEF CallRead, TypeOK, Ends, Refs, Closing, SameEnd
    <2>4. Closing' /\ Freeing'
      BY <1>16 DEF CallRead, TypeOK, Ends, Refs, Closing, Freeing, SameEnd
    <2>5. WriterCause'
      BY <1>16 DEF CallRead, TypeOK, Mutex, Holds, Ends, WriterCause, Full
    <2>6. ReaderCause'
      BY <1>16 DEF CallRead, TypeOK, Mutex, Holds, Ends, Refs, ReaderCause, Empty
    <2> QED
      BY <2>1, <2>2, <2>3, <2>4, <2>5, <2>6 DEF IInv
  <1>17. CASE UNCHANGED vars
    BY <1>17 DEF vars, IInv, TypeOK, Mutex, Holds, Ends, Refs, Closing, Freeing,
       SameEnd, WriterCause, ReaderCause, Full, Empty
  <1> QED
    BY <1>1, <1>2, <1>3, <1>4, <1>5, <1>6, <1>7, <1>8, <1>9, <1>10, <1>11, <1>12, <1>13, <1>14, <1>15, <1>16, <1>17 DEF Next, Step, Locked

LEMMA Invariance == Spec => []IInv
  <1>1. Init => IInv
    BY InitIInv
  <1>2. IInv /\ [Next]_vars => IInv'
    BY StepIInv
  <1> QED
    BY <1>1, <1>2, PTL DEF Spec

(* The state of the pipe and of the processes stays well typed: in          *)
(* particular the counters stay below their modulus.                        *)
THEOREM TypeCorrect == Spec => []TypeOK
  <1>1. IInv => TypeOK
    BY DEF IInv
  <1> QED
    BY <1>1, Invariance, PTL

(* While the lock is free a writer sleeps only on a full pipe with a reader *)
(* and, unless a writer was killed, a reader only on an empty pipe with a   *)
(* writer: who sleeps was not forgotten by a wakeup of pipe.c.              *)
THEOREM WakeupCorrect == Spec => []NoLostWakeup
  <1>1. IInv => NoLostWakeup
    BY PipeAssumption DEF IInv, TypeOK, NoLostWakeup, WriterSleepsForCause, ReaderSleepsForCause,
       WriterCause, ReaderCause, Mutex, Holds, Proc
  <1> QED
    BY <1>1, Invariance, PTL

(* The page is freed by one process, after everybody else has left pipe.c.  *)
THEOREM FreeCorrect == Spec => []FreedOnce
  <1>1. IInv => FreedOnce
    BY PipeAssumption DEF IInv, TypeOK, PC, FreedOnce, Refs, Closing, Freeing, Ends,
       ReadPC, WritePC, Proc
  <1> QED
    BY <1>1, Invariance, PTL

-----------------------------------------------------------------------------
(* The counters wrap at UMAX, the slots of the ring at PIPESIZE, which      *)
(* divides it.  Division with remainder, and its uniqueness.                *)
LEMMA Division ==
    ASSUME NEW a \in Int, NEW n \in Nat, n > 0
    PROVE  \E q \in Int, r \in 0..n - 1 : a = q * n + r /\ r = a % n
<1>1. PICK q \in Int : q = a \div n
  OBVIOUS
<1>2. PICK r \in 0..n - 1 : r = a % n
  OBVIOUS
<1>3. a = n * q + r
  BY <1>1, <1>2
<1>4. a = q * n + r
  BY <1>3
<1> QED
  BY <1>2, <1>4

LEMMA Remainder ==
    ASSUME NEW a \in Int, NEW n \in Nat, n > 0, NEW q \in Int, NEW r \in 0..n - 1,
           a = q * n + r
    PROVE  a % n = r
  OBVIOUS

(* Two numbers less than n apart have different remainders.                 *)
LEMMA Apart ==
    ASSUME NEW a \in Int, NEW n \in Nat, n > 0, NEW k \in 1..n - 1
    PROVE  (a + k) % n # a % n
<1>1. PICK q \in Int, r \in 0..n - 1 : a = q * n + r /\ r = a % n
  BY Division
<1>2. CASE r + k < n
  <2>1. a + k = q * n + (r + k) /\ r + k \in 0..n - 1
    BY <1>1, <1>2
  <2> QED
    BY <1>1, <2>1, Remainder
<1>3. CASE r + k >= n
  <2>1. (q + 1) * n = q * n + n
    OBVIOUS
  <2>2. a + k = (q + 1) * n + (r + k - n) /\ r + k - n \in 0..n - 1
    BY <1>1, <1>3, <2>1
  <2>3. q + 1 \in Int /\ a + k \in Int
    BY <1>1
  <2>4. (a + k) % n = r + k - n
    BY <2>2, <2>3, Remainder
  <2> QED
    BY <1>1, <2>4
<1> QED
  BY <1>2, <1>3

(* Adding one at the modulus of the counters does not disturb the slots.    *)
Counter == 0..UMAX - 1

LEMMA Moduli ==
    /\ PIPESIZE \in Nat /\ PIPESIZE > 0 /\ UMAX \in Nat /\ UMAX > PIPESIZE
    /\ \E m \in Int : UMAX = m * PIPESIZE
<1>1. PIPESIZE \in Nat /\ PIPESIZE > 0 /\ UMAX \in Nat /\ UMAX > PIPESIZE
  BY PipeAssumption
<1>2. PICK m \in Int, r \in 0..PIPESIZE - 1 : UMAX = m * PIPESIZE + r /\ r = UMAX % PIPESIZE
  BY <1>1, Division
<1>3. UMAX = m * PIPESIZE
  BY <1>2, PipeAssumption
<1> QED
  BY <1>1, <1>3

LEMMA NextIs ==
    ASSUME NEW a \in Counter
    PROVE  (a + 1) % UMAX = (IF a + 1 = UMAX THEN 0 ELSE a + 1) /\ (a + 1) % UMAX \in Counter
<1>1. CASE a + 1 = UMAX
  BY <1>1, Remainder, Moduli DEF Counter
<1>2. CASE a + 1 # UMAX
  BY <1>2, Remainder, Moduli DEF Counter
<1> QED
  BY <1>1, <1>2

LEMMA SlotWraps ==
    ASSUME NEW k \in Int
    PROVE  (k + UMAX) % PIPESIZE = k % PIPESIZE
<1>1. PICK m \in Int : UMAX = m * PIPESIZE
  BY Moduli
<1>2. PICK q \in Int, r \in 0..PIPESIZE - 1 : k = q * PIPESIZE + r /\ r = k % PIPESIZE
  BY Moduli, Division
<1>3. (q + m) * PIPESIZE = q * PIPESIZE + m * PIPESIZE
  BY Moduli
<1>4. k + UMAX = (q + m) * PIPESIZE + r /\ q + m \in Int
  BY <1>1, <1>2, <1>3, Moduli
<1> QED
  BY <1>2, <1>4, Moduli, Remainder

LEMMA SlotOfNext ==
    ASSUME NEW a \in Counter, NEW k \in Int
    PROVE  (((a + 1) % UMAX) + k) % PIPESIZE = (a + 1 + k) % PIPESIZE
<1>1. CASE a + 1 # UMAX
  BY <1>1, NextIs DEF Counter
<1>2. CASE a + 1 = UMAX
  <2>1. ((a + 1) % UMAX) + k = k
    BY <1>2, NextIs
  <2>2. a + 1 + k = k + UMAX
    BY <1>2, Moduli DEF Counter
  <2> QED
    BY <2>1, <2>2, SlotWraps
<1> QED
  BY <1>1, <1>2

(* How many bytes are between two counters.                                 *)
Distance(a, b) == (b - a) % UMAX

LEMMA DistanceIs ==
    ASSUME NEW a \in Counter, NEW b \in Counter
    PROVE  /\ Distance(a, b) = IF a <= b THEN b - a ELSE b - a + UMAX
           /\ Distance(a, b) \in Counter
<1>1. CASE a <= b
  <2>1. b - a \in 0..UMAX - 1 /\ b - a = 0 * UMAX + (b - a)
    BY <1>1, Moduli DEF Counter
  <2> QED
    BY <1>1, <2>1, Remainder, Moduli DEF Distance, Counter
<1>2. CASE a > b
  <2>1. b - a + UMAX \in 0..UMAX - 1 /\ b - a = (-1) * UMAX + (b - a + UMAX)
    BY <1>2, Moduli DEF Counter
  <2> QED
    BY <1>2, <2>1, Remainder, Moduli DEF Distance, Counter
<1> QED
  BY <1>1, <1>2 DEF Counter

LEMMA FullIs ==
    ASSUME NEW a \in Counter, NEW b \in Counter
    PROVE  b = (a + PIPESIZE) % UMAX <=> Distance(a, b) = PIPESIZE
<1>0. /\ Distance(a, b) = IF a <= b THEN b - a ELSE b - a + UMAX
      /\ a \in 0..UMAX - 1 /\ b \in 0..UMAX - 1
  BY DistanceIs DEF Counter
<1>1. CASE a + PIPESIZE < UMAX
  <2>1. a + PIPESIZE \in 0..UMAX - 1 /\ a + PIPESIZE = 0 * UMAX + (a + PIPESIZE)
    BY <1>1, Moduli DEF Counter
  <2>2. (a + PIPESIZE) % UMAX = a + PIPESIZE
    BY <2>1, Remainder, Moduli DEF Counter
  <2> QED
    BY <1>0, <1>1, <2>2, Moduli
<1>2. CASE a + PIPESIZE >= UMAX
  <2>1. /\ a + PIPESIZE - UMAX \in 0..UMAX - 1
        /\ a + PIPESIZE = 1 * UMAX + (a + PIPESIZE - UMAX)
    BY <1>2, Moduli DEF Counter
  <2>2. (a + PIPESIZE) % UMAX = a + PIPESIZE - UMAX
    BY <2>1, Remainder, Moduli DEF Counter
  <2> QED
    BY <1>0, <1>2, <2>2, Moduli
<1> QED
  BY <1>1, <1>2, Moduli DEF Counter

LEMMA SlotAtEnd ==
    ASSUME NEW a \in Counter, NEW b \in Counter
    PROVE  (a + Distance(a, b)) % PIPESIZE = b % PIPESIZE
<1>1. CASE a <= b
  BY <1>1, DistanceIs DEF Counter
<1>2. CASE a > b
  <2>1. a + Distance(a, b) = b + UMAX
    BY <1>2, DistanceIs, Moduli DEF Counter
  <2> QED
    BY <2>1, SlotWraps DEF Counter
<1> QED
  BY <1>1, <1>2 DEF Counter

(* The bytes between them, as a sequence.                                   *)
Ring(d, a, b) == [i \in 1..Distance(a, b) |-> d[(a + i - 1) % PIPESIZE]]
Bytes == Byte \cup {None}
Data  == [0..PIPESIZE - 1 -> Bytes]

LEMMA ContentsAre ==
    ASSUME NEW d \in Data, NEW a \in Counter, NEW b \in Counter
    PROVE  /\ Ring(d, a, b) \in Seq(Bytes)
           /\ Len(Ring(d, a, b)) = Distance(a, b)
<1>1. Distance(a, b) \in Nat
  BY DistanceIs DEF Counter
<1>2. ASSUME NEW i \in 1..Distance(a, b)
      PROVE  d[(a + i - 1) % PIPESIZE] \in Bytes
  <2>1. a + i - 1 \in Int
    BY <1>1 DEF Counter
  <2>2. (a + i - 1) % PIPESIZE \in 0..PIPESIZE - 1
    BY <2>1, ModRange, Moduli
  <2> QED
    BY <2>2 DEF Data
<1> QED
  BY <1>1, <1>2 DEF Ring

(* A byte put behind them, over none of them.                               *)
LEMMA RingPut ==
    ASSUME NEW d \in Data, NEW a \in Counter, NEW b \in Counter, NEW x \in Byte,
           Distance(a, b) < PIPESIZE
    PROVE  /\ Distance(a, (b + 1) % UMAX) = Distance(a, b) + 1
           /\ Ring([d EXCEPT ![b % PIPESIZE] = x], a, (b + 1) % UMAX) = Append(Ring(d, a, b), x)
<1> DEFINE n == Distance(a, b)
           e == [d EXCEPT ![b % PIPESIZE] = x]
           c == (b + 1) % UMAX
           s == Ring(d, a, b)
           t == Ring(e, a, c)
<1>1. c \in Counter /\ n \in Nat /\ a \in Int /\ b \in Int
  BY NextIs, DistanceIs DEF Counter
<1>2. Distance(a, c) = n + 1
  <2>1. n = IF a <= b THEN b - a ELSE b - a + UMAX
    BY DistanceIs
  <2>2. Distance(a, c) = IF a <= c THEN c - a ELSE c - a + UMAX
    BY <1>1, DistanceIs
  <2>3. c = IF b + 1 = UMAX THEN 0 ELSE b + 1
    BY NextIs
  <2>4. a \in 0..UMAX - 1 /\ b \in 0..UMAX - 1 /\ n < PIPESIZE
    BY DEF Counter
  <2> HIDE DEF n, c
  <2> QED
    BY <2>1, <2>2, <2>3, <2>4, Moduli
<1>3. b % PIPESIZE \in 0..PIPESIZE - 1
  BY <1>1, ModRange, Moduli
<1>4. e \in Data
  BY <1>3 DEF Data, Bytes
<1>5. s \in Seq(Bytes) /\ Len(s) = n
  BY ContentsAre
<1>6. t \in Seq(Bytes) /\ Len(t) = n + 1
  BY <1>1, <1>2, <1>4, ContentsAre
<1>7. ASSUME NEW i \in 1..n PROVE t[i] = s[i]
  <2>1. a + i - 1 \in Int /\ n - i + 1 \in 1..PIPESIZE - 1
    BY <1>1, Moduli
  <2>2. (a + i - 1 + (n - i + 1)) % PIPESIZE # (a + i - 1) % PIPESIZE
    BY <2>1, Apart, Moduli
  <2>3. a + i - 1 + (n - i + 1) = a + n
    BY <1>1
  <2>4. (a + i - 1) % PIPESIZE # b % PIPESIZE
    BY <2>2, <2>3, SlotAtEnd
  <2>5. (a + i - 1) % PIPESIZE \in 0..PIPESIZE - 1
    BY <2>1, ModRange, Moduli
  <2>6. e[(a + i - 1) % PIPESIZE] = d[(a + i - 1) % PIPESIZE]
    BY <2>4, <2>5 DEF Data
  <2>7. i \in 1..n + 1
    BY <1>1
  <2> QED
    BY <1>2, <2>6, <2>7 DEF Ring
<1>8. t[n + 1] = x
  <2>1. a + (n + 1) - 1 = a + n /\ n + 1 \in 1..n + 1
    BY <1>1
  <2>2. t[n + 1] = e[(a + n) % PIPESIZE]
    BY <1>2, <2>1 DEF Ring
  <2>3. e[b % PIPESIZE] = x
    BY <1>3 DEF Data
  <2> QED
    BY <2>2, <2>3, SlotAtEnd
<1> HIDE DEF n, s, t
<1>9. /\ Append(s, x) \in Seq(Bytes) /\ Len(Append(s, x)) = n + 1
      /\ \A i \in 1..n : Append(s, x)[i] = s[i]
      /\ Append(s, x)[n + 1] = x
  <2>1. x \in Bytes
    BY DEF Bytes
  <2> QED
    BY <1>1, <1>5, <2>1
<1>10. \A i \in 1..n + 1 : t[i] = Append(s, x)[i]
  BY <1>1, <1>7, <1>8, <1>9
<1>11. t = Append(s, x)
  BY <1>6, <1>9, <1>10, SeqEqual
<1> QED
  BY <1>2, <1>11 DEF n, s, t

(* The first of them taken.                                                 *)
LEMMA RingTake ==
    ASSUME NEW d \in Data, NEW a \in Counter, NEW b \in Counter, a # b
    PROVE  /\ Distance((a + 1) % UMAX, b) = Distance(a, b) - 1
           /\ Distance(a, b) > 0
           /\ Ring(d, (a + 1) % UMAX, b) = Tail(Ring(d, a, b))
<1> DEFINE n == Distance(a, b)
           c == (a + 1) % UMAX
           s == Ring(d, a, b)
           t == Ring(d, c, b)
<1>1. c \in Counter /\ n \in Nat /\ a \in Int /\ b \in Int /\ c \in Int
  BY NextIs, DistanceIs DEF Counter
<1>2. Distance(c, b) = n - 1 /\ n > 0
  <2>1. n = IF a <= b THEN b - a ELSE b - a + UMAX
    BY DistanceIs
  <2>2. Distance(c, b) = IF c <= b THEN b - c ELSE b - c + UMAX
    BY <1>1, DistanceIs
  <2>3. c = IF a + 1 = UMAX THEN 0 ELSE a + 1
    BY NextIs
  <2>4. a \in 0..UMAX - 1 /\ b \in 0..UMAX - 1 /\ a # b
    BY DEF Counter
  <2> HIDE DEF n, c
  <2> QED
    BY <2>1, <2>2, <2>3, <2>4, Moduli
<1>3. s \in Seq(Bytes) /\ Len(s) = n
  BY ContentsAre
<1>4. t \in Seq(Bytes) /\ Len(t) = n - 1
  BY <1>1, <1>2, ContentsAre
<1>5. ASSUME NEW i \in 1..n - 1 PROVE t[i] = s[i + 1]
  <2>1. i - 1 \in Int /\ i + 1 \in 1..n
    BY <1>1
  <2>2. (c + (i - 1)) % PIPESIZE = (a + 1 + (i - 1)) % PIPESIZE
    BY <2>1, SlotOfNext
  <2>3. c + i - 1 = c + (i - 1) /\ a + 1 + (i - 1) = a + (i + 1) - 1
    BY <1>1, <2>1
  <2>4. t[i] = d[(c + i - 1) % PIPESIZE]
    BY <1>2 DEF Ring
  <2>5. s[i + 1] = d[(a + (i + 1) - 1) % PIPESIZE]
    BY <2>1 DEF Ring
  <2> QED
    BY <2>2, <2>3, <2>4, <2>5
<1> HIDE DEF n, c, s, t
<1>6. s # <<>>
  BY <1>1, <1>2, <1>3
<1>7. /\ Tail(s) \in Seq(Bytes) /\ Len(Tail(s)) = n - 1
      /\ \A i \in 1..n - 1 : Tail(s)[i] = s[i + 1]
  BY <1>1, <1>3, <1>6, HeadTailProperties
<1>8. \A i \in 1..n - 1 : t[i] = Tail(s)[i]
  BY <1>5, <1>7
<1>9. t = Tail(s)
  BY <1>4, <1>7, <1>8, SeqEqual
<1> QED
  BY <1>2, <1>9 DEF n, c, s, t

-----------------------------------------------------------------------------
(* There are never more bytes between the counters than in the ring.        *)
Bounded == Distance(nread, nwrite) <= PIPESIZE

LEMMA RingTypes ==
    /\ TypeOK => data \in Data /\ nread \in Counter /\ nwrite \in Counter
    /\ Contents = Ring(data, nread, nwrite)
    /\ Contents' = Ring(data', nread', nwrite')
    /\ Bounded' <=> Distance(nread', nwrite') <= PIPESIZE
  BY DEF TypeOK, Data, Bytes, Counter, Contents, Ring, Distance, Bounded

(* Who is in pipewrite or piperead keeps its end open.                      *)
LEMMA EndsOpen ==
    ASSUME IInv, NEW p \in Proc
    PROVE  /\ pc[p] = "wloop" => writeopen
           /\ pc[p] = "rcopy" => readopen
  BY DEF IInv, TypeOK, Refs, Ends, ReadPC, WritePC

(* The two steps that move a byte.                                          *)
LEMMA PutStep ==
    ASSUME IInv, Bounded, NEW p \in Proc, NEW x \in Byte, WriteByte(p, x)
    PROVE  Bounded' /\ Queue!Put(x)
<1>1. /\ data \in Data /\ nread \in Counter /\ nwrite \in Counter
      /\ Contents = Ring(data, nread, nwrite)
  BY RingTypes DEF IInv
<1>2. /\ nread' = nread /\ nwrite' = (nwrite + 1) % UMAX
      /\ data' = [data EXCEPT ![nwrite % PIPESIZE] = x]
      /\ ~Full /\ readopen /\ UNCHANGED <<readopen, writeopen>>
  BY DEF WriteByte, Hopeless
<1>3. Distance(nread, nwrite) < PIPESIZE
  BY <1>1, <1>2, FullIs, DistanceIs, Moduli DEF Full, Bounded, Counter
<1>4. /\ Distance(nread', nwrite') = Distance(nread, nwrite) + 1
      /\ Contents' = Append(Contents, x)
  <2>1. /\ Distance(nread, (nwrite + 1) % UMAX) = Distance(nread, nwrite) + 1
        /\ Ring([data EXCEPT ![nwrite % PIPESIZE] = x], nread, (nwrite + 1) % UMAX)
              = Append(Ring(data, nread, nwrite), x)
    BY <1>1, <1>3, RingPut
  <2>2. Contents' = Ring(data', nread', nwrite')
    BY RingTypes
  <2> QED
    BY <1>1, <1>2, <2>1, <2>2
<1>5. Bounded'
  BY <1>1, <1>3, <1>4, DistanceIs, Moduli, RingTypes DEF Counter
<1>6. writeopen
  BY EndsOpen DEF WriteByte
<1>7. Len(Contents) < PIPESIZE
  BY <1>1, <1>3, ContentsAre
<1> QED
  BY <1>2, <1>4, <1>5, <1>6, <1>7 DEF Queue!Put

LEMMA TakeStep ==
    ASSUME IInv, Bounded, NEW p \in Proc, ReadByte(p)
    PROVE  Bounded' /\ Queue!Take
<1>1. /\ data \in Data /\ nread \in Counter /\ nwrite \in Counter
      /\ Contents = Ring(data, nread, nwrite)
  BY RingTypes DEF IInv
<1>2. /\ nwrite' = nwrite /\ nread' = (nread + 1) % UMAX /\ data' = data
      /\ nread # nwrite /\ UNCHANGED <<readopen, writeopen>>
  BY DEF ReadByte, Empty
<1>3. /\ Distance(nread', nwrite') = Distance(nread, nwrite) - 1
      /\ Distance(nread, nwrite) > 0
      /\ Contents' = Tail(Contents)
  BY <1>1, <1>2, RingTake, RingTypes
<1>4. Bounded'
  BY <1>1, <1>3, DistanceIs, Moduli, RingTypes DEF Counter, Bounded
<1>5. readopen
  BY EndsOpen DEF ReadByte
<1>6. Contents # <<>>
  BY <1>1, <1>3, ContentsAre
<1> QED
  BY <1>2, <1>3, <1>4, <1>5, <1>6 DEF Queue!Take

(* Every step is one of Fifo, or invisible there.                           *)
LEMMA RefinesStep ==
    ASSUME IInv, Bounded, [Next]_vars
    PROVE  Bounded' /\ [Queue!Next]_<<Contents, readopen, writeopen>>
<1>1. ASSUME NEW p \in Proc, NEW x \in Byte, WriteByte(p, x)
      PROVE  Bounded' /\ Queue!Next
  BY <1>1, PutStep DEF Queue!Next
<1>2. ASSUME NEW p \in Proc, ReadByte(p)
      PROVE  Bounded' /\ Queue!Next
  BY <1>2, TakeStep DEF Queue!Next
<1>3. ASSUME UNCHANGED <<data, nread, nwrite>>
      PROVE  Bounded' /\ Contents' = Contents
  BY <1>3 DEF Bounded, Distance, Contents
<1>4. ASSUME NEW p \in Proc, PipeClose(p)
      PROVE  Bounded' /\ Queue!Next
  <2>1. Bounded' /\ Contents' = Contents
    BY <1>3, <1>4 DEF PipeClose
  <2>2. \/ writeopen' = FALSE /\ UNCHANGED readopen
        \/ readopen' = FALSE /\ UNCHANGED writeopen
    BY <1>4 DEF PipeClose
  <2> QED
    BY <2>1, <2>2 DEF Queue!Next, Queue!CloseRead, Queue!CloseWrite
<1>5. ASSUME UNCHANGED pipe
      PROVE  Bounded' /\ UNCHANGED <<Contents, readopen, writeopen>>
  BY <1>3, <1>5 DEF pipe
<1>6. ASSUME NEW p \in Proc, Free(p)
      PROVE  Bounded' /\ UNCHANGED <<Contents, readopen, writeopen>>
  BY <1>3, <1>6 DEF Free
<1>7. ASSUME NEW p \in Proc,
             \/ Enter(p) \/ Sleep(p) \/ WriteFails(p) \/ WriteFull(p) \/ WriteEnd(p)
             \/ ReadWait(p) \/ ReadReady(p) \/ ReadEnd(p) \/ Close(p) \/ Kill(p)
             \/ \E n \in 0..MaxN : CallWrite(p, n) \/ CallRead(p, n)
      PROVE  UNCHANGED pipe
  BY <1>7 DEF Enter, Sleep, WriteFails, WriteFull, WriteEnd, ReadWait, ReadReady, ReadEnd,
              Close, Kill, CallWrite, CallRead
<1>8. CASE UNCHANGED vars
  BY <1>5, <1>8 DEF vars
<1> QED
  BY <1>1, <1>2, <1>4, <1>5, <1>6, <1>7, <1>8 DEF Next, Step, Locked

(* The pipe implements Fifo: bytes come out in the order they went in, and  *)
(* there are never more than PIPESIZE of them, although both counters wrap. *)
THEOREM PipeIsFifo == Spec => Refines
<1>1. Init => Bounded /\ Queue!Init
  <2>1. ASSUME Init PROVE Bounded /\ Queue!Init
    <3>1. data \in Data /\ nread = 0 /\ nwrite = 0 /\ 0 \in Counter
      BY <2>1, InitIInv, RingTypes DEF IInv, Init
    <3>2. Distance(nread, nwrite) = 0
      BY <3>1, DistanceIs
    <3>3. Contents = <<>>
      BY <3>1, <3>2, ContentsAre, RingTypes
    <3> QED
      BY <2>1, <3>2, <3>3, Moduli DEF Bounded, Queue!Init, Init
  <2> QED
    BY <2>1
<1>2. IInv /\ Bounded /\ [Next]_vars
      => Bounded' /\ [Queue!Next]_<<Contents, readopen, writeopen>>
  BY RefinesStep
<1> QED
  BY <1>1, <1>2, Invariance, PTL DEF Spec, Refines, Queue!Spec
===============================================================================
