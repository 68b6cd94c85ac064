----------------------------- MODULE ProgramProofs -----------------------------
(***************************************************************************)
(* The descriptors and files of any number of processes, the alarms of any *)
(* periods, and the clock of any processes and harts.                      *)
(*                                                                         *)
(* That every file has its references (FilesExact) needs to know what a    *)
(* call has in hand at each of its places (FilesInHand), that what pipe    *)
(* has in hand is its own and of the types and descriptors that it has     *)
(* given (PipeFiles), that fork gives the child its parent's descriptors   *)
(* (Kids), and that an end of a pipe is one file's (OnePerEnd).  The       *)
(* actions are ten kinds of step (Moves), of one process each, and fork.   *)
(*                                                                         *)
(* That sigreturn goes back to what was interrupted needs to know that no  *)
(* tick counts while a handler runs (InHandler).                           *)
(*                                                                         *)
(* That the clock is exact (ClockExact) needs to know who runs (Running),  *)
(* who holds the processes' locks (Locking) and tickslock (Ticking), what  *)
(* a scan has seen so far (Scanning), and, while a tick goes through the   *)
(* table, whom it has charged (Charging) and woken (Napping).              *)
(***************************************************************************)
EXTENDS Services, FiniteSetTheorems, SequenceTheorems, WellFoundedInduction, TLAPS

-----------------------------------------------------------------------------
(* Counting. *)

LEMMA Least ==
    ASSUME NEW n \in Int, NEW K \in SUBSET (0 .. n), K # {}
    PROVE  \E k \in K : \A j \in K : k <= j
<1> DEFINE T == {0 .. k : k \in K}
           R == StrictSubsetOrdering(0 .. n)
           F == FiniteSubsetsOf(0 .. n)
<1>1. IsWellFoundedOn(R, F)
  BY FS_StrictSubsetOrderingWellFounded
<1>2. T \subseteq F
  <2> SUFFICES ASSUME NEW k \in K PROVE 0 .. k \in F
    OBVIOUS
  <2>1. k \in Int /\ 0 \in Int /\ 0 .. k \subseteq 0 .. n
    OBVIOUS
  <2>2. IsFiniteSet(0 .. k)
    BY <2>1, FS_Interval
  <2> QED  BY <2>1, <2>2 DEF FiniteSubsetsOf
<1>3. T # {}
  OBVIOUS
<1>4. PICK s \in T : \A t \in T : ~ (<<t, s>> \in R)
  <2> HIDE DEF T, R, F
  <2> QED  BY <1>1, <1>2, <1>3, WFMin
<1>5. PICK k \in K : s = 0 .. k
  OBVIOUS
<1>6. ASSUME NEW j \in K, j < k PROVE FALSE
  <2>1. 0 .. j \subseteq 0 .. k /\ 0 .. j # 0 .. k
    BY <1>6
  <2>2. <<0 .. j, 0 .. k>> \in R
    BY <2>1 DEF StrictSubsetOrdering
  <2> QED  BY <1>4, <1>5, <2>2
<1> QED  BY <1>6

LEMMA CardNat == ASSUME NEW S, IsFiniteSet(S) PROVE Cardinality(S) \in Nat
  BY FS_CardinalityType

\* A set that gains or loses an element.
LEMMA Gains == ASSUME NEW S, IsFiniteSet(S), NEW x, x \notin S
               PROVE  IsFiniteSet(S \cup {x}) /\ Cardinality(S \cup {x}) = Cardinality(S) + 1
  BY FS_AddElement
LEMMA Loses == ASSUME NEW S, IsFiniteSet(S), NEW x, x \in S
               PROVE  IsFiniteSet(S \ {x}) /\ Cardinality(S \ {x}) = Cardinality(S) - 1
  BY FS_RemoveElement

-----------------------------------------------------------------------------
(* Alarm. *)

Frames == [code : {"none", "main", "handler"}, step : Int, a0 : Int]

AlarmTypeOK == /\ trapframe \in Frames
               /\ tfp \in Frames
               /\ interrupted \in Frames

\* While a handler runs that an alarm has called, no tick counts, and the copy
\* is what was interrupted.
InHandler == interrupted # Sig!NoCopy =>
    set = 1 /\ tfp = interrupted /\ trapframe.code = "handler"

AlarmInv == AlarmTypeOK /\ InHandler

\* What an EXCEPT makes of a frame, field by field.
LEMMA FrameParts ==
    ASSUME NEW f \in Frames, NEW code, NEW a0
    PROVE  /\ [f EXCEPT !.code = code] = [code |-> code, step |-> f.step, a0 |-> f.a0]
           /\ [f EXCEPT !.a0 = a0] = [code |-> f.code, step |-> f.step, a0 |-> a0]
           /\ f = [code |-> f.code, step |-> f.step, a0 |-> f.a0]
           /\ f.code \in {"none", "main", "handler"} /\ f.step \in Int /\ f.a0 \in Int
<1>1. f.code \in {"none", "main", "handler"} /\ f.step \in Int /\ f.a0 \in Int
  BY DEF Frames
<1>2. f = [code |-> f.code, step |-> f.step, a0 |-> f.a0]
  BY DEF Frames
<1>3. [f EXCEPT !.code = code] = [code |-> code, step |-> f.step, a0 |-> f.a0]
  BY DEF Frames
<1>4. [f EXCEPT !.a0 = a0] = [code |-> f.code, step |-> f.step, a0 |-> a0]
  BY DEF Frames
<1> QED  BY <1>1, <1>2, <1>3, <1>4

LEMMA AlarmStart == Sig!Init => AlarmInv
<1>1. [code |-> "main", step |-> 0, a0 |-> 0] \in Frames
  BY DEF Frames
<1>2. [code |-> "none", step |-> 0, a0 |-> 0] \in Frames
  BY DEF Frames
<1> QED
  BY <1>1, <1>2 DEF Sig!Init, AlarmInv, AlarmTypeOK, InHandler, Sig!Fresh, Sig!NoCopy

LEMMA AlarmStep == AlarmInv /\ [Sig!Next]_(Sig!avars) => AlarmInv'
<1> SUFFICES ASSUME AlarmInv, [Sig!Next]_(Sig!avars) PROVE AlarmInv'
  OBVIOUS
<1> USE DEF AlarmInv
<1>0. AlarmTypeOK /\ InHandler
  OBVIOUS
<1>t. /\ trapframe = [code |-> trapframe.code, step |-> trapframe.step, a0 |-> trapframe.a0]
      /\ trapframe.code \in {"none", "main", "handler"} /\ trapframe.step \in Int /\ trapframe.a0 \in Int
      /\ tfp.code \in {"none", "main", "handler"} /\ tfp.step \in Int /\ tfp.a0 \in Int
      /\ tfp = [code |-> tfp.code, step |-> tfp.step, a0 |-> tfp.a0]
  BY <1>0, FrameParts DEF AlarmTypeOK
<1>1. ASSUME NEW a0 \in {0, 1}, Sig!Compute(a0) PROVE AlarmInv'
  <2>1. UNCHANGED <<set, tfp, interrupted>>
    BY <1>1 DEF Sig!Compute
  <2>2. trapframe' = [code |-> trapframe.code, step |-> trapframe.step + 1, a0 |-> a0]
    BY <1>1, <1>0, FrameParts DEF Sig!Compute, AlarmTypeOK
  <2>3. trapframe' \in Frames
    BY <2>2, <1>t DEF Frames
  <2>4. trapframe'.code = trapframe.code
    BY <2>2
  <2> QED  BY <1>0, <2>1, <2>3, <2>4 DEF AlarmTypeOK, InHandler
<1>2. CASE Sig!Tick
  <2>1. CASE UNCHANGED <<trapframe, set, tfp, interrupted>>
    BY <2>1, <1>0 DEF AlarmTypeOK, InHandler
  <2>2. CASE spare # 0
    <3>1. interrupted = Sig!NoCopy /\ tfp' = trapframe
      BY <1>2, <2>2, <1>0 DEF Sig!Tick, Sig!Counting, InHandler
    <3>2. CASE cur_ticks + 1 >= ticks
      <4>1. /\ set' = 1 /\ interrupted' = trapframe
            /\ trapframe' = [code |-> "handler", step |-> 0, a0 |-> trapframe.a0]
        BY <1>2, <2>2, <3>2, <1>0, FrameParts DEF Sig!Tick, AlarmTypeOK
      <4>2. trapframe' \in Frames /\ trapframe'.code = "handler"
        BY <4>1, <1>t DEF Frames
      <4> QED  BY <1>0, <3>1, <4>1, <4>2 DEF AlarmTypeOK, InHandler
    <3>3. CASE ~ (cur_ticks + 1 >= ticks)
      <4>1. UNCHANGED <<set, trapframe, interrupted>>
        BY <1>2, <2>2, <3>3 DEF Sig!Tick
      <4> QED  BY <1>0, <3>1, <4>1 DEF AlarmTypeOK, InHandler
    <3> QED  BY <3>2, <3>3
  <2> QED  BY <1>2, <2>1, <2>2 DEF Sig!Tick
<1>3. ASSUME NEW n \in Periods, Sig!SigAlarm(n) PROVE AlarmInv'
  <2>1. UNCHANGED <<set, tfp, interrupted>>
    BY <1>3 DEF Sig!SigAlarm
  <2>2. trapframe' = [code |-> trapframe.code, step |-> trapframe.step, a0 |-> 0]
    BY <1>3, <1>0, FrameParts DEF Sig!SigAlarm, Sig!Returned, AlarmTypeOK
  <2>3. trapframe' \in Frames
    BY <2>2, <1>t DEF Frames
  <2>4. trapframe'.code = trapframe.code
    BY <2>2
  <2> QED  BY <1>0, <2>1, <2>3, <2>4 DEF AlarmTypeOK, InHandler
<1>4. CASE Sig!SigReturn
  <2>1. interrupted' = Sig!NoCopy /\ interrupted' \in Frames
    BY <1>4 DEF Sig!SigReturn, Sig!NoCopy, Frames
  <2>2. CASE tfp = Sig!NoCopy
    BY <1>0, <1>4, <2>1, <2>2 DEF Sig!SigReturn, AlarmTypeOK, InHandler
  <2>3. CASE tfp # Sig!NoCopy
    <3>1. trapframe' = tfp
      BY <1>4, <2>3, <1>0, <1>t, FrameParts DEF Sig!SigReturn, Sig!Returned, AlarmTypeOK
    <3>2. tfp' \in Frames
      BY <1>4, <2>3 DEF Sig!SigReturn, Sig!NoCopy, Frames
    <3> QED  BY <1>0, <2>1, <3>1, <3>2 DEF AlarmTypeOK, InHandler
  <2> QED  BY <2>2, <2>3
<1>5. ASSUME NEW code \in {"main", "handler"}, Sig!Reuse(code) PROVE AlarmInv'
  <2>1. interrupted' = Sig!NoCopy /\ interrupted' \in Frames /\ tfp' = tfp
    BY <1>5 DEF Sig!Reuse, Sig!NoCopy, Frames
  <2>2. trapframe' = [code |-> code, step |-> 0, a0 |-> 0]
    BY <1>5 DEF Sig!Reuse, Sig!Fresh
  <2>3. trapframe' \in Frames
    BY <2>2 DEF Frames
  <2> QED  BY <1>0, <2>1, <2>3 DEF AlarmTypeOK, InHandler
<1>6. CASE UNCHANGED Sig!avars
  BY <1>0, <1>6 DEF Sig!avars, AlarmTypeOK, InHandler
<1> QED  BY <1>1, <1>2, <1>3, <1>4, <1>5, <1>6 DEF Sig!Next

\* What the step of a handler may do: Resumes follows from the invariant.
LEMMA AlarmResumes == AlarmInv /\ [Sig!Next]_(Sig!avars) => [Sig!Resumes]_(Sig!avars)
<1> SUFFICES ASSUME AlarmInv, Sig!Next, interrupted # Sig!NoCopy PROVE Sig!Resumes
  BY DEF Sig!Resumes
<1>0. AlarmTypeOK /\ set = 1 /\ tfp = interrupted /\ trapframe.code = "handler"
  BY DEF AlarmInv, InHandler
<1>1. ASSUME NEW a0 \in {0, 1}, Sig!Compute(a0) PROVE Sig!Resumes
  <2>1. trapframe' = [code |-> trapframe.code, step |-> trapframe.step + 1, a0 |-> a0]
    BY <1>1, <1>0, FrameParts DEF Sig!Compute, AlarmTypeOK
  <2>2. UNCHANGED <<interrupted, tfp>>
    BY <1>1 DEF Sig!Compute
  <2> QED  BY <1>0, <2>1, <2>2 DEF Sig!Resumes
<1>2. CASE Sig!Tick
  BY <1>0, <1>2 DEF Sig!Tick, Sig!Counting
<1>3. ASSUME NEW n \in Periods, Sig!SigAlarm(n) PROVE Sig!Resumes
  <2>1. trapframe' = [code |-> trapframe.code, step |-> trapframe.step, a0 |-> 0]
    BY <1>3, <1>0, FrameParts DEF Sig!SigAlarm, Sig!Returned, AlarmTypeOK
  <2>2. UNCHANGED <<interrupted, tfp>>
    BY <1>3 DEF Sig!SigAlarm
  <2> QED  BY <1>0, <2>1, <2>2 DEF Sig!Resumes
<1>4. CASE Sig!SigReturn
  <2>1. trapframe' = interrupted
    <3>1. tfp \in Frames /\ tfp # Sig!NoCopy
      BY <1>0 DEF AlarmTypeOK
    <3>2. trapframe' = [tfp EXCEPT !.a0 = tfp.a0]
      BY <1>4, <3>1 DEF Sig!SigReturn, Sig!Returned
    <3> QED  BY <1>0, <3>1, <3>2, FrameParts
  <2>2. interrupted' = Sig!NoCopy
    BY <1>4 DEF Sig!SigReturn
  <2> QED  BY <2>1, <2>2 DEF Sig!Resumes
<1>5. ASSUME NEW code \in {"main", "handler"}, Sig!Reuse(code) PROVE Sig!Resumes
  BY <1>5 DEF Sig!Resumes
<1> QED  BY <1>1, <1>2, <1>3, <1>4, <1>5 DEF Sig!Next

\* For any periods, pages and length of handlers: a handler that an alarm has
\* called is not interrupted by the next alarm, and sigreturn gives the program
\* exactly the frame that the timer had interrupted (sigreturn, sigalarm and
\* usertrap's tick, with processes that follow each other in the slot).
THEOREM ReturnsWhereInterrupted == Sig!Spec => ResumesInterrupted
<1> QED
  BY AlarmStart, AlarmStep, AlarmResumes, PTL DEF Sig!Spec, Sig!ResumesInterrupted, ResumesInterrupted
-----------------------------------------------------------------------------
(* Files. *)

FilePlaces == {"user", "gone", "pipe2", "page", "copyout", "close", "release", "exit", "fork", "new"}
FileRec    == [ref : Nat, type : {"none", "inode", "read", "write"}, ip : 0 .. NPages]
FileCall   == [at : FilePlaces, files : Seq(FileNo), last : FileRec,
               next : {"", "user", "exit"}, kid : Procs \cup {0}]

FilesTypeOK == /\ ofile \in [Procs -> [Fds -> 0 .. NFILE]]
               /\ ftable \in [FileNo -> FileRec]
               /\ pages \in [1 .. NPages -> SUBSET Ends]
               /\ inode \in Int
               /\ call \in [Procs -> FileCall]

\* How many files a call has in hand at each place, what has been taken from
\* the table and what comes after the last fileclose.
HandOK(at, files, last, next) ==
    /\ at \in {"user", "gone", "exit", "fork", "new"} => Len(files) = 0
    /\ at = "pipe2" => Len(files) = 1
    /\ at \in {"page", "copyout"} => Len(files) = 2
    /\ at \in {"close", "release"} => Len(files) \in {0, 1, 2} /\ next # ""
    /\ at # "release" => last = Blank
    /\ IsInjective(files)
FilesInHand == \A p \in Procs : HandOK(call[p].at, call[p].files, call[p].last, call[p].next)

\* The files pipe has in hand are its own and have no type until there is a
\* page, and one descriptor each from then on.
PipeFiles == \A p \in Procs :
    /\ call[p].at \in {"pipe2", "page"} =>
         \A f \in Range(call[p].files) : ftable[f].ref = 1 /\ ftable[f].type = "none"
    /\ call[p].at = "copyout" =>
         \A f \in Range(call[p].files) : \E fd \in Fds : \A d \in Fds : ofile[p][d] = f <=> d = fd

\* A process that is not has no descriptors, and one that is being made some of
\* its parent's.
Kids == \A p \in Procs :
    /\ call[p].at = "gone" => \A fd \in Fds : ofile[p][fd] = 0
    /\ call[p].at = "fork" =>
         /\ call[p].kid \in Procs /\ call[call[p].kid].at = "new"
         /\ \A fd \in Fds : ofile[call[p].kid][fd] \in {0, ofile[p][fd]}
         /\ \A q \in Procs : call[q].at = "fork" /\ call[q].kid = call[p].kid => q = p

\* A file without references is empty; a file, or one that is on its way to
\* pipeclose, is the only one to be its end of its pipe.
UnusedBlank == \A f \in FileNo : ftable[f].ref = 0 => ftable[f] = Blank
OnePerEnd ==
    /\ \A f \in FileNo : ftable[f].type \in Ends =>
         /\ ftable[f].ip # 0
         /\ \A e \in FileNo : ftable[e].type = ftable[f].type /\ ftable[e].ip = ftable[f].ip => e = f
         /\ ~ Releasing(ftable[f].type, ftable[f].ip)
    /\ \A p \in Procs : call[p].last.type \in Ends =>
         /\ call[p].last.ip # 0
         /\ \A q \in Procs : call[q].last.type = call[p].last.type /\ call[q].last.ip = call[p].last.ip => q = p

FilesInv == /\ FilesTypeOK /\ FilesInHand /\ PipeFiles /\ Kids /\ UnusedBlank /\ OnePerEnd
            /\ FilesExact

\* The call of p becomes this, and the others' stay.
CallIs(p, at, files, last, next, kid) ==
    call' = [q \in Procs |-> IF q = p THEN [at |-> at, files |-> files, last |-> last, next |-> next, kid |-> kid]
                                     ELSE call[q]]

LEMMA CallParts ==
    ASSUME FilesTypeOK, NEW p \in Procs
    PROVE  /\ call[p].at \in FilePlaces /\ call[p].files \in Seq(FileNo) /\ call[p].last \in FileRec
           /\ call[p].next \in {"", "user", "exit"} /\ call[p].kid \in Procs \cup {0}
           /\ call[p] = [at |-> call[p].at, files |-> call[p].files, last |-> call[p].last,
                         next |-> call[p].next, kid |-> call[p].kid]
<1>1. call[p] \in FileCall
  BY DEF FilesTypeOK
<1> QED
  BY <1>1 DEF FileCall

LEMMA RecParts ==
    ASSUME FilesTypeOK, NEW f \in FileNo
    PROVE  /\ ftable[f].ref \in Nat /\ ftable[f].type \in {"none", "inode", "read", "write"}
           /\ ftable[f].ip \in 0 .. NPages /\ ftable[f] \in FileRec
           /\ ftable[f] = [ref |-> ftable[f].ref, type |-> ftable[f].type, ip |-> ftable[f].ip]
<1>1. ftable[f] \in FileRec
  BY DEF FilesTypeOK
<1> QED
  BY <1>1 DEF FileRec

LEMMA CallRec ==
    ASSUME NEW at \in FilePlaces, NEW files \in Seq(FileNo), NEW last \in FileRec,
           NEW next \in {"", "user", "exit"}, NEW kid \in Procs \cup {0}
    PROVE  [at |-> at, files |-> files, last |-> last, next |-> next, kid |-> kid] \in FileCall
  BY DEF FileCall

LEMMA CallFields ==
    ASSUME NEW p \in Procs, NEW at, NEW files, NEW last, NEW next, NEW kid, CallIs(p, at, files, last, next, kid)
    PROVE  /\ call'[p].at = at /\ call'[p].files = files /\ call'[p].last = last
           /\ call'[p].next = next /\ call'[p].kid = kid
  BY DEF CallIs

LEMMA CallTyped ==
    ASSUME FilesTypeOK, NEW p \in Procs,
           NEW at \in FilePlaces, NEW files \in Seq(FileNo), NEW last \in FileRec,
           NEW next \in {"", "user", "exit"}, NEW kid \in Procs \cup {0},
           CallIs(p, at, files, last, next, kid)
    PROVE  /\ \A q \in Procs : call'[q] \in FileCall
           /\ call'[p].at = at /\ call'[p].files = files /\ call'[p].last = last
           /\ call'[p].next = next /\ call'[p].kid = kid
<1>1. call'[p] = [at |-> at, files |-> files, last |-> last, next |-> next, kid |-> kid]
  BY DEF CallIs
<1>2. call'[p] \in FileCall
  <2>1. [at |-> at, files |-> files, last |-> last, next |-> next, kid |-> kid] \in FileCall
    BY DEF FileCall
  <2> QED  BY <1>1, <2>1
<1>3. \A q \in Procs \ {p} : call'[q] \in FileCall
  BY DEF CallIs, FilesTypeOK
<1>4. \A q \in Procs : call'[q] \in FileCall
  BY <1>2, <1>3
<1> QED
  BY <1>4, CallFields

\* What the assignments of the actions make of a call.
LEMMA CallEdits ==
    ASSUME FilesTypeOK, NEW p \in Procs, NEW at, NEW files, NEW last, NEW next, NEW kid
    PROVE  LET c == call[p] IN
           /\ call' = [call EXCEPT ![p].files = files] =>
                CallIs(p, c.at, files, c.last, c.next, c.kid)
           /\ call' = [call EXCEPT ![p].at = at, ![p].files = files] =>
                CallIs(p, at, files, c.last, c.next, c.kid)
           /\ call' = [call EXCEPT ![p].at = at, ![p].files = files, ![p].next = next] =>
                CallIs(p, at, files, c.last, next, c.kid)
           /\ call' = [call EXCEPT ![p].at = at, ![p].files = files, ![p].last = last] =>
                CallIs(p, at, files, last, c.next, c.kid)
           /\ call' = [call EXCEPT ![p].at = at, ![p].last = last] =>
                CallIs(p, at, c.files, last, c.next, c.kid)
           /\ call' = [call EXCEPT ![p] = [at |-> at, files |-> files, last |-> last, next |-> next, kid |-> kid]] =>
                CallIs(p, at, files, last, next, kid)
<1> DEFINE c == call[p]
<1>1. call \in [Procs -> FileCall] /\ call[p] \in FileCall
  BY DEF FilesTypeOK
<1>2. DOMAIN call = Procs
  BY <1>1
<1>3. c = [at |-> c.at, files |-> c.files, last |-> c.last, next |-> c.next, kid |-> c.kid]
  BY CallParts
<1>4. ASSUME call' = [call EXCEPT ![p].files = files] PROVE CallIs(p, c.at, files, c.last, c.next, c.kid)
  <2>1. call'[p] = [at |-> c.at, files |-> files, last |-> c.last, next |-> c.next, kid |-> c.kid]
    BY <1>1, <1>2, <1>4 DEF FileCall
  <2>2. call' = [q \in Procs |-> call'[q]] /\ \A q \in Procs : q # p => call'[q] = call[q]
    BY <1>2, <1>4
  <2> QED  BY <2>1, <2>2 DEF CallIs
<1>5. ASSUME call' = [call EXCEPT ![p].at = at, ![p].files = files] PROVE CallIs(p, at, files, c.last, c.next, c.kid)
  <2>1. call'[p] = [at |-> at, files |-> files, last |-> c.last, next |-> c.next, kid |-> c.kid]
    BY <1>1, <1>2, <1>5 DEF FileCall
  <2>2. call' = [q \in Procs |-> call'[q]] /\ \A q \in Procs : q # p => call'[q] = call[q]
    BY <1>2, <1>5
  <2> QED  BY <2>1, <2>2 DEF CallIs
<1>6. ASSUME call' = [call EXCEPT ![p].at = at, ![p].files = files, ![p].next = next] PROVE CallIs(p, at, files, c.last, next, c.kid)
  <2>1. call'[p] = [at |-> at, files |-> files, last |-> c.last, next |-> next, kid |-> c.kid]
    BY <1>1, <1>2, <1>6 DEF FileCall
  <2>2. call' = [q \in Procs |-> call'[q]] /\ \A q \in Procs : q # p => call'[q] = call[q]
    BY <1>2, <1>6
  <2> QED  BY <2>1, <2>2 DEF CallIs
<1>7. ASSUME call' = [call EXCEPT ![p].at = at, ![p].files = files, ![p].last = last] PROVE CallIs(p, at, files, last, c.next, c.kid)
  <2>1. call'[p] = [at |-> at, files |-> files, last |-> last, next |-> c.next, kid |-> c.kid]
    BY <1>1, <1>2, <1>7 DEF FileCall
  <2>2. call' = [q \in Procs |-> call'[q]] /\ \A q \in Procs : q # p => call'[q] = call[q]
    BY <1>2, <1>7
  <2> QED  BY <2>1, <2>2 DEF CallIs
<1>8. ASSUME call' = [call EXCEPT ![p].at = at, ![p].last = last] PROVE CallIs(p, at, c.files, last, c.next, c.kid)
  <2>1. call'[p] = [at |-> at, files |-> c.files, last |-> last, next |-> c.next, kid |-> c.kid]
    BY <1>1, <1>2, <1>8 DEF FileCall
  <2>2. call' = [q \in Procs |-> call'[q]] /\ \A q \in Procs : q # p => call'[q] = call[q]
    BY <1>2, <1>8
  <2> QED  BY <2>1, <2>2 DEF CallIs
<1>9. ASSUME call' = [call EXCEPT ![p] = [at |-> at, files |-> files, last |-> last, next |-> next, kid |-> kid]] PROVE CallIs(p, at, files, last, next, kid)
  <2>1. call'[p] = [at |-> at, files |-> files, last |-> last, next |-> next, kid |-> kid]
    BY <1>1, <1>2, <1>9 DEF FileCall
  <2>2. call' = [q \in Procs |-> call'[q]] /\ \A q \in Procs : q # p => call'[q] = call[q]
    BY <1>2, <1>9
  <2> QED  BY <2>1, <2>2 DEF CallIs
<1> QED
  BY <1>4, <1>5, <1>6, <1>7, <1>8, <1>9

\* filealloc and fdalloc find one that is free.
LEMMA LeastOf ==
    ASSUME NEW n \in Int, NEW K \in SUBSET (0 .. n), K # {}
    PROVE  Min(K) \in K
<1>1. \E k \in K : \A j \in K : k <= j
  BY Least
<1> QED
  BY <1>1 DEF Min

LEMMA FdsFinite == ASSUME FilesConstants PROVE IsFiniteSet(Fds)
<1>1. 0 \in Int /\ NOFILE - 1 \in Int
  BY DEF FilesConstants
<1> QED  BY <1>1, FS_Interval DEF Fds

LEMMA Allocs ==
    ASSUME FilesConstants, FilesTypeOK
    PROVE  /\ Unused # {} => FileAlloc \in FileNo /\ ftable[FileAlloc].ref = 0
           /\ FreePages # {} => Min(FreePages) \in 1 .. NPages /\ pages[Min(FreePages)] = {}
           /\ \A p \in Procs :
                /\ Room(p) # {} => Min(Room(p)) \in Fds /\ ofile[p][Min(Room(p))] = 0
                /\ Cardinality(Room(p)) >= 2 =>
                     /\ Room(p) # {}
                     /\ Second(Room(p)) \in Fds /\ ofile[p][Second(Room(p))] = 0
                     /\ Second(Room(p)) # Min(Room(p))
                /\ ofile[p] # Nothing =>
                     Min(Fds \ Room(p)) \in Fds /\ ofile[p][Min(Fds \ Room(p))] # 0
<1>c. NFILE \in Nat /\ NOFILE \in Nat /\ NPages \in Nat
  BY DEF FilesConstants
<1>1. Unused # {} => FileAlloc \in FileNo /\ ftable[FileAlloc].ref = 0
  <2>1. Unused \in SUBSET (0 .. NFILE)
    BY <1>c DEF Unused, FileNo
  <2>2. Unused # {} => Min(Unused) \in Unused
    <3>1. NFILE \in Int
      BY <1>c
    <3> QED  BY <2>1, <3>1, LeastOf
  <2> QED  BY <2>2 DEF FileAlloc, Unused
<1>2. FreePages # {} => Min(FreePages) \in 1 .. NPages /\ pages[Min(FreePages)] = {}
  <2>1. FreePages = {g \in 1 .. NPages : pages[g] = {}}
    BY DEF FreePages, FilesTypeOK
  <2>2. FreePages \in SUBSET (0 .. NPages)
    BY <1>c, <2>1
  <2>3. FreePages # {} => Min(FreePages) \in FreePages
    BY <1>c, <2>2, LeastOf
  <2> QED  BY <2>1, <2>3
<1>3. ASSUME NEW p \in Procs
      PROVE  /\ Room(p) # {} => Min(Room(p)) \in Fds /\ ofile[p][Min(Room(p))] = 0
             /\ Cardinality(Room(p)) >= 2 =>
                     /\ Room(p) # {}
                     /\ Second(Room(p)) \in Fds /\ ofile[p][Second(Room(p))] = 0
                     /\ Second(Room(p)) # Min(Room(p))
             /\ ofile[p] # Nothing =>
                     Min(Fds \ Room(p)) \in Fds /\ ofile[p][Min(Fds \ Room(p))] # 0
  <2> DEFINE R == Room(p)
             m == Min(R)
  <2>1. NOFILE - 1 \in Int /\ R \in SUBSET (0 .. NOFILE - 1) /\ Fds = 0 .. NOFILE - 1
        /\ \A fd \in R : ofile[p][fd] = 0
    BY <1>c DEF Room, Fds
  <2>2. R # {} => m \in R
    BY <2>1, LeastOf
  <2>3. ASSUME Cardinality(R) >= 2
        PROVE  R # {} /\ Second(R) \in R /\ Second(R) # m
    <3>1. IsFiniteSet(Fds) /\ R \subseteq Fds
      BY FdsFinite DEF Room
    <3>2. IsFiniteSet(R)
      <4> HIDE DEF R
      <4> QED  BY <3>1, FS_Subset
    <3>3. R # {}
      BY <2>3, FS_EmptySet
    <3>4. Cardinality(R \ {m}) = Cardinality(R) - 1 /\ Cardinality(R) \in Nat
      BY <2>2, <3>2, <3>3, FS_RemoveElement, FS_CardinalityType
    <3>5. R \ {m} # {}
      BY <2>3, <3>4, FS_EmptySet
    <3>6. Min(R \ {m}) \in R \ {m}
      <4>1. R \ {m} \in SUBSET (0 .. NOFILE - 1)
        BY <2>1
      <4> HIDE DEF R, m
      <4> QED  BY <2>1, <3>5, <4>1, LeastOf
    <3> QED  BY <3>3, <3>6 DEF Second
  <2>4. ASSUME ofile[p] # Nothing
        PROVE  Min(Fds \ R) \in Fds /\ ofile[p][Min(Fds \ R)] # 0
    <3>1. \E fd \in Fds : ofile[p][fd] # 0
      BY <2>4 DEF Nothing, FilesTypeOK
    <3>2. Fds \ R # {} /\ Fds \ R \in SUBSET (0 .. NOFILE - 1)
      BY <3>1, <2>1
    <3>3. Min(Fds \ R) \in Fds \ R
      <4> HIDE DEF R, m
      <4> QED  BY <2>1, <3>2, LeastOf
    <3> QED  BY <3>3 DEF Room
  <2> QED  BY <2>1, <2>2, <2>3, <2>4
<1> QED
  BY <1>1, <1>2, <1>3

\* Lists without repetition lose their first element and gain a last one.
LEMMA TailParts ==
    ASSUME NEW S, NEW s \in Seq(S), s # <<>>, IsInjective(s)
    PROVE  /\ Head(s) \in S /\ Head(s) \in Range(s)
           /\ Tail(s) \in Seq(S) /\ Len(Tail(s)) = Len(s) - 1
           /\ Range(Tail(s)) = Range(s) \ {Head(s)} /\ IsInjective(Tail(s))
<1>1. /\ Head(s) \in S /\ Tail(s) \in Seq(S) /\ Len(Tail(s)) = Len(s) - 1
      /\ \A i \in 1 .. Len(Tail(s)) : Tail(s)[i] = s[i + 1]
  BY HeadTailProperties
<1>2. Len(s) \in Nat /\ Len(s) >= 1 /\ DOMAIN s = 1 .. Len(s) /\ DOMAIN Tail(s) = 1 .. Len(s) - 1
  BY <1>1
<1>3. Head(s) = s[1] /\ 1 \in DOMAIN s
  BY <1>2
<1>4. \A i \in DOMAIN Tail(s) : i + 1 \in DOMAIN s /\ i + 1 # 1 /\ Tail(s)[i] = s[i + 1]
  BY <1>1, <1>2
<1>5. \A j \in DOMAIN s : j # 1 => j - 1 \in DOMAIN Tail(s) /\ (j - 1) + 1 = j
  BY <1>2
<1>6. Head(s) \in Range(s)
  BY <1>3 DEF Range
<1>7. ASSUME NEW x \in Range(Tail(s)) PROVE x \in Range(s) \ {Head(s)}
  <2>1. PICK i \in DOMAIN Tail(s) : x = Tail(s)[i]
    BY <1>7 DEF Range
  <2>2. i + 1 \in DOMAIN s /\ i + 1 # 1 /\ x = s[i + 1]
    BY <1>4, <2>1
  <2> QED  BY <2>2, <1>3 DEF Range, IsInjective
<1>8. ASSUME NEW x \in Range(s) \ {Head(s)} PROVE x \in Range(Tail(s))
  <2>1. PICK j \in DOMAIN s : x = s[j]
    BY <1>8 DEF Range
  <2>2. j # 1
    BY <2>1, <1>3, <1>8
  <2>3. j - 1 \in DOMAIN Tail(s) /\ Tail(s)[j - 1] = s[j]
    BY <2>2, <1>4, <1>5
  <2> QED  BY <2>1, <2>3 DEF Range
<1>9. IsInjective(Tail(s))
  <2> SUFFICES ASSUME NEW i \in DOMAIN Tail(s), NEW j \in DOMAIN Tail(s), Tail(s)[i] = Tail(s)[j] PROVE i = j
    BY DEF IsInjective
  <2>1. s[i + 1] = s[j + 1] /\ i + 1 \in DOMAIN s /\ j + 1 \in DOMAIN s
    BY <1>4
  <2>2. i + 1 = j + 1
    BY <2>1 DEF IsInjective
  <2> QED  BY <2>2, <1>2
<1> QED
  BY <1>1, <1>6, <1>7, <1>8, <1>9

LEMMA TailHand ==
    ASSUME NEW S, NEW s \in Seq(S), s # <<>>, IsInjective(s), Len(s) \in {0, 1, 2}
    PROVE  /\ Head(s) \in S /\ Tail(s) \in Seq(S) /\ Len(Tail(s)) \in {0, 1, 2} /\ IsInjective(Tail(s))
<1>1. Len(s) # 0
  OBVIOUS
<1>2. Len(Tail(s)) = Len(s) - 1
  BY TailParts
<1>3. Len(Tail(s)) \in {0, 1, 2}
  BY <1>1, <1>2
<1> QED
  BY <1>3, TailParts

LEMMA AppendParts ==
    ASSUME NEW S, NEW s \in Seq(S), NEW x \in S
    PROVE  /\ Append(s, x) \in Seq(S) /\ Len(Append(s, x)) = Len(s) + 1
           /\ Range(Append(s, x)) = Range(s) \cup {x}
           /\ IsInjective(s) /\ x \notin Range(s) => IsInjective(Append(s, x))
<1> DEFINE t == Append(s, x)
<1>1. /\ t \in Seq(S) /\ Len(t) = Len(s) + 1
      /\ \A i \in 1 .. Len(s) : t[i] = s[i]
      /\ t[Len(s) + 1] = x
  BY AppendProperties
<1>2. Len(s) \in Nat /\ DOMAIN s = 1 .. Len(s) /\ DOMAIN t = 1 .. Len(s) + 1
  BY <1>1
<1> HIDE DEF t
<1>3. \A i \in DOMAIN t : (i \in DOMAIN s /\ t[i] = s[i]) \/ (i = Len(s) + 1 /\ t[i] = x)
  BY <1>1, <1>2
<1>4. \A i \in DOMAIN s : i \in DOMAIN t /\ t[i] = s[i]
  BY <1>1, <1>2
<1>5. Len(s) + 1 \in DOMAIN t /\ t[Len(s) + 1] = x
  BY <1>1, <1>2
<1>6. Range(t) = Range(s) \cup {x}
  BY <1>3, <1>4, <1>5 DEF Range
<1>7. ASSUME IsInjective(s), x \notin Range(s) PROVE IsInjective(t)
  BY <1>3, <1>7 DEF IsInjective, Range
<1> QED
  BY <1>1, <1>6, <1>7 DEF t

LEMMA EmptyRange == Range(<<>>) = {}
  BY DEF Range

LEMMA Literals ==
    ASSUME NEW S, NEW a \in S, NEW b \in S
    PROVE  /\ <<>> \in Seq(S) /\ Range(<<>>) = {} /\ Len(<<>>) = 0 /\ IsInjective(<<>>)
           /\ <<a>> \in Seq(S) /\ Range(<<a>>) = {a} /\ Len(<<a>>) = 1 /\ IsInjective(<<a>>)
           /\ <<a, b>> \in Seq(S) /\ Range(<<a, b>>) = {a, b} /\ Len(<<a, b>>) = 2
           /\ IsInjective(<<a, b>>) <=> a # b
<1>1. <<>> \in Seq(S) /\ Range(<<>>) = {} /\ Len(<<>>) = 0 /\ IsInjective(<<>>)
  BY DEF Range, IsInjective
<1>2. <<a>> \in Seq(S) /\ Range(<<a>>) = {a} /\ Len(<<a>>) = 1 /\ IsInjective(<<a>>)
  BY DEF Range, IsInjective
<1>3. <<a, b>> \in Seq(S) /\ Range(<<a, b>>) = {a, b} /\ Len(<<a, b>>) = 2
  BY DEF Range
<1>4. IsInjective(<<a, b>>) <=> a # b
  BY DEF IsInjective
<1> QED
  BY <1>1, <1>2, <1>3, <1>4

LEMMA TwoParts ==
    ASSUME NEW S, NEW s \in Seq(S), Len(s) = 2
    PROVE  /\ s[1] \in S /\ s[2] \in S /\ s = <<s[1], s[2]>> /\ Range(s) = {s[1], s[2]}
           /\ IsInjective(s) <=> s[1] # s[2]
<1>1. s[1] \in S /\ s[2] \in S /\ s = <<s[1], s[2]>>
  BY ElementOfSeq
<1>2. DOMAIN s = {1, 2}
  BY <1>1
<1>3. Range(s) = {s[1], s[2]}
  BY <1>2 DEF Range
<1>4. IsInjective(s) <=> s[1] # s[2]
  BY <1>2 DEF IsInjective
<1> QED
  BY <1>1, <1>3, <1>4

LEMMA CallGoes ==
    ASSUME FilesTypeOK, FilesInHand, NEW p \in Procs,
           NEW at \in FilePlaces, NEW files \in Seq(FileNo), NEW last \in FileRec,
           NEW next \in {"", "user", "exit"}, NEW kid \in Procs \cup {0},
           CallIs(p, at, files, last, next, kid), HandOK(at, files, last, next)
    PROVE  call' \in [Procs -> FileCall] /\ FilesInHand'
<1>0. \A q \in Procs : call'[q] \in FileCall
  BY CallTyped
<1>1. call'[p].at = at /\ call'[p].files = files /\ call'[p].last = last /\ call'[p].next = next
  BY CallFields
<1>2. DOMAIN call' = Procs /\ \A q \in Procs \ {p} : call'[q] = call[q]
  BY DEF CallIs
<1>3. call' \in [Procs -> FileCall]
  BY <1>0 DEF CallIs
<1>4. ASSUME NEW q \in Procs
      PROVE  HandOK(call'[q].at, call'[q].files, call'[q].last, call'[q].next)
  <2>1. CASE q = p
    BY <1>1, <2>1
  <2>2. CASE q # p
    BY <1>2, <2>2 DEF FilesInHand
  <2> QED  BY <2>1, <2>2
<1> QED
  BY <1>3, <1>4 DEF FilesInHand, HandOK, Blank

\* A step on a process's files, apart from fork, which is about two processes.
FileStep(p) ==
    \/ Open(p) \/ OpenFails(p)
    \/ PipeFile(p) \/ PipeNoPage(p) \/ PipeMade(p) \/ PipeReturns(p) \/ PipeFaults(p)
    \/ Exit(p) \/ DropRef(p) \/ LastClose(p) \/ Release(p) \/ Closed(p)
    \/ ForkDup(p)
    \/ \E fd \in Fds : Dup(p, fd) \/ SysClose(p, fd)

LEMMA FileSteps ==
    Next <=> \E p \in Procs : FileStep(p) \/ ForkDone(p) \/ \E q \in Procs : Fork(p, q)
  BY DEF Next, FileStep

LEMMA CallStays == ASSUME FilesTypeOK, FilesInHand, UNCHANGED call
                   PROVE  call' \in [Procs -> FileCall] /\ FilesInHand'
  BY DEF FilesTypeOK, FilesInHand, HandOK, Blank

LEMMA CallAt ==
    ASSUME FilesTypeOK, FilesInHand, NEW p \in Procs
    PROVE  /\ call[p].files \in Seq(FileNo) /\ IsInjective(call[p].files) /\ Len(call[p].files) \in Nat
           /\ At(p, "user") => call[p].files = <<>> /\ Len(call[p].files) = 0
           /\ At(p, "pipe2") => Len(call[p].files) = 1
           /\ At(p, "page") \/ At(p, "copyout") => Len(call[p].files) = 2
           /\ At(p, "close") \/ At(p, "release") => Len(call[p].files) \in {0, 1, 2} /\ call[p].next # ""
           /\ ~ At(p, "release") => call[p].last = Blank
<1>1. call[p].files \in Seq(FileNo)
  BY CallParts
<1>2. HandOK(call[p].at, call[p].files, call[p].last, call[p].next)
  BY DEF FilesInHand
<1>3. Len(call[p].files) \in Nat
  BY <1>1
<1>4. At(p, "user") => Len(call[p].files) = 0
  BY <1>2 DEF HandOK, At
<1>5. Len(call[p].files) = 0 => call[p].files = <<>>
  BY <1>1
<1> QED
  BY <1>1, <1>2, <1>3, <1>4, <1>5 DEF HandOK, At

LEMMA BlankRec == ASSUME FilesConstants PROVE Blank \in FileRec /\ Blank.type = "none" /\ Blank.ref = 0
<1>1. [ref |-> 0, type |-> "none", ip |-> 0] \in FileRec
  <2>1. 0 \in 0 .. NPages
    BY DEF FilesConstants
  <2> QED BY <2>1 DEF FileRec
<1> QED
  BY <1>1 DEF Blank

LEMMA CallStep ==
    ASSUME FilesConstants, FilesTypeOK, FilesInHand, PipeFiles, NEW p \in Procs, FileStep(p)
    PROVE  call' \in [Procs -> FileCall] /\ FilesInHand'
<1> SUFFICES ASSUME NEW c, c = call[p] PROVE call' \in [Procs -> FileCall] /\ FilesInHand'
  OBVIOUS
<1>a. /\ c.files \in Seq(FileNo) /\ c.last \in FileRec
      /\ c.next \in {"", "user", "exit"} /\ c.kid \in Procs \cup {0}
  BY CallParts
<1>b. Blank \in FileRec
  BY BlankRec
<1>e. ASSUME NEW fs \in Seq(FileNo), Len(fs) \in {0, 1, 2}, IsInjective(fs), c.last = Blank, Close(p, fs)
      PROVE  call' \in [Procs -> FileCall] /\ FilesInHand'
  <2>1. CallIs(p, "close", fs, c.last, "user", c.kid)
    BY <1>e, CallEdits DEF Close, CloseThen
  <2>2. HandOK("close", fs, c.last, "user")
    BY <1>e DEF HandOK
  <2> QED  BY <1>a, <2>1, <2>2, CallGoes DEF FilePlaces
<1>1. CASE Open(p)
  BY <1>1, CallStays DEF Open
<1>2. CASE OpenFails(p)
  <2>1. FileAlloc \in FileNo /\ c.last = Blank
    BY <1>2, Allocs, CallAt DEF OpenFails, At
  <2>2. <<FileAlloc>> \in Seq(FileNo) /\ Len(<<FileAlloc>>) \in {0, 1, 2} /\ IsInjective(<<FileAlloc>>)
    BY <2>1, Literals
  <2>3. Close(p, <<FileAlloc>>)
    BY <1>2 DEF OpenFails
  <2> QED  BY <1>e, <2>1, <2>2, <2>3
<1>3. CASE PipeFile(p)
  <2>1. /\ At(p, "user") \/ At(p, "pipe2")
        /\ c.last = Blank /\ IsInjective(c.files) /\ Len(c.files) \in Nat
        /\ At(p, "user") => c.files = <<>> /\ Len(c.files) = 0
        /\ At(p, "pipe2") => Len(c.files) = 1
    BY <1>3, CallAt DEF PipeFile, At
  <2>2. CASE Unused = {}
    <3>1. Close(p, c.files) /\ Len(c.files) \in {0, 1, 2}
      BY <1>3, <2>1, <2>2 DEF PipeFile
    <3> QED  BY <1>a, <1>e, <2>1, <3>1
  <2>3. CASE Unused # {}
    <3> DEFINE at == IF At(p, "user") THEN "pipe2" ELSE "page"
               fs == Append(c.files, FileAlloc)
    <3>1. FileAlloc \in FileNo /\ ftable[FileAlloc].ref = 0
      BY <2>3, Allocs
    <3>2. FileAlloc \notin Range(c.files)
      <4>1. CASE At(p, "user")
        BY <2>1, <4>1, Literals DEF Range
      <4>2. CASE At(p, "pipe2")
        BY <3>1, <4>2 DEF PipeFiles, At
      <4> QED  BY <2>1, <4>1, <4>2
    <3>3. fs \in Seq(FileNo) /\ Len(fs) = Len(c.files) + 1 /\ IsInjective(fs)
      <4>1. c.files \in Seq(FileNo)
        BY <1>a
      <4>2. fs \in Seq(FileNo) /\ Len(fs) = Len(c.files) + 1
        BY <3>1, <4>1, AppendParts
      <4>3. IsInjective(fs)
        BY <3>1, <3>2, <2>1, <4>1, AppendParts
      <4> QED BY <4>2, <4>3
    <3>4. HandOK(at, fs, c.last, c.next) /\ at \in FilePlaces
      <4>1. CASE At(p, "user")
        <5>1. Len(fs) = 1 /\ at = "pipe2"
          BY <2>1, <3>3, <4>1
        <5> HIDE DEF at, fs
        <5> QED  BY <2>1, <3>3, <5>1 DEF HandOK, FilePlaces
      <4>2. CASE At(p, "pipe2")
        <5>0. ~ At(p, "user")
          BY <4>2 DEF At
        <5>2. Len(c.files) = 1
          BY <2>1, <4>2
        <5>1. Len(fs) = 2 /\ at = "page"
          BY <3>3, <5>0, <5>2
        <5> HIDE DEF at, fs
        <5> QED  BY <2>1, <3>3, <5>1 DEF HandOK, FilePlaces
      <4> QED  BY <2>1, <4>1, <4>2
    <3>5. CallIs(p, at, fs, c.last, c.next, c.kid)
      BY <1>3, <2>3, CallEdits DEF PipeFile, Goto
    <3> HIDE DEF at, fs
    <3> QED  BY <1>a, <3>3, <3>4, <3>5, CallGoes
  <2> QED  BY <2>2, <2>3
<1>4. CASE PipeNoPage(p)
  <2>1. c.last = Blank /\ IsInjective(c.files) /\ Len(c.files) \in {0, 1, 2}
    BY <1>4, CallAt DEF PipeNoPage, At
  <2>2. Close(p, c.files)
    BY <1>4 DEF PipeNoPage
  <2> QED  BY <1>a, <1>e, <2>1, <2>2
<1>5. CASE PipeMade(p)
  <2>0. PICK fs : fs = <<call[p].files[1], call[p].files[2]>>
    OBVIOUS
  <2>1. c.last = Blank /\ IsInjective(c.files) /\ Len(c.files) = 2
    BY <1>5, CallAt DEF PipeMade, At
  <2>2. fs = c.files
    BY <1>a, <2>0, <2>1, TwoParts
  <2>3. CASE Cardinality(Room(p)) >= 2
    <3>0. Goto(p, "copyout", fs)
      BY <1>5, <2>0, <2>3 DEF PipeMade
    <3>1. CallIs(p, "copyout", fs, c.last, c.next, c.kid)
      BY <3>0, CallEdits DEF Goto
    <3>2. HandOK("copyout", c.files, c.last, c.next)
      BY <2>1 DEF HandOK
    <3> QED  BY <1>a, <2>2, <3>1, <3>2, CallGoes DEF FilePlaces
  <2>4. CASE ~ (Cardinality(Room(p)) >= 2)
    <3>1. Close(p, fs)
      BY <1>5, <2>0, <2>4 DEF PipeMade, Undone
    <3> QED  BY <1>a, <1>e, <2>1, <2>2, <3>1
  <2> QED  BY <2>3, <2>4
<1>6. CASE PipeReturns(p)
  <2>1. c.last = Blank
    BY <1>6, CallAt DEF PipeReturns, At
  <2>2. CallIs(p, "user", <<>>, c.last, c.next, c.kid)
    BY <1>6, CallEdits DEF PipeReturns, Goto
  <2>3. <<>> \in Seq(FileNo) /\ HandOK("user", <<>>, c.last, c.next)
    BY <2>1 DEF HandOK, IsInjective
  <2> QED  BY <1>a, <2>2, <2>3, CallGoes DEF FilePlaces
<1>7. CASE PipeFaults(p)
  <2>1. c.last = Blank /\ IsInjective(c.files) /\ Len(c.files) \in {0, 1, 2}
    BY <1>7, CallAt DEF PipeFaults, At
  <2>2. Close(p, c.files)
    BY <1>7 DEF PipeFaults
  <2> QED  BY <1>a, <1>e, <2>1, <2>2
<1>8. CASE Exit(p)
  <2>1. c.last = Blank
    BY <1>8, CallAt DEF Exit, At
  <2>2. CASE ofile[p] = Nothing
    <3>1. call' = [call EXCEPT ![p] = [at |-> "gone", files |-> <<>>, last |-> Blank, next |-> "", kid |-> 0]]
      BY <1>8, <2>2 DEF Exit, Gone, Idle
    <3>2. CallIs(p, "gone", <<>>, Blank, "", 0)
      BY <3>1, CallEdits
    <3>3. <<>> \in Seq(FileNo) /\ HandOK("gone", <<>>, Blank, "")
      BY DEF HandOK, IsInjective
    <3> QED  BY <1>b, <3>2, <3>3, CallGoes DEF FilePlaces
  <2>3. CASE ofile[p] # Nothing
    <3> DEFINE fd == Min(Fds \ Room(p))
               f == ofile[p][fd]
    <3>1. f \in FileNo
      <4>1. fd \in Fds /\ f # 0
        BY <2>3, Allocs
      <4>2. f \in 0 .. NFILE
        BY <4>1 DEF FilesTypeOK
      <4> QED  BY <4>1, <4>2 DEF FileNo, FilesConstants
    <3>2. CallIs(p, "close", <<f>>, c.last, "exit", c.kid)
      BY <1>8, <2>3, CallEdits DEF Exit, CloseThen
    <3> HIDE DEF f
    <3>3. <<f>> \in Seq(FileNo) /\ HandOK("close", <<f>>, c.last, "exit")
      BY <2>1, <3>1, Literals DEF HandOK
    <3> QED  BY <1>a, <3>2, <3>3, CallGoes DEF FilePlaces
  <2> QED  BY <2>2, <2>3
<1>9. CASE DropRef(p)
  <2>1. /\ c.last = Blank /\ IsInjective(c.files) /\ Len(c.files) \in {0, 1, 2} /\ c.next # ""
        /\ c.files # <<>> /\ c.at = "close" /\ Len(c.files) \in Nat
    BY <1>9, CallAt DEF DropRef, Closing, At
  <2>2. Tail(c.files) \in Seq(FileNo) /\ Len(Tail(c.files)) \in {0, 1, 2} /\ IsInjective(Tail(c.files))
    BY <1>a, <2>1, TailHand
  <2>3. CallIs(p, "close", Tail(c.files), c.last, c.next, c.kid)
    BY <1>9, <2>1, CallEdits DEF DropRef
  <2>4. HandOK("close", Tail(c.files), c.last, c.next)
    BY <2>1, <2>2 DEF HandOK
  <2> QED  BY <1>a, <2>2, <2>3, <2>4, CallGoes DEF FilePlaces
<1>10. CASE LastClose(p)
  <2> DEFINE f == Head(c.files)
  <2>1. /\ IsInjective(c.files) /\ Len(c.files) \in {0, 1, 2} /\ c.next # ""
        /\ c.files # <<>> /\ Len(c.files) \in Nat
    BY <1>10, CallAt DEF LastClose, Closing, At
  <2>2. /\ Tail(c.files) \in Seq(FileNo) /\ Len(Tail(c.files)) \in {0, 1, 2} /\ IsInjective(Tail(c.files))
        /\ f \in FileNo
    BY <1>a, <2>1, TailHand
  <2>3. CallIs(p, "release", Tail(c.files), ftable[f], c.next, c.kid)
    BY <1>10, CallEdits DEF LastClose
  <2>4. HandOK("release", Tail(c.files), ftable[f], c.next)
    BY <2>1, <2>2 DEF HandOK
  <2>5. ftable[f] \in FileRec
    BY <2>2 DEF FilesTypeOK
  <2> QED  BY <1>a, <2>2, <2>3, <2>4, <2>5, CallGoes DEF FilePlaces
<1>11. CASE Release(p)
  <2>1. IsInjective(c.files) /\ Len(c.files) \in {0, 1, 2} /\ c.next # ""
    BY <1>11, CallAt DEF Release, At
  <2>2. CallIs(p, "close", c.files, Blank, c.next, c.kid)
    BY <1>11, CallEdits DEF Release
  <2>3. HandOK("close", c.files, Blank, c.next)
    BY <2>1 DEF HandOK
  <2> QED  BY <1>a, <1>b, <2>2, <2>3, CallGoes DEF FilePlaces
<1>12. CASE Closed(p)
  <2>1. c.next \in {"user", "exit"}
    BY <1>a, <1>12, CallAt DEF Closed, At
  <2>2. call' = [call EXCEPT ![p] = [at |-> c.next, files |-> <<>>, last |-> Blank, next |-> "", kid |-> 0]]
    BY <1>12 DEF Closed, Idle, FilesTypeOK
  <2>3. CallIs(p, c.next, <<>>, Blank, "", 0)
    BY <2>2, CallEdits
  <2>4. <<>> \in Seq(FileNo) /\ HandOK(c.next, <<>>, Blank, "")
    BY <2>1 DEF HandOK, IsInjective
  <2> QED  BY <1>b, <2>1, <2>3, <2>4, CallGoes DEF FilePlaces
<1>13. CASE ForkDup(p)
  BY <1>13, CallStays DEF ForkDup
<1>14. ASSUME NEW fd \in Fds, Dup(p, fd) PROVE call' \in [Procs -> FileCall] /\ FilesInHand'
  BY <1>14, CallStays DEF Dup
<1>15. ASSUME NEW fd \in Fds, SysClose(p, fd) PROVE call' \in [Procs -> FileCall] /\ FilesInHand'
  <2> DEFINE f == ofile[p][fd]
  <2>1. f \in FileNo
    <3>1. f \in 0 .. NFILE /\ f # 0
      BY <1>15 DEF SysClose, FilesTypeOK
    <3> QED  BY <3>1 DEF FileNo, FilesConstants
  <2>2. c.last = Blank
    BY <1>15, CallAt DEF SysClose, At
  <2>3. Close(p, <<f>>)
    BY <1>15 DEF SysClose
  <2> HIDE DEF f
  <2>4. <<f>> \in Seq(FileNo) /\ Len(<<f>>) \in {0, 1, 2} /\ IsInjective(<<f>>)
    BY <2>1, Literals
  <2> QED  BY <1>e, <2>2, <2>3, <2>4
<1> QED
  BY <1>1, <1>2, <1>3, <1>4, <1>5, <1>6, <1>7, <1>8, <1>9, <1>10, <1>11, <1>12, <1>13, <1>14, <1>15
     DEF FileStep

\* The descriptors and the calls that hold a file are finitely many.
LEMMA HoldersFinite ==
    ASSUME FilesConstants, NEW f
    PROVE  IsFiniteSet(Descriptors(f)) /\ IsFiniteSet(InHand(f))
<1>1. IsFiniteSet(Procs \X Fds)
  BY FdsFinite, FS_Product DEF FilesConstants
<1>2. Descriptors(f) \subseteq Procs \X Fds /\ InHand(f) \subseteq Procs
  BY DEF Descriptors, InHand
<1> QED
  BY <1>1, <1>2, FS_Subset DEF FilesConstants

LEMMA TwoMembers == ASSUME NEW S, IsFiniteSet(S), NEW x \in S, NEW y \in S, x # y PROVE Cardinality(S) >= 2
<1>1. IsFiniteSet(S \ {x}) /\ Cardinality(S \ {x}) = Cardinality(S) - 1 /\ y \in S \ {x}
  BY Loses
<1>2. Cardinality(S \ {x}) # 0 /\ Cardinality(S \ {x}) \in Nat /\ Cardinality(S) \in Nat
  BY <1>1, FS_EmptySet, CardNat
<1> QED
  BY <1>1, <1>2

LEMMA OneMember == ASSUME NEW S, IsFiniteSet(S), NEW x \in S PROVE Cardinality(S) >= 1
<1>1. Cardinality(S) # 0 /\ Cardinality(S) \in Nat
  BY FS_EmptySet, CardNat
<1> QED
  BY <1>1

\* A descriptor, and a call that holds a file, are counted.
LEMMA Counted ==
    ASSUME FilesConstants, FilesTypeOK, RefsExact, NEW f \in FileNo
    PROVE  /\ ftable[f].ref \in Nat
           /\ Descriptors(f) # {} \/ InHand(f) # {} => ftable[f].ref >= 1
           /\ Descriptors(f) # {} /\ InHand(f) # {} => ftable[f].ref >= 2
           /\ \A p, q \in InHand(f) : p # q => ftable[f].ref >= 2
           /\ \A d, e \in Descriptors(f) : d # e => ftable[f].ref >= 2
<1> DEFINE D == Descriptors(f)
           H == InHand(f)
<1>1. IsFiniteSet(D) /\ IsFiniteSet(H)
  BY HoldersFinite
<1>2. ftable[f].ref = Cardinality(D) + Cardinality(H)
  BY DEF RefsExact
<1> HIDE DEF D, H
<1>3. Cardinality(D) \in Nat /\ Cardinality(H) \in Nat
  BY <1>1, CardNat
<1>4. (D # {} => Cardinality(D) >= 1) /\ (H # {} => Cardinality(H) >= 1)
  BY <1>1, OneMember
<1>5. (\A d, e \in D : d # e => Cardinality(D) >= 2) /\ (\A p, q \in H : p # q => Cardinality(H) >= 2)
  BY <1>1, TwoMembers
<1>6. (D # {} \/ H # {} => ftable[f].ref >= 1) /\ (D # {} /\ H # {} => ftable[f].ref >= 2)
  BY <1>2, <1>3, <1>4
<1>7. ASSUME NEW a \in H, NEW b \in H, a # b PROVE ftable[f].ref >= 2
  <2>1. Cardinality(H) >= 2
    BY <1>5, <1>7
  <2> QED  BY <1>2, <1>3, <2>1
<1>8. ASSUME NEW a \in D, NEW b \in D, a # b PROVE ftable[f].ref >= 2
  <2>1. Cardinality(D) >= 2
    BY <1>5, <1>8
  <2> QED  BY <1>2, <1>3, <2>1
<1> QED
  BY <1>2, <1>3, <1>6, <1>7, <1>8 DEF D, H

\* What pipe has in hand is its own.
LEMMA PipeOwn ==
    ASSUME FilesConstants, FilesTypeOK, RefsExact, PipeFiles,
           NEW q \in Procs, call[q].at \in {"pipe2", "page"}, NEW f \in Range(call[q].files)
    PROVE  /\ f \in FileNo /\ ftable[f].ref = 1 /\ ftable[f].type = "none"
           /\ Descriptors(f) = {} /\ InHand(f) = {q}
<1>1. f \in FileNo
  <2>1. call[q].files \in Seq(FileNo)
    BY CallParts
  <2> QED  BY <2>1 DEF Range
<1>2. ftable[f].ref = 1 /\ ftable[f].type = "none"
  BY DEF PipeFiles
<1>3. q \in InHand(f)
  BY DEF InHand, At
<1>4. Descriptors(f) = {}
  BY <1>1, <1>2, <1>3, Counted
<1>5. \A p \in InHand(f) : p = q
  BY <1>1, <1>2, <1>3, Counted
<1> QED
  BY <1>1, <1>2, <1>3, <1>4, <1>5

-----------------------------------------------------------------------------
\* The record of f becomes this, and the others' stay.
FileIs(f, ref, type, ip) ==
    ftable' = [e \in FileNo |-> IF e = f THEN [ref |-> ref, type |-> type, ip |-> ip] ELSE ftable[e]]

LEMMA FileEdits ==
    ASSUME FilesTypeOK, NEW f \in FileNo, NEW ref, NEW type, NEW ip
    PROVE  /\ ftable' = [ftable EXCEPT ![f] = [ref |-> ref, type |-> type, ip |-> ip]] => FileIs(f, ref, type, ip)
           /\ ftable' = [ftable EXCEPT ![f].ref = ref] => FileIs(f, ref, ftable[f].type, ftable[f].ip)
<1>1. ftable \in [FileNo -> FileRec] /\ ftable[f] \in FileRec
  BY DEF FilesTypeOK
<1>2. ASSUME ftable' = [ftable EXCEPT ![f].ref = ref] PROVE FileIs(f, ref, ftable[f].type, ftable[f].ip)
  <2>1. ftable'[f] = [ref |-> ref, type |-> ftable[f].type, ip |-> ftable[f].ip]
    BY <1>1, <1>2 DEF FileRec
  <2>2. ftable' = [e \in FileNo |-> ftable'[e]] /\ \A e \in FileNo : e # f => ftable'[e] = ftable[e]
    BY <1>1, <1>2
  <2> QED  BY <2>1, <2>2 DEF FileIs
<1>3. ASSUME ftable' = [ftable EXCEPT ![f] = [ref |-> ref, type |-> type, ip |-> ip]] PROVE FileIs(f, ref, type, ip)
  BY <1>1, <1>3 DEF FileIs
<1> QED
  BY <1>2, <1>3

LEMMA FileFields ==
    ASSUME FilesTypeOK, NEW f \in FileNo, NEW ref \in Nat, NEW type \in {"none", "inode", "read", "write"},
           NEW ip \in 0 .. NPages, FileIs(f, ref, type, ip)
    PROVE  /\ ftable' \in [FileNo -> FileRec]
           /\ ftable'[f] = [ref |-> ref, type |-> type, ip |-> ip]
           /\ ftable'[f].ref = ref /\ ftable'[f].type = type /\ ftable'[f].ip = ip
           /\ \A e \in FileNo : e # f => ftable'[e] = ftable[e]
<1>1. [ref |-> ref, type |-> type, ip |-> ip] \in FileRec
  BY DEF FileRec
<1>2. ftable'[f] = [ref |-> ref, type |-> type, ip |-> ip]
  BY DEF FileIs
<1>3. ftable'[f].ref = ref /\ ftable'[f].type = type /\ ftable'[f].ip = ip
  BY <1>2
<1>4. \A e \in FileNo : e # f => ftable'[e] = ftable[e]
  BY DEF FileIs
<1>5. ftable' \in [FileNo -> FileRec]
  BY <1>1 DEF FileIs, FilesTypeOK
<1> QED
  BY <1>2, <1>3, <1>4, <1>5

LEMMA RefFields ==
    ASSUME FilesTypeOK, NEW f \in FileNo, NEW ref \in Nat, FileIs(f, ref, ftable[f].type, ftable[f].ip)
    PROVE  /\ ftable' \in [FileNo -> FileRec]
           /\ ftable'[f].ref = ref /\ ftable'[f].type = ftable[f].type /\ ftable'[f].ip = ftable[f].ip
           /\ \A e \in FileNo : e # f => ftable'[e] = ftable[e]
<1>1. PICK type : type = ftable[f].type
  OBVIOUS
<1>2. PICK ip : ip = ftable[f].ip
  OBVIOUS
<1>3. type \in {"none", "inode", "read", "write"} /\ ip \in 0 .. NPages
  BY <1>1, <1>2, RecParts
<1>4. FileIs(f, ref, type, ip)
  BY <1>1, <1>2
<1>8. PICK rec : rec = [ref |-> ref, type |-> type, ip |-> ip]
  OBVIOUS
<1>9. rec \in FileRec /\ rec.ref = ref /\ rec.type = type /\ rec.ip = ip
  BY <1>3, <1>8 DEF FileRec
<1>10. ftable' = [e \in FileNo |-> IF e = f THEN rec ELSE ftable[e]]
  BY <1>4, <1>8 DEF FileIs
<1>5. ftable' \in [FileNo -> FileRec]
  BY <1>9, <1>10 DEF FilesTypeOK
<1>6. ftable'[f].ref = ref /\ ftable'[f].type = type /\ ftable'[f].ip = ip
  BY <1>9, <1>10
<1>7. \A e \in FileNo : e # f => ftable'[e] = ftable[e]
  BY <1>10
<1> QED
  BY <1>1, <1>2, <1>5, <1>6, <1>7

\* The descriptors of f, and the calls that hold it, after the step.
DescriptorsAfter(f) == {d \in Procs \X Fds : ofile'[d[1]][d[2]] = f}
InHandAfter(f)      == {p \in Procs : ~ (call'[p].at = "copyout") /\ f \in Range(call'[p].files)}

\* Descriptor fd of p becomes f.
DescriptorBe(p, fd, f) == ofile' = [ofile EXCEPT ![p][fd] = f]

LEMMA DescriptorIs ==
    ASSUME FilesTypeOK, NEW p \in Procs, NEW fd \in Fds, NEW f \in 0 .. NFILE,
           DescriptorBe(p, fd, f)
    PROVE  /\ ofile' \in [Procs -> [Fds -> 0 .. NFILE]]
           /\ ofile'[p][fd] = f
           /\ \A d \in Fds : d # fd => ofile'[p][d] = ofile[p][d]
           /\ \A q \in Procs : q # p => ofile'[q] = ofile[q]
  BY DEF FilesTypeOK, DescriptorBe

LEMMA DescriptorSet ==
    ASSUME FilesTypeOK, NEW p \in Procs, NEW fd \in Fds, NEW f \in 0 .. NFILE, NEW e \in FileNo,
           DescriptorBe(p, fd, f)
    PROVE  /\ e = f /\ ofile[p][fd] # f => DescriptorsAfter(e) = Descriptors(e) \cup {<<p, fd>>} /\ <<p, fd>> \notin Descriptors(e)
           /\ e # f /\ ofile[p][fd] # e => DescriptorsAfter(e) = Descriptors(e)
           /\ e # f /\ ofile[p][fd] = e => DescriptorsAfter(e) = Descriptors(e) \ {<<p, fd>>} /\ <<p, fd>> \in Descriptors(e)
<1>1. /\ ofile'[p][fd] = f
      /\ \A d \in Fds : d # fd => ofile'[p][d] = ofile[p][d]
      /\ \A q \in Procs : q # p => ofile'[q] = ofile[q]
  BY DescriptorIs
<1>2. <<p, fd>> \in Procs \X Fds /\ <<p, fd>>[1] = p /\ <<p, fd>>[2] = fd
  OBVIOUS
<1>3. \A d \in Procs \X Fds : d[1] \in Procs /\ d[2] \in Fds /\ d = <<d[1], d[2]>>
  OBVIOUS
<1>4. \A d \in Procs \X Fds : d # <<p, fd>> => ofile'[d[1]][d[2]] = ofile[d[1]][d[2]]
  BY <1>1, <1>3
<1> QED
  BY <1>1, <1>2, <1>4 DEF Descriptors, DescriptorsAfter
-----------------------------------------------------------------------------
(* References. *)

Cd(f)      == Cardinality(Descriptors(f))
Ch(f)      == Cardinality(InHand(f))
CdAfter(f) == Cardinality(DescriptorsAfter(f))
ChAfter(f) == Cardinality(InHandAfter(f))

LEMMA CountsNat == ASSUME FilesConstants, NEW f PROVE Cd(f) \in Nat /\ Ch(f) \in Nat
  BY HoldersFinite, CardNat DEF Cd, Ch

LEMMA CountsSame ==
    ASSUME NEW e
    PROVE  /\ DescriptorsAfter(e) = Descriptors(e) => CdAfter(e) = Cd(e)
           /\ InHandAfter(e) = InHand(e) => ChAfter(e) = Ch(e)
           /\ UNCHANGED ofile => CdAfter(e) = Cd(e)
           /\ UNCHANGED call => ChAfter(e) = Ch(e)
  BY DEF Cd, Ch, CdAfter, ChAfter, Descriptors, DescriptorsAfter, InHand, InHandAfter, At

LEMMA DescriptorCount ==
    ASSUME FilesConstants, FilesTypeOK, NEW p \in Procs, NEW fd \in Fds, NEW f \in 0 .. NFILE, NEW e \in FileNo,
           DescriptorBe(p, fd, f)
    PROVE  /\ e = f /\ ofile[p][fd] # f => CdAfter(e) = Cd(e) + 1
           /\ e # f /\ ofile[p][fd] # e => CdAfter(e) = Cd(e)
           /\ e # f /\ ofile[p][fd] = e => CdAfter(e) = Cd(e) - 1
<1> DEFINE D == Descriptors(e)
<1>0. PICK T : T = DescriptorsAfter(e)
  OBVIOUS
<1>1. IsFiniteSet(D)
  BY HoldersFinite
<1>2. /\ e = f /\ ofile[p][fd] # f => T = D \cup {<<p, fd>>} /\ <<p, fd>> \notin D
      /\ e # f /\ ofile[p][fd] # e => T = D
      /\ e # f /\ ofile[p][fd] = e => T = D \ {<<p, fd>>} /\ <<p, fd>> \in D
  BY <1>0, DescriptorSet
<1>3. Cd(e) = Cardinality(D) /\ CdAfter(e) = Cardinality(T)
  BY <1>0 DEF Cd, CdAfter
<1> HIDE DEF D
<1> QED
  BY <1>1, <1>2, <1>3, Gains, Loses

\* The hand of a call.
Held(at, files, e) == at # "copyout" /\ e \in Range(files)

LEMMA HandSet ==
    ASSUME NEW p \in Procs, NEW at, NEW files, NEW last, NEW next, NEW kid, NEW e,
           CallIs(p, at, files, last, next, kid)
    PROVE  /\ p \in InHand(e) <=> Held(call[p].at, call[p].files, e)
           /\ Held(at, files, e) => InHandAfter(e) = InHand(e) \cup {p}
           /\ ~ Held(at, files, e) => InHandAfter(e) = InHand(e) \ {p}
<1>1. call'[p].at = at /\ call'[p].files = files
  BY CallFields
<1>2. \A q \in Procs : q # p => call'[q] = call[q]
  BY DEF CallIs
<1>3. InHandAfter(e) = {q \in Procs : ~ (call'[q].at = "copyout") /\ e \in Range(call'[q].files)}
  BY DEF InHandAfter
<1>4. InHand(e) = {q \in Procs : ~ (call[q].at = "copyout") /\ e \in Range(call[q].files)}
  BY DEF InHand, At
<1> QED
  BY <1>1, <1>2, <1>3, <1>4 DEF Held

LEMMA HandCount ==
    ASSUME FilesConstants, NEW p \in Procs, NEW at, NEW files, NEW last, NEW next, NEW kid, NEW e,
           CallIs(p, at, files, last, next, kid)
    PROVE  LET old == Held(call[p].at, call[p].files, e)
               new == Held(at, files, e)
           IN  /\ (old <=> new) => ChAfter(e) = Ch(e)
               /\ new /\ ~ old => ChAfter(e) = Ch(e) + 1
               /\ old /\ ~ new => ChAfter(e) = Ch(e) - 1
<1> DEFINE H == InHand(e)
<1>0. PICK T : T = InHandAfter(e)
  OBVIOUS
<1>1. IsFiniteSet(H)
  BY HoldersFinite
<1>2. p \in InHand(e) <=> Held(call[p].at, call[p].files, e)
  BY HandSet
<1>5. Held(at, files, e) => InHandAfter(e) = InHand(e) \cup {p}
  BY HandSet
<1>6. ~ Held(at, files, e) => InHandAfter(e) = InHand(e) \ {p}
  BY HandSet
<1>7. /\ p \in H <=> Held(call[p].at, call[p].files, e)
      /\ Held(at, files, e) => T = H \cup {p}
      /\ ~ Held(at, files, e) => T = H \ {p}
  BY <1>0, <1>2, <1>5, <1>6
<1>3. Ch(e) = Cardinality(H) /\ ChAfter(e) = Cardinality(T)
  BY <1>0 DEF Ch, ChAfter
<1> HIDE DEF H
<1>4. (p \in H => H \cup {p} = H) /\ (p \notin H => H \ {p} = H)
  OBVIOUS
<1> QED
  BY <1>1, <1>7, <1>3, <1>4, Gains, Loses
-----------------------------------------------------------------------------
(* What the actions do, in ten kinds of step. *)

\* open.
Opens(p, fd, f) ==
    /\ At(p, "user") /\ ofile[p][fd] = 0 /\ ftable[f] = Blank
    /\ DescriptorBe(p, fd, f) /\ FileIs(f, 1, "inode", 0)
    /\ inode' = inode + 1 /\ UNCHANGED <<pages, call>>

\* A file is taken in hand.
Takes(p, f, at, files, next) ==
    /\ \/ At(p, "user") /\ at \in {"pipe2", "close"}
       \/ At(p, "pipe2") /\ at = "page"
    /\ ftable[f] = Blank /\ FileIs(f, 1, "none", 0)
    /\ CallIs(p, at, files, call[p].last, next, call[p].kid)
    /\ Range(files) = Range(call[p].files) \cup {f} /\ f \notin Range(call[p].files)
    /\ UNCHANGED <<ofile, pages, inode>>

\* A descriptor of p is copied to one of q's.
Shares(p, q, fd, f) ==
    /\ \/ At(p, "user") /\ q = p
       \/ At(p, "fork") /\ q = call[p].kid /\ ofile[p][fd] = f
    /\ ofile[q][fd] = 0 /\ (\E d \in Fds : ofile[p][d] = f)
    /\ DescriptorBe(q, fd, f) /\ FileIs(f, ftable[f].ref + 1, ftable[f].type, ftable[f].ip)
    /\ UNCHANGED <<pages, inode, call>>

\* A descriptor's file is taken in hand.
Picks(p, fd, f, next) ==
    /\ At(p, "user") \/ At(p, "exit")
    /\ ofile[p][fd] = f /\ DescriptorBe(p, fd, 0)
    /\ CallIs(p, "close", <<f>>, call[p].last, next, call[p].kid)
    /\ UNCHANGED <<ftable, pages, inode>>

\* The call goes on, and holds what it held.
Turns(p, at, files, next, kid) ==
    /\ at \in {"close", "user", "exit", "gone"} /\ (at = "gone" => ofile[p] = Nothing)
    /\ ~ At(p, "release") /\ ~ At(p, "fork") /\ ~ At(p, "new") /\ ~ At(p, "gone")
    /\ CallIs(p, at, files, call[p].last, next, kid)
    /\ \A e \in FileNo : Held(call[p].at, call[p].files, e) <=> Held(at, files, e)
    /\ UNCHANGED <<ofile, ftable, pages, inode>>

\* A file's end is given to pipe, and its type; to the two descriptors, too, if
\* there are.
Pipes(p, r, w, g) ==
    /\ At(p, "page") /\ Range(call[p].files) = {r, w} /\ r # w
    /\ g \in 1 .. NPages /\ pages[g] = {} /\ pages' = [pages EXCEPT ![g] = Ends]
    /\ ftable' = [e \in FileNo |-> IF e = r THEN [ref |-> 1, type |-> "read", ip |-> g] ELSE
                                   IF e = w THEN [ref |-> 1, type |-> "write", ip |-> g] ELSE ftable[e]]
    /\ UNCHANGED inode
    /\ \/ /\ CallIs(p, "close", call[p].files, call[p].last, "user", call[p].kid) /\ UNCHANGED ofile
       \/ /\ CallIs(p, "copyout", call[p].files, call[p].last, call[p].next, call[p].kid)
          /\ \E a, b \in Fds :
               /\ a # b /\ ofile[p][a] = 0 /\ ofile[p][b] = 0
               /\ ofile' \in [Procs -> [Fds -> 0 .. NFILE]]
               /\ ofile'[p][a] = r /\ ofile'[p][b] = w
               /\ \A d \in Fds : d # a /\ d # b => ofile'[p][d] = ofile[p][d]
               /\ \A q \in Procs : q # p => ofile'[q] = ofile[q]

\* The two descriptors are taken back.
Faults(p) ==
    /\ At(p, "copyout")
    /\ CallIs(p, "close", call[p].files, call[p].last, "user", call[p].kid)
    /\ ofile' \in [Procs -> [Fds -> 0 .. NFILE]]
    /\ \A d \in Fds : ofile'[p][d] = IF ofile[p][d] \in Range(call[p].files) THEN 0 ELSE ofile[p][d]
    /\ \A q \in Procs : q # p => ofile'[q] = ofile[q]
    /\ UNCHANGED <<ftable, pages, inode>>

\* fileclose, and what follows the last one.
Drops(p, f) ==
    /\ At(p, "close") /\ f \in Range(call[p].files) /\ ftable[f].ref > 1
    /\ FileIs(f, ftable[f].ref - 1, ftable[f].type, ftable[f].ip)
    /\ CallIs(p, "close", Tail(call[p].files), call[p].last, call[p].next, call[p].kid)
    /\ Range(Tail(call[p].files)) = Range(call[p].files) \ {f}
    /\ UNCHANGED <<ofile, pages, inode>>
Frees(p, f) ==
    /\ At(p, "close") /\ f \in Range(call[p].files) /\ ftable[f].ref = 1
    /\ FileIs(f, 0, "none", 0)
    /\ CallIs(p, "release", Tail(call[p].files), ftable[f], call[p].next, call[p].kid)
    /\ Range(Tail(call[p].files)) = Range(call[p].files) \ {f}
    /\ UNCHANGED <<ofile, pages, inode>>
Releases(p) ==
    /\ At(p, "release")
    /\ pages' = IF call[p].last.type \in Ends THEN [pages EXCEPT ![call[p].last.ip] = @ \ {call[p].last.type}] ELSE pages
    /\ inode' = IF call[p].last.type = "inode" THEN inode - 1 ELSE inode
    /\ CallIs(p, "close", call[p].files, Blank, call[p].next, call[p].kid)
    /\ UNCHANGED <<ofile, ftable>>

\* One of them.
Moves(p) ==
    \/ \E fd \in Fds, f \in FileNo : Opens(p, fd, f)
    \/ \E f \in FileNo, at \in FilePlaces, files \in Seq(FileNo), next \in {"", "user", "exit"} : Takes(p, f, at, files, next)
    \/ \E q \in Procs, fd \in Fds, f \in FileNo : Shares(p, q, fd, f)
    \/ \E fd \in Fds, f \in FileNo, next \in {"", "user", "exit"} : Picks(p, fd, f, next)
    \/ \E at \in FilePlaces, files \in Seq(FileNo), next \in {"", "user", "exit"}, kid \in Procs \cup {0} :
         Turns(p, at, files, next, kid)
    \/ \E r, w \in FileNo, g \in 1 .. NPages : Pipes(p, r, w, g)
    \/ Faults(p) \/ Releases(p)
    \/ \E f \in FileNo : Drops(p, f) \/ Frees(p, f)

LEMMA UnusedIs ==
    ASSUME FilesConstants, FilesTypeOK, UnusedBlank, Unused # {}
    PROVE  /\ FileAlloc \in FileNo /\ ftable[FileAlloc].ref = 0 /\ ftable[FileAlloc] = Blank
           /\ ftable[FileAlloc].type = "none" /\ ftable[FileAlloc].ip = 0
<1>1. FileAlloc \in FileNo /\ ftable[FileAlloc].ref = 0
  BY Allocs
<1>2. ftable[FileAlloc] = Blank
  BY <1>1 DEF UnusedBlank
<1> QED
  BY <1>1, <1>2 DEF Blank

LEMMA OpenMoves ==
    ASSUME FilesConstants, FilesTypeOK, FilesInHand, UnusedBlank, NEW p \in Procs, Open(p)
    PROVE  \E fd \in Fds, f \in FileNo : Opens(p, fd, f)
<1> DEFINE fd == Min(Room(p))
<1>1. fd \in Fds /\ ofile[p][fd] = 0
  BY Allocs DEF Open
<1>2. FileAlloc \in FileNo /\ ftable[FileAlloc] = Blank
  BY UnusedIs DEF Open
<1>3. DescriptorBe(p, fd, FileAlloc)
  BY <1>1 DEF Open, FdAlloc, DescriptorBe, FilesTypeOK
<1>4. FileIs(FileAlloc, 1, "inode", 0)
  BY <1>2, FileEdits DEF Open
<1>5. Opens(p, fd, FileAlloc)
  BY <1>1, <1>2, <1>3, <1>4 DEF Open, Opens
<1> QED
  BY <1>1, <1>2, <1>5

LEMMA OpenFailsMoves ==
    ASSUME FilesConstants, FilesTypeOK, FilesInHand, UnusedBlank, NEW p \in Procs, OpenFails(p)
    PROVE  \E f \in FileNo, at \in FilePlaces, files \in Seq(FileNo), next \in {"", "user", "exit"} : Takes(p, f, at, files, next)
<1>1. FileAlloc \in FileNo /\ ftable[FileAlloc] = Blank /\ ftable[FileAlloc].type = "none" /\ ftable[FileAlloc].ip = 0
  BY UnusedIs DEF OpenFails
<1>2. FileIs(FileAlloc, 1, "none", 0)
  BY <1>1, FileEdits DEF OpenFails
<1>3. PICK fs : fs = <<FileAlloc>>
  OBVIOUS
<1>8. fs \in Seq(FileNo)
  BY <1>1, <1>3, Literals
<1>4. CallIs(p, "close", fs, call[p].last, "user", call[p].kid)
  <2>1. Close(p, fs)
    BY <1>3 DEF OpenFails
  <2> QED  BY <2>1, CallEdits DEF Close, CloseThen
<1>5. Range(fs) = {FileAlloc}
  BY <1>1, <1>3, Literals
<1>6. Range(call[p].files) = {}
  <2>1. call[p].files = <<>>
    BY CallAt DEF OpenFails
  <2> QED  BY <2>1 DEF Range
<1>7. Takes(p, FileAlloc, "close", fs, "user")
  <2>1. At(p, "user") /\ UNCHANGED <<ofile, pages, inode>>
    BY DEF OpenFails
  <2> QED  BY <1>1, <1>2, <1>4, <1>5, <1>6, <2>1 DEF Takes
<1> QED
  BY <1>1, <1>7, <1>8 DEF FilePlaces

LEMMA PipeFileMoves ==
    ASSUME FilesConstants, FilesTypeOK, FilesInHand, UnusedBlank, PipeFiles, NEW p \in Procs, PipeFile(p)
    PROVE  \/ \E f \in FileNo, at \in FilePlaces, files \in Seq(FileNo), next \in {"", "user", "exit"} : Takes(p, f, at, files, next)
           \/ \E at \in FilePlaces, files \in Seq(FileNo), next \in {"", "user", "exit"}, kid \in Procs \cup {0} :
                Turns(p, at, files, next, kid)
<1>1. call[p].files \in Seq(FileNo) /\ call[p].kid \in Procs \cup {0} /\ call[p].next \in {"", "user", "exit"}
  BY CallParts
<1>2. At(p, "user") \/ At(p, "pipe2")
  BY DEF PipeFile
<1>3. CASE Unused = {}
  <2>1. Close(p, call[p].files)
    BY <1>3 DEF PipeFile
  <2>2. CallIs(p, "close", call[p].files, call[p].last, "user", call[p].kid)
    BY <2>1, CallEdits DEF Close, CloseThen
  <2>3. \A e : Held(call[p].at, call[p].files, e) <=> Held("close", call[p].files, e)
    BY <1>2 DEF Held, At
  <2>4. UNCHANGED <<ofile, ftable, pages, inode>>
    BY <1>3 DEF PipeFile
  <2>5. Turns(p, "close", call[p].files, "user", call[p].kid)
    BY <1>2, <2>2, <2>3, <2>4 DEF Turns, At
  <2> QED  BY <1>1, <2>5 DEF FilePlaces
<1>4. CASE Unused # {}
  <2>1. FileAlloc \in FileNo /\ ftable[FileAlloc] = Blank /\ ftable[FileAlloc].type = "none" /\ ftable[FileAlloc].ip = 0
        /\ ftable[FileAlloc].ref = 0
    BY <1>4, UnusedIs
  <2>2. FileIs(FileAlloc, 1, "none", 0)
    BY <1>4, <2>1, FileEdits DEF PipeFile
  <2>3. PICK at : at = IF At(p, "user") THEN "pipe2" ELSE "page"
    OBVIOUS
  <2>4. PICK fs : fs = Append(call[p].files, FileAlloc)
    OBVIOUS
  <2>5. fs \in Seq(FileNo) /\ Range(fs) = Range(call[p].files) \cup {FileAlloc}
    <3>1. Append(call[p].files, FileAlloc) \in Seq(FileNo)
      BY <1>1, <2>1, AppendParts
    <3>2. ASSUME NEW s \in Seq(FileNo), NEW x \in FileNo PROVE Range(Append(s, x)) = Range(s) \cup {x}
      BY AppendParts
    <3>3. Range(Append(call[p].files, FileAlloc)) = Range(call[p].files) \cup {FileAlloc}
      BY <1>1, <2>1, <3>2
    <3> QED  BY <2>4, <3>1, <3>3
  <2>6. FileAlloc \notin Range(call[p].files)
    <3>1. CASE At(p, "user")
      <4>1. call[p].files = <<>>
        BY <3>1, CallAt
      <4> QED  BY <4>1 DEF Range
    <3>2. CASE At(p, "pipe2")
      BY <2>1, <3>2 DEF PipeFiles, At
    <3> QED  BY <1>2, <3>1, <3>2
  <2>7. CallIs(p, at, fs, call[p].last, call[p].next, call[p].kid)
    <3>1. Goto(p, at, fs)
      BY <1>4, <2>3, <2>4 DEF PipeFile
    <3> QED  BY <3>1, CallEdits DEF Goto
  <2>8. UNCHANGED <<ofile, pages, inode>>
    BY DEF PipeFile
  <2>9. Takes(p, FileAlloc, at, fs, call[p].next)
    BY <1>2, <2>1, <2>2, <2>3, <2>5, <2>6, <2>7, <2>8 DEF Takes, At
  <2> QED  BY <1>1, <2>1, <2>3, <2>5, <2>9 DEF FilePlaces
<1> QED
  BY <1>3, <1>4

LEMMA DupMoves ==
    ASSUME FilesConstants, FilesTypeOK, NEW p \in Procs, NEW fd \in Fds, Dup(p, fd)
    PROVE  \E q \in Procs, d \in Fds, f \in FileNo : Shares(p, q, d, f)
<1> DEFINE d == Min(Room(p))
<1>0. PICK f : f = ofile[p][fd]
  OBVIOUS
<1>1. d \in Fds /\ ofile[p][d] = 0
  BY Allocs DEF Dup
<1>2. f \in FileNo
  <2>1. f \in 0 .. NFILE /\ f # 0
    BY <1>0 DEF Dup, FilesTypeOK
  <2> QED  BY <2>1 DEF FileNo, FilesConstants
<1>3. DescriptorBe(p, d, f)
  BY <1>0, <1>1 DEF Dup, FdAlloc, DescriptorBe, FilesTypeOK
<1>4. FileIs(f, ftable[f].ref + 1, ftable[f].type, ftable[f].ip)
  <2>1. ftable' = [ftable EXCEPT ![f].ref = ftable[f].ref + 1]
    BY <1>0, <1>2 DEF Dup, FilesTypeOK
  <2> QED  BY <1>2, <2>1, FileEdits
<1>5. Shares(p, p, d, f)
  BY <1>0, <1>1, <1>3, <1>4 DEF Dup, Shares
<1> QED
  BY <1>1, <1>2, <1>5

LEMMA ForkDupMoves ==
    ASSUME FilesConstants, FilesTypeOK, Kids, NEW p \in Procs, ForkDup(p)
    PROVE  \E q \in Procs, d \in Fds, f \in FileNo : Shares(p, q, d, f)
<1>0. PICK q : q = call[p].kid
  OBVIOUS
<1>1. q \in Procs /\ \A fd \in Fds : ofile[q][fd] \in {0, ofile[p][fd]}
  BY <1>0 DEF Kids, ForkDup, At
<1>2. PICK d : d = Min(Left(p))
  OBVIOUS
<1>3. d \in Left(p)
  <2>1. Left(p) \in SUBSET (0 .. NOFILE - 1)
    BY DEF Left, Fds
  <2>2. Left(p) # {}
    BY DEF ForkDup
  <2>3. NOFILE - 1 \in Int
    BY DEF FilesConstants
  <2> QED  BY <1>2, <2>1, <2>2, <2>3, LeastOf
<1>4. d \in Fds /\ ofile[p][d] # ofile[q][d]
  BY <1>0, <1>3 DEF Left
<1>5. ofile[q][d] = 0
  BY <1>1, <1>4
<1>6. PICK f : f = ofile[p][d]
  OBVIOUS
<1>7. f \in FileNo
  <2>1. f \in 0 .. NFILE /\ f # 0
    BY <1>4, <1>5, <1>6 DEF FilesTypeOK
  <2> QED  BY <2>1 DEF FileNo, FilesConstants
<1>8. DescriptorBe(q, d, f)
  BY <1>0, <1>2, <1>6 DEF ForkDup, DescriptorBe
<1>9. FileIs(f, ftable[f].ref + 1, ftable[f].type, ftable[f].ip)
  <2>1. ftable' = [ftable EXCEPT ![f].ref = ftable[f].ref + 1]
    BY <1>2, <1>6, <1>7 DEF ForkDup, FilesTypeOK
  <2> QED  BY <1>7, <2>1, FileEdits
<1>10. Shares(p, q, d, f)
  BY <1>0, <1>4, <1>5, <1>6, <1>8, <1>9 DEF ForkDup, Shares
<1> QED
  BY <1>1, <1>4, <1>7, <1>10

LEMMA CloseMoves ==
    ASSUME FilesConstants, FilesTypeOK, FilesInHand, NEW p \in Procs, \E fd \in Fds : SysClose(p, fd)
    PROVE  \E fd \in Fds, f \in FileNo, next \in {"", "user", "exit"} : Picks(p, fd, f, next)
<1>1. PICK fd \in Fds : SysClose(p, fd)
  OBVIOUS
<1>2. PICK f : f = ofile[p][fd]
  OBVIOUS
<1>3. f \in FileNo
  <2>1. f \in 0 .. NFILE /\ f # 0
    BY <1>1, <1>2 DEF SysClose, FilesTypeOK
  <2> QED  BY <2>1 DEF FileNo, FilesConstants
<1>4. CallIs(p, "close", <<f>>, call[p].last, "user", call[p].kid)
  <2>1. Close(p, <<f>>)
    BY <1>1, <1>2 DEF SysClose
  <2> QED  BY <2>1, CallEdits DEF Close, CloseThen
<1>5. Picks(p, fd, f, "user")
  BY <1>1, <1>2, <1>4 DEF SysClose, Picks, DescriptorBe
<1> QED
  BY <1>3, <1>5

LEMMA ExitMoves ==
    ASSUME FilesConstants, FilesTypeOK, FilesInHand, NEW p \in Procs, Exit(p)
    PROVE  \/ \E fd \in Fds, f \in FileNo, next \in {"", "user", "exit"} : Picks(p, fd, f, next)
           \/ \E at \in FilePlaces, files \in Seq(FileNo), next \in {"", "user", "exit"}, kid \in Procs \cup {0} :
                Turns(p, at, files, next, kid)
<1>1. At(p, "user") \/ At(p, "exit")
  BY DEF Exit
<1>2. call[p].last = Blank /\ HandOK(call[p].at, call[p].files, call[p].last, call[p].next)
  BY <1>1, CallAt DEF At, FilesInHand
<1>3. Range(call[p].files) = {}
  <2>1. Len(call[p].files) = 0 /\ call[p].files \in Seq(FileNo)
    BY <1>1, <1>2, CallParts DEF HandOK, At
  <2>2. call[p].files = <<>>
    BY <2>1
  <2> QED  BY <2>2 DEF Range
<1>4. CASE ofile[p] = Nothing
  <2>1. call' = [call EXCEPT ![p] = [at |-> "gone", files |-> <<>>, last |-> Blank, next |-> "", kid |-> 0]]
    BY <1>4 DEF Exit, Gone, Idle
  <2>2. CallIs(p, "gone", <<>>, call[p].last, "", 0)
    BY <1>2, <2>1, CallEdits
  <2>3. \A e : Held(call[p].at, call[p].files, e) <=> Held("gone", <<>>, e)
    <3>1. Range(<<>>) = {}
      BY DEF Range
    <3> QED  BY <1>3, <3>1 DEF Held
  <2>4. UNCHANGED <<ofile, ftable, pages, inode>>
    BY <1>4 DEF Exit
  <2>5. Turns(p, "gone", <<>>, "", 0)
    BY <1>1, <1>4, <2>2, <2>3, <2>4 DEF Turns, At
  <2>6. "gone" \in FilePlaces /\ <<>> \in Seq(FileNo)
    BY DEF FilePlaces
  <2> QED  BY <2>5, <2>6
<1>5. CASE ofile[p] # Nothing
  <2>1. PICK fd : fd = Min(Fds \ Room(p))
    OBVIOUS
  <2>2. fd \in Fds /\ ofile[p][fd] # 0
    BY <1>5, <2>1, Allocs
  <2>3. PICK f : f = ofile[p][fd]
    OBVIOUS
  <2>4. f \in FileNo
    <3>1. f \in 0 .. NFILE /\ f # 0
      BY <2>2, <2>3 DEF FilesTypeOK
    <3> QED  BY <3>1 DEF FileNo, FilesConstants
  <2>5. CallIs(p, "close", <<f>>, call[p].last, "exit", call[p].kid)
    <3>1. CloseThen(p, <<f>>, "exit")
      BY <1>5, <2>1, <2>3 DEF Exit
    <3> QED  BY <3>1, CallEdits DEF CloseThen
  <2>6. DescriptorBe(p, fd, 0) /\ UNCHANGED <<ftable, pages, inode>>
    BY <1>5, <2>1 DEF Exit, DescriptorBe
  <2>7. Picks(p, fd, f, "exit")
    BY <1>1, <2>3, <2>5, <2>6 DEF Picks
  <2> QED  BY <2>2, <2>4, <2>7
<1> QED
  BY <1>4, <1>5

LEMMA TurnMoves ==
    ASSUME FilesConstants, FilesTypeOK, FilesInHand, NEW p \in Procs, PipeNoPage(p) \/ PipeReturns(p) \/ Closed(p)
    PROVE  \E at \in FilePlaces, files \in Seq(FileNo), next \in {"", "user", "exit"}, kid \in Procs \cup {0} :
             Turns(p, at, files, next, kid)
<1>1. call[p].files \in Seq(FileNo) /\ call[p].kid \in Procs \cup {0} /\ call[p].next \in {"", "user", "exit"}
  BY CallParts
<1>2. CASE PipeNoPage(p)
  <2>1. Close(p, call[p].files)
    BY <1>2 DEF PipeNoPage
  <2>2. CallIs(p, "close", call[p].files, call[p].last, "user", call[p].kid)
    BY <2>1, CallEdits DEF Close, CloseThen
  <2>3. \A e : Held(call[p].at, call[p].files, e) <=> Held("close", call[p].files, e)
    BY <1>2 DEF PipeNoPage, Held, At
  <2>5. Turns(p, "close", call[p].files, "user", call[p].kid)
    BY <1>2, <2>2, <2>3 DEF PipeNoPage, Turns, At
  <2> QED  BY <1>1, <2>5 DEF FilePlaces
<1>3. CASE PipeReturns(p)
  <2>1. CallIs(p, "user", <<>>, call[p].last, call[p].next, call[p].kid)
    BY <1>3, CallEdits DEF PipeReturns, Goto
  <2>2. \A e : Held(call[p].at, call[p].files, e) <=> Held("user", <<>>, e)
    BY <1>3 DEF PipeReturns, Held, At, Range
  <2>3. Turns(p, "user", <<>>, call[p].next, call[p].kid)
    BY <1>3, <2>1, <2>2 DEF PipeReturns, Turns, At
  <2>4. <<>> \in Seq(FileNo) /\ "user" \in FilePlaces
    BY DEF FilePlaces
  <2> QED  BY <1>1, <2>3, <2>4
<1>4. CASE Closed(p)
  <2>1. call[p].next \in {"user", "exit"} /\ call[p].last = Blank /\ call[p].files = <<>>
    BY <1>1, <1>4, CallAt DEF Closed, At
  <2>2. call' = [call EXCEPT ![p] = [at |-> call[p].next, files |-> <<>>, last |-> Blank, next |-> "", kid |-> 0]]
    BY <1>4 DEF Closed, Idle, FilesTypeOK
  <2>3. CallIs(p, call[p].next, <<>>, call[p].last, "", 0)
    BY <2>1, <2>2, CallEdits
  <2>4. \A e : Held(call[p].at, call[p].files, e) <=> Held(call[p].next, <<>>, e)
    BY <2>1 DEF Held, Range
  <2>5. Turns(p, call[p].next, <<>>, "", 0)
    BY <1>4, <2>1, <2>3, <2>4 DEF Closed, Turns, At
  <2>6. call[p].next \in FilePlaces /\ <<>> \in Seq(FileNo)
    BY <2>1 DEF FilePlaces
  <2> QED  BY <2>5, <2>6
<1> QED
  BY <1>2, <1>3, <1>4

EndsGiven(r, w, g) ==
    ftable' = [ftable EXCEPT ![r].type = "read", ![w].type = "write", ![r].ip = g, ![w].ip = g]

LEMMA TwoEnds ==
    ASSUME FilesTypeOK, NEW r \in FileNo, NEW w \in FileNo, r # w, NEW g, ftable[r].ref = 1, ftable[w].ref = 1, EndsGiven(r, w, g)
    PROVE  ftable' = [e \in FileNo |-> IF e = r THEN [ref |-> 1, type |-> "read", ip |-> g] ELSE
                                       IF e = w THEN [ref |-> 1, type |-> "write", ip |-> g] ELSE ftable[e]]
<1>1. ftable \in [FileNo -> FileRec] /\ ftable[r] \in FileRec /\ ftable[w] \in FileRec
  BY DEF FilesTypeOK
<1>2. PICK f1 : f1 = [ftable EXCEPT ![r].type = "read"]
  OBVIOUS
<1>3. PICK f2 : f2 = [f1 EXCEPT ![w].type = "write"]
  OBVIOUS
<1>4. PICK f3 : f3 = [f2 EXCEPT ![r].ip = g]
  OBVIOUS
<1>0. PICK f4 : f4 = ftable'
  OBVIOUS
<1>5. f4 = [f3 EXCEPT ![w].ip = g]
  BY <1>0, <1>2, <1>3, <1>4 DEF EndsGiven
<1>6. /\ DOMAIN f1 = FileNo /\ f1[r] = [ref |-> 1, type |-> "read", ip |-> ftable[r].ip]
      /\ \A e \in FileNo : e # r => f1[e] = ftable[e]
      /\ f1 = [e \in FileNo |-> f1[e]]
  BY <1>1, <1>2 DEF FileRec
<1>7. /\ DOMAIN f2 = FileNo /\ f2[w] = [ref |-> 1, type |-> "write", ip |-> ftable[w].ip]
      /\ \A e \in FileNo : e # w => f2[e] = f1[e]
      /\ f2 = [e \in FileNo |-> f2[e]]
  <2>1. f1[w] \in FileRec /\ f1[w].ref = 1 /\ f1[w].ip = ftable[w].ip
    BY <1>1, <1>6
  <2> QED  BY <1>3, <1>6, <2>1 DEF FileRec
<1>8. /\ DOMAIN f3 = FileNo /\ f3[r] = [ref |-> 1, type |-> "read", ip |-> g]
      /\ \A e \in FileNo : e # r => f3[e] = f2[e]
      /\ f3 = [e \in FileNo |-> f3[e]]
  <2>1. f2[r] = [ref |-> 1, type |-> "read", ip |-> ftable[r].ip]
    BY <1>6, <1>7
  <2> QED  BY <1>4, <1>7, <2>1
<1>9. /\ DOMAIN f4 = FileNo /\ f4[w] = [ref |-> 1, type |-> "write", ip |-> g]
      /\ \A e \in FileNo : e # w => f4[e] = f3[e]
      /\ f4 = [e \in FileNo |-> f4[e]]
  <2>1. f3[w] = [ref |-> 1, type |-> "write", ip |-> ftable[w].ip]
    BY <1>7, <1>8
  <2> QED  BY <1>5, <1>8, <2>1
<1>10. f4[r] = [ref |-> 1, type |-> "read", ip |-> g]
  BY <1>8, <1>9
<1>11. \A e \in FileNo : e # r /\ e # w => f4[e] = ftable[e]
  BY <1>6, <1>7, <1>8, <1>9
<1> QED
  BY <1>0, <1>9, <1>10, <1>11

LEMMA PipeMadeMoves ==
    ASSUME FilesConstants, FilesTypeOK, FilesInHand, PipeFiles, RefsExact, NEW p \in Procs, PipeMade(p)
    PROVE  \E r, w \in FileNo, g \in 1 .. NPages : Pipes(p, r, w, g)
<1>1. PICK r : r = call[p].files[1]
  OBVIOUS
<1>2. PICK w : w = call[p].files[2]
  OBVIOUS
<1>3. PICK g : g = Min(FreePages)
  OBVIOUS
<1>4. /\ At(p, "page") /\ FreePages # {} /\ pages' = [pages EXCEPT ![g] = Ends] /\ UNCHANGED inode
      /\ EndsGiven(r, w, g)
  BY <1>1, <1>2, <1>3 DEF PipeMade, EndsGiven
<1>5. call[p].files \in Seq(FileNo) /\ IsInjective(call[p].files) /\ Len(call[p].files) = 2 /\ call[p].last = Blank
  BY <1>4, CallAt DEF At
<1>6. r \in FileNo /\ w \in FileNo /\ r # w /\ Range(call[p].files) = {r, w} /\ call[p].files = <<r, w>>
  BY <1>1, <1>2, <1>5, TwoParts
<1>7. ftable[r].ref = 1 /\ ftable[w].ref = 1
  BY <1>4, <1>6 DEF PipeFiles, At
<1>8. g \in 1 .. NPages /\ pages[g] = {}
  BY <1>3, <1>4, Allocs
<1>9. ftable' = [e \in FileNo |-> IF e = r THEN [ref |-> 1, type |-> "read", ip |-> g] ELSE
                                  IF e = w THEN [ref |-> 1, type |-> "write", ip |-> g] ELSE ftable[e]]
  BY <1>4, <1>6, <1>7, TwoEnds
<1>10. PICK fs : fs = <<r, w>>
  OBVIOUS
<1>11. CASE Cardinality(Room(p)) >= 2
  <2>1. PICK a : a = Min(Room(p))
    OBVIOUS
  <2>2. PICK b : b = Second(Room(p))
    OBVIOUS
  <2>3. a \in Fds /\ b \in Fds /\ a # b /\ ofile[p][a] = 0 /\ ofile[p][b] = 0
    BY <1>11, <2>1, <2>2, Allocs
  <2>4. ofile' = [ofile EXCEPT ![p] = [[ofile[p] EXCEPT ![a] = r] EXCEPT ![b] = w]]
    BY <1>1, <1>2, <1>11, <2>1, <2>2 DEF PipeMade, FdAlloc
  <2>5. PICK row : row = [[ofile[p] EXCEPT ![a] = r] EXCEPT ![b] = w]
    OBVIOUS
  <2>6. r \in 0 .. NFILE /\ w \in 0 .. NFILE
    BY <1>6 DEF FileNo, FilesConstants
  <2>7. /\ row \in [Fds -> 0 .. NFILE] /\ row[a] = r /\ row[b] = w
        /\ \A d \in Fds : d # a /\ d # b => row[d] = ofile[p][d]
    <3>1. ofile[p] \in [Fds -> 0 .. NFILE]
      BY DEF FilesTypeOK
    <3> QED  BY <2>3, <2>5, <2>6, <3>1
  <2>8. ofile' \in [Procs -> [Fds -> 0 .. NFILE]] /\ ofile'[p] = row /\ \A q \in Procs : q # p => ofile'[q] = ofile[q]
    BY <2>4, <2>5, <2>7 DEF FilesTypeOK
  <2>9. Goto(p, "copyout", fs)
    BY <1>1, <1>2, <1>10, <1>11 DEF PipeMade
  <2>10. CallIs(p, "copyout", call[p].files, call[p].last, call[p].next, call[p].kid)
    <3>1. Goto(p, "copyout", call[p].files)
      BY <1>6, <1>10, <2>9
    <3> QED  BY <3>1, CallEdits DEF Goto
  <2>11. \E x, y \in Fds :
               /\ x # y /\ ofile[p][x] = 0 /\ ofile[p][y] = 0
               /\ ofile' \in [Procs -> [Fds -> 0 .. NFILE]]
               /\ ofile'[p][x] = r /\ ofile'[p][y] = w
               /\ \A d \in Fds : d # x /\ d # y => ofile'[p][d] = ofile[p][d]
               /\ \A q \in Procs : q # p => ofile'[q] = ofile[q]
    BY <2>3, <2>7, <2>8
  <2>12. Pipes(p, r, w, g)
    BY <1>4, <1>6, <1>8, <1>9, <2>10, <2>11 DEF Pipes
  <2> QED  BY <1>6, <1>8, <2>12
<1>12. CASE ~ (Cardinality(Room(p)) >= 2)
  <2>1. Close(p, fs) /\ UNCHANGED ofile
    BY <1>1, <1>2, <1>10, <1>12 DEF PipeMade, Undone
  <2>2. CallIs(p, "close", call[p].files, call[p].last, "user", call[p].kid)
    <3>1. Close(p, call[p].files)
      BY <1>6, <1>10, <2>1
    <3> QED  BY <3>1, CallEdits DEF Close, CloseThen
  <2>3. Pipes(p, r, w, g)
    BY <1>4, <1>6, <1>8, <1>9, <2>1, <2>2 DEF Pipes
  <2> QED  BY <1>6, <1>8, <2>3
<1> QED
  BY <1>11, <1>12

LEMMA PipeFaultsMoves ==
    ASSUME FilesConstants, FilesTypeOK, FilesInHand, NEW p \in Procs, PipeFaults(p)
    PROVE  Faults(p)
<1>1. At(p, "copyout") /\ Close(p, call[p].files) /\ UNCHANGED <<ftable, pages, inode>>
  BY DEF PipeFaults
<1>2. CallIs(p, "close", call[p].files, call[p].last, "user", call[p].kid)
  BY <1>1, CallEdits DEF Close, CloseThen
<1>3. PICK row : row = [fd \in Fds |-> IF ofile[p][fd] \in Range(call[p].files) THEN 0 ELSE ofile[p][fd]]
  OBVIOUS
<1>4. row \in [Fds -> 0 .. NFILE]
  BY <1>3 DEF FilesTypeOK, FilesConstants
<1>5. ofile' = [ofile EXCEPT ![p] = row]
  BY <1>3 DEF PipeFaults, FilesTypeOK
<1>6. ofile' \in [Procs -> [Fds -> 0 .. NFILE]] /\ ofile'[p] = row /\ \A q \in Procs : q # p => ofile'[q] = ofile[q]
  BY <1>4, <1>5 DEF FilesTypeOK
<1> QED
  BY <1>1, <1>2, <1>3, <1>6 DEF Faults

LEMMA CloseStepMoves ==
    ASSUME FilesConstants, FilesTypeOK, FilesInHand, NEW p \in Procs, DropRef(p) \/ LastClose(p)
    PROVE  \E f \in FileNo : Drops(p, f) \/ Frees(p, f)
<1>1. PICK f : f = Head(call[p].files)
  OBVIOUS
<1>2. At(p, "close") /\ call[p].files # <<>>
  BY DEF DropRef, LastClose, Closing
<1>3. call[p].files \in Seq(FileNo) /\ IsInjective(call[p].files)
  BY CallAt
<1>4. f \in FileNo /\ f \in Range(call[p].files) /\ Range(Tail(call[p].files)) = Range(call[p].files) \ {f}
  BY <1>1, <1>2, <1>3, TailParts
<1>5. CASE DropRef(p)
  <2>1. ftable' = [ftable EXCEPT ![f].ref = ftable[f].ref - 1]
    BY <1>1, <1>4, <1>5 DEF DropRef, FilesTypeOK
  <2>2. FileIs(f, ftable[f].ref - 1, ftable[f].type, ftable[f].ip)
    BY <1>4, <2>1, FileEdits
  <2>3. call' = [call EXCEPT ![p].files = Tail(call[p].files)]
    BY <1>5 DEF DropRef, FilesTypeOK
  <2>4. CallIs(p, "close", Tail(call[p].files), call[p].last, call[p].next, call[p].kid)
    BY <1>2, <2>3, CallEdits DEF At
  <2>5. Drops(p, f)
    BY <1>1, <1>2, <1>4, <1>5, <2>2, <2>4 DEF DropRef, Drops
  <2> QED  BY <1>4, <2>5
<1>6. CASE LastClose(p)
  <2>1. ftable' = [ftable EXCEPT ![f] = [ref |-> 0, type |-> "none", ip |-> 0]]
    BY <1>1, <1>6 DEF LastClose, Blank
  <2>2. FileIs(f, 0, "none", 0)
    BY <1>4, <2>1, FileEdits
  <2>3. call' = [call EXCEPT ![p].at = "release", ![p].files = Tail(call[p].files), ![p].last = ftable[f]]
    BY <1>1, <1>6 DEF LastClose, FilesTypeOK
  <2>4. CallIs(p, "release", Tail(call[p].files), ftable[f], call[p].next, call[p].kid)
    BY <2>3, CallEdits
  <2>5. Frees(p, f)
    BY <1>1, <1>2, <1>4, <1>6, <2>2, <2>4 DEF LastClose, Frees
  <2> QED  BY <1>4, <2>5
<1> QED
  BY <1>5, <1>6

LEMMA ReleaseMoves ==
    ASSUME FilesConstants, FilesTypeOK, FilesInHand, NEW p \in Procs, Release(p)
    PROVE  Releases(p)
<1>1. CallIs(p, "close", call[p].files, Blank, call[p].next, call[p].kid)
  BY CallEdits DEF Release
<1> QED
  BY <1>1 DEF Release, Releases

LEMMA FileStepMoves ==
    ASSUME FilesConstants, FilesTypeOK, FilesInHand, PipeFiles, Kids, UnusedBlank, RefsExact,
           NEW p \in Procs, FileStep(p)
    PROVE  Moves(p)
<1>1. CASE Open(p)
  BY <1>1, OpenMoves DEF Moves
<1>2. CASE OpenFails(p)
  BY <1>2, OpenFailsMoves DEF Moves
<1>3. CASE PipeFile(p)
  BY <1>3, PipeFileMoves DEF Moves
<1>4. CASE PipeMade(p)
  BY <1>4, PipeMadeMoves DEF Moves
<1>5. CASE PipeNoPage(p) \/ PipeReturns(p) \/ Closed(p)
  BY <1>5, TurnMoves DEF Moves
<1>6. CASE PipeFaults(p)
  BY <1>6, PipeFaultsMoves DEF Moves
<1>7. CASE Exit(p)
  BY <1>7, ExitMoves DEF Moves
<1>8. CASE DropRef(p) \/ LastClose(p)
  BY <1>8, CloseStepMoves DEF Moves
<1>9. CASE Release(p)
  BY <1>9, ReleaseMoves DEF Moves
<1>10. CASE ForkDup(p)
  BY <1>10, ForkDupMoves DEF Moves
<1>11. CASE \E fd \in Fds : Dup(p, fd)
  BY <1>11, DupMoves DEF Moves
<1>12. CASE \E fd \in Fds : SysClose(p, fd)
  BY <1>12, CloseMoves DEF Moves
<1> QED
  BY <1>1, <1>2, <1>3, <1>4, <1>5, <1>6, <1>7, <1>8, <1>9, <1>10, <1>11, <1>12 DEF FileStep

LEMMA MovesTyped ==
    ASSUME FilesConstants, FilesTypeOK, NEW p \in Procs, Moves(p)
    PROVE  /\ ofile' \in [Procs -> [Fds -> 0 .. NFILE]] /\ ftable' \in [FileNo -> FileRec]
           /\ pages' \in [1 .. NPages -> SUBSET Ends] /\ inode' \in Int
<1> DEFINE Typed == /\ ofile' \in [Procs -> [Fds -> 0 .. NFILE]] /\ ftable' \in [FileNo -> FileRec]
                    /\ pages' \in [1 .. NPages -> SUBSET Ends] /\ inode' \in Int
<1> SUFFICES Typed
  OBVIOUS
<1>t. /\ ofile \in [Procs -> [Fds -> 0 .. NFILE]] /\ ftable \in [FileNo -> FileRec]
      /\ pages \in [1 .. NPages -> SUBSET Ends] /\ inode \in Int
  BY DEF FilesTypeOK
<1>n. 0 \in 0 .. NPages /\ 0 \in 0 .. NFILE /\ \A f \in FileNo : f \in 0 .. NFILE
  BY DEF FilesConstants, FileNo
<1>1. ASSUME NEW fd \in Fds, NEW f \in FileNo, Opens(p, fd, f) PROVE Typed
  <2>1. ftable' \in [FileNo -> FileRec]
    BY <1>1, <1>n, FileFields DEF Opens
  <2>2. ofile' \in [Procs -> [Fds -> 0 .. NFILE]]
    BY <1>1, <1>n, DescriptorIs DEF Opens
  <2> QED  BY <1>1, <1>t, <2>1, <2>2 DEF Opens
<1>2. ASSUME NEW f \in FileNo, NEW at, NEW files, NEW next, Takes(p, f, at, files, next) PROVE Typed
  <2>1. ftable' \in [FileNo -> FileRec]
    BY <1>2, <1>n, FileFields DEF Takes
  <2> QED  BY <1>2, <1>t, <2>1 DEF Takes
<1>3. ASSUME NEW q \in Procs, NEW fd \in Fds, NEW f \in FileNo, Shares(p, q, fd, f) PROVE Typed
  <2>1. ftable[f].ref + 1 \in Nat /\ ftable[f].type \in {"none", "inode", "read", "write"} /\ ftable[f].ip \in 0 .. NPages
    <3>1. ftable[f].ref \in Nat /\ ftable[f].type \in {"none", "inode", "read", "write"} /\ ftable[f].ip \in 0 .. NPages
      BY RecParts
    <3> QED  BY <3>1
  <2>2. ftable' \in [FileNo -> FileRec]
    BY <1>3, <2>1, FileFields DEF Shares
  <2>3. ofile' \in [Procs -> [Fds -> 0 .. NFILE]]
    BY <1>3, <1>n, DescriptorIs DEF Shares
  <2> QED  BY <1>3, <1>t, <2>2, <2>3 DEF Shares
<1>4. ASSUME NEW fd \in Fds, NEW f \in FileNo, NEW next, Picks(p, fd, f, next) PROVE Typed
  <2>1. ofile' \in [Procs -> [Fds -> 0 .. NFILE]]
    BY <1>4, <1>n, DescriptorIs DEF Picks
  <2> QED  BY <1>4, <1>t, <2>1 DEF Picks
<1>5. ASSUME NEW at, NEW files, NEW next, NEW kid, Turns(p, at, files, next, kid) PROVE Typed
  BY <1>5, <1>t DEF Turns
<1>6. ASSUME NEW r \in FileNo, NEW w \in FileNo, NEW g \in 1 .. NPages, Pipes(p, r, w, g) PROVE Typed
  <2>1. g \in 0 .. NPages
    BY DEF FilesConstants
  <2>2. [ref |-> 1, type |-> "read", ip |-> g] \in FileRec /\ [ref |-> 1, type |-> "write", ip |-> g] \in FileRec
    BY <2>1 DEF FileRec
  <2>3. ftable' \in [FileNo -> FileRec]
    BY <1>6, <1>t, <2>2 DEF Pipes
  <2>4. ofile' \in [Procs -> [Fds -> 0 .. NFILE]]
    BY <1>6, <1>t DEF Pipes
  <2>5. pages' \in [1 .. NPages -> SUBSET Ends] /\ inode' \in Int
    BY <1>6, <1>t DEF Pipes
  <2> QED  BY <2>3, <2>4, <2>5
<1>7. CASE Faults(p)
  BY <1>7, <1>t DEF Faults
<1>8. CASE Releases(p)
  <2>1. pages' \in [1 .. NPages -> SUBSET Ends]
    <3>1. CASE call[p].last.type \in Ends
      BY <1>8, <1>t, <3>1 DEF Releases
    <3>2. CASE call[p].last.type \notin Ends
      BY <1>8, <1>t, <3>2 DEF Releases
    <3> QED  BY <3>1, <3>2
  <2>2. inode' \in Int
    BY <1>8, <1>t DEF Releases
  <2> QED  BY <1>8, <1>t, <2>1, <2>2 DEF Releases
<1>9. ASSUME NEW f \in FileNo, Drops(p, f) PROVE Typed
  <2>1. ftable[f].ref - 1 \in Nat /\ ftable[f].type \in {"none", "inode", "read", "write"} /\ ftable[f].ip \in 0 .. NPages
    <3>1. ftable[f].ref \in Nat /\ ftable[f].type \in {"none", "inode", "read", "write"} /\ ftable[f].ip \in 0 .. NPages
      BY RecParts
    <3>2. ftable[f].ref >= 1
      BY <1>9, <3>1 DEF Drops
    <3> QED  BY <3>1, <3>2
  <2>2. ftable' \in [FileNo -> FileRec]
    BY <1>9, <2>1, FileFields DEF Drops
  <2> QED  BY <1>9, <1>t, <2>2 DEF Drops
<1>10. ASSUME NEW f \in FileNo, Frees(p, f) PROVE Typed
  <2>1. ftable' \in [FileNo -> FileRec]
    BY <1>10, <1>n, FileFields DEF Frees
  <2> QED  BY <1>10, <1>t, <2>1 DEF Frees
<1> HIDE DEF Typed
<1>a. CASE \E fd \in Fds, f \in FileNo : Opens(p, fd, f)
  BY <1>a, <1>1
<1>c. CASE \E f \in FileNo, at \in FilePlaces, files \in Seq(FileNo), next \in {"", "user", "exit"} : Takes(p, f, at, files, next)
  BY <1>c, <1>2
<1>d. CASE \E q \in Procs, fd \in Fds, f \in FileNo : Shares(p, q, fd, f)
  BY <1>d, <1>3
<1>e. CASE \E fd \in Fds, f \in FileNo, next \in {"", "user", "exit"} : Picks(p, fd, f, next)
  BY <1>e, <1>4
<1>f. CASE \E at \in FilePlaces, files \in Seq(FileNo), next \in {"", "user", "exit"}, kid \in Procs \cup {0} :
              Turns(p, at, files, next, kid)
  BY <1>f, <1>5
<1>g. CASE \E r, w \in FileNo, g \in 1 .. NPages : Pipes(p, r, w, g)
  BY <1>g, <1>6
<1>k. CASE \E f \in FileNo : Drops(p, f) \/ Frees(p, f)
  BY <1>k, <1>9, <1>10
<1> QED
  BY <1>7, <1>8, <1>a, <1>c, <1>d, <1>e, <1>f, <1>g, <1>k DEF Moves

LEMMA MovesRefs ==
    ASSUME FilesConstants, FilesTypeOK, FilesInHand, PipeFiles, RefsExact, NEW p \in Procs, Moves(p), NEW e \in FileNo
    PROVE  ftable'[e].ref = CdAfter(e) + ChAfter(e)
<1> DEFINE Exact == ftable'[e].ref = CdAfter(e) + ChAfter(e)
<1> SUFFICES Exact
  OBVIOUS
<1>b. ftable[e].ref = Cd(e) + Ch(e) /\ Cd(e) \in Nat /\ Ch(e) \in Nat
  BY CountsNat DEF RefsExact, Cd, Ch
<1>n. 0 \in 0 .. NPages /\ 0 \in 0 .. NFILE /\ \A f \in FileNo : f \in 0 .. NFILE /\ f # 0
  BY DEF FilesConstants, FileNo
<1>h. /\ At(p, "user") \/ At(p, "exit") => \A f : ~ Held(call[p].at, call[p].files, f)
      /\ At(p, "copyout") => \A f : ~ Held(call[p].at, call[p].files, f)
  <2>1. ASSUME At(p, "user") \/ At(p, "exit") PROVE Range(call[p].files) = {}
    <3>1. Len(call[p].files) = 0 /\ call[p].files \in Seq(FileNo)
      BY <2>1, CallParts DEF FilesInHand, HandOK, At
    <3>2. call[p].files = <<>>
      BY <3>1
    <3> QED  BY <3>2 DEF Range
  <2> QED  BY <2>1 DEF Held, At
<1>1. ASSUME NEW fd \in Fds, NEW f \in FileNo, Opens(p, fd, f) PROVE Exact
  <2>0. FileIs(f, 1, "inode", 0)
    BY <1>1 DEF Opens
  <2>1. ftable'[f].ref = 1 /\ (e # f => ftable'[e] = ftable[e])
    BY <1>n, <2>0, FileFields
  <2>2. ftable[f].ref = 0
    BY <1>1 DEF Opens, Blank
  <2>3. (e = f => CdAfter(e) = Cd(e) + 1) /\ (e # f => CdAfter(e) = Cd(e))
    BY <1>1, <1>n, DescriptorCount DEF Opens
  <2>4. ChAfter(e) = Ch(e)
    BY <1>1, CountsSame DEF Opens
  <2> QED  BY <1>b, <2>1, <2>2, <2>3, <2>4
<1>2. ASSUME NEW f \in FileNo, NEW at, NEW files, NEW next, Takes(p, f, at, files, next) PROVE Exact
  <2>1. ftable'[f].ref = 1 /\ (e # f => ftable'[e] = ftable[e])
    BY <1>2, <1>n, FileFields DEF Takes
  <2>2. ftable[f].ref = 0
    BY <1>2 DEF Takes, Blank
  <2>3. CdAfter(e) = Cd(e)
    BY <1>2, CountsSame DEF Takes
  <2>4. CallIs(p, at, files, call[p].last, next, call[p].kid)
    BY <1>2 DEF Takes
  <2>5. /\ e = f => Held(at, files, e) /\ ~ Held(call[p].at, call[p].files, e)
        /\ e # f => (Held(at, files, e) <=> Held(call[p].at, call[p].files, e))
    BY <1>2 DEF Takes, Held, At
  <2>6. (e = f => ChAfter(e) = Ch(e) + 1) /\ (e # f => ChAfter(e) = Ch(e))
    BY <2>4, <2>5, HandCount
  <2> QED  BY <1>b, <2>1, <2>2, <2>3, <2>6
<1>3. ASSUME NEW q \in Procs, NEW fd \in Fds, NEW f \in FileNo, Shares(p, q, fd, f) PROVE Exact
  <2>1. ftable[f].ref + 1 \in Nat /\ ftable[f].type \in {"none", "inode", "read", "write"} /\ ftable[f].ip \in 0 .. NPages
    <3>1. ftable[f].ref \in Nat /\ ftable[f].type \in {"none", "inode", "read", "write"} /\ ftable[f].ip \in 0 .. NPages
      BY RecParts
    <3> QED  BY <3>1
  <2>5. PICK r \in Nat : r = ftable[f].ref + 1
    BY <2>1
  <2>0. FileIs(f, r, ftable[f].type, ftable[f].ip)
    BY <1>3, <2>5 DEF Shares
  <2>6. ftable'[f].ref = r /\ (e # f => ftable'[e] = ftable[e])
    BY <2>0, RefFields
  <2>2. ftable'[f].ref = ftable[f].ref + 1 /\ (e # f => ftable'[e] = ftable[e])
    BY <2>5, <2>6
  <2>3. (e = f => CdAfter(e) = Cd(e) + 1) /\ (e # f => CdAfter(e) = Cd(e))
    BY <1>3, <1>n, DescriptorCount DEF Shares
  <2>4. ChAfter(e) = Ch(e)
    BY <1>3, CountsSame DEF Shares
  <2> QED  BY <1>b, <2>2, <2>3, <2>4
<1>4. ASSUME NEW fd \in Fds, NEW f \in FileNo, NEW next, Picks(p, fd, f, next) PROVE Exact
  <2>1. ftable'[e] = ftable[e]
    BY <1>4 DEF Picks
  <2>2. ofile[p][fd] = f /\ DescriptorBe(p, fd, 0)
    BY <1>4 DEF Picks
  <2>3. (e = f => CdAfter(e) = Cd(e) - 1) /\ (e # f => CdAfter(e) = Cd(e))
    BY <2>2, <1>n, DescriptorCount
  <2>4. CallIs(p, "close", <<f>>, call[p].last, next, call[p].kid)
    BY <1>4 DEF Picks
  <2>5. Range(<<f>>) = {f}
    BY Literals
  <2>6. /\ ~ Held(call[p].at, call[p].files, e)
        /\ e = f <=> Held("close", <<f>>, e)
    BY <1>4, <1>h, <2>5 DEF Picks, Held
  <2>7. (e = f => ChAfter(e) = Ch(e) + 1) /\ (e # f => ChAfter(e) = Ch(e))
    BY <2>4, <2>6, HandCount
  <2> QED  BY <1>b, <2>1, <2>3, <2>7
<1>5. ASSUME NEW at, NEW files, NEW next, NEW kid, Turns(p, at, files, next, kid) PROVE Exact
  <2>1. ftable'[e] = ftable[e] /\ CdAfter(e) = Cd(e)
    BY <1>5, CountsSame DEF Turns
  <2>2. CallIs(p, at, files, call[p].last, next, kid) /\ (Held(call[p].at, call[p].files, e) <=> Held(at, files, e))
    BY <1>5 DEF Turns
  <2>3. ChAfter(e) = Ch(e)
    BY <2>2, HandCount
  <2> QED  BY <1>b, <2>1, <2>3
<1>6. ASSUME NEW r \in FileNo, NEW w \in FileNo, NEW g \in 1 .. NPages, Pipes(p, r, w, g) PROVE Exact
  <2>1. /\ At(p, "page") /\ Range(call[p].files) = {r, w} /\ r # w
        /\ ftable' = [x \in FileNo |-> IF x = r THEN [ref |-> 1, type |-> "read", ip |-> g] ELSE
                                       IF x = w THEN [ref |-> 1, type |-> "write", ip |-> g] ELSE ftable[x]]
    BY <1>6 DEF Pipes
  <2>2. ftable'[e].ref = ftable[e].ref
    <3>1. ftable[r].ref = 1 /\ ftable[w].ref = 1
      BY <2>1, PipeOwn DEF At
    <3> QED  BY <2>1, <3>1
  <2>3. Descriptors(r) = {} /\ Descriptors(w) = {}
    BY <2>1, PipeOwn DEF At
  <2>4. Held(call[p].at, call[p].files, e) <=> e \in {r, w}
    BY <2>1 DEF Held, At
  <2>5. CASE /\ CallIs(p, "close", call[p].files, call[p].last, "user", call[p].kid) /\ UNCHANGED ofile
    <3>1. CdAfter(e) = Cd(e)
      BY <2>5, CountsSame
    <3>2. Held("close", call[p].files, e) <=> Held(call[p].at, call[p].files, e)
      BY <2>1 DEF Held, At
    <3>3. ChAfter(e) = Ch(e)
      BY <2>5, <3>2, HandCount
    <3> QED  BY <1>b, <2>2, <3>1, <3>3
  <2>6. CASE /\ CallIs(p, "copyout", call[p].files, call[p].last, call[p].next, call[p].kid)
             /\ \E a, b \in Fds :
               /\ a # b /\ ofile[p][a] = 0 /\ ofile[p][b] = 0
               /\ ofile' \in [Procs -> [Fds -> 0 .. NFILE]]
               /\ ofile'[p][a] = r /\ ofile'[p][b] = w
               /\ \A d \in Fds : d # a /\ d # b => ofile'[p][d] = ofile[p][d]
               /\ \A q \in Procs : q # p => ofile'[q] = ofile[q]
    <3>1. PICK a, b \in Fds :
               /\ a # b /\ ofile[p][a] = 0 /\ ofile[p][b] = 0
               /\ ofile'[p][a] = r /\ ofile'[p][b] = w
               /\ \A d \in Fds : d # a /\ d # b => ofile'[p][d] = ofile[p][d]
               /\ \A q \in Procs : q # p => ofile'[q] = ofile[q]
      BY <2>6
    <3>2. ~ Held("copyout", call[p].files, e)
      BY DEF Held
    <3>3. ChAfter(e) = IF e \in {r, w} THEN Ch(e) - 1 ELSE Ch(e)
      BY <2>4, <2>6, <3>2, HandCount
    <3>4. \A d \in Procs \X Fds : d # <<p, a>> /\ d # <<p, b>> => ofile'[d[1]][d[2]] = ofile[d[1]][d[2]]
      <4>1. \A q \in Procs, d \in Fds : <<q, d>> # <<p, a>> /\ <<q, d>> # <<p, b>> => ofile'[q][d] = ofile[q][d]
        BY <3>1
      <4> QED  BY <4>1
    <3>5. <<p, a>> \in Procs \X Fds /\ <<p, b>> \in Procs \X Fds
          /\ <<p, a>>[1] = p /\ <<p, a>>[2] = a /\ <<p, b>>[1] = p /\ <<p, b>>[2] = b
      OBVIOUS
    <3>6. CASE e = r
      <4>1. DescriptorsAfter(e) = Descriptors(e) \cup {<<p, a>>} /\ <<p, a>> \notin Descriptors(e)
        BY <1>n, <2>1, <2>3, <3>1, <3>4, <3>5, <3>6 DEF Descriptors, DescriptorsAfter
      <4>2. CdAfter(e) = Cd(e) + 1
        BY <4>1, HoldersFinite, Gains DEF Cd, CdAfter
      <4> QED  BY <1>b, <2>2, <3>3, <3>6, <4>2
    <3>7. CASE e = w
      <4>1. DescriptorsAfter(e) = Descriptors(e) \cup {<<p, b>>} /\ <<p, b>> \notin Descriptors(e)
        BY <1>n, <2>1, <2>3, <3>1, <3>4, <3>5, <3>7 DEF Descriptors, DescriptorsAfter
      <4>2. CdAfter(e) = Cd(e) + 1
        BY <4>1, HoldersFinite, Gains DEF Cd, CdAfter
      <4> QED  BY <1>b, <2>2, <3>3, <3>7, <4>2
    <3>8. CASE e # r /\ e # w
      <4>1. DescriptorsAfter(e) = Descriptors(e)
        BY <1>n, <3>1, <3>4, <3>5, <3>8 DEF Descriptors, DescriptorsAfter
      <4>2. CdAfter(e) = Cd(e)
        BY <4>1 DEF Cd, CdAfter
      <4> QED  BY <1>b, <2>2, <3>3, <3>8, <4>2
    <3> QED  BY <3>6, <3>7, <3>8
  <2> QED  BY <1>6, <2>5, <2>6 DEF Pipes
<1>7. CASE Faults(p)
  <2>1. /\ At(p, "copyout") /\ ftable'[e] = ftable[e]
        /\ CallIs(p, "close", call[p].files, call[p].last, "user", call[p].kid)
        /\ \A d \in Fds : ofile'[p][d] = IF ofile[p][d] \in Range(call[p].files) THEN 0 ELSE ofile[p][d]
        /\ \A q \in Procs : q # p => ofile'[q] = ofile[q]
    BY <1>7 DEF Faults
  <2>2. ~ Held(call[p].at, call[p].files, e) /\ (Held("close", call[p].files, e) <=> e \in Range(call[p].files))
    BY <1>h, <2>1 DEF Held
  <2>3. \A q \in Procs, d \in Fds : <<q, d>> \in Procs \X Fds /\ <<q, d>>[1] = q /\ <<q, d>>[2] = d
    OBVIOUS
  <2>4. CASE e \in Range(call[p].files)
    <3>1. PICK fd \in Fds : \A d \in Fds : ofile[p][d] = e <=> d = fd
      BY <2>1, <2>4 DEF PipeFiles, At
    <3>2. \A q \in Procs, d \in Fds : ofile'[q][d] = e <=> ofile[q][d] = e /\ <<q, d>> # <<p, fd>>
      BY <1>n, <2>1, <2>4, <3>1
    <3>3. \A x \in Procs \X Fds : ofile'[x[1]][x[2]] = e <=> ofile[x[1]][x[2]] = e /\ x # <<p, fd>>
      BY <3>2
    <3>4. <<p, fd>> \in Descriptors(e)
      BY <2>3, <3>1 DEF Descriptors
    <3>5. DescriptorsAfter(e) = Descriptors(e) \ {<<p, fd>>}
      BY <3>3 DEF Descriptors, DescriptorsAfter
    <3>6. CdAfter(e) = Cd(e) - 1
      BY <3>4, <3>5, HoldersFinite, Loses DEF Cd, CdAfter
    <3>7. ChAfter(e) = Ch(e) + 1
      BY <2>1, <2>2, <2>4, HandCount
    <3> QED  BY <1>b, <2>1, <3>6, <3>7
  <2>5. CASE e \notin Range(call[p].files)
    <3>1. \A q \in Procs, d \in Fds : ofile'[q][d] = e <=> ofile[q][d] = e
      BY <1>n, <2>1, <2>5
    <3>2. \A x \in Procs \X Fds : ofile'[x[1]][x[2]] = e <=> ofile[x[1]][x[2]] = e
      BY <3>1
    <3>3. DescriptorsAfter(e) = Descriptors(e)
      BY <3>2 DEF Descriptors, DescriptorsAfter
    <3>4. CdAfter(e) = Cd(e)
      BY <3>3 DEF Cd, CdAfter
    <3>5. ChAfter(e) = Ch(e)
      BY <2>1, <2>2, <2>5, HandCount
    <3> QED  BY <1>b, <2>1, <3>4, <3>5
  <2> QED  BY <2>4, <2>5
<1>8. CASE Releases(p)
  <2>1. CallIs(p, "close", call[p].files, Blank, call[p].next, call[p].kid)
        /\ (Held(call[p].at, call[p].files, e) <=> Held("close", call[p].files, e))
    BY <1>8 DEF Releases, Held, At
  <2>2. ChAfter(e) = Ch(e)
    BY <2>1, HandCount
  <2>3. ftable'[e] = ftable[e] /\ CdAfter(e) = Cd(e)
    BY <1>8, CountsSame DEF Releases
  <2> QED  BY <1>b, <2>2, <2>3
<1>9. ASSUME NEW f \in FileNo, Drops(p, f) \/ Frees(p, f) PROVE Exact
  <2>1. ftable[f].ref - 1 \in Nat /\ ftable[f].type \in {"none", "inode", "read", "write"} /\ ftable[f].ip \in 0 .. NPages
    <3>1. ftable[f].ref \in Nat /\ ftable[f].type \in {"none", "inode", "read", "write"} /\ ftable[f].ip \in 0 .. NPages
      BY RecParts
    <3>2. ftable[f].ref >= 1
      BY <1>9, <3>1 DEF Drops, Frees
    <3> QED  BY <3>1, <3>2
  <2>2. ftable'[f].ref = ftable[f].ref - 1 /\ (e # f => ftable'[e] = ftable[e])
    <3>1. CASE Drops(p, f)
      <4>1. PICK r \in Nat : r = ftable[f].ref - 1
        BY <2>1
      <4>2. FileIs(f, r, ftable[f].type, ftable[f].ip)
        BY <3>1, <4>1 DEF Drops
      <4>3. ftable'[f].ref = r /\ (e # f => ftable'[e] = ftable[e])
        BY <4>2, RefFields
      <4> QED  BY <4>1, <4>3
    <3>2. CASE Frees(p, f)
      <4>1. FileIs(f, 0, "none", 0)
        BY <3>2 DEF Frees
      <4>2. ftable[f].ref = 1
        BY <3>2 DEF Frees
      <4>3. ftable'[f].ref = 0 /\ (e # f => ftable'[e] = ftable[e])
        BY <1>n, <4>1, FileFields
      <4> QED  BY <4>2, <4>3
    <3> QED  BY <1>9, <3>1, <3>2
  <2>3. CdAfter(e) = Cd(e)
    BY <1>9, CountsSame DEF Drops, Frees
  <2>4. PICK at, last : CallIs(p, at, Tail(call[p].files), last, call[p].next, call[p].kid) /\ at # "copyout"
    BY <1>9 DEF Drops, Frees
  <2>5. /\ At(p, "close") /\ f \in Range(call[p].files)
        /\ Range(Tail(call[p].files)) = Range(call[p].files) \ {f}
    BY <1>9 DEF Drops, Frees
  <2>6. /\ e = f => Held(call[p].at, call[p].files, e) /\ ~ Held(at, Tail(call[p].files), e)
        /\ e # f => (Held(call[p].at, call[p].files, e) <=> Held(at, Tail(call[p].files), e))
    BY <2>4, <2>5 DEF Held, At
  <2>7. (e = f => ChAfter(e) = Ch(e) - 1) /\ (e # f => ChAfter(e) = Ch(e))
    BY <2>4, <2>6, HandCount
  <2> QED  BY <1>b, <2>2, <2>3, <2>7
<1> HIDE DEF Exact
<1>a. CASE \E fd \in Fds, f \in FileNo : Opens(p, fd, f)
  BY <1>a, <1>1
<1>c. CASE \E f \in FileNo, at \in FilePlaces, files \in Seq(FileNo), next \in {"", "user", "exit"} : Takes(p, f, at, files, next)
  BY <1>c, <1>2
<1>d. CASE \E q \in Procs, fd \in Fds, f \in FileNo : Shares(p, q, fd, f)
  BY <1>d, <1>3
<1>e. CASE \E fd \in Fds, f \in FileNo, next \in {"", "user", "exit"} : Picks(p, fd, f, next)
  BY <1>e, <1>4
<1>f. CASE \E at \in FilePlaces, files \in Seq(FileNo), next \in {"", "user", "exit"}, kid \in Procs \cup {0} :
              Turns(p, at, files, next, kid)
  BY <1>f, <1>5
<1>g. CASE \E r, w \in FileNo, g \in 1 .. NPages : Pipes(p, r, w, g)
  BY <1>g, <1>6
<1>k. CASE \E f \in FileNo : Drops(p, f) \/ Frees(p, f)
  BY <1>k, <1>9
<1> QED
  BY <1>7, <1>8, <1>a, <1>c, <1>d, <1>e, <1>f, <1>g, <1>k DEF Moves

\* What a step of p does not touch.
LEMMA MovesAt ==
    ASSUME NEW p \in Procs, Moves(p)
    PROVE  /\ \A q \in Procs : q # p => call'[q] = call[q]
           /\ ~ At(p, "new") /\ ~ At(p, "gone")
<1>1. ASSUME NEW at, NEW files, NEW last, NEW next, NEW kid, CallIs(p, at, files, last, next, kid)
      PROVE  \A q \in Procs : q # p => call'[q] = call[q]
  BY <1>1 DEF CallIs
<1>2. CASE \E fd \in Fds, f \in FileNo : Opens(p, fd, f)
  BY <1>2 DEF Opens, At
<1>3. CASE \E f \in FileNo, at \in FilePlaces, files \in Seq(FileNo), next \in {"", "user", "exit"} : Takes(p, f, at, files, next)
  BY <1>1, <1>3 DEF Takes, At
<1>4. CASE \E q \in Procs, fd \in Fds, f \in FileNo : Shares(p, q, fd, f)
  BY <1>4 DEF Shares, At
<1>5. CASE \E fd \in Fds, f \in FileNo, next \in {"", "user", "exit"} : Picks(p, fd, f, next)
  BY <1>1, <1>5 DEF Picks, At
<1>6. CASE \E at \in FilePlaces, files \in Seq(FileNo), next \in {"", "user", "exit"}, kid \in Procs \cup {0} :
             Turns(p, at, files, next, kid)
  <2>1. PICK at \in FilePlaces, files \in Seq(FileNo), next \in {"", "user", "exit"}, kid \in Procs \cup {0} :
             Turns(p, at, files, next, kid)
    BY <1>6
  <2> QED  BY <1>1, <2>1 DEF Turns, At
<1>7. CASE \E r, w \in FileNo, g \in 1 .. NPages : Pipes(p, r, w, g)
  <2>1. PICK r, w \in FileNo, g \in 1 .. NPages : Pipes(p, r, w, g)
    BY <1>7
  <2>2. PICK at, next : CallIs(p, at, call[p].files, call[p].last, next, call[p].kid)
    BY <2>1 DEF Pipes
  <2> QED  BY <1>1, <2>1, <2>2 DEF Pipes, At
<1>8. CASE Faults(p)
  BY <1>1, <1>8 DEF Faults, At
<1>9. CASE Releases(p)
  BY <1>1, <1>9 DEF Releases, At
<1>10. CASE \E f \in FileNo : Drops(p, f) \/ Frees(p, f)
  <2>1. PICK f \in FileNo : Drops(p, f) \/ Frees(p, f)
    BY <1>10
  <2>2. PICK at, last : CallIs(p, at, Tail(call[p].files), last, call[p].next, call[p].kid)
    BY <2>1 DEF Drops, Frees
  <2> QED  BY <1>1, <2>1, <2>2 DEF Drops, Frees, At
<1> QED
  BY <1>2, <1>3, <1>4, <1>5, <1>6, <1>7, <1>8, <1>9, <1>10 DEF Moves

LEMMA MovesTable ==
    ASSUME FilesConstants, FilesTypeOK, NEW p \in Procs, Moves(p), NEW e \in FileNo
    PROVE  ftable'[e] = ftable[e] \/ ftable[e].ref = 0 \/ Descriptors(e) # {} \/ p \in InHand(e)
<1>1. ASSUME NEW f, NEW ref, NEW type, NEW ip, FileIs(f, ref, type, ip), e # f
      PROVE  ftable'[e] = ftable[e]
  BY <1>1 DEF FileIs
<1>2. CASE \E fd \in Fds, f \in FileNo : Opens(p, fd, f)
  BY <1>1, <1>2 DEF Opens, Blank
<1>3. CASE \E f \in FileNo, at \in FilePlaces, files \in Seq(FileNo), next \in {"", "user", "exit"} : Takes(p, f, at, files, next)
  <2>1. PICK f \in FileNo : ftable[f] = Blank /\ FileIs(f, 1, "none", 0)
    BY <1>3 DEF Takes
  <2>2. ftable[f].ref = 0 /\ (e # f => ftable'[e] = ftable[e])
    BY <1>1, <2>1 DEF Blank
  <2> QED  BY <2>2
<1>4. CASE \E q \in Procs, fd \in Fds, f \in FileNo : Shares(p, q, fd, f)
  <2>1. PICK q \in Procs, fd \in Fds, f \in FileNo : Shares(p, q, fd, f)
    BY <1>4
  <2>2. PICK d \in Fds : ofile[p][d] = f
    BY <2>1 DEF Shares
  <2>3. <<p, d>> \in Procs \X Fds /\ <<p, d>>[1] = p /\ <<p, d>>[2] = d
    OBVIOUS
  <2>4. Descriptors(f) # {}
    BY <2>2, <2>3 DEF Descriptors
  <2> QED  BY <1>1, <2>1, <2>4 DEF Shares
<1>5. CASE \E fd \in Fds, f \in FileNo, next \in {"", "user", "exit"} : Picks(p, fd, f, next)
  BY <1>5 DEF Picks
<1>6. CASE \E at \in FilePlaces, files \in Seq(FileNo), next \in {"", "user", "exit"}, kid \in Procs \cup {0} :
             Turns(p, at, files, next, kid)
  BY <1>6 DEF Turns
<1>7. CASE \E r, w \in FileNo, g \in 1 .. NPages : Pipes(p, r, w, g)
  <2>1. PICK r, w \in FileNo, g \in 1 .. NPages : Pipes(p, r, w, g)
    BY <1>7
  <2>2. p \in InHand(r) /\ p \in InHand(w)
    BY <2>1 DEF Pipes, InHand, At
  <2>3. e # r /\ e # w => ftable'[e] = ftable[e]
    BY <2>1 DEF Pipes
  <2> QED  BY <2>2, <2>3
<1>8. CASE Faults(p)
  BY <1>8 DEF Faults
<1>9. CASE Releases(p)
  BY <1>9 DEF Releases
<1>10. CASE \E f \in FileNo : Drops(p, f) \/ Frees(p, f)
  <2>1. PICK f \in FileNo : Drops(p, f) \/ Frees(p, f)
    BY <1>10
  <2>2. p \in InHand(f)
    BY <2>1 DEF Drops, Frees, InHand, At
  <2>3. e # f => ftable'[e] = ftable[e]
    BY <1>1, <2>1 DEF Drops, Frees
  <2> QED  BY <2>2, <2>3
<1> QED
  BY <1>2, <1>3, <1>4, <1>5, <1>6, <1>7, <1>8, <1>9, <1>10 DEF Moves

LEMMA MovesDescriptors ==
    ASSUME FilesConstants, FilesTypeOK, NEW p \in Procs, Moves(p), NEW q \in Procs, q # p
    PROVE  ofile'[q] = ofile[q] \/ (At(p, "fork") /\ q = call[p].kid)
<1>1. ASSUME NEW r \in Procs, NEW fd, NEW f, DescriptorBe(r, fd, f), q # r PROVE ofile'[q] = ofile[q]
  BY <1>1 DEF DescriptorBe, FilesTypeOK
<1>2. CASE \E fd \in Fds, f \in FileNo : Opens(p, fd, f)
  BY <1>1, <1>2 DEF Opens
<1>3. CASE \E f \in FileNo, at \in FilePlaces, files \in Seq(FileNo), next \in {"", "user", "exit"} : Takes(p, f, at, files, next)
  BY <1>3 DEF Takes
<1>4. CASE \E r \in Procs, fd \in Fds, f \in FileNo : Shares(p, r, fd, f)
  BY <1>1, <1>4 DEF Shares
<1>5. CASE \E fd \in Fds, f \in FileNo, next \in {"", "user", "exit"} : Picks(p, fd, f, next)
  BY <1>1, <1>5 DEF Picks
<1>6. CASE \E at \in FilePlaces, files \in Seq(FileNo), next \in {"", "user", "exit"}, kid \in Procs \cup {0} :
             Turns(p, at, files, next, kid)
  BY <1>6 DEF Turns
<1>7. CASE \E r, w \in FileNo, g \in 1 .. NPages : Pipes(p, r, w, g)
  BY <1>7 DEF Pipes
<1>8. CASE Faults(p)
  BY <1>8 DEF Faults
<1>9. CASE Releases(p)
  BY <1>9 DEF Releases
<1>10. CASE \E f \in FileNo : Drops(p, f) \/ Frees(p, f)
  BY <1>10 DEF Drops, Frees
<1> QED
  BY <1>2, <1>3, <1>4, <1>5, <1>6, <1>7, <1>8, <1>9, <1>10 DEF Moves

\* p is where it may be in hand of something of its own only after these.
LEMMA MovesWhere ==
    ASSUME FilesConstants, FilesTypeOK, NEW p \in Procs, Moves(p)
    PROVE  /\ call'[p].at \in {"pipe2", "page"} =>
                \E f \in FileNo, at \in FilePlaces, files \in Seq(FileNo), next \in {"", "user", "exit"} :
                  Takes(p, f, at, files, next)
           /\ call'[p].at = "copyout" => \E r, w \in FileNo, g \in 1 .. NPages : Pipes(p, r, w, g)
           /\ call'[p].at = "gone" => ofile[p] = Nothing /\ ofile' = ofile
           /\ call'[p].at = "fork" => At(p, "fork") /\ call' = call
<1>1. CASE \E fd \in Fds, f \in FileNo : Opens(p, fd, f)
  BY <1>1 DEF Opens, At
<1>2. CASE \E f \in FileNo, at \in FilePlaces, files \in Seq(FileNo), next \in {"", "user", "exit"} : Takes(p, f, at, files, next)
  <2>1. call'[p].at \in {"pipe2", "page", "close"}
    BY <1>2, CallFields DEF Takes
  <2> QED  BY <1>2, <2>1
<1>3. CASE \E q \in Procs, fd \in Fds, f \in FileNo : Shares(p, q, fd, f)
  BY <1>3 DEF Shares, At
<1>4. CASE \E fd \in Fds, f \in FileNo, next \in {"", "user", "exit"} : Picks(p, fd, f, next)
  <2>1. call'[p].at = "close"
    BY <1>4, CallFields DEF Picks
  <2> QED  BY <2>1
<1>5. CASE \E at \in FilePlaces, files \in Seq(FileNo), next \in {"", "user", "exit"}, kid \in Procs \cup {0} :
             Turns(p, at, files, next, kid)
  <2>1. PICK at \in FilePlaces, files \in Seq(FileNo), next \in {"", "user", "exit"}, kid \in Procs \cup {0} :
             Turns(p, at, files, next, kid)
    BY <1>5
  <2>2. CallIs(p, at, files, call[p].last, next, kid)
    BY <2>1 DEF Turns
  <2>3. call'[p].at = at
    BY <2>2, CallFields
  <2> QED  BY <2>1, <2>3 DEF Turns
<1>6. CASE \E r, w \in FileNo, g \in 1 .. NPages : Pipes(p, r, w, g)
  <2>1. PICK r, w \in FileNo, g \in 1 .. NPages : Pipes(p, r, w, g)
    BY <1>6
  <2>2. PICK at, next : CallIs(p, at, call[p].files, call[p].last, next, call[p].kid) /\ at \in {"close", "copyout"}
    BY <2>1 DEF Pipes
  <2>3. call'[p].at = at
    BY <2>2, CallFields
  <2> QED  BY <1>6, <2>2, <2>3
<1>7. CASE Faults(p)
  <2>1. call'[p].at = "close"
    BY <1>7, CallFields DEF Faults
  <2> QED  BY <2>1
<1>8. CASE Releases(p)
  <2>1. call'[p].at = "close"
    BY <1>8, CallFields DEF Releases
  <2> QED  BY <2>1
<1>9. CASE \E f \in FileNo : Drops(p, f) \/ Frees(p, f)
  <2>1. PICK at, last : CallIs(p, at, Tail(call[p].files), last, call[p].next, call[p].kid) /\ at \in {"close", "release"}
    BY <1>9 DEF Drops, Frees
  <2>2. call'[p].at = at
    BY <2>1, CallFields
  <2> QED  BY <2>1, <2>2
<1> QED
  BY <1>1, <1>2, <1>3, <1>4, <1>5, <1>6, <1>7, <1>8, <1>9 DEF Moves

LEMMA MovesUnused ==
    ASSUME FilesConstants, FilesTypeOK, UnusedBlank, NEW p \in Procs, Moves(p), NEW e \in FileNo, ftable'[e].ref = 0
    PROVE  ftable'[e] = Blank
<1>1. ASSUME NEW f \in FileNo, NEW ref \in Nat, NEW type, NEW ip, FileIs(f, ref, type, ip),
             ref = 0 => type = "none" /\ ip = 0
      PROVE  ftable'[e] = Blank
  <2>1. CASE e = f
    <3>1. ftable'[e] = [ref |-> ref, type |-> type, ip |-> ip]
      BY <1>1, <2>1 DEF FileIs
    <3>2. ref = 0
      BY <3>1
    <3> QED  BY <1>1, <3>1, <3>2 DEF Blank
  <2>2. CASE e # f
    BY <1>1, <2>2 DEF FileIs, UnusedBlank
  <2> QED  BY <2>1, <2>2
<1>0. UNCHANGED ftable => ftable'[e] = Blank
  BY DEF UnusedBlank
<1>2. CASE \E fd \in Fds, f \in FileNo : Opens(p, fd, f)
  BY <1>1, <1>2 DEF Opens
<1>3. CASE \E f \in FileNo, at \in FilePlaces, files \in Seq(FileNo), next \in {"", "user", "exit"} : Takes(p, f, at, files, next)
  BY <1>1, <1>3 DEF Takes
<1>4. CASE \E q \in Procs, fd \in Fds, f \in FileNo : Shares(p, q, fd, f)
  <2>1. PICK f \in FileNo : FileIs(f, ftable[f].ref + 1, ftable[f].type, ftable[f].ip)
    BY <1>4 DEF Shares
  <2>2. ftable[f].ref \in Nat
    BY RecParts
  <2>3. PICK ref \in Nat : ref = ftable[f].ref + 1
    BY <2>2
  <2>4. FileIs(f, ref, ftable[f].type, ftable[f].ip) /\ ref # 0
    BY <2>1, <2>2, <2>3
  <2> QED  BY <1>1, <2>4
<1>5. CASE \E fd \in Fds, f \in FileNo, next \in {"", "user", "exit"} : Picks(p, fd, f, next)
  BY <1>0, <1>5 DEF Picks
<1>6. CASE \E at \in FilePlaces, files \in Seq(FileNo), next \in {"", "user", "exit"}, kid \in Procs \cup {0} :
             Turns(p, at, files, next, kid)
  BY <1>0, <1>6 DEF Turns
<1>7. CASE \E r, w \in FileNo, g \in 1 .. NPages : Pipes(p, r, w, g)
  <2>1. PICK r, w \in FileNo, g \in 1 .. NPages : Pipes(p, r, w, g)
    BY <1>7
  <2>2. /\ ftable'[e].ref = 1 \/ ftable'[e] = ftable[e]
    BY <2>1 DEF Pipes
  <2> QED  BY <2>2 DEF UnusedBlank
<1>8. CASE Faults(p)
  BY <1>0, <1>8 DEF Faults
<1>9. CASE Releases(p)
  BY <1>0, <1>9 DEF Releases
<1>10. CASE \E f \in FileNo : Drops(p, f) \/ Frees(p, f)
  <2>1. PICK f \in FileNo : Drops(p, f) \/ Frees(p, f)
    BY <1>10
  <2>2. CASE Frees(p, f)
    BY <1>1, <2>2 DEF Frees
  <2>3. CASE Drops(p, f)
    <3>2. ftable[f].ref \in Nat /\ ftable[f].ref > 1
      BY <2>3, RecParts DEF Drops
    <3>3. PICK ref \in Nat : ref = ftable[f].ref - 1
      BY <3>2
    <3>4. FileIs(f, ref, ftable[f].type, ftable[f].ip) /\ ref # 0
      BY <2>3, <3>2, <3>3 DEF Drops
    <3> QED  BY <1>1, <3>4
  <2> QED  BY <2>1, <2>2, <2>3
<1> QED
  BY <1>2, <1>3, <1>4, <1>5, <1>6, <1>7, <1>8, <1>9, <1>10 DEF Moves

LEMMA MovesPipeFiles ==
    ASSUME FilesConstants, FilesTypeOK, FilesInHand, RefsExact, PipeFiles, Kids, UnusedBlank,
           NEW p \in Procs, Moves(p), NEW q \in Procs
    PROVE  /\ call'[q].at \in {"pipe2", "page"} =>
                \A f \in Range(call'[q].files) : ftable'[f].ref = 1 /\ ftable'[f].type = "none"
           /\ call'[q].at = "copyout" =>
                \A f \in Range(call'[q].files) : \E fd \in Fds : \A d \in Fds : ofile'[q][d] = f <=> d = fd
<1>n. 0 \in 0 .. NPages
  BY DEF FilesConstants
<1>1. CASE q # p
  <2>1. call'[q] = call[q]
    BY <1>1, MovesAt
  <2>2. ASSUME call'[q].at \in {"pipe2", "page"}, NEW f \in Range(call'[q].files)
        PROVE  ftable'[f].ref = 1 /\ ftable'[f].type = "none"
    <3>1. /\ f \in FileNo /\ ftable[f].ref = 1 /\ ftable[f].type = "none"
          /\ Descriptors(f) = {} /\ InHand(f) = {q}
      BY <2>1, <2>2, PipeOwn
    <3>2. ftable'[f] = ftable[f]
      BY <1>1, <3>1, MovesTable
    <3> QED  BY <3>1, <3>2
  <2>3. ASSUME call'[q].at = "copyout", NEW f \in Range(call'[q].files)
        PROVE  \E fd \in Fds : \A d \in Fds : ofile'[q][d] = f <=> d = fd
    <3>1. \E fd \in Fds : \A d \in Fds : ofile[q][d] = f <=> d = fd
      BY <2>1, <2>3 DEF PipeFiles
    <3>2. ~ (At(p, "fork") /\ q = call[p].kid)
      BY <2>1, <2>3 DEF Kids, At
    <3>3. ofile'[q] = ofile[q]
      BY <1>1, <3>2, MovesDescriptors
    <3> QED  BY <3>1, <3>3
  <2> QED  BY <2>2, <2>3
<1>2. CASE q = p
  <2>1. ASSUME call'[p].at \in {"pipe2", "page"}, NEW e \in Range(call'[p].files)
        PROVE  ftable'[e].ref = 1 /\ ftable'[e].type = "none"
    <3>1. PICK f \in FileNo, at \in FilePlaces, files \in Seq(FileNo), next \in {"", "user", "exit"} :
             Takes(p, f, at, files, next)
      BY <2>1, MovesWhere
    <3>2. CallIs(p, at, files, call[p].last, next, call[p].kid) /\ FileIs(f, 1, "none", 0)
          /\ Range(files) = Range(call[p].files) \cup {f} /\ f \notin Range(call[p].files)
          /\ (At(p, "user") \/ At(p, "pipe2"))
      BY <3>1 DEF Takes
    <3>3. call'[p].files = files
      BY <3>2, CallFields
    <3>4. CASE e = f
      <4>1. FileIs(f, 1, "none", 0)
        BY <3>2
      <4>2. ftable'[f].ref = 1 /\ ftable'[f].type = "none"
        BY <1>n, <4>1, FileFields
      <4> QED  BY <3>4, <4>2
    <3>5. CASE e # f
      <4>1. e \in Range(call[p].files)
        BY <2>1, <3>2, <3>3, <3>5
      <4>2. call[p].at = "pipe2"
        <5>1. CASE At(p, "user")
          <6>1. call[p].files = <<>>
            BY <5>1, CallAt
          <6>2. Range(<<>>) = {}
            BY EmptyRange
          <6> QED  BY <4>1, <6>1, <6>2
        <5> QED  BY <3>2, <5>1 DEF At
      <4>3. e \in FileNo /\ ftable[e].ref = 1 /\ ftable[e].type = "none"
        BY <4>1, <4>2, PipeOwn
      <4>4. ftable'[e] = ftable[e]
        BY <3>2, <3>5, <4>3 DEF FileIs
      <4> QED  BY <4>3, <4>4
    <3> QED  BY <3>4, <3>5
  <2>2. ASSUME call'[p].at = "copyout", NEW e \in Range(call'[p].files)
        PROVE  \E fd \in Fds : \A d \in Fds : ofile'[p][d] = e <=> d = fd
    <3>1. PICK r, w \in FileNo, g \in 1 .. NPages : Pipes(p, r, w, g)
      BY <2>2, MovesWhere
    <3>2. At(p, "page") /\ Range(call[p].files) = {r, w} /\ r # w
      BY <3>1 DEF Pipes
    <3>3. ~ CallIs(p, "close", call[p].files, call[p].last, "user", call[p].kid)
      BY <2>2, CallFields
    <3>4. CallIs(p, "copyout", call[p].files, call[p].last, call[p].next, call[p].kid)
      BY <3>1, <3>3 DEF Pipes
    <3>5. PICK a, b \in Fds :
               /\ a # b /\ ofile[p][a] = 0 /\ ofile[p][b] = 0
               /\ ofile'[p][a] = r /\ ofile'[p][b] = w
               /\ \A d \in Fds : d # a /\ d # b => ofile'[p][d] = ofile[p][d]
      BY <3>1, <3>3 DEF Pipes
    <3>6. Descriptors(r) = {} /\ Descriptors(w) = {}
      BY <3>2, PipeOwn DEF At
    <3>7. \A d \in Fds : ofile[p][d] # r /\ ofile[p][d] # w
      <4>1. \A d \in Fds : <<p, d>> \in Procs \X Fds /\ <<p, d>>[1] = p /\ <<p, d>>[2] = d
        OBVIOUS
      <4> QED  BY <3>6, <4>1 DEF Descriptors
    <3>8. e \in {r, w}
      <4>1. call'[p].files = call[p].files
        BY <3>4, CallFields
      <4> QED  BY <2>2, <3>2, <4>1
    <3> QED  BY <3>2, <3>5, <3>7, <3>8
  <2> QED  BY <1>2, <2>1, <2>2
<1> QED
  BY <1>1, <1>2

LEMMA MovesKids ==
    ASSUME FilesConstants, FilesTypeOK, Kids, NEW p \in Procs, Moves(p), NEW q \in Procs
    PROVE  /\ call'[q].at = "gone" => \A fd \in Fds : ofile'[q][fd] = 0
           /\ call'[q].at = "fork" =>
                /\ call'[q].kid \in Procs /\ call'[call'[q].kid].at = "new"
                /\ \A fd \in Fds : ofile'[call'[q].kid][fd] \in {0, ofile'[q][fd]}
                /\ \A r \in Procs : call'[r].at = "fork" /\ call'[r].kid = call'[q].kid => r = q
<1>0. ~ At(p, "new") /\ \A r \in Procs : r # p => call'[r] = call[r]
  BY MovesAt
<1>1. ASSUME call'[q].at = "gone", NEW fd \in Fds PROVE ofile'[q][fd] = 0
  <2>1. CASE q = p
    <3>1. ofile[p] = Nothing /\ ofile' = ofile
      BY <1>1, <2>1, MovesWhere
    <3> QED  BY <2>1, <3>1 DEF Nothing
  <2>2. CASE q # p
    <3>1. call[q].at = "gone"
      BY <1>0, <1>1, <2>2
    <3>2. ~ (At(p, "fork") /\ q = call[p].kid)
      BY <3>1 DEF Kids, At
    <3>3. ofile'[q] = ofile[q]
      BY <2>2, <3>2, MovesDescriptors
    <3> QED  BY <3>1, <3>3 DEF Kids
  <2> QED  BY <2>1, <2>2
<1>2. ASSUME NEW r \in Procs, call'[r].at = "fork" PROVE call[r].at = "fork" /\ call'[r] = call[r]
  <2>1. CASE r = p
    BY <1>2, <2>1, MovesWhere DEF At
  <2>2. CASE r # p
    BY <1>0, <1>2, <2>2
  <2> QED  BY <2>1, <2>2
<1>3. ASSUME call'[q].at = "fork"
      PROVE  /\ call'[q].kid \in Procs /\ call'[call'[q].kid].at = "new"
             /\ \A fd \in Fds : ofile'[call'[q].kid][fd] \in {0, ofile'[q][fd]}
             /\ \A r \in Procs : call'[r].at = "fork" /\ call'[r].kid = call'[q].kid => r = q
  <2>1. call[q].at = "fork" /\ call'[q] = call[q]
    BY <1>2, <1>3
  <2>2. PICK k : k = call[q].kid
    OBVIOUS
  <2>3. /\ k \in Procs /\ call[k].at = "new" /\ \A fd \in Fds : ofile[k][fd] \in {0, ofile[q][fd]}
        /\ \A r \in Procs : call[r].at = "fork" /\ call[r].kid = k => r = q
    BY <2>1, <2>2 DEF Kids
  <2>4. k # p /\ call'[k].at = "new" /\ k # q
    BY <1>0, <2>1, <2>3 DEF At
  <2>5. ASSUME NEW fd \in Fds PROVE ofile'[k][fd] \in {0, ofile'[q][fd]}
    <3>1. CASE q = p
      <4>1. CASE \E r \in Procs, d \in Fds, f \in FileNo : Shares(p, r, d, f)
        <5>1. PICK r \in Procs, d \in Fds, f \in FileNo : Shares(p, r, d, f)
          BY <4>1
        <5>2. r = k /\ ofile[p][d] = f /\ DescriptorBe(k, d, f) /\ f \in 0 .. NFILE
          BY <2>1, <2>2, <3>1, <5>1 DEF Shares, At, FileNo, FilesConstants
        <5>3. /\ ofile'[k][d] = f /\ \A x \in Fds : x # d => ofile'[k][x] = ofile[k][x]
              /\ ofile'[p] = ofile[p]
          BY <2>3, <2>4, <5>2, DescriptorIs
        <5> QED  BY <2>3, <3>1, <5>2, <5>3
      <4>2. CASE UNCHANGED ofile
        BY <2>3, <4>2
      <4>3. At(p, "fork")
        BY <2>1, <3>1 DEF At
      <4>4. \/ \E r \in Procs, d \in Fds, f \in FileNo : Shares(p, r, d, f)
            \/ UNCHANGED ofile
        BY <4>3 DEF Moves, Opens, Takes, Picks, Turns, Pipes, Faults, Releases, Drops, Frees, At
      <4> QED  BY <4>1, <4>2, <4>4
    <3>2. CASE q # p
      <4>1. ~ (At(p, "fork") /\ k = call[p].kid) /\ ~ (At(p, "fork") /\ q = call[p].kid)
        BY <2>1, <2>3, <3>2 DEF Kids, At
      <4>2. ofile'[k] = ofile[k] /\ ofile'[q] = ofile[q]
        BY <2>3, <2>4, <3>2, <4>1, MovesDescriptors
      <4> QED  BY <2>3, <4>2
    <3> QED  BY <3>1, <3>2
  <2>6. \A r \in Procs : call'[r].at = "fork" /\ call'[r].kid = k => r = q
    BY <1>2, <2>3
  <2> QED  BY <2>1, <2>2, <2>3, <2>4, <2>5, <2>6
<1> QED
  BY <1>1, <1>3

-----------------------------------------------------------------------------
(* Ends and inodes. *)

EndsInv == OnePerEnd /\ EndsExact /\ InodeExact

TypesKept ==
    /\ \A e \in FileNo : ftable'[e].type = ftable[e].type /\ ftable'[e].ip = ftable[e].ip
    /\ \A q \in Procs : call'[q].last = call[q].last
    /\ UNCHANGED <<pages, inode>>

LEMMA Kept == ASSUME EndsInv, TypesKept PROVE EndsInv'
<1>1. \A type, g : (\E p \in Procs : call'[p].last.type = type /\ call'[p].last.ip = g) <=> Releasing(type, g)
  BY DEF TypesKept, Releasing
<1>2. OnePerEnd'
  BY <1>1 DEF EndsInv, TypesKept, OnePerEnd, Releasing, Ends
<1>3. EndsExact'
  BY <1>1 DEF EndsInv, TypesKept, EndsExact, Releasing, Ends
<1>4. InodeFiles' = InodeFiles /\ InodePuts' = InodePuts
  BY DEF TypesKept, InodeFiles, InodePuts
<1>5. InodeExact'
  BY <1>4 DEF EndsInv, TypesKept, InodeExact
<1> QED
  BY <1>2, <1>3, <1>5 DEF EndsInv

LEMMA LastKept ==
    ASSUME NEW p \in Procs, NEW at, NEW files, NEW next, NEW kid, CallIs(p, at, files, call[p].last, next, kid)
    PROVE  \A q \in Procs : call'[q].last = call[q].last
<1>1. call'[p].last = call[p].last
  <2>1. PICK last : last = call[p].last
    OBVIOUS
  <2>2. CallIs(p, at, files, last, next, kid)
    BY <2>1
  <2> QED  BY <2>1, <2>2, CallFields
<1>2. \A q \in Procs : q # p => call'[q] = call[q]
  BY DEF CallIs
<1> QED
  BY <1>1, <1>2

LEMMA MovesKept ==
    ASSUME FilesConstants, FilesTypeOK, FilesInHand, NEW p \in Procs, Moves(p)
    PROVE  \/ TypesKept
           \/ \E fd \in Fds, f \in FileNo : Opens(p, fd, f)
           \/ \E r, w \in FileNo, g \in 1 .. NPages : Pipes(p, r, w, g)
           \/ \E f \in FileNo : Frees(p, f)
           \/ Releases(p)
<1>n. 0 \in 0 .. NPages
  BY DEF FilesConstants
<1>r. ASSUME NEW f \in FileNo, FileIs(f, 1, "none", 0) PROVE ftable'[f].type = "none" /\ ftable'[f].ip = 0
  <2>1. ftable'[f] = [ref |-> 1, type |-> "none", ip |-> 0]
    BY <1>r DEF FileIs
  <2> QED  BY <2>1
<1>3. CASE \E f \in FileNo, at \in FilePlaces, files \in Seq(FileNo), next \in {"", "user", "exit"} : Takes(p, f, at, files, next)
  <2>1. PICK f, at, files, next :
          /\ f \in FileNo /\ ftable[f] = Blank /\ FileIs(f, 1, "none", 0) /\ UNCHANGED <<pages, inode>>
          /\ CallIs(p, at, files, call[p].last, next, call[p].kid)
    BY <1>3 DEF Takes
  <2>2. \A q \in Procs : call'[q].last = call[q].last
    BY <2>1, LastKept
  <2>3. ftable'[f].type = ftable[f].type /\ ftable'[f].ip = ftable[f].ip
    <3>1. f \in FileNo /\ FileIs(f, 1, "none", 0)
      BY <2>1
    <3>2. ftable'[f].type = "none"
      BY <1>r, <3>1
    <3>3. ftable'[f].ip = 0
      BY <1>r, <3>1
    <3> QED  BY <2>1, <3>2, <3>3 DEF Blank
  <2>4. \A e \in FileNo : e # f => ftable'[e] = ftable[e]
    BY <2>1 DEF FileIs
  <2> QED  BY <2>1, <2>2, <2>3, <2>4 DEF TypesKept
<1>4. CASE \E q \in Procs, fd \in Fds, f \in FileNo : Shares(p, q, fd, f)
  <2>1. PICK f \in FileNo :
          FileIs(f, ftable[f].ref + 1, ftable[f].type, ftable[f].ip) /\ UNCHANGED <<pages, inode, call>>
    BY <1>4 DEF Shares
  <2>2. ftable[f].ref \in Nat
    BY RecParts
  <2>3. PICK ref \in Nat : ref = ftable[f].ref + 1
    BY <2>2
  <2>4. FileIs(f, ref, ftable[f].type, ftable[f].ip)
    BY <2>1, <2>3
  <2>5. /\ ftable'[f].type = ftable[f].type /\ ftable'[f].ip = ftable[f].ip
        /\ \A e \in FileNo : e # f => ftable'[e] = ftable[e]
    BY <2>4, RefFields
  <2> QED  BY <2>1, <2>5 DEF TypesKept
<1>5. CASE \E fd \in Fds, f \in FileNo, next \in {"", "user", "exit"} : Picks(p, fd, f, next)
  <2>1. PICK at, files, next, kid : CallIs(p, at, files, call[p].last, next, kid) /\ UNCHANGED <<ftable, pages, inode>>
    BY <1>5 DEF Picks
  <2>2. \A q \in Procs : call'[q].last = call[q].last
    BY <2>1, LastKept
  <2> QED  BY <2>1, <2>2 DEF TypesKept
<1>6. CASE \E at \in FilePlaces, files \in Seq(FileNo), next \in {"", "user", "exit"}, kid \in Procs \cup {0} :
             Turns(p, at, files, next, kid)
  <2>1. PICK at, files, next, kid : CallIs(p, at, files, call[p].last, next, kid) /\ UNCHANGED <<ftable, pages, inode>>
    BY <1>6 DEF Turns
  <2>2. \A q \in Procs : call'[q].last = call[q].last
    BY <2>1, LastKept
  <2> QED  BY <2>1, <2>2 DEF TypesKept
<1>7. CASE Faults(p)
  <2>1. PICK at, files, next, kid : CallIs(p, at, files, call[p].last, next, kid) /\ UNCHANGED <<ftable, pages, inode>>
    BY <1>7 DEF Faults
  <2>2. \A q \in Procs : call'[q].last = call[q].last
    BY <2>1, LastKept
  <2> QED  BY <2>1, <2>2 DEF TypesKept
<1>8. CASE \E f \in FileNo : Drops(p, f)
  <2>1. PICK f, at, files, next, kid :
          /\ f \in FileNo /\ FileIs(f, ftable[f].ref - 1, ftable[f].type, ftable[f].ip) /\ UNCHANGED <<pages, inode>>
          /\ CallIs(p, at, files, call[p].last, next, kid) /\ ftable[f].ref > 1
    BY <1>8 DEF Drops
  <2>0. f \in FileNo
    BY <2>1
  <2>2. ftable[f].ref \in Nat
    BY <2>0, RecParts
  <2>3. PICK ref \in Nat : ref = ftable[f].ref - 1
    BY <2>1, <2>2
  <2>4. FileIs(f, ref, ftable[f].type, ftable[f].ip)
    BY <2>1, <2>3
  <2>5. /\ ftable'[f].type = ftable[f].type /\ ftable'[f].ip = ftable[f].ip
        /\ \A e \in FileNo : e # f => ftable'[e] = ftable[e]
    BY <2>0, <2>4, RefFields
  <2>6. \A q \in Procs : call'[q].last = call[q].last
    BY <2>1, LastKept
  <2> QED  BY <2>1, <2>5, <2>6 DEF TypesKept
<1> QED
  BY <1>3, <1>4, <1>5, <1>6, <1>7, <1>8 DEF Moves

LEMMA InodesFinite == ASSUME FilesConstants PROVE IsFiniteSet(InodeFiles) /\ IsFiniteSet(InodePuts)
<1>1. IsFiniteSet(FileNo)
  <2>1. 1 \in Int /\ NFILE \in Int
    BY DEF FilesConstants
  <2> QED  BY <2>1, FS_Interval DEF FileNo
<1>2. InodeFiles \subseteq FileNo /\ InodePuts \subseteq Procs
  BY DEF InodeFiles, InodePuts
<1> QED
  BY <1>1, <1>2, FS_Subset DEF FilesConstants

LEMMA OpensEnds ==
    ASSUME FilesConstants, FilesTypeOK, EndsInv, NEW p \in Procs, NEW fd \in Fds, NEW f \in FileNo, Opens(p, fd, f)
    PROVE  EndsInv'
<1>n. 0 \in 0 .. NPages
  BY DEF FilesConstants
<1>1. ftable[f] = Blank /\ FileIs(f, 1, "inode", 0) /\ inode' = inode + 1 /\ pages' = pages /\ call' = call
  BY DEF Opens
<1>2. ftable'[f].type = "inode" /\ ftable[f].type = "none"
  <2>1. ftable'[f].type = "inode"
    BY <1>n, <1>1, FileFields
  <2> QED  BY <1>1, <2>1 DEF Blank
<1>3. \A e \in FileNo : e # f => ftable'[e] = ftable[e]
  BY <1>1 DEF FileIs
<1>4. \A e \in FileNo : ftable'[e].type \in Ends \/ ftable[e].type \in Ends => ftable'[e] = ftable[e]
  BY <1>2, <1>3 DEF Ends
<1>5. OnePerEnd'
  <2>1. \A e \in FileNo, t \in Ends : \A g : ftable'[e].type = t /\ ftable'[e].ip = g <=> ftable[e].type = t /\ ftable[e].ip = g
    BY <1>4
  <2>2. OnePerEnd
    BY DEF EndsInv
  <2> QED  BY <1>1, <1>4, <2>1, <2>2 DEF OnePerEnd, Releasing
<1>6. EndsExact'
  <2>1. \A e \in FileNo, t \in Ends : \A g : ftable'[e].type = t /\ ftable'[e].ip = g <=> ftable[e].type = t /\ ftable[e].ip = g
    BY <1>4
  <2>2. EndsExact
    BY DEF EndsInv
  <2>3. ASSUME NEW g \in DOMAIN pages, NEW t \in Ends
        PROVE  t \in pages[g] <=> \/ \E e \in FileNo : ftable'[e].type = t /\ ftable'[e].ip = g
                                  \/ \E q \in Procs : call'[q].last.type = t /\ call'[q].last.ip = g
    <3>1. t \in pages[g] <=> \/ \E e \in FileNo : ftable[e].type = t /\ ftable[e].ip = g
                             \/ \E q \in Procs : call[q].last.type = t /\ call[q].last.ip = g
      BY <2>2 DEF EndsExact, Releasing
    <3>2. (\E e \in FileNo : ftable'[e].type = t /\ ftable'[e].ip = g) <=> \E e \in FileNo : ftable[e].type = t /\ ftable[e].ip = g
      BY <2>1
    <3> QED  BY <1>1, <3>1, <3>2
  <2> QED  BY <1>1, <2>3 DEF EndsExact, Releasing, Ends
<1>7. InodeExact'
  <2>1. InodeFiles' = InodeFiles \cup {f} /\ f \notin InodeFiles /\ InodePuts' = InodePuts
    BY <1>1, <1>2, <1>3 DEF InodeFiles, InodePuts
  <2>2. Cardinality(InodeFiles') = Cardinality(InodeFiles) + 1
    BY <2>1, InodesFinite, Gains
  <2>3. inode = Cardinality(InodeFiles) + Cardinality(InodePuts)
    BY DEF EndsInv, InodeExact
  <2>4. Cardinality(InodeFiles) \in Nat /\ Cardinality(InodePuts) \in Nat
    BY InodesFinite, CardNat
  <2>5. inode' = Cardinality(InodeFiles') + Cardinality(InodePuts')
    BY <1>1, <2>1, <2>2, <2>3, <2>4
  <2> QED  BY <2>5 DEF InodeExact
<1> QED
  BY <1>5, <1>6, <1>7 DEF EndsInv

LEMMA FreesEnds ==
    ASSUME FilesConstants, FilesTypeOK, FilesInHand, EndsInv, NEW p \in Procs, NEW f \in FileNo, Frees(p, f)
    PROVE  EndsInv'
<1>n. 0 \in 0 .. NPages
  BY DEF FilesConstants
<1>1. /\ FileIs(f, 0, "none", 0) /\ inode' = inode /\ pages' = pages /\ At(p, "close")
      /\ CallIs(p, "release", Tail(call[p].files), ftable[f], call[p].next, call[p].kid)
  BY DEF Frees
<1>2. ftable'[f].type = "none"
  BY <1>n, <1>1, FileFields
<1>3. \A e \in FileNo : e # f => ftable'[e] = ftable[e]
  BY <1>1 DEF FileIs
<1>4. call'[p].last = ftable[f]
  BY <1>1, CallFields
<1>5. call[p].last.type = "none"
  <2>1. call[p].last = Blank
    BY <1>1, CallAt DEF At
  <2> QED  BY <2>1 DEF Blank
<1>6. \A q \in Procs : q # p => call'[q] = call[q]
  BY <1>1 DEF CallIs
<1>7. OnePerEnd /\ EndsExact
  BY DEF EndsInv
<1>8. OnePerEnd'
  <2>1. ASSUME NEW e \in FileNo, ftable'[e].type \in Ends
        PROVE  /\ ftable'[e].ip # 0
               /\ \A d \in FileNo : ftable'[d].type = ftable'[e].type /\ ftable'[d].ip = ftable'[e].ip => d = e
               /\ \A q \in Procs : ~ (call'[q].last.type = ftable'[e].type /\ call'[q].last.ip = ftable'[e].ip)
    <3>1. e # f /\ ftable'[e] = ftable[e]
      BY <1>2, <1>3, <2>1 DEF Ends
    <3>2. /\ ftable[e].ip # 0
          /\ \A d \in FileNo : ftable[d].type = ftable[e].type /\ ftable[d].ip = ftable[e].ip => d = e
          /\ ~ Releasing(ftable[e].type, ftable[e].ip)
      BY <1>7, <2>1, <3>1 DEF OnePerEnd
    <3>3. \A d \in FileNo : ftable'[d].type = ftable'[e].type /\ ftable'[d].ip = ftable'[e].ip => d = e
      BY <1>2, <1>3, <2>1, <3>1, <3>2 DEF Ends
    <3>4. \A q \in Procs : ~ (call'[q].last.type = ftable[e].type /\ call'[q].last.ip = ftable[e].ip)
      BY <1>4, <1>6, <3>1, <3>2 DEF Releasing
    <3> QED  BY <3>1, <3>2, <3>3, <3>4
  <2>2. ASSUME NEW q \in Procs, call'[q].last.type \in Ends
        PROVE  /\ call'[q].last.ip # 0
               /\ \A r \in Procs : call'[r].last.type = call'[q].last.type /\ call'[r].last.ip = call'[q].last.ip => r = q
    <3>1. CASE q = p
      <4>1. ftable[f].type \in Ends /\ ftable[f].ip # 0 /\ ~ Releasing(ftable[f].type, ftable[f].ip)
        BY <1>4, <1>7, <2>2, <3>1 DEF OnePerEnd
      <4> QED  BY <1>4, <1>6, <3>1, <4>1 DEF Releasing
    <3>2. CASE q # p
      <4>1. call'[q] = call[q] /\ call[q].last.type \in Ends
        BY <1>6, <2>2, <3>2
      <4>2. /\ call[q].last.ip # 0
            /\ \A r \in Procs : call[r].last.type = call[q].last.type /\ call[r].last.ip = call[q].last.ip => r = q
        BY <1>7, <4>1 DEF OnePerEnd
      <4>3. ~ (ftable[f].type = call[q].last.type /\ ftable[f].ip = call[q].last.ip)
        BY <1>7, <4>1 DEF OnePerEnd, Releasing
      <4>4. \A r \in Procs : r # p => call'[r] = call[r]
        BY <1>6
      <4> QED  BY <1>4, <3>2, <4>1, <4>2, <4>3, <4>4
    <3> QED  BY <3>1, <3>2
  <2> QED  BY <2>1, <2>2 DEF OnePerEnd, Releasing, Ends
<1>9. EndsExact'
  <2>1. ASSUME NEW g \in DOMAIN pages, NEW t \in Ends
        PROVE  t \in pages[g] <=> \/ \E e \in FileNo : ftable'[e].type = t /\ ftable'[e].ip = g
                                  \/ \E q \in Procs : call'[q].last.type = t /\ call'[q].last.ip = g
    <3>1. t \in pages[g] <=> \/ \E e \in FileNo : ftable[e].type = t /\ ftable[e].ip = g
                             \/ \E q \in Procs : call[q].last.type = t /\ call[q].last.ip = g
      BY <1>7 DEF EndsExact, Releasing
    <3>2. ASSUME NEW e \in FileNo, ftable[e].type = t, ftable[e].ip = g
          PROVE  \/ \E d \in FileNo : ftable'[d].type = t /\ ftable'[d].ip = g
                 \/ \E q \in Procs : call'[q].last.type = t /\ call'[q].last.ip = g
      <4>1. CASE e = f
        BY <1>4, <3>2, <4>1
      <4>2. CASE e # f
        BY <1>3, <3>2, <4>2
      <4> QED  BY <4>1, <4>2
    <3>3. ASSUME NEW q \in Procs, call[q].last.type = t, call[q].last.ip = g
          PROVE  call'[q].last.type = t /\ call'[q].last.ip = g
      <4>1. q # p
        BY <1>5, <3>3 DEF Ends
      <4> QED  BY <1>6, <3>3, <4>1
    <3>4. ASSUME NEW e \in FileNo, ftable'[e].type = t, ftable'[e].ip = g
          PROVE  ftable[e].type = t /\ ftable[e].ip = g
      <4>1. e # f
        BY <1>2, <3>4 DEF Ends
      <4> QED  BY <1>3, <3>4, <4>1
    <3>5. ASSUME NEW q \in Procs, call'[q].last.type = t, call'[q].last.ip = g
          PROVE  \/ \E e \in FileNo : ftable[e].type = t /\ ftable[e].ip = g
                 \/ call[q].last.type = t /\ call[q].last.ip = g
      <4>1. CASE q = p
        BY <1>4, <3>5, <4>1
      <4>2. CASE q # p
        BY <1>6, <3>5, <4>2
      <4> QED  BY <4>1, <4>2
    <3> QED  BY <3>1, <3>2, <3>3, <3>4, <3>5
  <2> QED  BY <1>1, <2>1 DEF EndsExact, Releasing, Ends
<1>10. InodeExact'
  <2>1. inode = Cardinality(InodeFiles) + Cardinality(InodePuts)
    BY DEF EndsInv, InodeExact
  <2>2. Cardinality(InodeFiles) \in Nat /\ Cardinality(InodePuts) \in Nat
    BY InodesFinite, CardNat
  <2>3. CASE ftable[f].type = "inode"
    <3>1. InodeFiles' = InodeFiles \ {f} /\ f \in InodeFiles
      BY <1>2, <1>3, <2>3 DEF InodeFiles
    <3>2. InodePuts' = InodePuts \cup {p} /\ p \notin InodePuts
      BY <1>4, <1>5, <1>6, <2>3 DEF InodePuts
    <3>3. Cardinality(InodeFiles') = Cardinality(InodeFiles) - 1
      BY <3>1, InodesFinite, Loses
    <3>4. Cardinality(InodePuts') = Cardinality(InodePuts) + 1
      BY <3>2, InodesFinite, Gains
    <3>5. inode' = Cardinality(InodeFiles') + Cardinality(InodePuts')
      BY <1>1, <2>1, <2>2, <3>3, <3>4
    <3> QED  BY <3>5 DEF InodeExact
  <2>4. CASE ftable[f].type # "inode"
    <3>1. InodeFiles' = InodeFiles
      BY <1>2, <1>3, <2>4 DEF InodeFiles
    <3>2. InodePuts' = InodePuts
      BY <1>4, <1>5, <1>6, <2>4 DEF InodePuts
    <3> QED  BY <1>1, <2>1, <3>1, <3>2 DEF InodeExact
  <2> QED  BY <2>3, <2>4
<1> QED
  BY <1>8, <1>9, <1>10 DEF EndsInv

LEMMA PipesEnds ==
    ASSUME FilesConstants, FilesTypeOK, FilesInHand, PipeFiles, RefsExact, EndsInv,
           NEW p \in Procs, NEW r \in FileNo, NEW w \in FileNo, NEW g \in 1 .. NPages, Pipes(p, r, w, g)
    PROVE  EndsInv'
<1>1. /\ At(p, "page") /\ Range(call[p].files) = {r, w} /\ r # w
      /\ pages[g] = {} /\ pages' = [pages EXCEPT ![g] = Ends] /\ inode' = inode
      /\ ftable' = [e \in FileNo |-> IF e = r THEN [ref |-> 1, type |-> "read", ip |-> g] ELSE
                                     IF e = w THEN [ref |-> 1, type |-> "write", ip |-> g] ELSE ftable[e]]
  BY DEF Pipes
<1>2. /\ ftable'[r].type = "read" /\ ftable'[r].ip = g /\ ftable'[w].type = "write" /\ ftable'[w].ip = g
      /\ \A e \in FileNo : e # r /\ e # w => ftable'[e] = ftable[e]
  BY <1>1
<1>3. ftable[r].type = "none" /\ ftable[w].type = "none"
  BY <1>1, PipeOwn DEF At
<1>4. \A q \in Procs : call'[q].last = call[q].last
  <2>1. PICK at, next : CallIs(p, at, call[p].files, call[p].last, next, call[p].kid)
    BY DEF Pipes
  <2> QED  BY <2>1, LastKept
<1>5. OnePerEnd /\ EndsExact
  BY DEF EndsInv
<1>6. g \in DOMAIN pages /\ g # 0 /\ pages'[g] = Ends /\ DOMAIN pages' = DOMAIN pages
      /\ \A h \in DOMAIN pages : h # g => pages'[h] = pages[h]
  BY <1>1 DEF FilesTypeOK
<1>7. ASSUME NEW t \in Ends
      PROVE  /\ \A e \in FileNo : ~ (ftable[e].type = t /\ ftable[e].ip = g)
             /\ \A q \in Procs : ~ (call[q].last.type = t /\ call[q].last.ip = g)
  BY <1>1, <1>5, <1>6 DEF EndsExact, Releasing
<1>8. OnePerEnd'
  <2>1. ASSUME NEW e \in FileNo, ftable'[e].type \in Ends
        PROVE  /\ ftable'[e].ip # 0
               /\ \A d \in FileNo : ftable'[d].type = ftable'[e].type /\ ftable'[d].ip = ftable'[e].ip => d = e
               /\ \A q \in Procs : ~ (call'[q].last.type = ftable'[e].type /\ call'[q].last.ip = ftable'[e].ip)
    <3>1. CASE e = r
      <4>1. \A d \in FileNo : ftable'[d].type = "read" /\ ftable'[d].ip = g => d = r
        BY <1>2, <1>7 DEF Ends
      <4>2. \A q \in Procs : ~ (call'[q].last.type = "read" /\ call'[q].last.ip = g)
        BY <1>4, <1>7 DEF Ends
      <4> QED  BY <1>2, <1>6, <3>1, <4>1, <4>2
    <3>2. CASE e = w
      <4>1. \A d \in FileNo : ftable'[d].type = "write" /\ ftable'[d].ip = g => d = w
        BY <1>2, <1>7 DEF Ends
      <4>2. \A q \in Procs : ~ (call'[q].last.type = "write" /\ call'[q].last.ip = g)
        BY <1>4, <1>7 DEF Ends
      <4> QED  BY <1>2, <1>6, <3>2, <4>1, <4>2
    <3>3. CASE e # r /\ e # w
      <4>1. ftable'[e] = ftable[e] /\ ftable[e].type \in Ends
        BY <1>2, <2>1, <3>3
      <4>2. /\ ftable[e].ip # 0
            /\ \A d \in FileNo : ftable[d].type = ftable[e].type /\ ftable[d].ip = ftable[e].ip => d = e
            /\ ~ Releasing(ftable[e].type, ftable[e].ip)
        BY <1>5, <4>1 DEF OnePerEnd
      <4>3. ftable[e].ip # g
        BY <1>7, <4>1
      <4>4. \A d \in FileNo : ftable'[d].type = ftable[e].type /\ ftable'[d].ip = ftable[e].ip => d = e
        BY <1>2, <4>2, <4>3
      <4>5. \A q \in Procs : ~ (call'[q].last.type = ftable[e].type /\ call'[q].last.ip = ftable[e].ip)
        BY <1>4, <4>2 DEF Releasing
      <4> QED  BY <4>1, <4>2, <4>4, <4>5
    <3> QED  BY <3>1, <3>2, <3>3
  <2>2. ASSUME NEW q \in Procs, call'[q].last.type \in Ends
        PROVE  /\ call'[q].last.ip # 0
               /\ \A s \in Procs : call'[s].last.type = call'[q].last.type /\ call'[s].last.ip = call'[q].last.ip => s = q
    BY <1>4, <1>5, <2>2 DEF OnePerEnd
  <2> QED  BY <2>1, <2>2 DEF OnePerEnd, Releasing, Ends
<1>9. EndsExact'
  <2>1. ASSUME NEW h \in DOMAIN pages, NEW t \in Ends
        PROVE  t \in pages'[h] <=> \/ \E e \in FileNo : ftable'[e].type = t /\ ftable'[e].ip = h
                                   \/ \E q \in Procs : call'[q].last.type = t /\ call'[q].last.ip = h
    <3>1. CASE h = g
      BY <1>2, <1>6, <3>1 DEF Ends
    <3>2. CASE h # g
      <4>1. t \in pages[h] <=> \/ \E e \in FileNo : ftable[e].type = t /\ ftable[e].ip = h
                               \/ \E q \in Procs : call[q].last.type = t /\ call[q].last.ip = h
        BY <1>5 DEF EndsExact, Releasing
      <4>2. \A e \in FileNo : ftable'[e].type = t /\ ftable'[e].ip = h <=> ftable[e].type = t /\ ftable[e].ip = h
        BY <1>2, <1>3, <3>2 DEF Ends
      <4>3. pages'[h] = pages[h]
        BY <1>6, <3>2
      <4> QED  BY <1>4, <4>1, <4>2, <4>3
    <3> QED  BY <3>1, <3>2
  <2> QED  BY <1>6, <2>1 DEF EndsExact, Releasing, Ends
<1>10. InodeExact'
  <2>1. InodeFiles' = InodeFiles
    BY <1>2, <1>3 DEF InodeFiles
  <2>2. InodePuts' = InodePuts
    BY <1>4 DEF InodePuts
  <2> QED  BY <1>1, <2>1, <2>2 DEF EndsInv, InodeExact
<1> QED
  BY <1>8, <1>9, <1>10 DEF EndsInv

LEMMA ReleasesEnds ==
    ASSUME FilesConstants, FilesTypeOK, EndsInv, NEW p \in Procs, Releases(p)
    PROVE  EndsInv'
<1>1. PICK type : type = call[p].last.type
  OBVIOUS
<1>2. PICK ip : ip = call[p].last.ip
  OBVIOUS
<1>3. /\ pages' = IF type \in Ends THEN [pages EXCEPT ![ip] = @ \ {type}] ELSE pages
      /\ inode' = IF type = "inode" THEN inode - 1 ELSE inode
      /\ CallIs(p, "close", call[p].files, Blank, call[p].next, call[p].kid)
      /\ ftable' = ftable
  BY <1>1, <1>2 DEF Releases
<1>4. call'[p].last.type = "none" /\ \A q \in Procs : q # p => call'[q] = call[q]
  <2>1. call'[p].last = Blank
    BY <1>3, CallFields
  <2> QED  BY <1>3, <2>1 DEF CallIs, Blank
<1>5. OnePerEnd /\ EndsExact
  BY DEF EndsInv
<1>6. \A q \in Procs : call'[q].last.type # "none" => q # p /\ call'[q] = call[q]
  BY <1>4
<1>7. ASSUME type \in Ends
      PROVE  /\ ip \in DOMAIN pages
             /\ \A q \in Procs : call[q].last.type = type /\ call[q].last.ip = ip => q = p
             /\ \A e \in FileNo : ~ (ftable[e].type = type /\ ftable[e].ip = ip)
  <2>1. ip # 0 /\ \A q \in Procs : call[q].last.type = type /\ call[q].last.ip = ip => q = p
    BY <1>1, <1>2, <1>5, <1>7 DEF OnePerEnd
  <2>2. \A e \in FileNo : ~ (ftable[e].type = type /\ ftable[e].ip = ip)
    BY <1>1, <1>2, <1>5, <1>7 DEF OnePerEnd, Releasing
  <2>3. ip \in 0 .. NPages
    <3>1. call[p].last \in FileRec
      BY CallParts
    <3> QED  BY <1>2, <3>1 DEF FileRec
  <2>4. ip \in DOMAIN pages
    BY <2>1, <2>3 DEF FilesTypeOK, FilesConstants
  <2> QED  BY <2>1, <2>2, <2>4
<1>8. OnePerEnd'
  <2>1. ASSUME NEW e \in FileNo, ftable[e].type \in Ends
        PROVE  /\ ftable[e].ip # 0
               /\ \A d \in FileNo : ftable[d].type = ftable[e].type /\ ftable[d].ip = ftable[e].ip => d = e
               /\ \A q \in Procs : ~ (call'[q].last.type = ftable[e].type /\ call'[q].last.ip = ftable[e].ip)
    <3>1. /\ ftable[e].ip # 0
          /\ \A d \in FileNo : ftable[d].type = ftable[e].type /\ ftable[d].ip = ftable[e].ip => d = e
          /\ \A q \in Procs : ~ (call[q].last.type = ftable[e].type /\ call[q].last.ip = ftable[e].ip)
      BY <1>5, <2>1 DEF OnePerEnd, Releasing
    <3>2. ftable[e].type # "none"
      BY <2>1 DEF Ends
    <3>3. \A q \in Procs : ~ (call'[q].last.type = ftable[e].type /\ call'[q].last.ip = ftable[e].ip)
      BY <1>4, <3>1, <3>2
    <3> QED  BY <3>1, <3>3
  <2>2. ASSUME NEW q \in Procs, call'[q].last.type \in Ends
        PROVE  /\ call'[q].last.ip # 0
               /\ \A s \in Procs : call'[s].last.type = call'[q].last.type /\ call'[s].last.ip = call'[q].last.ip => s = q
    <3>1. call'[q].last.type # "none"
      BY <2>2 DEF Ends
    <3>2. call'[q] = call[q] /\ \A s \in Procs : call'[s].last.type = call'[q].last.type => call'[s] = call[s]
      BY <1>6, <3>1
    <3>3. /\ call[q].last.ip # 0
          /\ \A s \in Procs : call[s].last.type = call[q].last.type /\ call[s].last.ip = call[q].last.ip => s = q
      BY <1>5, <2>2, <3>2 DEF OnePerEnd
    <3> QED  BY <3>2, <3>3
  <2> QED  BY <1>3, <2>1, <2>2 DEF OnePerEnd, Releasing, Ends
<1>9. EndsExact'
  <2>0. DOMAIN pages' = DOMAIN pages
    BY <1>3
  <2>1. ASSUME NEW h \in DOMAIN pages, NEW t \in Ends
        PROVE  t \in pages'[h] <=> \/ \E e \in FileNo : ftable[e].type = t /\ ftable[e].ip = h
                                   \/ \E q \in Procs : call'[q].last.type = t /\ call'[q].last.ip = h
    <3>1. t \in pages[h] <=> \/ \E e \in FileNo : ftable[e].type = t /\ ftable[e].ip = h
                             \/ \E q \in Procs : call[q].last.type = t /\ call[q].last.ip = h
      BY <1>5 DEF EndsExact, Releasing
    <3>2. t # "none"
      BY DEF Ends
    <3>3. CASE t = type /\ h = ip
      <4>1. t \notin pages'[h]
        BY <1>3, <3>3
      <4>2. \A e \in FileNo : ~ (ftable[e].type = t /\ ftable[e].ip = h)
        BY <1>7, <3>3
      <4>3. \A q \in Procs : ~ (call'[q].last.type = t /\ call'[q].last.ip = h)
        BY <1>6, <1>7, <3>2, <3>3
      <4> QED  BY <4>1, <4>2, <4>3
    <3>4. CASE ~ (t = type /\ h = ip)
      <4>1. t \in pages'[h] <=> t \in pages[h]
        <5>1. CASE type \in Ends /\ h = ip
          <6>1. pages'[h] = pages[h] \ {type}
            BY <1>3, <5>1
          <6> QED  BY <3>4, <5>1, <6>1
        <5>2. CASE ~ (type \in Ends /\ h = ip)
          BY <1>3, <5>2
        <5> QED  BY <5>1, <5>2
      <4>2. \A q \in Procs : call'[q].last.type = t /\ call'[q].last.ip = h <=> call[q].last.type = t /\ call[q].last.ip = h
        BY <1>1, <1>2, <1>4, <3>2, <3>4
      <4> QED  BY <3>1, <4>1, <4>2
    <3> QED  BY <3>3, <3>4
  <2> QED  BY <1>3, <2>0, <2>1 DEF EndsExact, Releasing, Ends
<1>10. InodeExact'
  <2>1. inode = Cardinality(InodeFiles) + Cardinality(InodePuts)
    BY DEF EndsInv, InodeExact
  <2>2. Cardinality(InodeFiles) \in Nat /\ Cardinality(InodePuts) \in Nat
    BY InodesFinite, CardNat
  <2>3. InodeFiles' = InodeFiles
    BY <1>3 DEF InodeFiles
  <2>4. CASE type = "inode"
    <3>1. InodePuts' = InodePuts \ {p} /\ p \in InodePuts
      BY <1>1, <1>4, <2>4 DEF InodePuts
    <3>2. Cardinality(InodePuts') = Cardinality(InodePuts) - 1
      BY <3>1, InodesFinite, Loses
    <3>3. inode' = Cardinality(InodeFiles') + Cardinality(InodePuts')
      BY <1>3, <2>1, <2>2, <2>3, <2>4, <3>2
    <3> QED  BY <3>3 DEF InodeExact
  <2>5. CASE type # "inode"
    <3>1. InodePuts' = InodePuts
      BY <1>1, <1>4, <2>5 DEF InodePuts
    <3> QED  BY <1>3, <2>1, <2>3, <2>5, <3>1 DEF InodeExact
  <2> QED  BY <2>4, <2>5
<1> QED
  BY <1>8, <1>9, <1>10 DEF EndsInv

LEMMA MovesEnds ==
    ASSUME FilesConstants, FilesTypeOK, FilesInHand, PipeFiles, RefsExact, EndsInv, NEW p \in Procs, Moves(p)
    PROVE  EndsInv'
<1>1. CASE TypesKept
  BY <1>1, Kept
<1>2. CASE \E fd \in Fds, f \in FileNo : Opens(p, fd, f)
  BY <1>2, OpensEnds
<1>3. CASE \E r, w \in FileNo, g \in 1 .. NPages : Pipes(p, r, w, g)
  BY <1>3, PipesEnds
<1>4. CASE \E f \in FileNo : Frees(p, f)
  BY <1>4, FreesEnds
<1>5. CASE Releases(p)
  BY <1>5, ReleasesEnds
<1> QED
  BY <1>1, <1>2, <1>3, <1>4, <1>5, MovesKept

-----------------------------------------------------------------------------
(* fork, which changes two calls. *)

\* The calls keep what they hold, and are not about to do anything with it.
CallsKept ==
    /\ call' \in [Procs -> FileCall] /\ UNCHANGED <<ofile, ftable, pages, inode>>
    /\ \A q \in Procs :
         /\ call'[q].files = call[q].files /\ call'[q].last = call[q].last
         /\ \/ call'[q] = call[q]
            \/ /\ call'[q].at \in {"user", "fork", "new"} /\ call[q].files = <<>> /\ call[q].last = Blank
               /\ call[q].at # "copyout"

LEMMA ForkKeeps ==
    ASSUME FilesConstants, FilesInv, CallsKept
    PROVE  /\ FilesTypeOK' /\ FilesInHand' /\ PipeFiles' /\ UnusedBlank' /\ OnePerEnd' /\ FilesExact'
<1>0. /\ FilesTypeOK /\ FilesInHand /\ PipeFiles /\ UnusedBlank /\ OnePerEnd /\ RefsExact /\ EndsExact /\ InodeExact
  BY DEF FilesInv, FilesExact
<1>1. FilesTypeOK'
  BY <1>0 DEF CallsKept, FilesTypeOK
<1>2. FilesInHand'
  <2>1. ASSUME NEW q \in Procs PROVE HandOK(call'[q].at, call'[q].files, call'[q].last, call'[q].next)
    <3>1. CASE call'[q] = call[q]
      BY <1>0, <3>1 DEF FilesInHand
    <3>2. CASE call'[q] # call[q]
      <4>1. call'[q].at \in {"user", "fork", "new"} /\ call'[q].files = <<>> /\ call'[q].last = Blank
        BY <3>2 DEF CallsKept
      <4>2. Len(<<>>) = 0 /\ IsInjective(<<>>)
        BY DEF IsInjective
      <4> QED  BY <4>1, <4>2 DEF HandOK
    <3> QED  BY <3>1, <3>2
  <2> QED  BY <2>1 DEF FilesInHand, HandOK, Blank
<1>3. \A q \in Procs : \A f : ~ (call'[q].at = "copyout") /\ f \in Range(call'[q].files)
                          <=> ~ (call[q].at = "copyout") /\ f \in Range(call[q].files)
  BY EmptyRange DEF CallsKept
<1>4. PipeFiles'
  <2>1. ASSUME NEW q \in Procs, call'[q].at \in {"pipe2", "page", "copyout"} PROVE call'[q] = call[q]
    BY <2>1 DEF CallsKept
  <2> QED  BY <1>0, <2>1 DEF PipeFiles, CallsKept
<1>5. UnusedBlank'
  BY <1>0 DEF UnusedBlank, CallsKept, Blank
<1>6. EndsInv'
  <2>1. TypesKept
    BY DEF CallsKept, TypesKept
  <2> QED  BY <1>0, <2>1, Kept DEF EndsInv
<1>7. RefsExact'
  <2>1. ASSUME NEW f \in FileNo
        PROVE  ftable'[f].ref = CdAfter(f) + ChAfter(f)
    <3>1. DescriptorsAfter(f) = Descriptors(f)
      BY DEF CallsKept, DescriptorsAfter, Descriptors
    <3>2. InHandAfter(f) = InHand(f)
      BY <1>3 DEF InHandAfter, InHand, At
    <3>3. ftable[f].ref = Cd(f) + Ch(f) /\ ftable'[f] = ftable[f]
      BY <1>0 DEF RefsExact, Cd, Ch, CallsKept
    <3> QED  BY <3>1, <3>2, <3>3 DEF CdAfter, ChAfter, Cd, Ch
  <2>2. \A q \in Procs : IsInjective(call'[q].files)
    BY <1>0 DEF RefsExact, CallsKept
  <2> QED  BY <2>1, <2>2 DEF RefsExact, CdAfter, ChAfter, DescriptorsAfter, InHandAfter, Descriptors, InHand, At, IsInjective, Range
<1> QED
  BY <1>1, <1>2, <1>4, <1>5, <1>6, <1>7 DEF EndsInv, FilesExact

LEMMA ForkStep ==
    ASSUME FilesConstants, FilesInv, NEW p \in Procs, NEW q \in Procs, Fork(p, q)
    PROVE  FilesInv'
<1>0. FilesTypeOK /\ FilesInHand /\ Kids
  BY DEF FilesInv
<1>1. /\ call[p].at = "user" /\ call[q].at = "gone" /\ p # q /\ UNCHANGED <<ofile, ftable, pages, inode>>
      /\ call' = [call EXCEPT ![p].at = "fork", ![p].kid = q, ![q].at = "new"]
  BY DEF Fork, At
<1>2. /\ call[p] = [at |-> "user", files |-> call[p].files, last |-> call[p].last,
                    next |-> call[p].next, kid |-> call[p].kid]
      /\ call[q] = [at |-> "gone", files |-> call[q].files, last |-> call[q].last,
                    next |-> call[q].next, kid |-> call[q].kid]
  <2>1. /\ call[p] = [at |-> call[p].at, files |-> call[p].files, last |-> call[p].last,
                      next |-> call[p].next, kid |-> call[p].kid]
    BY <1>0, CallParts
  <2>2. call[q] = [at |-> call[q].at, files |-> call[q].files, last |-> call[q].last,
                   next |-> call[q].next, kid |-> call[q].kid]
    BY <1>0, CallParts
  <2> QED  BY <1>1, <2>1, <2>2
<1>3. PICK c1 : c1 = [call EXCEPT ![p].at = "fork"]
  OBVIOUS
<1>4. PICK c2 : c2 = [c1 EXCEPT ![p].kid = q]
  OBVIOUS
<1>5. PICK c3 : c3 = [c2 EXCEPT ![q].at = "new"]
  OBVIOUS
<1>6. call' = c3
  BY <1>1, <1>3, <1>4, <1>5
<1>d. call \in [Procs -> FileCall]
  BY <1>0 DEF FilesTypeOK
<1>7. /\ c1 = [r \in Procs |-> c1[r]] /\ \A r \in Procs : r # p => c1[r] = call[r]
      /\ c1[p] = [at |-> "fork", files |-> call[p].files, last |-> call[p].last,
                  next |-> call[p].next, kid |-> call[p].kid]
  BY <1>2, <1>3, <1>d
<1>8. /\ c2 = [r \in Procs |-> c2[r]] /\ \A r \in Procs : r # p => c2[r] = call[r]
      /\ c2[p] = [at |-> "fork", files |-> call[p].files, last |-> call[p].last,
                  next |-> call[p].next, kid |-> q]
  BY <1>4, <1>7
<1>9. /\ c3 = [r \in Procs |-> c3[r]] /\ \A r \in Procs : r # p /\ r # q => c3[r] = call[r]
      /\ c3[p] = c2[p]
      /\ c3[q] = [at |-> "new", files |-> call[q].files, last |-> call[q].last,
                  next |-> call[q].next, kid |-> call[q].kid]
  <2>1. c2[q] = [at |-> "gone", files |-> call[q].files, last |-> call[q].last,
                  next |-> call[q].next, kid |-> call[q].kid]
    BY <1>1, <1>2, <1>8
  <2> QED  BY <1>1, <1>5, <1>8, <2>1
<1>10. /\ c3[p].at = "fork" /\ c3[p].files = call[p].files /\ c3[p].last = call[p].last /\ c3[p].kid = q
       /\ c3[q].at = "new" /\ c3[q].files = call[q].files /\ c3[q].last = call[q].last
  BY <1>8, <1>9
<1>11. c3[p] \in FileCall /\ c3[q] \in FileCall
  <2>1. /\ call[p].files \in Seq(FileNo) /\ call[p].last \in FileRec /\ call[p].next \in {"", "user", "exit"}
        /\ call[q].files \in Seq(FileNo) /\ call[q].last \in FileRec /\ call[q].next \in {"", "user", "exit"}
        /\ call[q].kid \in Procs \cup {0}
    BY <1>0, CallParts
  <2>2. c3[p] = [at |-> "fork", files |-> call[p].files, last |-> call[p].last, next |-> call[p].next, kid |-> q]
    BY <1>8, <1>9
  <2>3. "fork" \in FilePlaces /\ "new" \in FilePlaces
    BY DEF FilePlaces
  <2>6. ASSUME NEW c, NEW at \in FilePlaces, NEW files \in Seq(FileNo), NEW last \in FileRec,
               NEW next \in {"", "user", "exit"}, NEW kid \in Procs \cup {0},
               c = [at |-> at, files |-> files, last |-> last, next |-> next, kid |-> kid]
        PROVE  c \in FileCall
    BY <2>6, CallRec
  <2>4. c3[p] \in FileCall
    <3>1. PICK files, last, next : files = call[p].files /\ last = call[p].last /\ next = call[p].next
      OBVIOUS
    <3>2. c3[p] = [at |-> "fork", files |-> files, last |-> last, next |-> next, kid |-> q]
      BY <2>2, <3>1
    <3> QED  BY <2>1, <2>3, <2>6, <3>1, <3>2
  <2>5. c3[q] \in FileCall
    <3>1. PICK files, last, next, kid :
            files = call[q].files /\ last = call[q].last /\ next = call[q].next /\ kid = call[q].kid
      OBVIOUS
    <3>2. c3[q] = [at |-> "new", files |-> files, last |-> last, next |-> next, kid |-> kid]
      BY <1>9, <3>1
    <3> QED  BY <2>1, <2>3, <2>6, <3>1, <3>2
  <2> QED  BY <2>4, <2>5
<1>12. call' \in [Procs -> FileCall]
  BY <1>6, <1>9, <1>11, <1>d
<1>13. call[p].files = <<>> /\ call[q].files = <<>> /\ call[p].last = Blank /\ call[q].last = Blank
  <2>1. Len(call[p].files) = 0 /\ Len(call[q].files) = 0 /\ call[p].last = Blank /\ call[q].last = Blank
    BY <1>0, <1>1 DEF FilesInHand, HandOK
  <2>2. call[p].files \in Seq(FileNo) /\ call[q].files \in Seq(FileNo)
    BY <1>0, CallParts
  <2> QED  BY <2>1, <2>2
<1>14. CallsKept
  <2>1. ASSUME NEW r \in Procs
        PROVE  /\ call'[r].files = call[r].files /\ call'[r].last = call[r].last
               /\ \/ call'[r] = call[r]
                  \/ /\ call'[r].at \in {"user", "fork", "new"} /\ call[r].files = <<>> /\ call[r].last = Blank
                     /\ call[r].at # "copyout"
    <3>1. CASE r = p
      BY <1>1, <1>6, <1>10, <1>13, <3>1
    <3>2. CASE r = q
      BY <1>1, <1>6, <1>10, <1>13, <3>2
    <3>3. CASE r # p /\ r # q
      BY <1>6, <1>9, <3>3
    <3> QED  BY <3>1, <3>2, <3>3
  <2> QED  BY <1>1, <1>12, <2>1 DEF CallsKept
<1>15. Kids'
  <2>1. ASSUME NEW r \in Procs, call'[r].at = "gone" PROVE \A fd \in Fds : ofile[r][fd] = 0
    <3>1. call[r].at = "gone"
      BY <1>6, <1>9, <1>10, <2>1
    <3> QED  BY <1>0, <3>1 DEF Kids
  <2>2. ASSUME NEW r \in Procs, call'[r].at = "fork"
        PROVE  /\ call'[r].kid \in Procs /\ call'[call'[r].kid].at = "new"
               /\ \A fd \in Fds : ofile[call'[r].kid][fd] \in {0, ofile[r][fd]}
               /\ \A s \in Procs : call'[s].at = "fork" /\ call'[s].kid = call'[r].kid => s = r
    <3>0. \A s \in Procs : call[s].at = "fork" => call[s].kid # q /\ call[s].kid # p /\ call[s].kid \in Procs
      BY <1>0, <1>1 DEF Kids
    <3>1. CASE r = p
      <4>1. call'[r].kid = q /\ call'[q].at = "new"
        BY <1>6, <1>10, <3>1
      <4>2. \A fd \in Fds : ofile[q][fd] = 0
        BY <1>0, <1>1 DEF Kids
      <4>3. \A s \in Procs : call'[s].at = "fork" /\ call'[s].kid = q => s = p
        BY <1>6, <1>9, <1>10, <3>0
      <4> QED  BY <3>1, <4>1, <4>2, <4>3
    <3>2. CASE r # p
      <4>1. r # q /\ call'[r] = call[r]
        BY <1>6, <1>9, <1>10, <2>2, <3>2
      <4>2. PICK k : k = call[r].kid
        OBVIOUS
      <4>3. /\ k \in Procs /\ call[k].at = "new" /\ k # q /\ k # p
            /\ \A fd \in Fds : ofile[k][fd] \in {0, ofile[r][fd]}
            /\ \A s \in Procs : call[s].at = "fork" /\ call[s].kid = k => s = r
        BY <1>0, <1>1, <2>2, <4>1, <4>2 DEF Kids
      <4>4. call'[k].at = "new"
        BY <1>6, <1>9, <4>3
      <4>5. \A s \in Procs : call'[s].at = "fork" /\ call'[s].kid = k => s = r
        BY <1>6, <1>9, <1>10, <4>3
      <4> QED  BY <4>1, <4>2, <4>3, <4>4, <4>5
    <3> QED  BY <3>1, <3>2
  <2> QED  BY <1>1, <2>1, <2>2 DEF Kids
<1> QED
  BY <1>14, <1>15, ForkKeeps DEF FilesInv

LEMMA ForkDoneStep ==
    ASSUME FilesConstants, FilesInv, NEW p \in Procs, ForkDone(p)
    PROVE  FilesInv'
<1>0. FilesTypeOK /\ FilesInHand /\ Kids
  BY DEF FilesInv
<1>1. PICK q : q = call[p].kid
  OBVIOUS
<1>2. call[p].at = "fork" /\ UNCHANGED <<ofile, ftable, pages, inode>> /\ call' = [call EXCEPT ![p] = User, ![q] = User]
  BY <1>1 DEF ForkDone, At
<1>3. q \in Procs /\ call[q].at = "new" /\ \A s \in Procs : call[s].at = "fork" /\ call[s].kid = q => s = p
  BY <1>0, <1>1, <1>2 DEF Kids
<1>d. call \in [Procs -> FileCall]
  BY <1>0 DEF FilesTypeOK
<1>4. call' = [r \in Procs |-> IF r = p \/ r = q THEN User ELSE call[r]]
  <2>1. PICK u : u = User
    OBVIOUS
  <2>2. call' = [[call EXCEPT ![p] = u] EXCEPT ![q] = u]
    BY <1>2, <2>1
  <2> QED  BY <1>3, <1>d, <2>1, <2>2
<1>5. User = [at |-> "user", files |-> <<>>, last |-> Blank, next |-> "", kid |-> 0]
  BY DEF User, Idle
<1>6. User \in FileCall /\ User.at = "user" /\ User.files = <<>> /\ User.last = Blank
  <2>1. <<>> \in Seq(FileNo) /\ Blank \in FileRec /\ "user" \in FilePlaces
    BY BlankRec DEF FilePlaces
  <2> QED  BY <1>5, <2>1 DEF FileCall
<1>7. call' \in [Procs -> FileCall]
  BY <1>4, <1>6, <1>d
<1>8. call[p].files = <<>> /\ call[q].files = <<>> /\ call[p].last = Blank /\ call[q].last = Blank
  <2>1. Len(call[p].files) = 0 /\ Len(call[q].files) = 0 /\ call[p].last = Blank /\ call[q].last = Blank
    BY <1>0, <1>2, <1>3 DEF FilesInHand, HandOK
  <2>2. call[p].files \in Seq(FileNo) /\ call[q].files \in Seq(FileNo)
    BY <1>0, <1>3, CallParts
  <2> QED  BY <2>1, <2>2
<1>9. CallsKept
  <2>1. ASSUME NEW r \in Procs
        PROVE  /\ call'[r].files = call[r].files /\ call'[r].last = call[r].last
               /\ \/ call'[r] = call[r]
                  \/ /\ call'[r].at \in {"user", "fork", "new"} /\ call[r].files = <<>> /\ call[r].last = Blank
                     /\ call[r].at # "copyout"
    <3>1. CASE r = p
      BY <1>2, <1>4, <1>6, <1>8, <3>1
    <3>2. CASE r = q
      BY <1>3, <1>4, <1>6, <1>8, <3>2
    <3>3. CASE r # p /\ r # q
      BY <1>4, <3>3
    <3> QED  BY <3>1, <3>2, <3>3
  <2> QED  BY <1>2, <1>7, <2>1 DEF CallsKept
<1>10. Kids'
  <2>0. \A r \in Procs : call'[r].at # "user" => r # p /\ r # q /\ call'[r] = call[r]
    BY <1>4, <1>6
  <2>1. ASSUME NEW r \in Procs, call'[r].at = "gone" PROVE \A fd \in Fds : ofile[r][fd] = 0
    BY <1>0, <2>0, <2>1 DEF Kids
  <2>2. ASSUME NEW r \in Procs, call'[r].at = "fork"
        PROVE  /\ call'[r].kid \in Procs /\ call'[call'[r].kid].at = "new"
               /\ \A fd \in Fds : ofile[call'[r].kid][fd] \in {0, ofile[r][fd]}
               /\ \A s \in Procs : call'[s].at = "fork" /\ call'[s].kid = call'[r].kid => s = r
    <3>1. r # p /\ call'[r] = call[r] /\ call[r].at = "fork"
      BY <2>0, <2>2
    <3>2. PICK k : k = call[r].kid
      OBVIOUS
    <3>3. /\ k \in Procs /\ call[k].at = "new"
          /\ \A fd \in Fds : ofile[k][fd] \in {0, ofile[r][fd]}
          /\ \A s \in Procs : call[s].at = "fork" /\ call[s].kid = k => s = r
      BY <1>0, <3>1, <3>2 DEF Kids
    <3>4. k # p /\ k # q
      BY <1>2, <1>3, <3>1, <3>2, <3>3
    <3>5. call'[k].at = "new"
      BY <1>4, <3>3, <3>4
    <3>6. \A s \in Procs : call'[s].at = "fork" /\ call'[s].kid = k => s = r
      BY <2>0, <3>3
    <3> QED  BY <3>1, <3>2, <3>3, <3>5, <3>6
  <2> QED  BY <1>2, <2>1, <2>2 DEF Kids
<1> QED
  BY <1>9, <1>10, ForkKeeps DEF FilesInv

-----------------------------------------------------------------------------
(* The invariant. *)

LEMMA FilesStart == ASSUME FilesConstants, Init PROVE FilesInv
<1>1. Blank \in FileRec /\ Blank.type = "none" /\ Blank.ref = 0
  BY BlankRec
<1>2. NOFILE \in Nat /\ NFILE \in Nat /\ NPages \in Nat /\ 0 \in 0 .. NFILE
  BY DEF FilesConstants
<1>3. ASSUME NEW at \in {"user", "gone"}
      PROVE  /\ Idle(at) \in FileCall /\ Idle(at).at = at /\ Idle(at).files = <<>> /\ Idle(at).last = Blank
             /\ Idle(at).next = ""
  <2>1. Idle(at) = [at |-> at, files |-> <<>>, last |-> Blank, next |-> "", kid |-> 0]
    BY DEF Idle
  <2>2. <<>> \in Seq(FileNo) /\ at \in FilePlaces /\ "" \in {"", "user", "exit"} /\ 0 \in Procs \cup {0}
    BY DEF FilePlaces
  <2>3. Idle(at) \in FileCall
    BY <1>1, <2>1, <2>2, CallRec
  <2>4. PICK i : i = Idle(at)
    OBVIOUS
  <2>5. i = [at |-> at, files |-> <<>>, last |-> Blank, next |-> "", kid |-> 0]
    BY <2>1, <2>4
  <2>6. i.at = at /\ i.files = <<>> /\ i.last = Blank /\ i.next = ""
    BY <2>5
  <2> QED  BY <2>3, <2>4, <2>6
<1>4. \A p \in Procs : \E at \in {"user", "gone"} : call[p] = Idle(at)
  BY DEF Init, User, Gone
<1>5. ASSUME NEW p \in Procs
      PROVE  /\ call[p] \in FileCall /\ call[p].at \in {"user", "gone"} /\ call[p].files = <<>>
             /\ call[p].last = Blank
  BY <1>3, <1>4
<1>6. Nothing \in [Fds -> 0 .. NFILE] /\ \A fd \in Fds : Nothing[fd] = 0
  BY <1>2 DEF Nothing
<1>7. FilesTypeOK
  <2>1. ofile \in [Procs -> [Fds -> 0 .. NFILE]]
    BY <1>6 DEF Init
  <2>2. ftable \in [FileNo -> FileRec]
    BY <1>1 DEF Init
  <2>3. pages \in [1 .. NPages -> SUBSET Ends] /\ inode \in Int
    BY DEF Init
  <2>4. call \in [Procs -> FileCall]
    BY <1>5 DEF Init
  <2> QED  BY <2>1, <2>2, <2>3, <2>4 DEF FilesTypeOK
<1>8. FilesInHand
  <2>1. Len(<<>>) = 0 /\ IsInjective(<<>>)
    BY DEF IsInjective
  <2> QED  BY <1>5, <2>1 DEF FilesInHand, HandOK
<1>9. PipeFiles
  BY <1>5 DEF PipeFiles
<1>10. Kids
  <2>1. \A p \in Procs, fd \in Fds : ofile[p][fd] = 0
    BY <1>6 DEF Init
  <2> QED  BY <1>5, <2>1 DEF Kids
<1>11. UnusedBlank
  BY DEF UnusedBlank, Init
<1>12. \A f \in FileNo : ftable[f].type = "none" /\ ftable[f].ref = 0
  BY <1>1 DEF Init
<1>13. \A p \in Procs : call[p].last.type = "none"
  BY <1>1, <1>5
<1>14. OnePerEnd
  BY <1>12, <1>13 DEF OnePerEnd, Ends
<1>15. EndsExact
  <2>1. ASSUME NEW g \in DOMAIN pages, NEW t \in Ends PROVE t \notin pages[g]
    BY DEF Init
  <2>2. \A t \in Ends : t # "none"
    BY DEF Ends
  <2> QED  BY <1>12, <1>13, <2>1, <2>2 DEF EndsExact, Releasing
<1>16. Cardinality({}) = 0
  BY FS_EmptySet
<1>17. InodeExact
  <2>1. InodeFiles = {} /\ InodePuts = {}
    BY <1>12, <1>13 DEF InodeFiles, InodePuts
  <2>2. inode = 0
    BY DEF Init
  <2> QED  BY <1>16, <2>1, <2>2 DEF InodeExact
<1>18. RefsExact
  <2>1. ASSUME NEW f \in FileNo
        PROVE  ftable[f].ref = Cardinality(Descriptors(f)) + Cardinality(InHand(f))
    <3>1. \A p \in Procs, fd \in Fds : ofile[p][fd] # f
      BY <1>2, <1>6 DEF Init, FileNo
    <3>2. Descriptors(f) = {}
      BY <3>1 DEF Descriptors
    <3>3. InHand(f) = {}
      BY <1>5, EmptyRange DEF InHand
    <3> QED  BY <1>12, <1>16, <3>2, <3>3
  <2>2. \A p \in Procs : IsInjective(call[p].files)
    BY <1>5 DEF IsInjective
  <2> QED  BY <2>1, <2>2 DEF RefsExact
<1> QED
  BY <1>7, <1>8, <1>9, <1>10, <1>11, <1>14, <1>15, <1>17, <1>18 DEF FilesInv, FilesExact

LEMMA FileStepInv ==
    ASSUME FilesConstants, FilesInv, NEW p \in Procs, FileStep(p)
    PROVE  FilesInv'
<1>0. /\ FilesTypeOK /\ FilesInHand /\ PipeFiles /\ Kids /\ UnusedBlank /\ OnePerEnd
      /\ RefsExact /\ EndsExact /\ InodeExact
  BY DEF FilesInv, FilesExact
<1>1. Moves(p)
  BY <1>0, FileStepMoves
<1>2. call' \in [Procs -> FileCall] /\ FilesInHand'
  BY <1>0, CallStep
<1>3. FilesTypeOK'
  BY <1>0, <1>1, <1>2, MovesTyped DEF FilesTypeOK
<1>4. PipeFiles'
  BY <1>0, <1>1, MovesPipeFiles DEF PipeFiles
<1>5. Kids'
  BY <1>0, <1>1, MovesKids DEF Kids
<1>6. UnusedBlank'
  <2>1. \A e \in FileNo : ftable'[e].ref = 0 => ftable'[e] = Blank
    BY <1>0, <1>1, MovesUnused
  <2> QED  BY <2>1 DEF UnusedBlank, Blank
<1>7. EndsInv'
  BY <1>0, <1>1, MovesEnds DEF EndsInv
<1>8. RefsExact'
  <2>1. \A e \in FileNo : ftable'[e].ref = CdAfter(e) + ChAfter(e)
    BY <1>0, <1>1, MovesRefs
  <2>2. \A q \in Procs : IsInjective(call'[q].files)
    BY <1>2 DEF FilesInHand, HandOK, IsInjective
  <2> QED  BY <2>1, <2>2 DEF RefsExact, CdAfter, ChAfter, DescriptorsAfter, InHandAfter, Descriptors, InHand, At, IsInjective, Range
<1> QED
  BY <1>2, <1>3, <1>4, <1>5, <1>6, <1>7, <1>8 DEF EndsInv, FilesInv, FilesExact

\* In every state of any number of processes, descriptors, files and pages each
\* file has exactly the references that descriptors and calls half-way have to
\* it, an end of a pipe is open exactly as long as there is a file for it or its
\* last fileclose is on its way, and the inode is referred to once for each file
\* it is open as.
THEOREM FilesAreExact == ASSUME FilesConstants PROVE Spec => []FilesExact
<1>1. Init => FilesInv
  BY FilesStart
<1>2. FilesInv /\ [Next]_fvars => FilesInv'
  <2> SUFFICES ASSUME FilesInv, [Next]_fvars PROVE FilesInv'
    OBVIOUS
  <2>1. CASE Next
    <3>1. PICK p \in Procs : FileStep(p) \/ ForkDone(p) \/ \E q \in Procs : Fork(p, q)
      BY <2>1, FileSteps
    <3> QED  BY <3>1, FileStepInv, ForkDoneStep, ForkStep
  <2>2. CASE UNCHANGED fvars
    <3>1. CallsKept
      BY <2>2 DEF fvars, CallsKept, FilesInv, FilesTypeOK
    <3>2. Kids'
      BY <2>2 DEF fvars, FilesInv, Kids
    <3> QED  BY <3>1, <3>2, ForkKeeps DEF FilesInv
  <2> QED  BY <2>1, <2>2
<1>3. FilesInv => FilesExact
  BY DEF FilesInv
<1> QED
  BY <1>1, <1>2, <1>3, PTL DEF Spec
-----------------------------------------------------------------------------
(* The clock. *)

Owner == Ck!Harts \cup {Ck!Nobody}
Sleep == [at : {"user", "look", "woken"}, ticks0 : Nat, n : Nat]
HartRec == [at : {"sched", "scan", "run", "fork"}, run : 0 .. NPROC, idx : Nat, min : 0 .. NPROC, min_time : Nat]

ClockTypeOK ==
    /\ time \in Nat /\ tickslock \in Owner
    /\ state \in [Ck!Slots -> {"UNUSED", "USED", "SLEEPING", "RUNNABLE", "RUNNING", "ZOMBIE"}]
    /\ clktik \in [Ck!Slots -> Nat] /\ rtime \in [Ck!Slots -> Nat] /\ etime \in [Ck!Slots -> Nat]
    /\ killed \in [Ck!Slots -> BOOLEAN]
    /\ plock \in [Ck!Slots -> Owner]
    /\ chan \in [Ck!Slots -> {"", "ticks", "child"}]
    /\ nap \in [Ck!Slots -> Sleep]
    /\ hart \in [Ck!Harts -> HartRec]
    /\ clock \in [at : {"off", "charge", "wake"}, idx : Nat]
    /\ since \in [Ck!Harts -> SUBSET Ck!Slots]

\* Who is running is nobody else's.
Running == \A c \in Ck!Harts :
    IF hart[c].at \in {"run", "fork"}
    THEN /\ hart[c].run \in Ck!Slots /\ state[hart[c].run] = "RUNNING"
         /\ \A d \in Ck!Harts : hart[d].run = hart[c].run => d = c
    ELSE hart[c].run = 0

\* A lock that is held from step to step is a candidate's or a child's.
Locking == \A p \in Ck!Slots : plock[p] # Ck!Nobody =>
    LET c == plock[p] IN
    /\ \/ hart[c].at = "scan" /\ hart[c].min = p /\ state[p] = "RUNNABLE"
       \/ hart[c].at = "fork" /\ state[p] = "USED"
    /\ \A q \in Ck!Slots : plock[q] = c => q = p

\* What a scan has seen so far.
ScanAt(c) ==
    /\ \A p \in since[c] : state[p] = "RUNNABLE"
    /\ hart[c].at = "scan" =>
         /\ hart[c].min # 0 => plock[hart[c].min] = c /\ hart[c].min_time = clktik[hart[c].min]
         /\ hart[c].min < hart[c].idx
         /\ \A p \in since[c] : p < hart[c].idx => clktik[p] >= hart[c].min_time
Scanning == \A c \in Ck!Harts : ScanAt(c)

\* Who has tickslock.
Ticking ==
    /\ clock.at # "off" => /\ tickslock = 0 /\ time > 0 /\ clock.idx > 0
                           /\ hart[0].at \in {"sched", "run"} \/ (hart[0].at = "scan" /\ hart[0].min = 0)
    /\ \A p \in Ck!Slots : nap[p].at = "look" =>
         /\ clock.at = "off"
         /\ \E c \in Ck!Harts : tickslock = c /\ hart[c].at = "run" /\ hart[c].run = p

\* Nobody's time has come but in a tick, which wakes one after the other.
Asleep(p) == state[p] = "SLEEPING" /\ chan[p] = "ticks"
Napping == \A p \in Ck!Slots : Asleep(p) =>
    /\ clock.at = "off" => Ck!Elapsed(p) < nap[p].n
    /\ clock.at = "wake" => p >= clock.idx

\* What may be charged to p so far.
Due(p) == IF clock.at = "charge" /\ p >= clock.idx THEN time - 1 ELSE time
Slack  == IF NHARTS = 1 THEN 0 ELSE 1
Charging == \A p \in Ck!Slots :
    /\ rtime[p] + clktik[p] <= Due(p) + Slack
    /\ state[p] = "ZOMBIE" => rtime[p] + clktik[p] <= etime[p] + Slack

ClockInv == ClockTypeOK /\ Running /\ Locking /\ Scanning /\ Ticking /\ Napping /\ Charging

LEMMA ClockStart == ASSUME Ck!ClockConstants, Ck!Init PROVE ClockInv
<1>0. NPROC \in Nat /\ NPROC > 0 /\ NHARTS \in Nat /\ NHARTS > 0
  BY DEF Ck!ClockConstants
<1>1. 0 \in 0 .. NPROC /\ 1 \in Nat
  BY <1>0
<1>2. /\ time = 0 /\ tickslock = Ck!Nobody
      /\ state \in [Ck!Slots -> {"UNUSED", "RUNNABLE"}]
      /\ clktik = [p \in Ck!Slots |-> 0] /\ rtime = [p \in Ck!Slots |-> 0] /\ etime = [p \in Ck!Slots |-> 0]
      /\ killed = [p \in Ck!Slots |-> FALSE]
      /\ plock = [p \in Ck!Slots |-> Ck!Nobody]
      /\ chan = [p \in Ck!Slots |-> ""]
      /\ clock = [at |-> "off", idx |-> 1]
      /\ since = [c \in Ck!Harts |-> {}]
  BY DEF Ck!Init
<1>3. nap \in [Ck!Slots -> Sleep] /\ \A p \in Ck!Slots : nap[p].at = "user"
  BY <1>1 DEF Ck!Init, Ck!Awake, Sleep
<1>4. /\ hart \in [Ck!Harts -> HartRec]
      /\ \A c \in Ck!Harts : hart[c].at = "sched" /\ hart[c].run = 0
  BY <1>1 DEF Ck!Init, Ck!Idle, HartRec
<1>5. ClockTypeOK
  BY <1>1, <1>2, <1>3, <1>4 DEF ClockTypeOK, Owner
<1>6. Running /\ Locking /\ Scanning
  BY <1>2, <1>4 DEF Running, Locking, Scanning, ScanAt
<1>7. Ticking /\ Napping
  BY <1>2, <1>3 DEF Ticking, Napping, Asleep
<1>8. Charging
  <2> SUFFICES ASSUME NEW p \in Ck!Slots
               PROVE  /\ rtime[p] + clktik[p] <= Due(p) + Slack
                      /\ state[p] = "ZOMBIE" => rtime[p] + clktik[p] <= etime[p] + Slack
    BY DEF Charging
  <2>1. rtime[p] = 0 /\ clktik[p] = 0 /\ etime[p] = 0 /\ clock.at = "off" /\ time = 0
    BY <1>2
  <2>2. Due(p) = 0 /\ Slack \in {0, 1}
    BY <2>1 DEF Due, Slack
  <2> QED  BY <2>1, <2>2
<1> QED  BY <1>5, <1>6, <1>7, <1>8 DEF ClockInv

\* The record of hart c becomes this, and the others' stay.
HartGets(c, at, run, idx, min, min_time) ==
    /\ hart'[c].at = at /\ hart'[c].run = run /\ hart'[c].idx = idx
    /\ hart'[c].min = min /\ hart'[c].min_time = min_time
    /\ \A d \in Ck!Harts : d # c => hart'[d] = hart[d]

HartIs(c, at, run, idx, min, min_time) ==
    hart' = [d \in Ck!Harts |->
               IF d = c THEN [at |-> at, run |-> run, idx |-> idx, min |-> min, min_time |-> min_time] ELSE hart[d]]

LEMMA HartBecomes ==
    ASSUME NEW c \in Ck!Harts, NEW at, NEW run, NEW idx, NEW min, NEW min_time,
           HartIs(c, at, run, idx, min, min_time)
    PROVE  HartGets(c, at, run, idx, min, min_time)
  BY DEF HartIs, HartGets

LEMMA HartTypes ==
    ASSUME ClockTypeOK, NEW c \in Ck!Harts,
           NEW at \in {"sched", "scan", "run", "fork"}, NEW run \in 0 .. NPROC, NEW idx \in Nat,
           NEW min \in 0 .. NPROC, NEW min_time \in Nat, HartIs(c, at, run, idx, min, min_time)
    PROVE  hart' \in [Ck!Harts -> HartRec]
<1>1. [at |-> at, run |-> run, idx |-> idx, min |-> min, min_time |-> min_time] \in HartRec
  BY DEF HartRec
<1> QED
  BY <1>1 DEF HartIs, ClockTypeOK

LEMMA HartFields ==
    ASSUME ClockTypeOK, NEW c \in Ck!Harts
    PROVE  /\ hart[c].at \in {"sched", "scan", "run", "fork"} /\ hart[c].run \in 0 .. NPROC
           /\ hart[c].idx \in Nat /\ hart[c].min \in 0 .. NPROC /\ hart[c].min_time \in Nat
           /\ hart[c] = [at |-> hart[c].at, run |-> hart[c].run, idx |-> hart[c].idx,
                         min |-> hart[c].min, min_time |-> hart[c].min_time]
<1>1. hart[c] \in HartRec
  BY DEF ClockTypeOK
<1> QED
  BY <1>1 DEF HartRec

\* What the actions make of it.
LEMMA HartEdits ==
    ASSUME ClockTypeOK, NEW c \in Ck!Harts, NEW at, NEW p, NEW t
    PROVE  /\ hart' = [hart EXCEPT ![c] = Ck!Idle(at, p)] => HartIs(c, at, p, 1, 0, 0)
           /\ hart' = [hart EXCEPT ![c].at = at] =>
                HartIs(c, at, hart[c].run, hart[c].idx, hart[c].min, hart[c].min_time)
           /\ hart' = [hart EXCEPT ![c].idx = @ + 1] =>
                HartIs(c, hart[c].at, hart[c].run, hart[c].idx + 1, hart[c].min, hart[c].min_time)
           /\ hart' = [hart EXCEPT ![c].idx = @ + 1, ![c].min = p, ![c].min_time = t] =>
                HartIs(c, hart[c].at, hart[c].run, hart[c].idx + 1, p, t)
           /\ hart' = [hart EXCEPT ![c].at = at, ![c].idx = 1, ![c].min = 0, ![c].min_time = t] =>
                HartIs(c, at, hart[c].run, 1, 0, t)
<1>1. hart \in [Ck!Harts -> HartRec] /\ hart[c] \in HartRec
  BY DEF ClockTypeOK
<1>2. DOMAIN hart = Ck!Harts
  BY <1>1
<1>3. ASSUME hart' = [hart EXCEPT ![c] = Ck!Idle(at, p)]
      PROVE  HartIs(c, at, p, 1, 0, 0)
  <2>1. hart'[c] = [at |-> at, run |-> p, idx |-> 1, min |-> 0, min_time |-> 0]
    BY <1>1, <1>2, <1>3 DEF HartRec, Ck!Idle
  <2>2. hart' = [d \in Ck!Harts |-> hart'[d]] /\ \A d \in Ck!Harts : d # c => hart'[d] = hart[d]
    BY <1>2, <1>3
  <2> QED  BY <2>1, <2>2 DEF HartIs
<1>4. ASSUME hart' = [hart EXCEPT ![c].at = at]
      PROVE  HartIs(c, at, hart[c].run, hart[c].idx, hart[c].min, hart[c].min_time)
  <2>1. hart'[c] = [at |-> at, run |-> hart[c].run, idx |-> hart[c].idx, min |-> hart[c].min, min_time |-> hart[c].min_time]
    BY <1>1, <1>2, <1>4 DEF HartRec
  <2>2. hart' = [d \in Ck!Harts |-> hart'[d]] /\ \A d \in Ck!Harts : d # c => hart'[d] = hart[d]
    BY <1>2, <1>4
  <2> QED  BY <2>1, <2>2 DEF HartIs
<1>5. ASSUME hart' = [hart EXCEPT ![c].idx = @ + 1]
      PROVE  HartIs(c, hart[c].at, hart[c].run, hart[c].idx + 1, hart[c].min, hart[c].min_time)
  <2>1. hart'[c] = [at |-> hart[c].at, run |-> hart[c].run, idx |-> hart[c].idx + 1, min |-> hart[c].min, min_time |-> hart[c].min_time]
    BY <1>1, <1>2, <1>5 DEF HartRec
  <2>2. hart' = [d \in Ck!Harts |-> hart'[d]] /\ \A d \in Ck!Harts : d # c => hart'[d] = hart[d]
    BY <1>2, <1>5
  <2> QED  BY <2>1, <2>2 DEF HartIs
<1>6. ASSUME hart' = [hart EXCEPT ![c].idx = @ + 1, ![c].min = p, ![c].min_time = t]
      PROVE  HartIs(c, hart[c].at, hart[c].run, hart[c].idx + 1, p, t)
  <2>1. hart'[c] = [at |-> hart[c].at, run |-> hart[c].run, idx |-> hart[c].idx + 1, min |-> p, min_time |-> t]
    BY <1>1, <1>2, <1>6 DEF HartRec
  <2>2. hart' = [d \in Ck!Harts |-> hart'[d]] /\ \A d \in Ck!Harts : d # c => hart'[d] = hart[d]
    BY <1>2, <1>6
  <2> QED  BY <2>1, <2>2 DEF HartIs
<1>7. ASSUME hart' = [hart EXCEPT ![c].at = at, ![c].idx = 1, ![c].min = 0, ![c].min_time = t]
      PROVE  HartIs(c, at, hart[c].run, 1, 0, t)
  <2>1. hart'[c] = [at |-> at, run |-> hart[c].run, idx |-> 1, min |-> 0, min_time |-> t]
    BY <1>1, <1>2, <1>7 DEF HartRec
  <2>2. hart' = [d \in Ck!Harts |-> hart'[d]] /\ \A d \in Ck!Harts : d # c => hart'[d] = hart[d]
    BY <1>2, <1>7
  <2> QED  BY <2>1, <2>2 DEF HartIs
<1> QED
  BY <1>3, <1>4, <1>5, <1>6, <1>7

\* A hart that works is in its scan, or runs a process, and does not take a tick.
LEMMA HartDoes ==
    ASSUME ClockTypeOK, NEW c \in Ck!Harts
    PROVE  LET h == hart[c] IN
           /\ Ck!ScanStart(c) => HartIs(c, "scan", h.run, 1, 0, time + 1)
           /\ Ck!ScanLook(c) =>
                IF Ck!Earlier(c, h.idx) THEN HartIs(c, h.at, h.run, h.idx + 1, h.idx, clktik[h.idx])
                                        ELSE HartIs(c, h.at, h.run, h.idx + 1, h.min, h.min_time)
           /\ Ck!ScanEnd(c) => HartIs(c, IF h.min = 0 THEN "sched" ELSE "run", h.min, 1, 0, 0)
           /\ Ck!WaitSleeps(c) => HartIs(c, "sched", 0, 1, 0, 0)
           /\ \A p \in Ck!Slots :
                /\ Ck!Fork(c, p) => HartIs(c, "fork", h.run, h.idx, h.min, h.min_time)
                /\ Ck!ForkDone(c, p) => HartIs(c, "run", h.run, h.idx, h.min, h.min_time)
                /\ Ck!Exit(c, p) \/ Ck!NapSleeps(c, p) => HartIs(c, "sched", 0, 1, 0, 0)
<1> DEFINE h == hart[c]
<1>1. ASSUME Ck!ScanStart(c) PROVE HartIs(c, "scan", h.run, 1, 0, time + 1)
  <2>1. hart' = [hart EXCEPT ![c].at = "scan", ![c].idx = 1, ![c].min = 0, ![c].min_time = time + 1]
    BY <1>1 DEF Ck!ScanStart
  <2> QED  BY <2>1, HartEdits
<1>2. ASSUME Ck!ScanLook(c), Ck!Earlier(c, h.idx) PROVE HartIs(c, h.at, h.run, h.idx + 1, h.idx, clktik[h.idx])
  <2>1. hart' = [hart EXCEPT ![c].idx = @ + 1, ![c].min = h.idx, ![c].min_time = clktik[h.idx]]
    BY <1>2 DEF Ck!ScanLook
  <2> QED  BY <2>1, HartEdits
<1>3. ASSUME Ck!ScanLook(c), ~ Ck!Earlier(c, h.idx) PROVE HartIs(c, h.at, h.run, h.idx + 1, h.min, h.min_time)
  <2>1. hart' = [hart EXCEPT ![c].idx = @ + 1]
    BY <1>3 DEF Ck!ScanLook
  <2> QED  BY <2>1, HartEdits
<1>4. ASSUME Ck!ScanEnd(c) PROVE HartIs(c, IF h.min = 0 THEN "sched" ELSE "run", h.min, 1, 0, 0)
  <2>1. hart' = [hart EXCEPT ![c] = Ck!Idle(IF h.min = 0 THEN "sched" ELSE "run", h.min)]
    BY <1>4 DEF Ck!ScanEnd, Ck!ToScheduler
  <2> QED  BY <2>1, HartEdits
<1>5. ASSUME Ck!ToScheduler(c) PROVE HartIs(c, "sched", 0, 1, 0, 0)
  BY <1>5, HartEdits DEF Ck!ToScheduler
<1>6. ASSUME NEW p \in Ck!Slots, Ck!Fork(c, p) PROVE HartIs(c, "fork", h.run, h.idx, h.min, h.min_time)
  BY <1>6, HartEdits DEF Ck!Fork
<1>7. ASSUME NEW p \in Ck!Slots, Ck!ForkDone(c, p) PROVE HartIs(c, "run", h.run, h.idx, h.min, h.min_time)
  BY <1>7, HartEdits DEF Ck!ForkDone
<1> QED
  BY <1>1, <1>2, <1>3, <1>4, <1>5, <1>6, <1>7 DEF Ck!WaitSleeps, Ck!Exit, Ck!NapSleeps

LEMMA HartMoves ==
    ASSUME ClockTypeOK, NEW c \in Ck!Harts
    PROVE  LET h == hart[c] IN
           /\ Ck!ScanStart(c) => HartGets(c, "scan", h.run, 1, 0, time + 1)
           /\ Ck!ScanLook(c) =>
                IF Ck!Earlier(c, h.idx) THEN HartGets(c, h.at, h.run, h.idx + 1, h.idx, clktik[h.idx])
                                        ELSE HartGets(c, h.at, h.run, h.idx + 1, h.min, h.min_time)
           /\ Ck!ScanEnd(c) => HartGets(c, IF h.min = 0 THEN "sched" ELSE "run", h.min, 1, 0, 0)
           /\ Ck!WaitSleeps(c) => HartGets(c, "sched", 0, 1, 0, 0)
           /\ \A p \in Ck!Slots :
                /\ Ck!Fork(c, p) => HartGets(c, "fork", h.run, h.idx, h.min, h.min_time)
                /\ Ck!ForkDone(c, p) => HartGets(c, "run", h.run, h.idx, h.min, h.min_time)
                /\ Ck!Exit(c, p) \/ Ck!NapSleeps(c, p) => HartGets(c, "sched", 0, 1, 0, 0)
  BY HartDoes, HartBecomes

\* The same of a process's place in sys_sleep.
NapGets(p, at, ticks0, n) ==
    /\ nap' \in [Ck!Slots -> Sleep]
    /\ nap'[p].at = at /\ nap'[p].ticks0 = ticks0 /\ nap'[p].n = n
    /\ \A q \in Ck!Slots : q # p => nap'[q] = nap[q]

LEMMA NapFields ==
    ASSUME ClockTypeOK, NEW p \in Ck!Slots
    PROVE  nap[p].at \in {"user", "look", "woken"} /\ nap[p].ticks0 \in Nat /\ nap[p].n \in Nat
<1>1. nap[p] \in Sleep
  BY DEF ClockTypeOK
<1> QED
  BY <1>1 DEF Sleep

LEMMA NapDoes ==
    ASSUME ClockTypeOK, NEW p \in Ck!Slots
    PROVE  \A c \in Ck!Harts :
             /\ \A n \in Nat : Ck!NapCall(c, p, n) => NapGets(p, "look", time, n)
             /\ Ck!NapEnds(c, p) => NapGets(p, "user", 0, 0)
             /\ Ck!NapSleeps(c, p) => NapGets(p, "woken", nap[p].ticks0, nap[p].n)
             /\ Ck!NapLooks(c, p) => NapGets(p, "look", nap[p].ticks0, nap[p].n)
<1>1. /\ nap \in [Ck!Slots -> Sleep] /\ nap[p] \in Sleep /\ time \in Nat
      /\ nap[p].ticks0 \in Nat /\ nap[p].n \in Nat /\ DOMAIN nap = Ck!Slots
  BY NapFields DEF ClockTypeOK
<1>2. ASSUME NEW s \in Sleep, nap' = [nap EXCEPT ![p] = s]
      PROVE  NapGets(p, s.at, s.ticks0, s.n)
  BY <1>1, <1>2 DEF NapGets
<1>3. ASSUME NEW at \in {"look", "woken"}, nap' = [nap EXCEPT ![p].at = at]
      PROVE  NapGets(p, at, nap[p].ticks0, nap[p].n)
  <2>1. nap'[p] = [at |-> at, ticks0 |-> nap[p].ticks0, n |-> nap[p].n]
    BY <1>1, <1>3 DEF Sleep
  <2>2. [at |-> at, ticks0 |-> nap[p].ticks0, n |-> nap[p].n] \in Sleep
    BY <1>1 DEF Sleep
  <2>3. nap' = [q \in Ck!Slots |-> nap'[q]] /\ \A q \in Ck!Slots : q # p => nap'[q] = nap[q]
    BY <1>1, <1>3
  <2>4. nap' \in [Ck!Slots -> Sleep]
    BY <1>1, <2>1, <2>2, <2>3
  <2> QED  BY <2>1, <2>3, <2>4 DEF NapGets
<1>4. ASSUME NEW c \in Ck!Harts, NEW n \in Nat, Ck!NapCall(c, p, n) PROVE NapGets(p, "look", time, n)
  <2> DEFINE s == [at |-> "look", ticks0 |-> time, n |-> n]
  <2>1. s \in Sleep
    BY <1>1 DEF Sleep
  <2>2. nap' = [nap EXCEPT ![p] = s]
    BY <1>4 DEF Ck!NapCall
  <2>3. s.at = "look" /\ s.ticks0 = time /\ s.n = n
    OBVIOUS
  <2> HIDE DEF s
  <2> QED  BY <1>2, <2>1, <2>2, <2>3
<1>5. ASSUME NEW c \in Ck!Harts, Ck!NapEnds(c, p) PROVE NapGets(p, "user", 0, 0)
  <2> DEFINE s == [at |-> "user", ticks0 |-> 0, n |-> 0]
  <2>1. s \in Sleep
    BY DEF Sleep
  <2>2. nap' = [nap EXCEPT ![p] = s]
    BY <1>5 DEF Ck!NapEnds, Ck!Awake
  <2>3. s.at = "user" /\ s.ticks0 = 0 /\ s.n = 0
    OBVIOUS
  <2> HIDE DEF s
  <2> QED  BY <1>2, <2>1, <2>2, <2>3
<1>6. ASSUME NEW c \in Ck!Harts, Ck!NapSleeps(c, p) PROVE NapGets(p, "woken", nap[p].ticks0, nap[p].n)
  BY <1>3, <1>6 DEF Ck!NapSleeps
<1>7. ASSUME NEW c \in Ck!Harts, Ck!NapLooks(c, p) PROVE NapGets(p, "look", nap[p].ticks0, nap[p].n)
  BY <1>3, <1>7 DEF Ck!NapLooks
<1> QED
  BY <1>4, <1>5, <1>6, <1>7

LEMMA ClockNumbers ==
    ASSUME Ck!ClockConstants
    PROVE  /\ NPROC \in Nat /\ NPROC > 0 /\ NHARTS \in Nat /\ NHARTS > 0
           /\ 0 \in Ck!Harts /\ 1 \in Ck!Slots
           /\ \A p \in Ck!Slots : Naps[p] \subseteq Nat
<1>1. NPROC \in Nat /\ NPROC > 0 /\ NHARTS \in Nat /\ NHARTS > 0
  BY DEF Ck!ClockConstants
<1>2. \A p \in Ck!Slots : Naps[p] \subseteq Nat
  BY DEF Ck!ClockConstants, Ck!Slots
<1> QED
  BY <1>1, <1>2 DEF Ck!Harts, Ck!Slots

TickRec == [at : {"off", "charge", "wake"}, idx : Nat]

LEMMA TickDoes ==
    ASSUME ClockTypeOK
    PROVE  /\ clock.at \in {"off", "charge", "wake"} /\ clock.idx \in Nat
           /\ clock' = clock => clock' \in TickRec
           /\ Ck!Tick => clock' \in TickRec /\ clock'.at = "charge" /\ clock'.idx = 1
           /\ Ck!Charge => /\ clock' \in TickRec
                           /\ clock.idx = NPROC => clock'.at = "wake" /\ clock'.idx = 1
                           /\ clock.idx # NPROC => clock'.at = "charge" /\ clock'.idx = clock.idx + 1
           /\ Ck!Wake => clock' \in TickRec /\ clock'.at = "wake" /\ clock'.idx = clock.idx + 1
           /\ Ck!TickDone => clock' \in TickRec /\ clock'.at = "off" /\ clock'.idx = 1
<1>1. clock \in TickRec
  BY DEF ClockTypeOK, TickRec
<1>2. clock.at \in {"off", "charge", "wake"} /\ clock.idx \in Nat
  BY <1>1 DEF TickRec
<1>3. ASSUME clock' = [clock EXCEPT !.idx = @ + 1]
      PROVE  clock' \in TickRec /\ clock'.at = clock.at /\ clock'.idx = clock.idx + 1
  BY <1>1, <1>3 DEF TickRec
<1>4. ASSUME NEW at \in {"off", "charge", "wake"}, clock' = [at |-> at, idx |-> 1]
      PROVE  clock' \in TickRec /\ clock'.at = at /\ clock'.idx = 1
  BY <1>4 DEF TickRec
<1>5. Ck!Tick => clock' \in TickRec /\ clock'.at = "charge" /\ clock'.idx = 1
  BY <1>4 DEF Ck!Tick
<1>6. Ck!Charge => /\ clock' \in TickRec
                   /\ clock.idx = NPROC => clock'.at = "wake" /\ clock'.idx = 1
                   /\ clock.idx # NPROC => clock'.at = "charge" /\ clock'.idx = clock.idx + 1
  BY <1>3, <1>4 DEF Ck!Charge
<1>7. Ck!Wake => clock' \in TickRec /\ clock'.at = "wake" /\ clock'.idx = clock.idx + 1
  BY <1>3 DEF Ck!Wake
<1>8. Ck!TickDone => clock' \in TickRec /\ clock'.at = "off" /\ clock'.idx = 1
  BY <1>4 DEF Ck!TickDone
<1> QED
  BY <1>1, <1>2, <1>5, <1>6, <1>7, <1>8

\* The types of the two records, whatever happens.
LEMMA HartTyped == ASSUME Ck!ClockConstants, ClockInv, Ck!Next PROVE hart' \in [Ck!Harts -> HartRec]
<1>0. ClockTypeOK /\ hart \in [Ck!Harts -> HartRec] /\ time \in Nat /\ NPROC \in Nat /\ NPROC > 0
  BY ClockNumbers DEF ClockInv, ClockTypeOK
<1>a. ASSUME NEW c \in Ck!Harts
      PROVE  /\ hart[c].at \in {"sched", "scan", "run", "fork"} /\ hart[c].run \in 0 .. NPROC
             /\ hart[c].idx \in Nat /\ hart[c].min \in 0 .. NPROC /\ hart[c].min_time \in Nat
  BY <1>0, HartFields
<1>e. \A p \in Ck!Slots : p \in 0 .. NPROC
  BY <1>0 DEF Ck!Slots
<1>d. \A p \in Ck!Slots : p \in 0 .. NPROC /\ clktik[p] \in Nat
  BY <1>e DEF ClockInv, ClockTypeOK
<1>b. 0 \in 0 .. NPROC /\ 1 \in Nat /\ 0 \in Nat /\ time + 1 \in Nat
  BY <1>0
<1>c. ASSUME NEW c \in Ck!Harts, NEW at \in {"sched", "scan", "run", "fork"}, NEW run \in 0 .. NPROC, NEW idx \in Nat,
             NEW min \in 0 .. NPROC, NEW t \in Nat, HartIs(c, at, run, idx, min, t)
      PROVE  hart' \in [Ck!Harts -> HartRec]
  BY <1>0, <1>c, HartTypes
<1>1. ASSUME NEW c \in Ck!Harts, Ck!ScanStart(c) PROVE hart' \in [Ck!Harts -> HartRec]
  BY <1>0, <1>a, <1>b, <1>c, <1>1, HartDoes
<1>2. ASSUME NEW c \in Ck!Harts, Ck!ScanLook(c) PROVE hart' \in [Ck!Harts -> HartRec]
  <2>1. hart[c].idx \in Ck!Slots /\ hart[c].idx + 1 \in Nat
    BY <1>a, <1>2 DEF Ck!ScanLook
  <2> QED  BY <1>0, <1>a, <1>b, <1>c, <1>d, <1>2, <2>1, HartDoes
<1>3. ASSUME NEW c \in Ck!Harts, Ck!ScanEnd(c) PROVE hart' \in [Ck!Harts -> HartRec]
  BY <1>0, <1>a, <1>b, <1>c, <1>3, HartDoes
<1>4. ASSUME NEW c \in Ck!Harts, Ck!WaitSleeps(c) PROVE hart' \in [Ck!Harts -> HartRec]
  BY <1>0, <1>a, <1>b, <1>c, <1>4, HartDoes
<1>5. ASSUME NEW c \in Ck!Harts, NEW p \in Ck!Slots, Ck!Fork(c, p) \/ Ck!ForkDone(c, p) \/ Ck!Exit(c, p) \/ Ck!NapSleeps(c, p)
      PROVE  hart' \in [Ck!Harts -> HartRec]
  BY <1>0, <1>a, <1>b, <1>c, <1>5, HartDoes
<1>6. UNCHANGED hart => hart' \in [Ck!Harts -> HartRec]
  BY <1>0
<1> QED
  BY <1>1, <1>2, <1>3, <1>4, <1>5, <1>6
     DEF Ck!Next, Ck!Schedules, Ck!Calls, Ck!Tick, Ck!Charge, Ck!Wake, Ck!TickDone,
         Ck!WaitReaps, Ck!Kill, Ck!NapCall, Ck!NapEnds, Ck!NapLooks

LEMMA NapTyped == ASSUME Ck!ClockConstants, ClockInv, Ck!Next PROVE nap' \in [Ck!Slots -> Sleep]
<1>0. ClockTypeOK /\ nap \in [Ck!Slots -> Sleep] /\ \A p \in Ck!Slots : Naps[p] \subseteq Nat
  BY ClockNumbers DEF ClockInv, ClockTypeOK
<1>1. ASSUME NEW c \in Ck!Harts, NEW p \in Ck!Slots,
             (\E n \in Naps[p] : Ck!NapCall(c, p, n)) \/ Ck!NapEnds(c, p) \/ Ck!NapSleeps(c, p) \/ Ck!NapLooks(c, p)
      PROVE  nap' \in [Ck!Slots -> Sleep]
  BY <1>0, <1>1, NapDoes DEF NapGets
<1>2. UNCHANGED nap => nap' \in [Ck!Slots -> Sleep]
  BY <1>0
<1> QED
  BY <1>1, <1>2
     DEF Ck!Next, Ck!Schedules, Ck!Calls, Ck!Tick, Ck!Charge, Ck!Wake, Ck!TickDone, Ck!ScanStart, Ck!ScanLook, Ck!ScanEnd,
         Ck!WaitSleeps, Ck!Fork, Ck!ForkDone, Ck!Exit, Ck!WaitReaps, Ck!Kill

LEMMA ClockTypes == ASSUME Ck!ClockConstants, ClockInv, Ck!Next PROVE ClockTypeOK'
<1> DEFINE Rest == /\ time' \in Nat /\ tickslock' \in Owner
    /\ state' \in [Ck!Slots -> {"UNUSED", "USED", "SLEEPING", "RUNNABLE", "RUNNING", "ZOMBIE"}]
    /\ clktik' \in [Ck!Slots -> Nat] /\ rtime' \in [Ck!Slots -> Nat] /\ etime' \in [Ck!Slots -> Nat]
    /\ killed' \in [Ck!Slots -> BOOLEAN]
    /\ plock' \in [Ck!Slots -> Owner]
    /\ chan' \in [Ck!Slots -> {"", "ticks", "child"}]
    /\ since' \in [Ck!Harts -> SUBSET Ck!Slots]
<1>0. /\ time \in Nat /\ tickslock \in Owner
      /\ state \in [Ck!Slots -> {"UNUSED", "USED", "SLEEPING", "RUNNABLE", "RUNNING", "ZOMBIE"}]
      /\ clktik \in [Ck!Slots -> Nat] /\ rtime \in [Ck!Slots -> Nat] /\ etime \in [Ck!Slots -> Nat]
      /\ killed \in [Ck!Slots -> BOOLEAN]
      /\ plock \in [Ck!Slots -> Owner]
      /\ chan \in [Ck!Slots -> {"", "ticks", "child"}]
      /\ since \in [Ck!Harts -> SUBSET Ck!Slots]
  BY DEF ClockInv, ClockTypeOK
<1>a. Ck!Nobody \in Owner /\ 0 \in Owner /\ \A c \in Ck!Harts : c \in Owner
  BY ClockNumbers DEF Owner
<1>b. time + 1 \in Nat /\ 0 \in Nat /\ \A p \in Ck!Slots : rtime[p] + 1 \in Nat
  <2>1. time \in Nat /\ rtime \in [Ck!Slots -> Nat]
    BY <1>0
  <2> QED  BY <2>1
<1>c. Ck!Parent \in Ck!Slots
  BY ClockNumbers DEF Ck!Parent
<1>1. ASSUME Ck!Tick PROVE Rest
  BY <1>0, <1>a, <1>b, <1>1 DEF Ck!Tick
<1>2. ASSUME Ck!Charge PROVE Rest
  <2>1. /\ rtime' = [rtime EXCEPT ![clock.idx] = IF state[clock.idx] = "RUNNING" THEN @ + 1 ELSE @]
        /\ UNCHANGED <<time, tickslock, state, clktik, etime, killed, plock, chan, since>>
    BY <1>2 DEF Ck!Charge
  <2>2. rtime' \in [Ck!Slots -> Nat]
    BY <1>0, <1>b, <2>1
  <2> QED  BY <1>0, <2>1, <2>2
<1>3. ASSUME Ck!Wake PROVE Rest
  BY <1>0, <1>a, <1>b, <1>3 DEF Ck!Wake
<1>4. ASSUME Ck!TickDone PROVE Rest
  BY <1>0, <1>a, <1>b, <1>4 DEF Ck!TickDone
<1>5. ASSUME NEW c \in Ck!Harts, Ck!ScanStart(c) PROVE Rest
  BY <1>0, <1>a, <1>b, <1>5 DEF Ck!ScanStart
<1>6. ASSUME NEW c \in Ck!Harts, Ck!ScanLook(c) PROVE Rest
  BY <1>0, <1>a, <1>b, <1>6 DEF Ck!ScanLook
<1>7. ASSUME NEW c \in Ck!Harts, Ck!ScanEnd(c) PROVE Rest
  BY <1>0, <1>a, <1>b, <1>7 DEF Ck!ScanEnd
<1>8. ASSUME NEW c \in Ck!Harts, Ck!WaitSleeps(c) PROVE Rest
  BY <1>0, <1>a, <1>b, <1>8 DEF Ck!WaitSleeps
<1>9. ASSUME NEW c \in Ck!Harts, NEW p \in Ck!Slots, Ck!Fork(c, p) PROVE Rest
  BY <1>0, <1>a, <1>b, <1>9 DEF Ck!Fork
<1>10. ASSUME NEW c \in Ck!Harts, NEW p \in Ck!Slots, Ck!ForkDone(c, p) PROVE Rest
  BY <1>0, <1>a, <1>b, <1>10 DEF Ck!ForkDone
<1>11. ASSUME NEW c \in Ck!Harts, NEW p \in Ck!Slots, Ck!Exit(c, p) PROVE Rest
  BY <1>0, <1>a, <1>b, <1>c, <1>11 DEF Ck!Exit
<1>12. ASSUME NEW c \in Ck!Harts, NEW p \in Ck!Slots, Ck!WaitReaps(c, p) PROVE Rest
  BY <1>0, <1>a, <1>b, <1>12 DEF Ck!WaitReaps
<1>13. ASSUME NEW c \in Ck!Harts, NEW p \in Ck!Slots, Ck!Kill(c, p) PROVE Rest
  BY <1>0, <1>a, <1>b, <1>13 DEF Ck!Kill
<1>14. ASSUME NEW c \in Ck!Harts, NEW p \in Ck!Slots, NEW n \in Naps[p], Ck!NapCall(c, p, n) PROVE Rest
  BY <1>0, <1>a, <1>b, <1>14 DEF Ck!NapCall
<1>15. ASSUME NEW c \in Ck!Harts, NEW p \in Ck!Slots, Ck!NapEnds(c, p) PROVE Rest
  BY <1>0, <1>a, <1>b, <1>15 DEF Ck!NapEnds
<1>16. ASSUME NEW c \in Ck!Harts, NEW p \in Ck!Slots, Ck!NapSleeps(c, p) PROVE Rest
  BY <1>0, <1>a, <1>b, <1>16 DEF Ck!NapSleeps
<1>17. ASSUME NEW c \in Ck!Harts, NEW p \in Ck!Slots, Ck!NapLooks(c, p) PROVE Rest
  BY <1>0, <1>a, <1>b, <1>17 DEF Ck!NapLooks
<1>18. Rest
  <2> HIDE DEF Rest
  <2> QED
  BY <1>1, <1>2, <1>3, <1>4, <1>5, <1>6, <1>7, <1>8, <1>9, <1>10, <1>11, <1>12, <1>13, <1>14, <1>15, <1>16, <1>17
     DEF Ck!Next, Ck!Schedules, Ck!Calls
<1>19. clock' \in TickRec
  BY TickDoes DEF ClockInv, Ck!Next, Ck!Schedules, Ck!Calls, Ck!ScanStart, Ck!ScanLook, Ck!ScanEnd, Ck!WaitSleeps, Ck!Fork,
                  Ck!ForkDone, Ck!Exit, Ck!WaitReaps, Ck!Kill, Ck!NapCall, Ck!NapEnds, Ck!NapSleeps, Ck!NapLooks
<1> QED
  BY <1>18, <1>19, HartTyped, NapTyped DEF ClockTypeOK, TickRec

-----------------------------------------------------------------------------
(* What each step asks for and does, slot by slot and hart by hart. *)

\* Entry q of a field becomes v, and the others stay.
Sets(new, old, q, v) == \A p \in Ck!Slots : new[p] = IF p = q THEN v ELSE old[p]

\* Hart c works: it is not taking a tick.
Working(c) == ~ (c = 0 /\ clock.at # "off")

LEMMA Domains ==
    ASSUME ClockTypeOK
    PROVE  /\ DOMAIN state = Ck!Slots /\ DOMAIN plock = Ck!Slots /\ DOMAIN chan = Ck!Slots
           /\ DOMAIN clktik = Ck!Slots /\ DOMAIN rtime = Ck!Slots /\ DOMAIN etime = Ck!Slots
           /\ DOMAIN since = Ck!Harts
  BY DEF ClockTypeOK

LEMMA ScanStartDoes ==
    ASSUME ClockTypeOK, NEW c \in Ck!Harts, Ck!ScanStart(c)
    PROVE  /\ hart[c].at = "sched" /\ Working(c)
           /\ HartGets(c, "scan", hart[c].run, 1, 0, time + 1)
           /\ \A d \in Ck!Harts : since'[d] = IF d = c THEN {p \in Ck!Slots : state[p] = "RUNNABLE"} ELSE since[d]
           /\ UNCHANGED <<time, tickslock, state, clktik, rtime, etime, plock, chan, nap, clock>>
  BY HartMoves, Domains DEF Ck!ScanStart, Ck!Works, Working

LEMMA ScanLookDoes ==
    ASSUME ClockTypeOK, NEW c \in Ck!Harts, Ck!ScanLook(c)
    PROVE  LET p == hart[c].idx
               m == hart[c].min
           IN  /\ hart[c].at = "scan" /\ Working(c) /\ p \in Ck!Slots /\ plock[p] = Ck!Nobody
               /\ IF state[p] = "RUNNABLE" /\ clktik[p] < hart[c].min_time
                  THEN /\ HartGets(c, "scan", hart[c].run, p + 1, p, clktik[p])
                       /\ \A q \in Ck!Slots : plock'[q] = IF q = p THEN c ELSE IF q = m THEN Ck!Nobody ELSE plock[q]
                  ELSE /\ HartGets(c, "scan", hart[c].run, p + 1, m, hart[c].min_time)
                       /\ plock' = plock
               /\ UNCHANGED <<time, tickslock, state, clktik, rtime, etime, chan, nap, clock, since>>
  BY HartMoves DEF Ck!ScanLook, Ck!Works, Ck!Free, Ck!Earlier, Working

LEMMA ScanEndDoes ==
    ASSUME ClockTypeOK, NEW c \in Ck!Harts, Ck!ScanEnd(c)
    PROVE  LET m == hart[c].min IN
           /\ hart[c].at = "scan" /\ Working(c) /\ hart[c].idx > NPROC
           /\ HartGets(c, IF m = 0 THEN "sched" ELSE "run", m, 1, 0, 0)
           /\ IF m = 0 THEN state' = state /\ plock' = plock
                       ELSE Sets(state', state, m, "RUNNING") /\ Sets(plock', plock, m, Ck!Nobody)
           /\ \A d \in Ck!Harts : since'[d] = IF d = c THEN {} ELSE since[d] \ {m}
           /\ UNCHANGED <<time, tickslock, clktik, rtime, etime, chan, nap, clock>>
  BY HartMoves, Domains DEF Ck!ScanEnd, Ck!Works, Working, Sets

LEMMA ForkDoes ==
    ASSUME ClockTypeOK, NEW c \in Ck!Harts, NEW q \in Ck!Slots, Ck!Fork(c, q)
    PROVE  /\ hart[c].at = "run" /\ Working(c) /\ state[q] = "UNUSED" /\ plock[q] = Ck!Nobody
           /\ HartGets(c, "fork", hart[c].run, hart[c].idx, hart[c].min, hart[c].min_time)
           /\ Sets(state', state, q, "USED") /\ Sets(plock', plock, q, c)
           /\ Sets(clktik', clktik, q, time) /\ Sets(rtime', rtime, q, 0) /\ Sets(etime', etime, q, 0)
           /\ UNCHANGED <<time, tickslock, chan, nap, clock, since>>
           /\ nap[hart[c].run].at = "user"
  BY HartMoves, Domains DEF Ck!Fork, Ck!Runs, Ck!Works, Ck!Free, Working, Sets

LEMMA ForkDoneDoes ==
    ASSUME ClockTypeOK, NEW c \in Ck!Harts, NEW q \in Ck!Slots, Ck!ForkDone(c, q)
    PROVE  /\ hart[c].at = "fork" /\ Working(c) /\ plock[q] = c
           /\ HartGets(c, "run", hart[c].run, hart[c].idx, hart[c].min, hart[c].min_time)
           /\ Sets(state', state, q, "RUNNABLE") /\ Sets(plock', plock, q, Ck!Nobody)
           /\ UNCHANGED <<time, tickslock, clktik, rtime, etime, chan, nap, clock, since>>
  BY HartMoves, Domains DEF Ck!ForkDone, Ck!Works, Working, Sets

LEMMA ExitDoes ==
    ASSUME ClockTypeOK, NEW c \in Ck!Harts, NEW p \in Ck!Slots, Ck!Exit(c, p)
    PROVE  /\ hart[c].at = "run" /\ hart[c].run = p /\ nap[p].at = "user" /\ Working(c)
           /\ p # Ck!Parent /\ plock[p] = Ck!Nobody /\ plock[Ck!Parent] = Ck!Nobody
           /\ HartGets(c, "sched", 0, 1, 0, 0)
           /\ \A q \in Ck!Slots : state'[q] = IF q = p THEN "ZOMBIE"
                ELSE IF q = Ck!Parent /\ chan[q] = "child" /\ state[q] = "SLEEPING" THEN "RUNNABLE" ELSE state[q]
           /\ Sets(etime', etime, p, time)
           /\ UNCHANGED <<time, tickslock, clktik, rtime, plock, chan, nap, clock, since>>
<1>1. HartGets(c, "sched", 0, 1, 0, 0)
  BY HartMoves
<1>2. /\ p # Ck!Parent /\ etime' = [etime EXCEPT ![p] = time]
      /\ state' = [state EXCEPT ![p] = "ZOMBIE",
                     ![Ck!Parent] = IF chan[Ck!Parent] = "child" /\ @ = "SLEEPING" THEN "RUNNABLE" ELSE @]
  BY DEF Ck!Exit
<1>3. \A q \in Ck!Slots : state'[q] = IF q = p THEN "ZOMBIE"
        ELSE IF q = Ck!Parent /\ chan[q] = "child" /\ state[q] = "SLEEPING" THEN "RUNNABLE" ELSE state[q]
  BY <1>2, Domains
<1>4. Sets(etime', etime, p, time)
  BY <1>2, Domains DEF Sets
<1> QED
  BY <1>1, <1>3, <1>4 DEF Ck!Exit, Ck!Runs, Ck!Works, Ck!Free, Working

LEMMA WaitReapsDoes ==
    ASSUME ClockTypeOK, NEW c \in Ck!Harts, NEW q \in Ck!Slots, Ck!WaitReaps(c, q)
    PROVE  /\ Working(c) /\ state[q] = "ZOMBIE" /\ plock[q] = Ck!Nobody
           /\ Sets(state', state, q, "UNUSED")
           /\ Sets(clktik', clktik, q, 0) /\ Sets(rtime', rtime, q, 0) /\ Sets(etime', etime, q, 0)
           /\ UNCHANGED <<time, tickslock, plock, chan, nap, hart, clock, since>>
  BY Domains DEF Ck!WaitReaps, Ck!Runs, Ck!Works, Ck!Free, Ck!Zombies, Working, Sets

LEMMA WaitSleepsDoes ==
    ASSUME ClockTypeOK, NEW c \in Ck!Harts, Ck!WaitSleeps(c)
    PROVE  /\ hart[c].at = "run" /\ hart[c].run = Ck!Parent /\ nap[Ck!Parent].at = "user" /\ Working(c)
           /\ plock[Ck!Parent] = Ck!Nobody
           /\ HartGets(c, "sched", 0, 1, 0, 0)
           /\ Sets(state', state, Ck!Parent, "SLEEPING") /\ Sets(chan', chan, Ck!Parent, "child")
           /\ UNCHANGED <<time, tickslock, clktik, rtime, etime, plock, nap, clock, since>>
  BY HartMoves, Domains DEF Ck!WaitSleeps, Ck!Runs, Ck!Works, Ck!Free, Working, Sets

LEMMA KillDoes ==
    ASSUME ClockTypeOK, NEW c \in Ck!Harts, NEW q \in Ck!Slots, Ck!Kill(c, q)
    PROVE  /\ state[q] = "SLEEPING" /\ plock[q] = Ck!Nobody
           /\ Sets(state', state, q, "RUNNABLE")
           /\ UNCHANGED <<time, tickslock, clktik, rtime, etime, plock, chan, nap, hart, clock, since>>
  BY Domains DEF Ck!Kill, Ck!Free, Sets

LEMMA NapCallDoes ==
    ASSUME ClockTypeOK, NEW c \in Ck!Harts, NEW p \in Ck!Slots, NEW n \in Nat, Ck!NapCall(c, p, n)
    PROVE  /\ hart[c].at = "run" /\ hart[c].run = p /\ Working(c) /\ tickslock = Ck!Nobody /\ tickslock' = c
           /\ NapGets(p, "look", time, n)
           /\ UNCHANGED <<time, state, clktik, rtime, etime, plock, chan, hart, clock, since>>
  BY NapDoes DEF Ck!NapCall, Ck!Runs, Ck!Works, Working

LEMMA NapEndsDoes ==
    ASSUME ClockTypeOK, NEW c \in Ck!Harts, NEW p \in Ck!Slots, Ck!NapEnds(c, p)
    PROVE  /\ hart[c].at = "run" /\ hart[c].run = p /\ nap[p].at = "look" /\ Working(c) /\ tickslock' = Ck!Nobody
           /\ NapGets(p, "user", 0, 0)
           /\ UNCHANGED <<time, state, clktik, rtime, etime, plock, chan, hart, clock, since>>
  BY NapDoes DEF Ck!NapEnds, Ck!Runs, Ck!Works, Working

LEMMA NapSleepsDoes ==
    ASSUME ClockTypeOK, NEW c \in Ck!Harts, NEW p \in Ck!Slots, Ck!NapSleeps(c, p)
    PROVE  /\ hart[c].at = "run" /\ hart[c].run = p /\ nap[p].at = "look" /\ Working(c)
           /\ plock[p] = Ck!Nobody /\ tickslock' = Ck!Nobody /\ Ck!Elapsed(p) < nap[p].n
           /\ HartGets(c, "sched", 0, 1, 0, 0)
           /\ NapGets(p, "woken", nap[p].ticks0, nap[p].n)
           /\ Sets(state', state, p, "SLEEPING") /\ Sets(chan', chan, p, "ticks")
           /\ UNCHANGED <<time, clktik, rtime, etime, plock, clock, since>>
<1>1. HartGets(c, "sched", 0, 1, 0, 0) /\ NapGets(p, "woken", nap[p].ticks0, nap[p].n)
  BY HartMoves, NapDoes
<1>2. Sets(state', state, p, "SLEEPING") /\ Sets(chan', chan, p, "ticks")
  BY Domains DEF Ck!NapSleeps, Sets
<1> QED
  BY <1>1, <1>2 DEF Ck!NapSleeps, Ck!Runs, Ck!Works, Ck!Free, Working

LEMMA NapLooksDoes ==
    ASSUME ClockTypeOK, NEW c \in Ck!Harts, NEW p \in Ck!Slots, Ck!NapLooks(c, p)
    PROVE  /\ hart[c].at = "run" /\ hart[c].run = p /\ Working(c) /\ tickslock = Ck!Nobody /\ tickslock' = c
           /\ NapGets(p, "look", nap[p].ticks0, nap[p].n) /\ (\A q \in Ck!Slots : q # p => chan'[q] = chan[q])
           /\ UNCHANGED <<time, state, clktik, rtime, etime, plock, hart, clock, since>>
  BY NapDoes, Domains DEF Ck!NapLooks, Ck!Runs, Ck!Works, Working

LEMMA ChargeDoes ==
    ASSUME ClockTypeOK, Ck!Charge
    PROVE  /\ clock.at = "charge" /\ clock.idx \in Ck!Slots /\ plock[clock.idx] = Ck!Nobody
           /\ clock'.at = (IF clock.idx = NPROC THEN "wake" ELSE "charge")
           /\ clock'.idx = (IF clock.idx = NPROC THEN 1 ELSE clock.idx + 1)
           /\ Sets(rtime', rtime, clock.idx,
                   IF state[clock.idx] = "RUNNING" THEN rtime[clock.idx] + 1 ELSE rtime[clock.idx])
           /\ UNCHANGED <<time, tickslock, state, clktik, etime, plock, chan, nap, hart, since>>
<1>1. rtime' = [rtime EXCEPT ![clock.idx] = IF state[clock.idx] = "RUNNING" THEN @ + 1 ELSE @]
  BY Zenon DEF Ck!Charge
<1>2. /\ clock.at = "charge" /\ clock.idx \in Ck!Slots /\ plock[clock.idx] = Ck!Nobody
      /\ UNCHANGED <<time, tickslock, state, clktik, etime, plock, chan, nap, hart, since>>
  BY Zenon DEF Ck!Charge, Ck!Free
<1> QED  BY <1>1, <1>2, TickDoes, Domains DEF Sets

LEMMA WakeDoes ==
    ASSUME ClockTypeOK, Ck!Wake
    PROVE  /\ clock.at = "wake" /\ clock.idx \in Ck!Slots
           /\ clock.idx # hart[0].run => plock[clock.idx] = Ck!Nobody
           /\ clock'.at = "wake" /\ clock'.idx = clock.idx + 1
           /\ Sets(state', state, clock.idx,
                IF clock.idx # hart[0].run /\ state[clock.idx] = "SLEEPING" /\ chan[clock.idx] = "ticks"
                THEN "RUNNABLE" ELSE state[clock.idx])
           /\ UNCHANGED <<time, tickslock, clktik, rtime, etime, plock, chan, nap, hart, since>>
<1>1. state' = [state EXCEPT ![clock.idx] =
                  IF clock.idx # hart[0].run /\ @ = "SLEEPING" /\ chan[clock.idx] = "ticks" THEN "RUNNABLE" ELSE @]
  BY Zenon DEF Ck!Wake
<1>2. /\ clock.at = "wake" /\ clock.idx \in Ck!Slots
      /\ clock.idx # hart[0].run => plock[clock.idx] = Ck!Nobody
      /\ UNCHANGED <<time, tickslock, clktik, rtime, etime, plock, chan, nap, hart, since>>
  BY Zenon DEF Ck!Wake, Ck!Free
<1> QED  BY <1>1, <1>2, TickDoes, Domains DEF Sets

LEMMA TurnDoes ==
    ASSUME ClockTypeOK
    PROVE  /\ Ck!Tick => /\ clock.at = "off" /\ clock'.at = "charge" /\ clock'.idx = 1
                         /\ tickslock = Ck!Nobody /\ tickslock' = 0 /\ time' = time + 1
                         /\ hart[0].at \in {"sched", "run"} \/ (hart[0].at = "scan" /\ hart[0].min = 0)
           /\ Ck!TickDone => /\ clock.at = "wake" /\ clock.idx > NPROC /\ clock'.at = "off" /\ clock'.idx = 1
                             /\ tickslock' = Ck!Nobody /\ time' = time
           /\ Ck!Tick \/ Ck!TickDone => UNCHANGED <<state, clktik, rtime, etime, plock, chan, nap, hart, since>>
  BY TickDoes DEF Ck!Tick, Ck!TickDone, Ck!Interruptible

LEMMA SlotFacts ==
    ASSUME Ck!ClockConstants, ClockInv
    PROVE  /\ \A p \in Ck!Slots : p \in Nat /\ p > 0 /\ p <= NPROC
           /\ \A p \in 0 .. NPROC : p # 0 => p \in Ck!Slots
           /\ \A p \in Ck!Slots : state[p] \in {"UNUSED", "USED", "SLEEPING", "RUNNABLE", "RUNNING", "ZOMBIE"}
           /\ \A p \in Ck!Slots : plock[p] = Ck!Nobody \/ plock[p] \in Ck!Harts
           /\ \A p \in Ck!Slots : clktik[p] \in Nat /\ rtime[p] \in Nat /\ etime[p] \in Nat
           /\ \A c \in Ck!Harts : c # Ck!Nobody
           /\ Ck!Parent \in Ck!Slots /\ 0 \in Ck!Harts /\ time \in Nat
           /\ clock.at \in {"off", "charge", "wake"} /\ clock.idx \in Nat
<1>1. ClockTypeOK
  BY DEF ClockInv
<1>2. \A p \in Ck!Slots : p \in Nat /\ p > 0 /\ p <= NPROC
  BY ClockNumbers DEF Ck!Slots
<1>3. \A p \in 0 .. NPROC : p # 0 => p \in Ck!Slots
  BY ClockNumbers DEF Ck!Slots
<1>4. \A p \in Ck!Slots : state[p] \in {"UNUSED", "USED", "SLEEPING", "RUNNABLE", "RUNNING", "ZOMBIE"}
  BY <1>1 DEF ClockTypeOK
<1>5. \A p \in Ck!Slots : plock[p] = Ck!Nobody \/ plock[p] \in Ck!Harts
  BY <1>1 DEF ClockTypeOK, Owner
<1>6. \A p \in Ck!Slots : clktik[p] \in Nat /\ rtime[p] \in Nat /\ etime[p] \in Nat
  BY <1>1 DEF ClockTypeOK
<1>7. \A c \in Ck!Harts : c # Ck!Nobody
  BY ClockNumbers DEF Ck!Harts, Ck!Nobody
<1>8. Ck!Parent \in Ck!Slots /\ 0 \in Ck!Harts
  BY ClockNumbers DEF Ck!Parent
<1>9. time \in Nat /\ clock.at \in {"off", "charge", "wake"} /\ clock.idx \in Nat
  BY <1>1, TickDoes DEF ClockTypeOK
<1> QED  BY <1>2, <1>3, <1>4, <1>5, <1>6, <1>7, <1>8, <1>9

LEMMA HartFacts ==
    ASSUME Ck!ClockConstants, ClockInv
    PROVE  \A c \in Ck!Harts :
             /\ hart[c].at \in {"sched", "scan", "run", "fork"} /\ hart[c].run \in 0 .. NPROC
             /\ hart[c].idx \in Nat /\ hart[c].min \in 0 .. NPROC /\ hart[c].min_time \in Nat
  BY HartFields DEF ClockInv

LEMMA RunningKept == ASSUME Ck!ClockConstants, ClockInv, Ck!Next PROVE Running'
<1>0. ClockTypeOK /\ Running /\ Locking /\ Scanning
  BY DEF ClockInv
<1>a. /\ \A p \in Ck!Slots : p # 0 /\ state[p] \in {"UNUSED", "USED", "SLEEPING", "RUNNABLE", "RUNNING", "ZOMBIE"}
      /\ \A p \in Ck!Slots : plock[p] # Ck!Nobody => plock[p] \in Ck!Harts
      /\ \A c \in Ck!Harts : c # Ck!Nobody
      /\ \A c \in Ck!Harts : hart[c].min # 0 => hart[c].min \in Ck!Slots
      /\ Ck!Parent \in Ck!Slots
  BY SlotFacts, HartFacts
<1>1. ASSUME Ck!Tick PROVE Running'
  BY <1>0, <1>a, <1>1, TurnDoes DEF Running, Locking, Scanning, ScanAt, HartGets, Sets
<1>2. ASSUME Ck!TickDone PROVE Running'
  BY <1>0, <1>a, <1>2, TurnDoes DEF Running, Locking, Scanning, ScanAt, HartGets, Sets
<1>3. ASSUME Ck!Charge PROVE Running'
  BY <1>0, <1>a, <1>3, ChargeDoes DEF Running, Locking, Scanning, ScanAt, HartGets, Sets
<1>4. ASSUME Ck!Wake PROVE Running'
  BY <1>0, <1>a, <1>4, WakeDoes DEF Running, Locking, Scanning, ScanAt, HartGets, Sets
<1>5. ASSUME NEW c \in Ck!Harts, Ck!ScanStart(c) PROVE Running'
  BY <1>0, <1>a, <1>5, ScanStartDoes DEF Running, Locking, Scanning, ScanAt, HartGets, Sets
<1>6. ASSUME NEW c \in Ck!Harts, Ck!ScanLook(c) PROVE Running'
  BY <1>0, <1>a, <1>6, ScanLookDoes DEF Running, Locking, Scanning, ScanAt, HartGets, Sets
<1>7. ASSUME NEW c \in Ck!Harts, Ck!ScanEnd(c) PROVE Running'
  BY <1>0, <1>a, <1>7, ScanEndDoes DEF Running, Locking, Scanning, ScanAt, HartGets, Sets
<1>8. ASSUME NEW c \in Ck!Harts, Ck!WaitSleeps(c) PROVE Running'
  BY <1>0, <1>a, <1>8, WaitSleepsDoes DEF Running, Locking, Scanning, ScanAt, HartGets, Sets
<1>9. ASSUME NEW c \in Ck!Harts, NEW p \in Ck!Slots, Ck!Fork(c, p) PROVE Running'
  BY <1>0, <1>a, <1>9, ForkDoes DEF Running, Locking, Scanning, ScanAt, HartGets, Sets
<1>10. ASSUME NEW c \in Ck!Harts, NEW p \in Ck!Slots, Ck!ForkDone(c, p) PROVE Running'
  BY <1>0, <1>a, <1>10, ForkDoneDoes DEF Running, Locking, Scanning, ScanAt, HartGets, Sets
<1>11. ASSUME NEW c \in Ck!Harts, NEW p \in Ck!Slots, Ck!Exit(c, p) PROVE Running'
  BY <1>0, <1>a, <1>11, ExitDoes DEF Running, Locking, Scanning, ScanAt, HartGets, Sets
<1>12. ASSUME NEW c \in Ck!Harts, NEW p \in Ck!Slots, Ck!WaitReaps(c, p) PROVE Running'
  BY <1>0, <1>a, <1>12, WaitReapsDoes DEF Running, Locking, Scanning, ScanAt, HartGets, Sets
<1>13. ASSUME NEW c \in Ck!Harts, NEW p \in Ck!Slots, Ck!Kill(c, p) PROVE Running'
  BY <1>0, <1>a, <1>13, KillDoes DEF Running, Locking, Scanning, ScanAt, HartGets, Sets
<1>14. ASSUME NEW c \in Ck!Harts, NEW p \in Ck!Slots, NEW n \in Nat, Ck!NapCall(c, p, n) PROVE Running'
  BY <1>0, <1>a, <1>14, NapCallDoes DEF Running, Locking, Scanning, ScanAt, HartGets, Sets
<1>15. ASSUME NEW c \in Ck!Harts, NEW p \in Ck!Slots, Ck!NapEnds(c, p) PROVE Running'
  BY <1>0, <1>a, <1>15, NapEndsDoes DEF Running, Locking, Scanning, ScanAt, HartGets, Sets
<1>16. ASSUME NEW c \in Ck!Harts, NEW p \in Ck!Slots, Ck!NapSleeps(c, p) PROVE Running'
  BY <1>0, <1>a, <1>16, NapSleepsDoes DEF Running, Locking, Scanning, ScanAt, HartGets, Sets
<1>17. ASSUME NEW c \in Ck!Harts, NEW p \in Ck!Slots, Ck!NapLooks(c, p) PROVE Running'
  <2>1. UNCHANGED <<state, plock, hart, clktik, since>>
    BY <1>0, <1>17, NapLooksDoes
  <2> QED  BY <1>0, <2>1 DEF Running
<1> QED
  BY <1>1, <1>2, <1>3, <1>4, <1>5, <1>6, <1>7, <1>8, <1>9, <1>10, <1>11, <1>12, <1>13, <1>14, <1>15, <1>16, <1>17, ClockNumbers
     DEF Ck!Next, Ck!Schedules, Ck!Calls

LEMMA LockingKept == ASSUME Ck!ClockConstants, ClockInv, Ck!Next PROVE Locking'
<1>0. ClockTypeOK /\ Running /\ Locking /\ Scanning
  BY DEF ClockInv
<1>a. /\ \A p \in Ck!Slots : p # 0 /\ state[p] \in {"UNUSED", "USED", "SLEEPING", "RUNNABLE", "RUNNING", "ZOMBIE"}
      /\ \A p \in Ck!Slots : plock[p] # Ck!Nobody => plock[p] \in Ck!Harts
      /\ \A c \in Ck!Harts : c # Ck!Nobody
      /\ \A c \in Ck!Harts : hart[c].min # 0 => hart[c].min \in Ck!Slots
      /\ Ck!Parent \in Ck!Slots
  BY SlotFacts, HartFacts
<1>1. ASSUME Ck!Tick PROVE Locking'
  BY <1>0, <1>a, <1>1, TurnDoes DEF Running, Locking, Scanning, ScanAt, HartGets, Sets
<1>2. ASSUME Ck!TickDone PROVE Locking'
  BY <1>0, <1>a, <1>2, TurnDoes DEF Running, Locking, Scanning, ScanAt, HartGets, Sets
<1>3. ASSUME Ck!Charge PROVE Locking'
  BY <1>0, <1>a, <1>3, ChargeDoes DEF Running, Locking, Scanning, ScanAt, HartGets, Sets
<1>4. ASSUME Ck!Wake PROVE Locking'
  BY <1>0, <1>a, <1>4, WakeDoes DEF Running, Locking, Scanning, ScanAt, HartGets, Sets
<1>5. ASSUME NEW c \in Ck!Harts, Ck!ScanStart(c) PROVE Locking'
  BY <1>0, <1>a, <1>5, ScanStartDoes DEF Running, Locking, Scanning, ScanAt, HartGets, Sets
<1>6. ASSUME NEW c \in Ck!Harts, Ck!ScanLook(c) PROVE Locking'
  BY <1>0, <1>a, <1>6, ScanLookDoes DEF Running, Locking, Scanning, ScanAt, HartGets, Sets
<1>7. ASSUME NEW c \in Ck!Harts, Ck!ScanEnd(c) PROVE Locking'
  BY <1>0, <1>a, <1>7, ScanEndDoes DEF Running, Locking, Scanning, ScanAt, HartGets, Sets
<1>8. ASSUME NEW c \in Ck!Harts, Ck!WaitSleeps(c) PROVE Locking'
  BY <1>0, <1>a, <1>8, WaitSleepsDoes DEF Running, Locking, Scanning, ScanAt, HartGets, Sets
<1>9. ASSUME NEW c \in Ck!Harts, NEW p \in Ck!Slots, Ck!Fork(c, p) PROVE Locking'
  BY <1>0, <1>a, <1>9, ForkDoes DEF Running, Locking, Scanning, ScanAt, HartGets, Sets
<1>10. ASSUME NEW c \in Ck!Harts, NEW p \in Ck!Slots, Ck!ForkDone(c, p) PROVE Locking'
  BY <1>0, <1>a, <1>10, ForkDoneDoes DEF Running, Locking, Scanning, ScanAt, HartGets, Sets
<1>11. ASSUME NEW c \in Ck!Harts, NEW p \in Ck!Slots, Ck!Exit(c, p) PROVE Locking'
  BY <1>0, <1>a, <1>11, ExitDoes DEF Running, Locking, Scanning, ScanAt, HartGets, Sets
<1>12. ASSUME NEW c \in Ck!Harts, NEW p \in Ck!Slots, Ck!WaitReaps(c, p) PROVE Locking'
  BY <1>0, <1>a, <1>12, WaitReapsDoes DEF Running, Locking, Scanning, ScanAt, HartGets, Sets
<1>13. ASSUME NEW c \in Ck!Harts, NEW p \in Ck!Slots, Ck!Kill(c, p) PROVE Locking'
  BY <1>0, <1>a, <1>13, KillDoes DEF Running, Locking, Scanning, ScanAt, HartGets, Sets
<1>14. ASSUME NEW c \in Ck!Harts, NEW p \in Ck!Slots, NEW n \in Nat, Ck!NapCall(c, p, n) PROVE Locking'
  BY <1>0, <1>a, <1>14, NapCallDoes DEF Running, Locking, Scanning, ScanAt, HartGets, Sets
<1>15. ASSUME NEW c \in Ck!Harts, NEW p \in Ck!Slots, Ck!NapEnds(c, p) PROVE Locking'
  BY <1>0, <1>a, <1>15, NapEndsDoes DEF Running, Locking, Scanning, ScanAt, HartGets, Sets
<1>16. ASSUME NEW c \in Ck!Harts, NEW p \in Ck!Slots, Ck!NapSleeps(c, p) PROVE Locking'
  BY <1>0, <1>a, <1>16, NapSleepsDoes DEF Running, Locking, Scanning, ScanAt, HartGets, Sets
<1>17. ASSUME NEW c \in Ck!Harts, NEW p \in Ck!Slots, Ck!NapLooks(c, p) PROVE Locking'
  <2>1. UNCHANGED <<state, plock, hart, clktik, since>>
    BY <1>0, <1>17, NapLooksDoes
  <2> QED  BY <1>0, <2>1 DEF Locking
<1> QED
  BY <1>1, <1>2, <1>3, <1>4, <1>5, <1>6, <1>7, <1>8, <1>9, <1>10, <1>11, <1>12, <1>13, <1>14, <1>15, <1>16, <1>17, ClockNumbers
     DEF Ck!Next, Ck!Schedules, Ck!Calls

LEMMA ScanningKept == ASSUME Ck!ClockConstants, ClockInv, Ck!Next PROVE Scanning'
<1>0. ClockTypeOK /\ Running /\ Locking /\ Scanning
  BY DEF ClockInv
<1>a. /\ \A p \in Ck!Slots : p # 0 /\ state[p] \in {"UNUSED", "USED", "SLEEPING", "RUNNABLE", "RUNNING", "ZOMBIE"}
      /\ \A p \in Ck!Slots : plock[p] # Ck!Nobody => plock[p] \in Ck!Harts
      /\ \A c \in Ck!Harts : c # Ck!Nobody
      /\ \A c \in Ck!Harts : hart[c].min # 0 => hart[c].min \in Ck!Slots
      /\ Ck!Parent \in Ck!Slots
  BY SlotFacts, HartFacts
<1>b. /\ \A c \in Ck!Harts : hart[c].idx \in Nat /\ hart[c].min_time \in Nat /\ hart[c].min \in Nat
      /\ \A p \in Ck!Slots : p \in Nat /\ p > 0 /\ clktik[p] \in Nat
      /\ time \in Nat
  BY SlotFacts, HartFacts
<1>s. ASSUME \A r \in Ck!Slots : state[r] = "RUNNABLE" => state'[r] = "RUNNABLE" /\ clktik'[r] = clktik[r],
             UNCHANGED since,
             \A d \in Ck!Harts : hart'[d] = hart[d] \/ hart'[d].at # "scan",
             \A d \in Ck!Harts, r \in Ck!Slots : hart[d].at = "scan" /\ plock[r] = d => plock'[r] = d
      PROVE  Scanning'
  <2> SUFFICES ASSUME NEW d \in Ck!Harts PROVE ScanAt(d)'
    BY DEF Scanning
  <2>1. ScanAt(d)
    BY <1>0 DEF Scanning
  <2>2. since'[d] = since[d] /\ \A p \in since[d] : p \in Ck!Slots /\ state[p] = "RUNNABLE"
    BY <1>0, <1>s, <2>1 DEF ScanAt, ClockTypeOK
  <2>3. hart[d].at = "scan" /\ hart[d].min # 0 => hart[d].min \in Ck!Slots /\ state[hart[d].min] = "RUNNABLE"
    BY <1>0, <1>a, <2>1 DEF ScanAt, Locking
  <2> QED  BY <1>s, <2>1, <2>2, <2>3 DEF ScanAt
<1>1. ASSUME Ck!Tick PROVE Scanning'
  <2>1. \A r \in Ck!Slots : state[r] = "RUNNABLE" => state'[r] = "RUNNABLE" /\ clktik'[r] = clktik[r]
    BY <1>0, <1>a, <1>1, TurnDoes DEF Running, Locking, Sets
  <2>2. UNCHANGED since /\ \A d \in Ck!Harts : hart'[d] = hart[d] \/ hart'[d].at # "scan"
    BY <1>0, <1>1, TurnDoes DEF HartGets
  <2>3. \A d \in Ck!Harts, r \in Ck!Slots : hart[d].at = "scan" /\ plock[r] = d => plock'[r] = d
    BY <1>0, <1>a, <1>1, TurnDoes DEF Sets
  <2> QED  BY <1>s, <2>1, <2>2, <2>3
<1>2. ASSUME Ck!TickDone PROVE Scanning'
  <2>1. \A r \in Ck!Slots : state[r] = "RUNNABLE" => state'[r] = "RUNNABLE" /\ clktik'[r] = clktik[r]
    BY <1>0, <1>a, <1>2, TurnDoes DEF Running, Locking, Sets
  <2>2. UNCHANGED since /\ \A d \in Ck!Harts : hart'[d] = hart[d] \/ hart'[d].at # "scan"
    BY <1>0, <1>2, TurnDoes DEF HartGets
  <2>3. \A d \in Ck!Harts, r \in Ck!Slots : hart[d].at = "scan" /\ plock[r] = d => plock'[r] = d
    BY <1>0, <1>a, <1>2, TurnDoes DEF Sets
  <2> QED  BY <1>s, <2>1, <2>2, <2>3
<1>3. ASSUME Ck!Charge PROVE Scanning'
  <2>1. \A r \in Ck!Slots : state[r] = "RUNNABLE" => state'[r] = "RUNNABLE" /\ clktik'[r] = clktik[r]
    BY <1>0, <1>a, <1>3, ChargeDoes DEF Running, Locking, Sets
  <2>2. UNCHANGED since /\ \A d \in Ck!Harts : hart'[d] = hart[d] \/ hart'[d].at # "scan"
    BY <1>0, <1>3, ChargeDoes DEF HartGets
  <2>3. \A d \in Ck!Harts, r \in Ck!Slots : hart[d].at = "scan" /\ plock[r] = d => plock'[r] = d
    BY <1>0, <1>a, <1>3, ChargeDoes DEF Sets
  <2> QED  BY <1>s, <2>1, <2>2, <2>3
<1>4. ASSUME Ck!Wake PROVE Scanning'
  <2>1. \A r \in Ck!Slots : state[r] = "RUNNABLE" => state'[r] = "RUNNABLE" /\ clktik'[r] = clktik[r]
    BY <1>0, <1>a, <1>4, WakeDoes DEF Running, Locking, Sets
  <2>2. UNCHANGED since /\ \A d \in Ck!Harts : hart'[d] = hart[d] \/ hart'[d].at # "scan"
    BY <1>0, <1>4, WakeDoes DEF HartGets
  <2>3. \A d \in Ck!Harts, r \in Ck!Slots : hart[d].at = "scan" /\ plock[r] = d => plock'[r] = d
    BY <1>0, <1>a, <1>4, WakeDoes DEF Sets
  <2> QED  BY <1>s, <2>1, <2>2, <2>3
<1>5. ASSUME NEW c \in Ck!Harts, Ck!ScanStart(c) PROVE Scanning'
  <2> SUFFICES ASSUME NEW d \in Ck!Harts PROVE ScanAt(d)'
    BY DEF Scanning
  <2>1. ScanAt(d)
    BY <1>0 DEF Scanning
  <2>2. CASE d = c
    <3>1. /\ since'[c] = {p \in Ck!Slots : state[p] = "RUNNABLE"} /\ state' = state
          /\ hart'[c].at = "scan" /\ hart'[c].idx = 1 /\ hart'[c].min = 0
      BY <1>0, <1>5, ScanStartDoes DEF HartGets
    <3> QED  BY <1>b, <2>2, <3>1 DEF ScanAt
  <2>3. CASE d # c
    BY <1>5, <1>0, <2>1, <2>3, ScanStartDoes DEF HartGets, ScanAt
  <2> QED  BY <2>2, <2>3
<1>6. ASSUME NEW c \in Ck!Harts, Ck!ScanLook(c) PROVE Scanning'
  <2> DEFINE i == hart[c].idx
             m == hart[c].min
             Better == state[i] = "RUNNABLE" /\ clktik[i] < hart[c].min_time
  <2> SUFFICES ASSUME NEW d \in Ck!Harts PROVE ScanAt(d)'
    BY DEF Scanning
  <2>0. /\ hart[c].at = "scan" /\ i \in Ck!Slots /\ plock[i] = Ck!Nobody
        /\ UNCHANGED <<state, clktik, since>>
        /\ Better => /\ HartGets(c, "scan", hart[c].run, i + 1, i, clktik[i])
                     /\ \A q \in Ck!Slots : plock'[q] = IF q = i THEN c ELSE IF q = m THEN Ck!Nobody ELSE plock[q]
        /\ ~ Better => HartGets(c, "scan", hart[c].run, i + 1, m, hart[c].min_time) /\ plock' = plock
    BY <1>0, <1>6, ScanLookDoes
  <2>1. ScanAt(d) /\ ScanAt(c)
    BY <1>0 DEF Scanning
  <2>2. \A p \in since[d] : p \in Ck!Slots /\ p \in Nat /\ clktik[p] \in Nat
    BY <1>0, <1>b DEF ClockTypeOK
  <2>3. ASSUME d # c, hart[d].at = "scan", hart[d].min # 0 PROVE plock'[hart[d].min] = d
    <3>1. hart[d].min \in Ck!Slots /\ plock[hart[d].min] = d
      BY <1>a, <2>1, <2>3 DEF ScanAt
    <3>2. m # 0 => plock[m] = c
      BY <2>0, <2>1 DEF ScanAt
    <3> QED  BY <1>a, <2>0, <2>3, <3>1, <3>2
  <2>4. CASE d # c
    <3>1. hart'[d] = hart[d]
      BY <2>0, <2>4 DEF HartGets
    <3> QED  BY <2>0, <2>1, <2>3, <2>4, <3>1 DEF ScanAt
  <2>5. CASE d = c /\ Better
    <3>1. /\ hart'[c].at = "scan" /\ hart'[c].idx = i + 1 /\ hart'[c].min = i /\ hart'[c].min_time = clktik[i]
          /\ plock'[i] = c
      BY <2>0, <2>5 DEF HartGets
    <3>2. \A p \in since[c] : p < i + 1 => clktik[p] >= clktik[i]
      BY <1>b, <2>0, <2>1, <2>2, <2>5 DEF ScanAt
    <3>3. i < i + 1
      BY <1>b
    <3> QED  BY <2>0, <2>1, <2>5, <3>1, <3>2, <3>3 DEF ScanAt
  <2>6. CASE d = c /\ ~ Better
    <3>1. /\ hart'[c].at = "scan" /\ hart'[c].idx = i + 1 /\ hart'[c].min = m
          /\ hart'[c].min_time = hart[c].min_time /\ plock' = plock
      BY <2>0, <2>6 DEF HartGets
    <3>2. \A p \in since[c] : p < i + 1 => clktik[p] >= hart[c].min_time
      BY <1>b, <2>0, <2>1, <2>2, <2>6 DEF ScanAt
    <3>3. m < i + 1
      BY <1>b, <2>0, <2>1 DEF ScanAt
    <3> QED  BY <2>0, <2>1, <2>6, <3>1, <3>2, <3>3 DEF ScanAt
  <2> QED  BY <2>4, <2>5, <2>6
<1>7. ASSUME NEW c \in Ck!Harts, Ck!ScanEnd(c) PROVE Scanning'
  <2> DEFINE m == hart[c].min
  <2> SUFFICES ASSUME NEW d \in Ck!Harts PROVE ScanAt(d)'
    BY DEF Scanning
  <2>0. /\ hart[c].at = "scan" /\ hart'[c].at # "scan" /\ (d # c => hart'[d] = hart[d])
        /\ IF m = 0 THEN state' = state /\ plock' = plock
                    ELSE Sets(state', state, m, "RUNNING") /\ Sets(plock', plock, m, Ck!Nobody)
        /\ since'[d] = IF d = c THEN {} ELSE since[d] \ {m}
        /\ clktik' = clktik
    BY <1>0, <1>7, ScanEndDoes DEF HartGets
  <2>1. ScanAt(d) /\ ScanAt(c)
    BY <1>0 DEF Scanning
  <2>2. CASE d = c
    BY <2>0, <2>2 DEF ScanAt
  <2>3. CASE d # c
    <3>1. \A p \in since'[d] : p \in since[d] /\ p # m /\ p \in Ck!Slots
      BY <1>0, <2>0, <2>3 DEF ClockTypeOK
    <3>2. \A p \in since'[d] : state'[p] = "RUNNABLE"
      BY <2>0, <2>1, <3>1 DEF Sets, ScanAt
    <3>3. ASSUME hart[d].at = "scan", hart[d].min # 0 PROVE plock'[hart[d].min] = d
      <4>1. hart[d].min \in Ck!Slots /\ plock[hart[d].min] = d
        BY <1>a, <2>1, <3>3 DEF ScanAt
      <4>2. m # 0 => plock[m] = c
        BY <2>0, <2>1 DEF ScanAt
      <4> QED  BY <2>0, <2>3, <4>1, <4>2 DEF Sets
    <3> QED  BY <2>0, <2>1, <2>3, <3>1, <3>2, <3>3 DEF ScanAt
  <2> QED  BY <2>2, <2>3
<1>8. ASSUME NEW c \in Ck!Harts, Ck!WaitSleeps(c) PROVE Scanning'
  <2>1. \A r \in Ck!Slots : state[r] = "RUNNABLE" => state'[r] = "RUNNABLE" /\ clktik'[r] = clktik[r]
    BY <1>0, <1>a, <1>8, WaitSleepsDoes DEF Running, Locking, Sets
  <2>2. UNCHANGED since /\ \A d \in Ck!Harts : hart'[d] = hart[d] \/ hart'[d].at # "scan"
    BY <1>0, <1>8, WaitSleepsDoes DEF HartGets
  <2>3. \A d \in Ck!Harts, r \in Ck!Slots : hart[d].at = "scan" /\ plock[r] = d => plock'[r] = d
    BY <1>0, <1>a, <1>8, WaitSleepsDoes DEF Sets
  <2> QED  BY <1>s, <2>1, <2>2, <2>3
<1>9. ASSUME NEW c \in Ck!Harts, NEW p \in Ck!Slots, Ck!Fork(c, p) PROVE Scanning'
  <2>1. \A r \in Ck!Slots : state[r] = "RUNNABLE" => state'[r] = "RUNNABLE" /\ clktik'[r] = clktik[r]
    BY <1>0, <1>a, <1>9, ForkDoes DEF Running, Locking, Sets
  <2>2. UNCHANGED since /\ \A d \in Ck!Harts : hart'[d] = hart[d] \/ hart'[d].at # "scan"
    BY <1>0, <1>9, ForkDoes DEF HartGets
  <2>3. \A d \in Ck!Harts, r \in Ck!Slots : hart[d].at = "scan" /\ plock[r] = d => plock'[r] = d
    BY <1>0, <1>a, <1>9, ForkDoes DEF Sets
  <2> QED  BY <1>s, <2>1, <2>2, <2>3
<1>10. ASSUME NEW c \in Ck!Harts, NEW p \in Ck!Slots, Ck!ForkDone(c, p) PROVE Scanning'
  <2>1. \A r \in Ck!Slots : state[r] = "RUNNABLE" => state'[r] = "RUNNABLE" /\ clktik'[r] = clktik[r]
    BY <1>0, <1>a, <1>10, ForkDoneDoes DEF Running, Locking, Sets
  <2>2. UNCHANGED since /\ \A d \in Ck!Harts : hart'[d] = hart[d] \/ hart'[d].at # "scan"
    BY <1>0, <1>10, ForkDoneDoes DEF HartGets
  <2>3. \A d \in Ck!Harts, r \in Ck!Slots : hart[d].at = "scan" /\ plock[r] = d => plock'[r] = d
    BY <1>0, <1>a, <1>10, ForkDoneDoes DEF Sets
  <2> QED  BY <1>s, <2>1, <2>2, <2>3
<1>11. ASSUME NEW c \in Ck!Harts, NEW p \in Ck!Slots, Ck!Exit(c, p) PROVE Scanning'
  <2>1. \A r \in Ck!Slots : state[r] = "RUNNABLE" => state'[r] = "RUNNABLE" /\ clktik'[r] = clktik[r]
    BY <1>0, <1>a, <1>11, ExitDoes DEF Running, Locking, Sets
  <2>2. UNCHANGED since /\ \A d \in Ck!Harts : hart'[d] = hart[d] \/ hart'[d].at # "scan"
    BY <1>0, <1>11, ExitDoes DEF HartGets
  <2>3. \A d \in Ck!Harts, r \in Ck!Slots : hart[d].at = "scan" /\ plock[r] = d => plock'[r] = d
    BY <1>0, <1>a, <1>11, ExitDoes DEF Sets
  <2> QED  BY <1>s, <2>1, <2>2, <2>3
<1>12. ASSUME NEW c \in Ck!Harts, NEW p \in Ck!Slots, Ck!WaitReaps(c, p) PROVE Scanning'
  <2>1. \A r \in Ck!Slots : state[r] = "RUNNABLE" => state'[r] = "RUNNABLE" /\ clktik'[r] = clktik[r]
    BY <1>0, <1>a, <1>12, WaitReapsDoes DEF Running, Locking, Sets
  <2>2. UNCHANGED since /\ \A d \in Ck!Harts : hart'[d] = hart[d] \/ hart'[d].at # "scan"
    BY <1>0, <1>12, WaitReapsDoes DEF HartGets
  <2>3. \A d \in Ck!Harts, r \in Ck!Slots : hart[d].at = "scan" /\ plock[r] = d => plock'[r] = d
    BY <1>0, <1>a, <1>12, WaitReapsDoes DEF Sets
  <2> QED  BY <1>s, <2>1, <2>2, <2>3
<1>13. ASSUME NEW c \in Ck!Harts, NEW p \in Ck!Slots, Ck!Kill(c, p) PROVE Scanning'
  <2>1. \A r \in Ck!Slots : state[r] = "RUNNABLE" => state'[r] = "RUNNABLE" /\ clktik'[r] = clktik[r]
    BY <1>0, <1>a, <1>13, KillDoes DEF Running, Locking, Sets
  <2>2. UNCHANGED since /\ \A d \in Ck!Harts : hart'[d] = hart[d] \/ hart'[d].at # "scan"
    BY <1>0, <1>13, KillDoes DEF HartGets
  <2>3. \A d \in Ck!Harts, r \in Ck!Slots : hart[d].at = "scan" /\ plock[r] = d => plock'[r] = d
    BY <1>0, <1>a, <1>13, KillDoes DEF Sets
  <2> QED  BY <1>s, <2>1, <2>2, <2>3
<1>14. ASSUME NEW c \in Ck!Harts, NEW p \in Ck!Slots, NEW n \in Nat, Ck!NapCall(c, p, n) PROVE Scanning'
  <2>1. \A r \in Ck!Slots : state[r] = "RUNNABLE" => state'[r] = "RUNNABLE" /\ clktik'[r] = clktik[r]
    BY <1>0, <1>a, <1>14, NapCallDoes DEF Running, Locking, Sets
  <2>2. UNCHANGED since /\ \A d \in Ck!Harts : hart'[d] = hart[d] \/ hart'[d].at # "scan"
    BY <1>0, <1>14, NapCallDoes DEF HartGets
  <2>3. \A d \in Ck!Harts, r \in Ck!Slots : hart[d].at = "scan" /\ plock[r] = d => plock'[r] = d
    BY <1>0, <1>a, <1>14, NapCallDoes DEF Sets
  <2> QED  BY <1>s, <2>1, <2>2, <2>3
<1>15. ASSUME NEW c \in Ck!Harts, NEW p \in Ck!Slots, Ck!NapEnds(c, p) PROVE Scanning'
  <2>1. \A r \in Ck!Slots : state[r] = "RUNNABLE" => state'[r] = "RUNNABLE" /\ clktik'[r] = clktik[r]
    BY <1>0, <1>a, <1>15, NapEndsDoes DEF Running, Locking, Sets
  <2>2. UNCHANGED since /\ \A d \in Ck!Harts : hart'[d] = hart[d] \/ hart'[d].at # "scan"
    BY <1>0, <1>15, NapEndsDoes DEF HartGets
  <2>3. \A d \in Ck!Harts, r \in Ck!Slots : hart[d].at = "scan" /\ plock[r] = d => plock'[r] = d
    BY <1>0, <1>a, <1>15, NapEndsDoes DEF Sets
  <2> QED  BY <1>s, <2>1, <2>2, <2>3
<1>16. ASSUME NEW c \in Ck!Harts, NEW p \in Ck!Slots, Ck!NapSleeps(c, p) PROVE Scanning'
  <2>1. \A r \in Ck!Slots : state[r] = "RUNNABLE" => state'[r] = "RUNNABLE" /\ clktik'[r] = clktik[r]
    BY <1>0, <1>a, <1>16, NapSleepsDoes DEF Running, Locking, Sets
  <2>2. UNCHANGED since /\ \A d \in Ck!Harts : hart'[d] = hart[d] \/ hart'[d].at # "scan"
    BY <1>0, <1>16, NapSleepsDoes DEF HartGets
  <2>3. \A d \in Ck!Harts, r \in Ck!Slots : hart[d].at = "scan" /\ plock[r] = d => plock'[r] = d
    BY <1>0, <1>a, <1>16, NapSleepsDoes DEF Sets
  <2> QED  BY <1>s, <2>1, <2>2, <2>3
<1>17. ASSUME NEW c \in Ck!Harts, NEW p \in Ck!Slots, Ck!NapLooks(c, p) PROVE Scanning'
  <2>1. \A r \in Ck!Slots : state[r] = "RUNNABLE" => state'[r] = "RUNNABLE" /\ clktik'[r] = clktik[r]
    BY <1>0, <1>a, <1>17, NapLooksDoes DEF Running, Locking, Sets
  <2>2. UNCHANGED since /\ \A d \in Ck!Harts : hart'[d] = hart[d] \/ hart'[d].at # "scan"
    BY <1>0, <1>17, NapLooksDoes DEF HartGets
  <2>3. \A d \in Ck!Harts, r \in Ck!Slots : hart[d].at = "scan" /\ plock[r] = d => plock'[r] = d
    BY <1>0, <1>a, <1>17, NapLooksDoes DEF Sets
  <2> QED  BY <1>s, <2>1, <2>2, <2>3
<1> QED
  BY <1>1, <1>2, <1>3, <1>4, <1>5, <1>6, <1>7, <1>8, <1>9, <1>10, <1>11, <1>12, <1>13, <1>14, <1>15, <1>16, <1>17, ClockNumbers
     DEF Ck!Next, Ck!Schedules, Ck!Calls

LEMMA TickingKept == ASSUME Ck!ClockConstants, ClockInv, Ck!Next PROVE Ticking'
<1>0. ClockTypeOK /\ Running /\ Ticking
  BY DEF ClockInv
<1>a. /\ \A c \in Ck!Harts : c # Ck!Nobody
      /\ 0 \in Ck!Harts /\ time \in Nat /\ clock.idx \in Nat
      /\ clock.at \in {"off", "charge", "wake"}
      /\ \A c \in Ck!Harts : hart[c].run # 0 => hart[c].run \in Ck!Slots
  BY SlotFacts, HartFacts
<1>1. ASSUME Ck!Tick PROVE Ticking'
  BY <1>0, <1>a, <1>1, TurnDoes DEF Running, Ticking, Working, HartGets, NapGets
<1>2. ASSUME Ck!TickDone PROVE Ticking'
  BY <1>0, <1>a, <1>2, TurnDoes DEF Running, Ticking, Working, HartGets, NapGets
<1>3. ASSUME Ck!Charge PROVE Ticking'
  BY <1>0, <1>a, <1>3, ChargeDoes DEF Running, Ticking, Working, HartGets, NapGets
<1>4. ASSUME Ck!Wake PROVE Ticking'
  BY <1>0, <1>a, <1>4, WakeDoes DEF Running, Ticking, Working, HartGets, NapGets
<1>5. ASSUME NEW c \in Ck!Harts, Ck!ScanStart(c) PROVE Ticking'
  BY <1>0, <1>a, <1>5, ScanStartDoes DEF Running, Ticking, Working, HartGets, NapGets
<1>6. ASSUME NEW c \in Ck!Harts, Ck!ScanLook(c) PROVE Ticking'
  BY <1>0, <1>a, <1>6, ScanLookDoes DEF Running, Ticking, Working, HartGets, NapGets
<1>7. ASSUME NEW c \in Ck!Harts, Ck!ScanEnd(c) PROVE Ticking'
  BY <1>0, <1>a, <1>7, ScanEndDoes DEF Running, Ticking, Working, HartGets, NapGets
<1>8. ASSUME NEW c \in Ck!Harts, Ck!WaitSleeps(c) PROVE Ticking'
  BY <1>0, <1>a, <1>8, WaitSleepsDoes DEF Running, Ticking, Working, HartGets, NapGets
<1>9. ASSUME NEW c \in Ck!Harts, NEW p \in Ck!Slots, Ck!Fork(c, p) PROVE Ticking'
  BY <1>0, <1>a, <1>9, ForkDoes DEF Running, Ticking, Working, HartGets, NapGets
<1>10. ASSUME NEW c \in Ck!Harts, NEW p \in Ck!Slots, Ck!ForkDone(c, p) PROVE Ticking'
  BY <1>0, <1>a, <1>10, ForkDoneDoes DEF Running, Ticking, Working, HartGets, NapGets
<1>11. ASSUME NEW c \in Ck!Harts, NEW p \in Ck!Slots, Ck!Exit(c, p) PROVE Ticking'
  BY <1>0, <1>a, <1>11, ExitDoes DEF Running, Ticking, Working, HartGets, NapGets
<1>12. ASSUME NEW c \in Ck!Harts, NEW p \in Ck!Slots, Ck!WaitReaps(c, p) PROVE Ticking'
  BY <1>0, <1>a, <1>12, WaitReapsDoes DEF Running, Ticking, Working, HartGets, NapGets
<1>13. ASSUME NEW c \in Ck!Harts, NEW p \in Ck!Slots, Ck!Kill(c, p) PROVE Ticking'
  BY <1>0, <1>a, <1>13, KillDoes DEF Running, Ticking, Working, HartGets, NapGets
<1>14. ASSUME NEW c \in Ck!Harts, NEW p \in Ck!Slots, NEW n \in Nat, Ck!NapCall(c, p, n) PROVE Ticking'
  BY <1>0, <1>a, <1>14, NapCallDoes DEF Running, Ticking, Working, HartGets, NapGets
<1>15. ASSUME NEW c \in Ck!Harts, NEW p \in Ck!Slots, Ck!NapEnds(c, p) PROVE Ticking'
  BY <1>0, <1>a, <1>15, NapEndsDoes DEF Running, Ticking, Working, HartGets, NapGets
<1>16. ASSUME NEW c \in Ck!Harts, NEW p \in Ck!Slots, Ck!NapSleeps(c, p) PROVE Ticking'
  BY <1>0, <1>a, <1>16, NapSleepsDoes DEF Running, Ticking, Working, HartGets, NapGets
<1>17. ASSUME NEW c \in Ck!Harts, NEW p \in Ck!Slots, Ck!NapLooks(c, p) PROVE Ticking'
  BY <1>0, <1>a, <1>17, NapLooksDoes DEF Running, Ticking, Working, HartGets, NapGets
<1> QED
  BY <1>1, <1>2, <1>3, <1>4, <1>5, <1>6, <1>7, <1>8, <1>9, <1>10, <1>11, <1>12, <1>13, <1>14, <1>15, <1>16, <1>17, ClockNumbers
     DEF Ck!Next, Ck!Schedules, Ck!Calls

LEMMA NappingKept == ASSUME Ck!ClockConstants, ClockInv, Ck!Next PROVE Napping'
<1>0. ClockTypeOK /\ Running /\ Ticking /\ Napping
  BY DEF ClockInv
<1>a. /\ \A p \in Ck!Slots : nap[p].ticks0 \in Nat /\ nap[p].n \in Nat /\ p > 0 /\ p \in Nat /\ p <= NPROC
      /\ 0 \in Ck!Harts /\ time \in Nat /\ clock.idx \in Nat /\ NPROC \in Nat
      /\ clock.at \in {"off", "charge", "wake"}
  BY <1>0, SlotFacts, NapFields, ClockNumbers
<1>1. ASSUME Ck!Tick PROVE Napping'
  BY <1>0, <1>a, <1>1, TurnDoes DEF Running, Ticking, Napping, Asleep, Ck!Elapsed, NapGets, Sets
<1>2. ASSUME Ck!TickDone PROVE Napping'
  BY <1>0, <1>a, <1>2, TurnDoes DEF Running, Ticking, Napping, Asleep, Ck!Elapsed, NapGets, Sets
<1>3. ASSUME Ck!Charge PROVE Napping'
  BY <1>0, <1>a, <1>3, ChargeDoes DEF Running, Ticking, Napping, Asleep, Ck!Elapsed, NapGets, Sets
<1>4. ASSUME Ck!Wake PROVE Napping'
  BY <1>0, <1>a, <1>4, WakeDoes DEF Running, Ticking, Napping, Asleep, Ck!Elapsed, NapGets, Sets
<1>5. ASSUME NEW c \in Ck!Harts, Ck!ScanStart(c) PROVE Napping'
  BY <1>0, <1>a, <1>5, ScanStartDoes DEF Running, Ticking, Napping, Asleep, Ck!Elapsed, NapGets, Sets
<1>6. ASSUME NEW c \in Ck!Harts, Ck!ScanLook(c) PROVE Napping'
  BY <1>0, <1>a, <1>6, ScanLookDoes DEF Running, Ticking, Napping, Asleep, Ck!Elapsed, NapGets, Sets
<1>7. ASSUME NEW c \in Ck!Harts, Ck!ScanEnd(c) PROVE Napping'
  BY <1>0, <1>a, <1>7, ScanEndDoes DEF Running, Ticking, Napping, Asleep, Ck!Elapsed, NapGets, Sets
<1>8. ASSUME NEW c \in Ck!Harts, Ck!WaitSleeps(c) PROVE Napping'
  BY <1>0, <1>a, <1>8, WaitSleepsDoes DEF Running, Ticking, Napping, Asleep, Ck!Elapsed, NapGets, Sets
<1>9. ASSUME NEW c \in Ck!Harts, NEW p \in Ck!Slots, Ck!Fork(c, p) PROVE Napping'
  BY <1>0, <1>a, <1>9, ForkDoes DEF Running, Ticking, Napping, Asleep, Ck!Elapsed, NapGets, Sets
<1>10. ASSUME NEW c \in Ck!Harts, NEW p \in Ck!Slots, Ck!ForkDone(c, p) PROVE Napping'
  BY <1>0, <1>a, <1>10, ForkDoneDoes DEF Running, Ticking, Napping, Asleep, Ck!Elapsed, NapGets, Sets
<1>11. ASSUME NEW c \in Ck!Harts, NEW p \in Ck!Slots, Ck!Exit(c, p) PROVE Napping'
  BY <1>0, <1>a, <1>11, ExitDoes DEF Running, Ticking, Napping, Asleep, Ck!Elapsed, NapGets, Sets
<1>12. ASSUME NEW c \in Ck!Harts, NEW p \in Ck!Slots, Ck!WaitReaps(c, p) PROVE Napping'
  BY <1>0, <1>a, <1>12, WaitReapsDoes DEF Running, Ticking, Napping, Asleep, Ck!Elapsed, NapGets, Sets
<1>13. ASSUME NEW c \in Ck!Harts, NEW p \in Ck!Slots, Ck!Kill(c, p) PROVE Napping'
  BY <1>0, <1>a, <1>13, KillDoes DEF Running, Ticking, Napping, Asleep, Ck!Elapsed, NapGets, Sets
<1>14. ASSUME NEW c \in Ck!Harts, NEW p \in Ck!Slots, NEW n \in Nat, Ck!NapCall(c, p, n) PROVE Napping'
  BY <1>0, <1>a, <1>14, NapCallDoes DEF Running, Ticking, Napping, Asleep, Ck!Elapsed, NapGets, Sets
<1>15. ASSUME NEW c \in Ck!Harts, NEW p \in Ck!Slots, Ck!NapEnds(c, p) PROVE Napping'
  BY <1>0, <1>a, <1>15, NapEndsDoes DEF Running, Ticking, Napping, Asleep, Ck!Elapsed, NapGets, Sets
<1>16. ASSUME NEW c \in Ck!Harts, NEW p \in Ck!Slots, Ck!NapSleeps(c, p) PROVE Napping'
  BY <1>0, <1>a, <1>16, NapSleepsDoes DEF Running, Ticking, Napping, Asleep, Ck!Elapsed, NapGets, Sets
<1>17. ASSUME NEW c \in Ck!Harts, NEW p \in Ck!Slots, Ck!NapLooks(c, p) PROVE Napping'
  BY <1>0, <1>a, <1>17, NapLooksDoes DEF Running, Ticking, Napping, Asleep, Ck!Elapsed, NapGets, Sets
<1> QED
  BY <1>1, <1>2, <1>3, <1>4, <1>5, <1>6, <1>7, <1>8, <1>9, <1>10, <1>11, <1>12, <1>13, <1>14, <1>15, <1>16, <1>17, ClockNumbers
     DEF Ck!Next, Ck!Schedules, Ck!Calls

LEMMA ChargingKept == ASSUME Ck!ClockConstants, ClockInv, Ck!Next PROVE Charging'
<1>0. ClockTypeOK /\ Ticking /\ Charging
  BY DEF ClockInv
<1>a. /\ \A p \in Ck!Slots : /\ rtime[p] \in Nat /\ clktik[p] \in Nat /\ etime[p] \in Nat
                             /\ p > 0 /\ p \in Nat /\ p <= NPROC
      /\ 0 \in Ck!Harts /\ time \in Nat /\ clock.idx \in Nat /\ NPROC \in Nat
      /\ clock.at \in {"off", "charge", "wake"}
  BY SlotFacts, ClockNumbers
<1>b. Slack \in {0, 1} /\ \A c \in Ck!Harts : Slack = 0 => c = 0
  BY ClockNumbers DEF Slack, Ck!Harts
<1>1. ASSUME Ck!Tick PROVE Charging'
  BY <1>0, <1>a, <1>b, <1>1, TurnDoes DEF Ticking, Charging, Due, Sets, Working
<1>2. ASSUME Ck!TickDone PROVE Charging'
  BY <1>0, <1>a, <1>b, <1>2, TurnDoes DEF Ticking, Charging, Due, Sets, Working
<1>3. ASSUME Ck!Charge PROVE Charging'
  BY <1>0, <1>a, <1>b, <1>3, ChargeDoes DEF Ticking, Charging, Due, Sets, Working
<1>4. ASSUME Ck!Wake PROVE Charging'
  BY <1>0, <1>a, <1>b, <1>4, WakeDoes DEF Ticking, Charging, Due, Sets, Working
<1>5. ASSUME NEW c \in Ck!Harts, Ck!ScanStart(c) PROVE Charging'
  BY <1>0, <1>a, <1>b, <1>5, ScanStartDoes DEF Ticking, Charging, Due, Sets, Working
<1>6. ASSUME NEW c \in Ck!Harts, Ck!ScanLook(c) PROVE Charging'
  BY <1>0, <1>a, <1>b, <1>6, ScanLookDoes DEF Ticking, Charging, Due, Sets, Working
<1>7. ASSUME NEW c \in Ck!Harts, Ck!ScanEnd(c) PROVE Charging'
  BY <1>0, <1>a, <1>b, <1>7, ScanEndDoes DEF Ticking, Charging, Due, Sets, Working
<1>8. ASSUME NEW c \in Ck!Harts, Ck!WaitSleeps(c) PROVE Charging'
  BY <1>0, <1>a, <1>b, <1>8, WaitSleepsDoes DEF Ticking, Charging, Due, Sets, Working
<1>9. ASSUME NEW c \in Ck!Harts, NEW p \in Ck!Slots, Ck!Fork(c, p) PROVE Charging'
  BY <1>0, <1>a, <1>b, <1>9, ForkDoes DEF Ticking, Charging, Due, Sets, Working
<1>10. ASSUME NEW c \in Ck!Harts, NEW p \in Ck!Slots, Ck!ForkDone(c, p) PROVE Charging'
  BY <1>0, <1>a, <1>b, <1>10, ForkDoneDoes DEF Ticking, Charging, Due, Sets, Working
<1>11. ASSUME NEW c \in Ck!Harts, NEW p \in Ck!Slots, Ck!Exit(c, p) PROVE Charging'
  BY <1>0, <1>a, <1>b, <1>11, ExitDoes DEF Ticking, Charging, Due, Sets, Working
<1>12. ASSUME NEW c \in Ck!Harts, NEW p \in Ck!Slots, Ck!WaitReaps(c, p) PROVE Charging'
  BY <1>0, <1>a, <1>b, <1>12, WaitReapsDoes DEF Ticking, Charging, Due, Sets, Working
<1>13. ASSUME NEW c \in Ck!Harts, NEW p \in Ck!Slots, Ck!Kill(c, p) PROVE Charging'
  BY <1>0, <1>a, <1>b, <1>13, KillDoes DEF Ticking, Charging, Due, Sets, Working
<1>14. ASSUME NEW c \in Ck!Harts, NEW p \in Ck!Slots, NEW n \in Nat, Ck!NapCall(c, p, n) PROVE Charging'
  BY <1>0, <1>a, <1>b, <1>14, NapCallDoes DEF Ticking, Charging, Due, Sets, Working
<1>15. ASSUME NEW c \in Ck!Harts, NEW p \in Ck!Slots, Ck!NapEnds(c, p) PROVE Charging'
  BY <1>0, <1>a, <1>b, <1>15, NapEndsDoes DEF Ticking, Charging, Due, Sets, Working
<1>16. ASSUME NEW c \in Ck!Harts, NEW p \in Ck!Slots, Ck!NapSleeps(c, p) PROVE Charging'
  BY <1>0, <1>a, <1>b, <1>16, NapSleepsDoes DEF Ticking, Charging, Due, Sets, Working
<1>17. ASSUME NEW c \in Ck!Harts, NEW p \in Ck!Slots, Ck!NapLooks(c, p) PROVE Charging'
  BY <1>0, <1>a, <1>b, <1>17, NapLooksDoes DEF Ticking, Charging, Due, Sets, Working
<1> QED
  BY <1>1, <1>2, <1>3, <1>4, <1>5, <1>6, <1>7, <1>8, <1>9, <1>10, <1>11, <1>12, <1>13, <1>14, <1>15, <1>16, <1>17, ClockNumbers
     DEF Ck!Next, Ck!Schedules, Ck!Calls

-----------------------------------------------------------------------------
(* The invariant, and what follows from it. *)

LEMMA ClockStep == ASSUME Ck!ClockConstants, ClockInv, Ck!Next PROVE ClockInv'
  BY ClockTypes, RunningKept, LockingKept, ScanningKept, TickingKept, NappingKept, ChargingKept DEF ClockInv

LEMMA ClockStutter == ASSUME ClockInv, UNCHANGED Ck!cvars PROVE ClockInv'
<1> USE DEF Ck!cvars
<1>1. ClockTypeOK'
  BY DEF ClockInv, ClockTypeOK
<1>2. Running' /\ Locking' /\ Scanning'
  BY DEF ClockInv, Running, Locking, Scanning, ScanAt
<1>3. Ticking' /\ Napping'
  BY DEF ClockInv, Ticking, Napping, Asleep, Ck!Elapsed
<1>4. Charging'
  BY DEF ClockInv, Charging, Due
<1> QED  BY <1>1, <1>2, <1>3, <1>4 DEF ClockInv

LEMMA OldestChosen == ASSUME Ck!ClockConstants, ClockInv PROVE Ck!FirstCome
<1> SUFFICES ASSUME NEW c \in Ck!Harts, hart[c].at = "scan", hart[c].idx > NPROC, hart[c].min # 0,
                    NEW p \in since[c]
             PROVE  clktik[p] >= clktik[hart[c].min]
  BY DEF Ck!FirstCome
<1>1. ScanAt(c) /\ p \in Ck!Slots
  BY DEF ClockInv, Scanning, ClockTypeOK
<1>2. p < hart[c].idx
  BY <1>1, SlotFacts, HartFacts, ClockNumbers
<1> QED  BY <1>1, <1>2 DEF ScanAt

LEMMA InTime == ASSUME ClockInv PROVE Ck!NoOversleep
<1> SUFFICES ASSUME tickslock = Ck!Nobody, NEW p \in Ck!Slots, Asleep(p)
             PROVE  Ck!Elapsed(p) < nap[p].n
  BY DEF Ck!NoOversleep, Asleep
<1>1. clock.at = "off"
  BY DEF ClockInv, Ticking, Ck!Nobody
<1> QED  BY <1>1 DEF ClockInv, Napping

LEMMA ChargedRight == ASSUME Ck!ClockConstants, ClockInv PROVE Ck!ChargedInLife
<1> SUFFICES ASSUME NEW q \in Ck!Slots, state[q] = "ZOMBIE"
             PROVE  etime[q] - clktik[q] - rtime[q] >= IF NHARTS = 1 THEN 0 ELSE -1
  BY DEF Ck!ChargedInLife, Ck!Zombies, Ck!Waited
<1>1. rtime[q] + clktik[q] <= etime[q] + Slack
  BY DEF ClockInv, Charging
<1>2. rtime[q] \in Nat /\ clktik[q] \in Nat /\ etime[q] \in Nat
  BY SlotFacts
<1> QED  BY <1>1, <1>2 DEF Slack

\* Who holds a process's lock from step to step neither runs a process nor takes
\* a tick, and what a scan waits for is behind its candidate.
LEMMA LocksInOrder == ASSUME Ck!ClockConstants, ClockInv PROVE Ck!NoRing
<1> SUFFICES ASSUME NEW c \in Ck!Harts, NEW d \in Ck!Harts, c # d, Ck!Blocks(c, d), Ck!Blocks(d, c)
             PROVE  FALSE
  BY DEF Ck!NoRing
<1>0. Running /\ Locking /\ Scanning /\ Ticking
  BY DEF ClockInv
<1>1. ASSUME NEW h \in Ck!Harts, NEW p \in Ck!Slots, plock[p] = h
      PROVE  /\ hart[h].at # "run" /\ (h = 0 => clock.at = "off")
             /\ hart[h].at = "scan" => hart[h].min = p
  <2>1. h # Ck!Nobody
    BY SlotFacts
  <2>2. (hart[h].at = "scan" /\ hart[h].min = p) \/ hart[h].at = "fork"
    BY <1>0, <1>1, <2>1 DEF Locking
  <2>3. p # 0
    BY SlotFacts
  <2> QED  BY <1>0, <2>2, <2>3 DEF Ticking
<1>2. CASE hart[c].at = "scan" /\ hart[c].idx \in Ck!Slots /\ plock[hart[c].idx] = d
  <2>1. hart[d].at # "run" /\ (d = 0 => clock.at = "off") /\ (hart[d].at = "scan" => hart[d].min = hart[c].idx)
    BY <1>1, <1>2
  <2>2. hart[d].at = "scan" /\ hart[d].idx \in Ck!Slots /\ plock[hart[d].idx] = c
    BY <2>1 DEF Ck!Blocks
  <2>3. hart[c].min = hart[d].idx /\ hart[d].min = hart[c].idx
    BY <1>1, <1>2, <2>1, <2>2
  <2>4. hart[c].min < hart[c].idx /\ hart[d].min < hart[d].idx
    BY <1>0, <1>2, <2>2 DEF Scanning, ScanAt
  <2> QED  BY <2>3, <2>4, HartFacts
<1>3. CASE c = 0 /\ clock.at # "off" /\ clock.idx \in Ck!Slots /\ plock[clock.idx] = d
  <2>1. hart[d].at # "run"
    BY <1>1, <1>3
  <2>2. hart[d].idx \in Ck!Slots /\ plock[hart[d].idx] = c
    BY <1>3, <2>1 DEF Ck!Blocks
  <2> QED  BY <1>1, <1>3, <2>2
<1>4. CASE hart[c].at = "run" /\ nap[hart[c].run].at = "woken" /\ tickslock = d
  <2>1. \A p \in Ck!Slots : plock[p] # c
    BY <1>1, <1>4
  <2>2. tickslock = c
    BY <2>1 DEF Ck!Blocks
  <2> QED  BY <1>4, <2>2
<1> QED  BY <1>2, <1>3, <1>4 DEF Ck!Blocks

\* For any processes, harts and lengths of sleep, in every state: FCFS chooses
\* nobody who was created after one that was runnable all through the scan;
\* nobody oversleeps; waitx reports no negative waiting time, but for one tick
\* with more than one hart; and no two harts wait for each other's locks
\* (scheduler, sys_sleep, clockintr, helpticks, waitx).
THEOREM ClockIsExact == ASSUME Ck!ClockConstants PROVE Ck!Spec => []ClockExact
<1>1. Ck!Init => ClockInv
  BY ClockStart
<1>2. ClockInv /\ [Ck!Next]_(Ck!cvars) => ClockInv'
  BY ClockStep, ClockStutter
<1>3. ClockInv => ClockExact
  BY OldestChosen, InTime, ChargedRight, LocksInOrder DEF Ck!ClockExact, ClockExact
<1> QED
  BY <1>1, <1>2, <1>3, PTL DEF Ck!Spec
===============================================================================
