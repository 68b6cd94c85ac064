-------------------------------- MODULE Shell --------------------------------
(***************************************************************************)
(* The shell (user/sh.c).  First its parser, on tokens instead of          *)
(* characters: "w" is a word, ">" stands for >> too; a parser takes a      *)
(* position and returns a command and the position after it, or Fail where *)
(* the code panics.                                                        *)
(*                                                                         *)
(* Then the shell at work on one line: the processes of runcmd, and        *)
(* their descriptors.  What closes, dup, open and pipe do to a table is    *)
(* fdalloc's rule: the lowest free descriptor.  One step per system call   *)
(* another process can notice; a process knows the node of the tree it is  *)
(* at by the path to it.  init adopts and reaps whoever has lost its       *)
(* parent.                                                                 *)
(***************************************************************************)
EXTENDS Integers, Sequences, SequencesExt, FiniteSets, FiniteSetsExt

CONSTANTS MaxArgs,   \* MAXARGS
          Typed,     \* the lines that are parsed
          Executed,  \* those of them that are run
          NFd,       \* NOFILE
          MaxProcs   \* bound: processes at a time, the shell among them

VARIABLES line,
          tree,      \* what parsecmd makes of it
          proc,
          failed     \* did a system call fail?

svars == <<line, tree, proc, failed>>

Sh   == 1
InitProc == 0
Pids == 1 .. MaxProcs

NoFile  == <<"none", <<>>>>
Console == <<"console", <<>>>>

Free == [pc |-> "none", path |-> <<>>, fds |-> [i \in 0 .. NFd - 1 |-> NoFile], parent |-> InitProc]

-----------------------------------------------------------------------------
(* The parser. *)

Exec(n)    == [type |-> "exec", n |-> n, kids |-> <<>>]    \* n words
Redir(c, fd) == [type |-> "redir", n |-> fd, kids |-> <<c>>]
Pipe(l, r) == [type |-> "pipe", n |-> 0, kids |-> <<l, r>>]
List(l, r) == [type |-> "list", n |-> 0, kids |-> <<l, r>>]
Back(c)    == [type |-> "back", n |-> 0, kids |-> <<c>>]

Failed   == [type |-> "fail", n |-> 0, kids |-> <<>>]
Fail     == [cmd |-> Failed, at |-> 0]
Got(c, i) == [cmd |-> c, at |-> i]

Peek(t, i, toks) == i <= Len(t) /\ t[i] \in toks

FdOf(tok) == IF tok = "<" THEN 0 ELSE 1

RECURSIVE ParseRedirs(_, _, _)
ParseRedirs(t, c, i) ==
    IF ~ Peek(t, i, {"<", ">"}) THEN Got(c, i)
    ELSE IF ~ Peek(t, i + 1, {"w"}) THEN Fail
    ELSE ParseRedirs(t, Redir(c, FdOf(t[i])), i + 2)

\* One more word for the exec command at the bottom of c.
RECURSIVE AddWord(_)
AddWord(c) == IF c.type = "exec" THEN [c EXCEPT !.n = @ + 1] ELSE [c EXCEPT !.kids = <<AddWord(@[1])>>]

\* The loop of parseexec; argc words so far.
RECURSIVE ParseArgs(_, _, _)
ParseArgs(t, r, argc) ==
    IF r = Fail \/ r.at > Len(t) \/ Peek(t, r.at, {"|", ")", "&", ";"}) THEN r
    ELSE IF t[r.at] # "w" \/ argc + 1 >= MaxArgs THEN Fail
    ELSE ParseArgs(t, ParseRedirs(t, AddWord(r.cmd), r.at + 1), argc + 1)

RECURSIVE ParseLine(_, _)

ParseBlock(t, i) ==
    LET r == ParseLine(t, i + 1) IN
    IF r = Fail \/ ~ Peek(t, r.at, {")"}) THEN Fail ELSE ParseRedirs(t, r.cmd, r.at + 1)

ParseExec(t, i) == IF Peek(t, i, {"("}) THEN ParseBlock(t, i)
                   ELSE ParseArgs(t, ParseRedirs(t, Exec(0), i), 0)

RECURSIVE ParsePipe(_, _)
ParsePipe(t, i) ==
    LET l == ParseExec(t, i) IN
    IF l = Fail \/ ~ Peek(t, l.at, {"|"}) THEN l
    ELSE LET r == ParsePipe(t, l.at + 1) IN IF r = Fail THEN Fail ELSE Got(Pipe(l.cmd, r.cmd), r.at)

RECURSIVE ParseBacks(_, _)
ParseBacks(t, r) == IF r # Fail /\ Peek(t, r.at, {"&"}) THEN ParseBacks(t, Got(Back(r.cmd), r.at + 1)) ELSE r

ParseLine(t, i) ==
    LET l == ParseBacks(t, ParsePipe(t, i)) IN
    IF l = Fail \/ ~ Peek(t, l.at, {";"}) THEN l
    ELSE LET r == ParseLine(t, l.at + 1) IN IF r = Fail THEN Fail ELSE Got(List(l.cmd, r.cmd), r.at)

ParseCmd(t) == LET r == ParseLine(t, 1) IN IF r.at = Len(t) + 1 THEN r.cmd ELSE Failed

-----------------------------------------------------------------------------
(* The grammar, as the set of the trees of a sequence of tokens.           *)

From(t, i) == SubSeq(t, i, Len(t))
Upto(t, i) == SubSeq(t, 1, i)

\* Positions of the words and of the symbols of redirections.
Symbols(t) == {i \in DOMAIN t : t[i] \in {"<", ">"}}
Words(t)   == {i \in DOMAIN t : t[i] = "w" /\ i - 1 \notin Symbols(t)}

Redirected(c, t) == FoldLeft(LAMBDA acc, i : Redir(acc, FdOf(t[i])), c, SetToSortSeq(Symbols(t), <))

NoOperator(t) == /\ \A i \in DOMAIN t : t[i] \in {"w", "<", ">"}
                 /\ \A i \in Symbols(t) : i + 1 \in DOMAIN t /\ t[i + 1] = "w"

RECURSIVE Lines(_)

Commands(t) ==
    {Redirected(Exec(Cardinality(Words(t))), t) : x \in {y \in {0} : NoOperator(t) /\ Cardinality(Words(t)) < MaxArgs}}
    \cup UNION {{Redirected(c, From(t, j + 1)) : c \in Lines(SubSeq(t, 2, j - 1))} :
                   j \in {k \in DOMAIN t : t[1] = "(" /\ t[k] = ")" /\ NoOperator(From(t, k + 1)) /\ Words(From(t, k + 1)) = {}}}

RECURSIVE Pipelines(_)
Pipelines(t) ==
    Commands(t) \cup UNION {{Pipe(l, r) : l \in Commands(Upto(t, j - 1)), r \in Pipelines(From(t, j + 1))} :
                               j \in {k \in DOMAIN t : t[k] = "|"}}

RECURSIVE Jobs(_)
Jobs(t) == Pipelines(t) \cup (IF t # <<>> /\ Last(t) = "&" THEN {Back(c) : c \in Jobs(Front(t))} ELSE {})

Lines(t) == Jobs(t) \cup UNION {{List(l, r) : l \in Jobs(Upto(t, j - 1)), r \in Lines(From(t, j + 1))} :
                                   j \in {k \in DOMAIN t : t[k] = ";"}}

-----------------------------------------------------------------------------
(* Descriptors. *)

Close(fds, i) == [fds EXCEPT ![i] = NoFile]

\* fdalloc, and with it open, dup and pipe.
Lowest(fds) == Min({i \in DOMAIN fds : fds[i] = NoFile})
Open(fds, f) == [fds EXCEPT ![Lowest(fds)] = f]
Has(fds, f) == {i \in DOMAIN fds : fds[i] = f}

\* main opens the console until it gets a descriptor of 3 or more.
ThreeOpen(fds) ==
    LET full == [i \in DOMAIN fds |-> IF i <= 3 /\ fds[i] = NoFile THEN Console ELSE fds[i]]
    IN  Close(full, 3)

\* One side of a pipeline: close(fd), dup its end, close both of pipe's.
Ends(fds, q) == Has(fds, <<"r", q>>) \cup Has(fds, <<"w", q>>)

RECURSIVE CloseAll(_, _)
CloseAll(fds, S) == IF S = {} THEN fds ELSE CloseAll(Close(fds, Min(S)), S \ {Min(S)})

Side(fds, q, fd, end) == CloseAll(Open(Close(fds, fd), <<end, q>>), Ends(fds, q))

-----------------------------------------------------------------------------
(* The tree and the processes. *)

RECURSIVE Node(_, _)
Node(c, path) == IF path = <<>> THEN c ELSE Node(c.kids[Head(path)], Tail(path))

At(p)     == Node(tree, proc[p].path)
Kid(p, i) == Append(proc[p].path, i)

Live     == {p \in Pids : proc[p].pc \notin {"none", "zombie"}}
Kids(p)  == {k \in Pids : proc[k].pc # "none" /\ proc[k].parent = p}
Slots    == {k \in Pids : proc[k].pc = "none"}

\* fork: parent becomes at, the child runs the node at path with fds.
Fork(p, at, path, fds) ==
    /\ Slots # {}
    /\ proc' = [proc EXCEPT ![p] = at,
                            ![Min(Slots)] = [pc |-> "run", path |-> path, fds |-> fds, parent |-> p]]
    /\ UNCHANGED <<line, tree, failed>>

\* exit: the children go to init, which reaps those that are dead.
Exited(p) ==
    [k \in Pids |->
       IF k = p THEN IF proc[p].parent = InitProc THEN Free ELSE [Free EXCEPT !.pc = "zombie", !.parent = proc[p].parent]
       ELSE IF k \notin Kids(p) THEN proc[k]
       ELSE IF proc[k].pc = "zombie" THEN Free ELSE [proc[k] EXCEPT !.parent = InitProc]]

Exit(p) == proc' = Exited(p) /\ UNCHANGED <<line, tree, failed>>

\* wait returns when a child is dead, or at once if there is none.
Wait(p, at) ==
    LET dead == {k \in Kids(p) : proc[k].pc = "zombie"} IN
    /\ \/ Kids(p) = {} /\ proc' = [proc EXCEPT ![p] = at]
       \/ \E k \in dead : proc' = [proc EXCEPT ![p] = at, ![k] = Free]
    /\ UNCHANGED <<line, tree, failed>>

Goes(p, pc, path) == [proc[p] EXCEPT !.pc = pc, !.path = path]

Init == /\ line \in Typed
        /\ tree = ParseCmd(line)
        /\ \E open \in SUBSET (0 .. 2) :
             proc = [p \in Pids |->
                IF p = Sh THEN [Free EXCEPT !.pc = "start",
                                            !.fds = [i \in 0 .. NFd - 1 |-> IF i \in open THEN Console ELSE NoFile]]
                ELSE Free]
        /\ failed = FALSE

-----------------------------------------------------------------------------
(* main. *)

Start ==
    /\ proc[Sh].pc = "start" /\ line \in Executed
    /\ proc' = [proc EXCEPT ![Sh].pc = "command", ![Sh].fds = ThreeOpen(@)]
    /\ UNCHANGED <<line, tree, failed>>

\* parsecmd is called by the child, which ends where it panics.
Command ==
    /\ proc[Sh].pc = "command"
    /\ Fork(Sh, Goes(Sh, "wait", <<>>), <<>>, proc[Sh].fds)

Prompt ==
    /\ proc[Sh].pc = "wait"
    /\ Wait(Sh, Goes(Sh, "prompt", <<>>))

-----------------------------------------------------------------------------
(* runcmd. *)

Running(p, type) == proc[p].pc = "run" /\ At(p).type = type

SyntaxError(p) == Running(p, "fail") /\ Exit(p)

\* exec, or the end of a process that has no words or cannot exec.
ExecCmd(p) ==
    /\ Running(p, "exec")
    /\ \/ /\ At(p).n > 0
          /\ proc' = [proc EXCEPT ![p].pc = "program"]
          /\ UNCHANGED <<line, tree, failed>>
       \/ Exit(p)

RedirCmd(p) ==
    LET fd == At(p).n IN
    /\ Running(p, "redir")
    /\ \/ /\ proc' = [proc EXCEPT ![p].path = Kid(p, 1),
                                  ![p].fds = Open(Close(@, fd), <<"file", proc[p].path>>)]
          /\ UNCHANGED <<line, tree, failed>>
       \/ Exit(p)

ListCmd(p) ==
    \/ /\ Running(p, "list")
       /\ Fork(p, Goes(p, "list", proc[p].path), Kid(p, 1), proc[p].fds)
    \/ /\ proc[p].pc = "list"
       /\ Wait(p, Goes(p, "run", Kid(p, 2)))

PipeMade(p) ==
    /\ Running(p, "pipe")
    /\ proc' = [proc EXCEPT ![p].pc = "left",
                            ![p].fds = Open(Open(@, <<"r", proc[p].path>>), <<"w", proc[p].path>>)]
    /\ UNCHANGED <<line, tree, failed>>

LeftSide(fds, q)  == Side(fds, q, 1, "w")

\* Mutant: the right side keeps the writing end open.
KeepsWriter(fds, q) == CloseAll(Open(Close(fds, 0), <<"r", q>>), Has(fds, <<"r", q>>))

RightSide(fds, q) == Side(fds, q, 0, "r")

PipeCmd(p) ==
    LET q == proc[p].path IN
    \/ /\ proc[p].pc = "left"
       /\ Fork(p, Goes(p, "right", q), Kid(p, 1), LeftSide(proc[p].fds, q))
    \/ /\ proc[p].pc = "right"
       /\ Fork(p, [Goes(p, "wait2", q) EXCEPT !.fds = CloseAll(@, Ends(@, q))],
               Kid(p, 2), RightSide(proc[p].fds, q))
    \/ proc[p].pc = "wait2" /\ Wait(p, Goes(p, "wait1", q))
    \/ proc[p].pc = "wait1" /\ Wait(p, Goes(p, "end", q))

BackCmd(p) ==
    /\ Running(p, "back")
    /\ Fork(p, Goes(p, "end", proc[p].path), Kid(p, 1), proc[p].fds)

End(p) == proc[p].pc = "end" /\ Exit(p)

\* fork1 and pipe panic when the call fails.
Forks(p) == \/ proc[p].pc \in {"command", "left", "right"}
            \/ \E type \in {"list", "pipe", "back"} : Running(p, type)

Panic(p) ==
    /\ Forks(p) /\ ~ failed
    /\ failed' = TRUE
    /\ proc' = Exited(p)
    /\ UNCHANGED <<line, tree>>

-----------------------------------------------------------------------------
(* A program, such as cat: it may end at any time, and does end when its   *)
(* input does.                                                             *)

ProgramEnds(p) == proc[p].pc = "program" /\ Exit(p)

HoldWrite(q) == {p \in Live : Has(proc[p].fds, <<"w", q>>) # {}}

EndOfInput(p) == LET f == proc[p].fds[0] IN f[1] = "r" => HoldWrite(f[2]) = {}

-----------------------------------------------------------------------------
Step(p) == \/ SyntaxError(p) \/ ExecCmd(p) \/ RedirCmd(p) \/ ListCmd(p)
           \/ PipeMade(p) \/ PipeCmd(p) \/ BackCmd(p) \/ End(p)

Main == Start \/ Command \/ Prompt

Next == Main \/ \E p \in Pids : Step(p) \/ Panic(p) \/ ProgramEnds(p)

Spec == Init /\ [][Next]_svars

-----------------------------------------------------------------------------
(* Properties. *)

\* The parser accepts what the grammar does and builds its only tree.
ParseExact == Lines(line) = IF tree = Failed THEN {} ELSE {tree}

\* Where the tree connects the node at path, below c at base.
RECURSIVE Plumbing(_, _, _, _)
Plumbing(c, path, base, fds) ==
    IF path = <<>> THEN fds
    ELSE Plumbing(c.kids[Head(path)], Tail(path), Append(base, Head(path)),
            IF c.type = "redir" THEN [fds EXCEPT ![c.n] = <<"file", base>>]
            ELSE IF c.type = "pipe" THEN IF Head(path) = 1 THEN [fds EXCEPT ![1] = <<"w", base>>]
                                                           ELSE [fds EXCEPT ![0] = <<"r", base>>]
            ELSE fds)

\* A program starts with the descriptors its place in the line asks for and
\* no other: no end of a pipe is left open in a process that does not use it,
\* although every process inherits its parent's.
Plumbed == \A p \in Pids : proc[p].pc = "program" =>
    proc[p].fds = Plumbing(tree, proc[p].path, <<>>,
                      [i \in 0 .. NFd - 1 |-> IF i <= 2 THEN Console ELSE NoFile])

\* Is the node at path below an & that is at path q or below?
Background(path, q) == \E n \in Len(q) .. Len(path) - 1 : Node(tree, SubSeq(path, 1, n)).type = "back"

\* Unless a call failed: what is behind a semicolon starts, and the prompt
\* comes back, when what is before has ended, but for what was put in the
\* background; no wait takes a child for another.
InOrder == failed \/
    /\ proc[Sh].pc = "prompt" => \A p \in Live \ {Sh} : Background(proc[p].path, <<>>)
    /\ \A p, o \in Live : \A n \in 0 .. Len(proc[p].path) - 1 :
         LET q == SubSeq(proc[p].path, 1, n) IN
         /\ Node(tree, q).type = "list"
         /\ IsPrefix(Append(q, 2), proc[p].path) /\ IsPrefix(Append(q, 1), proc[o].path)
         => Background(proc[o].path, Append(q, 1))

\* Can p only go on when another process ends?
Waits(p) == \/ proc[p].pc = "program" /\ ~ EndOfInput(p)
            \/ /\ proc[p].pc \in {"wait", "list", "wait2", "wait1"} /\ Kids(p) # {}
               /\ \A k \in Kids(p) : proc[k].pc # "zombie"

\* While the shell waits, the processes of its line do not all wait for each
\* other: every reader of a pipe sees its end, and, as a line has a finite
\* number of steps, the prompt comes back.
PromptReturns == proc[Sh].pc = "wait" => \E p \in Live : ~ Waits(p)
==============================================================================
