------------------------------ MODULE MCPrograms ------------------------------
(***************************************************************************)
(* What the kernel gives to a program - files, alarms, the clock, the      *)
(* terminal, names and bytes - and the programs themselves: malloc, the    *)
(* shell, grep and wc, the chunk transfer, rock, paper, scissors.          *)
(* Each has a module of its own and shares no variable with the others;    *)
(* part says which of them runs in a behaviour.  The variables of the      *)
(* others keep their values, 0 where there are many initial ones.  Files,  *)
(* alarms, the clock and the terminal are those of Services, which is      *)
(* extended: Init and Next are those of Files.                             *)
(***************************************************************************)
EXTENDS Services, SequencesExt

VARIABLES part,
          bitmap, addrs, data, size, holder, fs_file, off, work, calls, broken,
          path, name, entries, whole, elems, linked,
          byte_call, mem, dst, src, left, num, digits,
          hdr, freep, top, used, foreign,
          line, tree, proc, failed,
          prog, re, grep_file, grep_buf, out, counts, text,
          pc, typed, acked, waited, received, file, shown, net, reliable,
          transport, client, throws, results, answers, server, inbox, outbox, lost

-----------------------------------------------------------------------------
(* The instances and their bounds. *)

\* On a disk of nine blocks of two bytes four are free, fewer than the files
\* can take.
Blk == INSTANCE Blocks WITH
         file <- fs_file, Procs <- {1, 2}, Byte <- [p \in {1, 2} |-> p], Files <- {1, 2}, RootFile <- 1,
         NDirect <- 1, NIndirect <- 2, BSize <- 2, NBlocks <- 9, NMeta <- 3, BPB <- 2, MaxOpBlocks <- 6,
         Appends <- <<[file |-> 1, n |-> 1], [file |-> 2, n |-> 1]>>, Counts <- {3}, MaxCalls <- <<2, 2>>

\* A parent that forks two children and waits for them, of which the first may
\* sleep for two ticks.
MCNaps == <<{}, {2}, {}>>

ASSUME ServicesAssumption == /\ FilesConstants /\ Ck!ClockConstants
                              /\ Con!ConsoleConstants /\ Tx!UartConstants

Path == INSTANCE Names WITH DIRSIZ <- 2, Paths <- SeqOf({"a", "b", "/"}, 7), Garbage <- "a"

Heap == INSTANCE Umalloc WITH
          Requests <- {2, 3, 5}, Foreign <- {1}, MinCore <- 4, MaxTop <- 12

Byte == INSTANCE Bytes WITH call <- byte_call, x <- num, Size <- 5, Word <- 256, Bases <- {10, 16}

\* Lines that are run: pipelines, redirections, lists, subshells and background
\* jobs within each other.
Executed == {<<"w">>, <<"w", "|", "w", "|", "w">>, <<"w", "&", ";", "w">>, <<"w", "<", "w", ">", "w">>,
             <<"(", "w", ";", "w", ")", "|", "w", ">", "w">>, <<"(", "w", "|", "w", "&", ")", ";", "w">>,
             <<"w", "|", "(", "w", "|", "w", "<", "w", ")">>, <<"|", "|">>, <<"w", "w", "w">>}

Sh == INSTANCE Shell WITH
        Typed <- Executed \cup SeqOf({"w", "<", "|", "&", ";", "(", ")"}, 4),
        Executed <- Executed, MaxArgs <- 3, NFd <- 7, MaxProcs <- 7

Filter == INSTANCE Filters WITH
            file <- grep_file, buf <- grep_buf, BufSize <- 4,
            Patterns <- SeqOf({"a", ".", "*", "$"}, 3) \cup {<<"^">> \o s : s \in SeqOf({"a", ".", "*", "$"}, 2)}
                          \cup {<<".", "*", "b", "a", "*">>},
            Texts <- SeqOf({"a", "b", "nl"}, 4) \cup SeqOf({"a", "sp", "nl"}, 4)

Chunks == INSTANCE Transfer WITH
            MaxChunks <- 3, MaxMessages <- [kind \in BOOLEAN |-> IF kind THEN 2 ELSE 1], MaxLines <- 3

Game == INSTANCE RockPaperScissors WITH Decisions <- <<{"Rock", "Paper", "Scissors"}, {"Rock", "Paper"}>>

-----------------------------------------------------------------------------
blocks_vars   == <<bitmap, addrs, data, size, holder, fs_file, off, work, calls, broken>>
alarm_vars    == <<trapframe, called, set, ticks, cur_ticks, tfp, spare, halted, interrupted>>
clock_vars    == <<time, tickslock, state, clktik, rtime, etime, killed, plock, chan, nap, hart, clock, since>>
console_vars  == <<buf, cons_r, cons_w, cons_e, conslock, reader, dying>>
uart_vars     == <<txbuf, tx_r, tx_w, txlock, writer, uartintr, echo, fifo, uartirq, sent>>
names_vars    == <<path, name, entries, whole, elems, linked>>
bytes_vars    == <<byte_call, mem, dst, src, left, num, digits>>
heap_vars     == <<hdr, freep, top, used, foreign>>
shell_vars    == <<line, tree, proc, failed>>
filters_vars  == <<prog, re, grep_file, grep_buf, out, counts, text>>
transfer_vars == <<pc, typed, acked, waited, received, file, shown, net, reliable>>
game_vars     == <<transport, client, throws, results, answers, server, inbox, outbox, lost>>

MCInit ==
    /\ part \in {"blocks", "files", "alarm", "clock", "console", "uart", "names", "bytes",
                 "heap", "shell", "filters", "transfer", "game"}
    /\ Blk!Init
    /\ Init
    /\ Sig!Init
    /\ Ck!Init
    /\ Con!Init
    /\ Tx!Init
    /\ IF part = "names" THEN Path!Init
       ELSE path = 0 /\ name = 0 /\ entries = 0 /\ whole = 0 /\ elems = 0 /\ linked = 0
    /\ IF part = "bytes" THEN Byte!Init
       ELSE byte_call = 0 /\ mem = 0 /\ dst = 0 /\ src = 0 /\ left = 0 /\ num = 0 /\ digits = 0
    /\ Heap!Init
    /\ IF part = "shell" THEN Sh!Init
       ELSE line = 0 /\ tree = 0 /\ proc = 0 /\ failed = 0
    /\ IF part = "filters" THEN Filter!Init
       ELSE prog = 0 /\ re = 0 /\ grep_file = 0 /\ grep_buf = 0 /\ out = 0 /\ counts = 0 /\ text = 0
    /\ IF part = "transfer" THEN Chunks!Init
       ELSE pc = 0 /\ typed = 0 /\ acked = 0 /\ waited = 0 /\ received = 0 /\ file = 0 /\ shown = 0 /\ net = 0 /\ reliable = 0
    /\ IF part = "game" THEN Game!Init
       ELSE transport = 0 /\ client = 0 /\ throws = 0 /\ results = 0 /\ answers = 0 /\ server = 0 /\ inbox = 0 /\ outbox = 0 /\ lost = 0

MCNext ==
    \/ /\ part = "blocks" /\ Blk!Next
       /\ UNCHANGED <<part, fvars, alarm_vars, clock_vars, console_vars, uart_vars,
                       names_vars, bytes_vars, heap_vars, shell_vars, filters_vars,
                       transfer_vars, game_vars>>
    \/ /\ part = "files" /\ Next
       /\ UNCHANGED <<part, blocks_vars, alarm_vars, clock_vars, console_vars, uart_vars,
                       names_vars, bytes_vars, heap_vars, shell_vars, filters_vars,
                       transfer_vars, game_vars>>
    \/ /\ part = "alarm" /\ Sig!Next
       /\ UNCHANGED <<part, blocks_vars, fvars, clock_vars, console_vars, uart_vars,
                       names_vars, bytes_vars, heap_vars, shell_vars, filters_vars,
                       transfer_vars, game_vars>>
    \/ /\ part = "clock" /\ Ck!Next
       /\ UNCHANGED <<part, blocks_vars, fvars, alarm_vars, console_vars, uart_vars,
                       names_vars, bytes_vars, heap_vars, shell_vars, filters_vars,
                       transfer_vars, game_vars>>
    \/ /\ part = "console" /\ Con!Next
       /\ UNCHANGED <<part, blocks_vars, fvars, alarm_vars, clock_vars, uart_vars,
                       names_vars, bytes_vars, heap_vars, shell_vars, filters_vars,
                       transfer_vars, game_vars>>
    \/ /\ part = "uart" /\ Tx!Next
       /\ UNCHANGED <<part, blocks_vars, fvars, alarm_vars, clock_vars, console_vars,
                       names_vars, bytes_vars, heap_vars, shell_vars, filters_vars,
                       transfer_vars, game_vars>>
    \/ /\ part = "names" /\ Path!Next
       /\ UNCHANGED <<part, blocks_vars, fvars, alarm_vars, clock_vars, console_vars,
                       uart_vars, bytes_vars, heap_vars, shell_vars, filters_vars, transfer_vars,
                       game_vars>>
    \/ /\ part = "bytes" /\ Byte!Next
       /\ UNCHANGED <<part, blocks_vars, fvars, alarm_vars, clock_vars, console_vars,
                       uart_vars, names_vars, heap_vars, shell_vars, filters_vars, transfer_vars,
                       game_vars>>
    \/ /\ part = "heap" /\ Heap!Next
       /\ UNCHANGED <<part, blocks_vars, fvars, alarm_vars, clock_vars, console_vars,
                       uart_vars, names_vars, bytes_vars, shell_vars, filters_vars,
                       transfer_vars, game_vars>>
    \/ /\ part = "shell" /\ Sh!Next
       /\ UNCHANGED <<part, blocks_vars, fvars, alarm_vars, clock_vars, console_vars,
                       uart_vars, names_vars, bytes_vars, heap_vars, filters_vars, transfer_vars,
                       game_vars>>
    \/ /\ part = "filters" /\ Filter!Next
       /\ UNCHANGED <<part, blocks_vars, fvars, alarm_vars, clock_vars, console_vars,
                       uart_vars, names_vars, bytes_vars, heap_vars, shell_vars, transfer_vars,
                       game_vars>>
    \/ /\ part = "transfer" /\ Chunks!Next
       /\ UNCHANGED <<part, blocks_vars, fvars, alarm_vars, clock_vars, console_vars,
                       uart_vars, names_vars, bytes_vars, heap_vars, shell_vars, filters_vars,
                       game_vars>>
    \/ /\ part = "game" /\ Game!Next
       /\ UNCHANGED <<part, blocks_vars, fvars, alarm_vars, clock_vars, console_vars,
                       uart_vars, names_vars, bytes_vars, heap_vars, shell_vars, filters_vars,
                       transfer_vars>>

all_vars == <<part, blocks_vars, fvars, alarm_vars, clock_vars, console_vars, uart_vars,
          names_vars, bytes_vars, heap_vars, shell_vars, filters_vars, transfer_vars,
          game_vars>>

MCSpec == MCInit /\ [][MCNext]_all_vars

-----------------------------------------------------------------------------
(* Properties, besides those of Services. *)

\* Each block is free or has one place in one file, and a part of a write fits
\* the blocks that begin_op reserves for it.
BlocksSound == part = "blocks" => Blk!BlocksExact /\ Blk!WithinReservation


\* malloc and free keep the blocks apart and the free ones whole; memmove and
\* printf are right for every overlap and every number; a path falls into its
\* names, which are found again in directories; parsecmd accepts what the
\* grammar says and runcmd runs it, each program with the files the line gives
\* it, one after the other where it says so, with a prompt at the end; and grep
\* and wc see the whole of a text through a small buffer.
ProgramsExact == /\ part = "heap" => Heap!HeapExact
                 /\ part = "bytes" => Byte!BytesExact
                 /\ part = "names" => Path!NamesExact
                 /\ part = "shell" => Sh!ParseExact /\ Sh!Plumbed /\ Sh!InOrder /\ Sh!PromptReturns
                 /\ part = "filters" => Filter!FiltersExact

==============================================================================
