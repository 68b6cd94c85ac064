------------------------------ MODULE LineInput ------------------------------
(***************************************************************************)
(* What the console promises of its input: characters are edited until a   *)
(* newline, an end of file or a full buffer makes them ready, and are then *)
(* read in order, each once.                                               *)
(***************************************************************************)
EXTENDS Sequences, SequencesExt

CONSTANTS Size, Plain

VARIABLES ready,   \* characters that can be read
          edit     \* the line being typed

lvars == <<ready, edit>>

Init == ready = <<>> /\ edit = <<>>

Accept(c) ==
    LET line == Append(edit, c) IN
    /\ Len(ready) + Len(edit) < Size
    /\ IF c \in {"nl", "eof"} \/ Len(ready) + Len(line) = Size
       THEN ready' = ready \o line /\ edit' = <<>>
       ELSE edit' = line /\ UNCHANGED ready

Erase == edit # <<>> /\ edit' = Front(edit) /\ UNCHANGED ready

KillLine == edit' = <<>> /\ UNCHANGED ready

Take == ready # <<>> /\ ready' = Tail(ready) /\ UNCHANGED edit

Next == (\E c \in Plain \cup {"nl", "eof"} : Accept(c)) \/ Erase \/ KillLine \/ Take

Spec == Init /\ [][Next]_lvars
==============================================================================
