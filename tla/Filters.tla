------------------------------- MODULE Filters -------------------------------
(***************************************************************************)
(* grep and wc (user/grep.c, user/wc.c): programs that read a text through *)
(* a buffer, in pieces of any length, and must give the answer for the     *)
(* whole.  A text has no NUL in it, and reads do not fail.                 *)
(***************************************************************************)
EXTENDS Integers, Sequences, SequencesExt, FiniteSetsExt

CONSTANTS Patterns,    \* pattern of grep, a sequence of characters
          Texts,       \* texts to read
          BufSize      \* sizeof(buf)

VARIABLES prog, re,
          file,     \* what has not been read yet
          buf,      \* grep: the first m characters of buf
          out,      \* grep: the lines written
          counts,   \* wc: [l, w, c, inword]
          text      \* history: the whole file

fvars == <<prog, re, file, buf, out, counts, text>>

Progs == {"grep", "wc"}
Zero  == [l |-> 0, w |-> 0, c |-> 0, inword |-> FALSE]

Init == /\ prog \in Progs
        /\ IF prog = "grep" THEN re \in Patterns ELSE re = <<>>
        /\ text \in Texts /\ file = text
        /\ buf = <<>> /\ out = <<>> /\ counts = Zero

-----------------------------------------------------------------------------
(* The matcher. *)

Star(c, line) ==  \* what may be left of line after c*
    {SubSeq(line, i + 1, Len(line)) : i \in {j \in 0 .. Len(line) : \A k \in 1 .. j : c \in {".", line[k]}}}

Starred(r) == Len(r) > 1 /\ r[2] = "*"

RECURSIVE MatchHere(_, _)
MatchHere(r, line) ==
    \/ r = <<>>
    \/ Starred(r) /\ \E rest \in Star(r[1], line) : MatchHere(SubSeq(r, 3, Len(r)), rest)
    \/ r = <<"$">> /\ line = <<>>
    \/ /\ r # <<>> /\ ~Starred(r) /\ r # <<"$">>
       /\ line # <<>> /\ r[1] \in {".", line[1]}
       /\ MatchHere(Tail(r), Tail(line))

Match(r, line) ==
    IF r # <<>> /\ r[1] = "^" THEN MatchHere(Tail(r), line)
    ELSE \E i \in 0 .. Len(line) : MatchHere(r, SubSeq(line, i + 1, Len(line)))

-----------------------------------------------------------------------------
(* read returns at most what is asked for, and at least one character if   *)
(* there is one.                                                           *)

Reads(room) == 1 .. Min({room, Len(file)})

\* What is behind the last newline goes to the start of the buffer.
Unfinished(s) == SubSeq(s, SelectLastInSeq(s, LAMBDA c : c = "nl") + 1, Len(s))

Newlines(s) == SetToSortSeq({i \in 1 .. Len(s) : s[i] = "nl"}, <)

\* The complete lines of s, without their newlines.
Lines(s) == LET nl == Newlines(s) IN
            [i \in 1 .. Len(nl) |-> SubSeq(s, IF i = 1 THEN 1 ELSE nl[i - 1] + 1, nl[i] - 1)]

GrepRead(k) ==
    LET b == buf \o SubSeq(file, 1, k) IN
    /\ prog = "grep" /\ k \in Reads(BufSize - Len(buf) - 1)
    /\ file' = SubSeq(file, k + 1, Len(file))
    /\ out' = out \o SelectSeq(Lines(b), LAMBDA line : Match(re, line))
    /\ buf' = Unfinished(b)
    /\ UNCHANGED <<prog, re, counts, text>>

Count(n, ch) ==
    LET space == ch \in {"sp", "nl"} IN
    [l |-> IF ch = "nl" THEN n.l + 1 ELSE n.l, c |-> n.c + 1, inword |-> ~space,
     w |-> IF ~space /\ ~n.inword THEN n.w + 1 ELSE n.w]

WcRead(k) ==
    /\ prog = "wc" /\ k \in Reads(BufSize)
    /\ file' = SubSeq(file, k + 1, Len(file))
    /\ counts' = FoldLeft(Count, counts, SubSeq(file, 1, k))
    /\ UNCHANGED <<prog, re, buf, out, text>>

Next == \E k \in 1 .. BufSize : GrepRead(k) \/ WcRead(k)

Spec == Init /\ [][Next]_fvars

-----------------------------------------------------------------------------
(* A pattern is a sequence of items, a character that is starred or not,   *)
(* behind a ^ or not and before a $ or not.                                *)

RECURSIVE Items(_)
Items(r) == IF r = <<>> THEN <<>>
            ELSE IF Starred(r)
            THEN <<[char |-> r[1], star |-> TRUE]>> \o Items(SubSeq(r, 3, Len(r)))
            ELSE <<[char |-> r[1], star |-> FALSE]>> \o Items(Tail(r))

\* A line has a match if it can be cut into a rest, one part for each item,
\* and a rest; an anchor makes the rest on its side empty.
HasMatch(r, line) ==
    LET atStart == r # <<>> /\ r[1] = "^"
        all     == Items(IF atStart THEN Tail(r) ELSE r)
        atEnd   == all # <<>> /\ Last(all) = [char |-> "$", star |-> FALSE]
        items   == IF atEnd THEN Front(all) ELSE all
        n       == Len(items)
        Part(item, from, to) ==
            /\ from <= to /\ (~item.star => to = from + 1)
            /\ \A i \in from + 1 .. to : item.char \in {".", line[i]}
    IN  \E cut \in [0 .. n -> 0 .. Len(line)] :
            /\ \A i \in 1 .. n : Part(items[i], cut[i - 1], cut[i])
            /\ (atStart => cut[0] = 0) /\ (atEnd => cut[n] = Len(line))

\* The lines of s before the first one that does not fit the buffer.
Fitting(s) == LET lines == Lines(s)
                  long  == {i \in 1 .. Len(lines) : Len(lines[i]) + 1 > BufSize - 1}
              IN  IF long = {} THEN lines ELSE SubSeq(lines, 1, Min(long) - 1)

(* However a text comes in, grep has written the lines with a match, among *)
(* the complete lines so far, up to the first that is as long as its       *)
(* buffer; wc has counted the newlines, the words and the characters.      *)
FiltersExact ==
    LET seen  == SubSeq(text, 1, Len(text) - Len(file))
        Space(i) == seen[i] \in {"sp", "nl"}
    IN  IF prog = "grep" THEN out = SelectSeq(Fitting(seen), LAMBDA line : HasMatch(re, line))
        ELSE /\ counts.c = Len(seen) /\ counts.l = Len(Newlines(seen))
             /\ counts.w = Cardinality({i \in 1 .. Len(seen) : ~Space(i) /\ (i = 1 \/ Space(i - 1))})
==============================================================================
