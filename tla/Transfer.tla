------------------------------ MODULE Transfer -------------------------------
(***************************************************************************)
(* The UDP chunk transfer (networks/partB): a client and a server take     *)
(* turns in sending a message in numbered chunks, each acknowledged, and   *)
(* put what they receive together in a file.                               *)
(*                                                                         *)
(* Both programs have the same send loop and the same append_ordered_data; *)
(* the actions take the side as a parameter and are mapped to the client,  *)
(* and what the server does differently to the server.  A datagram is read *)
(* as what the reader expects: a chunk as an acknowledgement, which is its *)
(* first field, and an acknowledgement as a chunk, whose other fields are  *)
(* then the last one's.  The text of a chunk is a value; that a chunk of   *)
(* 250 characters has no terminator is left out.                           *)
(*                                                                         *)
(* The network either delivers everything once, in order and in time, or   *)
(* loses, repeats and reorders datagrams and is slow.                      *)
(***************************************************************************)
EXTENDS Integers, Sequences, SequencesExt, FiniteSetsExt

CONSTANTS MaxChunks,    \* bound: chunks of a message
          MaxMessages,  \* bound: messages of a side, by the kind of network
          MaxLines      \* bound: lines in a file

VARIABLES pc,        \* side -> "prompt", "select", "receive", "hung", "off"
          typed,     \* side -> total_chunks of each message typed
          acked,     \* side -> acked_chunks
          waited,    \* side -> select has timed out: its set is empty, its timeout zero
          received,  \* side -> received_chunk
          file,      \* side -> lines of stored_data.txt
          shown,     \* side -> the messages printed
          net,       \* side -> datagrams on their way to it, numbered if reliable
          reliable   \* the kind of network

tvars == <<pc, typed, acked, waited, received, file, shown, net, reliable>>

Sides   == {"client", "server"}
Peer(x) == IF x = "client" THEN "server" ELSE "client"

\* The rest of received_chunk is not initialised.
Init == /\ pc = [x \in Sides |-> IF x = "client" THEN "prompt" ELSE "receive"]
        /\ typed = [x \in Sides |-> <<>>]
        /\ acked = [x \in Sides |-> 0]
        /\ waited = [x \in Sides |-> FALSE]
        /\ \E c \in BOOLEAN : received = [x \in Sides |-> [seq |-> 0, complete |-> c, data |-> <<>>]]
        /\ file = [x \in Sides |-> <<>>]
        /\ shown = [x \in Sides |-> <<>>]
        /\ net = [x \in Sides |-> {}]
        /\ reliable \in BOOLEAN

-----------------------------------------------------------------------------
(* Sending. *)

Number(x) == Len(typed[x])     \* of the message being sent
Total(x)  == Last(typed[x])    \* total_chunks

ChunkOf(x, m, n, i) == [seq |-> i, complete |-> (i = n - 1), data |-> <<x, m, i>>]

\* sendto.  What an unreliable network got it may deliver now, later, again, or
\* never.
Put(q, d) ==
    q \cup {[no |-> IF reliable /\ q # {} THEN 1 + Max({e.no : e \in q}) ELSE 0, d |-> d]}

\* A message is typed and all of its chunks are sent.
Type(x, n) ==
    LET m == Number(x) + 1 IN
    /\ pc[x] = "prompt" /\ Number(x) < MaxMessages[reliable]
    /\ typed' = [typed EXCEPT ![x] = Append(@, n)]
    /\ acked' = [acked EXCEPT ![x] = 0]
    /\ waited' = [waited EXCEPT ![x] = FALSE]
    /\ net' = [net EXCEPT ![Peer(x)] = FoldLeft(Put, @, [i \in 1 .. n |-> ChunkOf(x, m, n, i - 1)])]
    /\ pc' = [pc EXCEPT ![x] = "select"]
    /\ UNCHANGED <<received, file, shown, reliable>>

Exit(x) ==
    /\ pc[x] = "prompt"
    /\ pc' = [pc EXCEPT ![x] = "off"]
    /\ UNCHANGED <<typed, acked, waited, received, file, shown, net, reliable>>

\* select returns 0: the earliest chunk without an acknowledgement goes out
\* again.  From now on it returns 0 at once, since its set stays empty.
Retransmit(x) ==
    /\ pc[x] = "select"
    /\ waited[x] \/ ~ reliable
    /\ waited' = [waited EXCEPT ![x] = TRUE]
    /\ net' = [net EXCEPT ![Peer(x)] = Put(@, ChunkOf(x, Number(x), Total(x), acked[x]))]
    /\ UNCHANGED <<pc, typed, acked, received, file, shown, reliable>>

\* The datagrams recvfrom may return, and what is on its way after it.
Arriving(x) == {e \in net[x] : reliable => \A other \in net[x] : e.no <= other.no}
Left(x, e)  == IF reliable THEN net[x] \ {e} ELSE net[x]

AckFits(x, d) == d.seq = acked[x]

\* After an acknowledgement the loop looks at the clock, and after 10 seconds
\* it ends, acknowledged or not.
Ack(x, e) ==
    /\ pc[x] = "select" /\ ~ waited[x]
    /\ net' = [net EXCEPT ![x] = Left(x, e)]
    /\ acked' = [acked EXCEPT ![x] = IF AckFits(x, e.d) THEN @ + 1 ELSE @]
    /\ \/ pc' = [pc EXCEPT ![x] = IF acked'[x] = Total(x) THEN "receive" ELSE "select"]
       \/ /\ ~ reliable /\ AckFits(x, e.d)
          /\ pc' = [pc EXCEPT ![x] = "receive"]
    /\ UNCHANGED <<typed, waited, received, file, shown, reliable>>

-----------------------------------------------------------------------------
(* append_ordered_data: a pass over the file copies its lines and puts the *)
(* chunk behind the line before it.                                        *)

Line(c) == [seq |-> c.seq, data |-> c.data]


Fits(c, cur) == c.seq = cur

CopyLine(c, acc, line) ==
    IF line.seq # acc.cur THEN [acc EXCEPT !.out = Append(@, line)]
    ELSE IF Fits(c, acc.cur + 1) THEN [out |-> acc.out \o <<line, Line(c)>>, cur |-> acc.cur + 2, done |-> TRUE]
    ELSE [acc EXCEPT !.out = Append(@, line), !.cur = @ + 1]

Pass(lines, c) ==
    LET all == FoldLeft(LAMBDA acc, line : CopyLine(c, acc, line), [out |-> <<>>, cur |-> 0, done |-> FALSE], lines)
    IN  IF ~ all.done /\ Fits(c, all.cur) THEN [all EXCEPT !.out = Append(@, Line(c)), !.cur = @ + 1] ELSE all

\* A pass that leaves the chunk out is repeated, with the same result: there
\* is a chunk missing before this one, and the loop does not end.
Endless(c, pass) == ~ c.complete /\ pass.cur <= c.seq

-----------------------------------------------------------------------------
(* Receiving. *)

\* An acknowledgement has the first field only.
AsChunk(x, d) == IF d.data = <<>> THEN [received[x] EXCEPT !.seq = d.seq] ELSE d

AckOf(c) == [seq |-> c.seq, complete |-> FALSE, data |-> <<>>]

\* The file is truncated when a message is complete.
Receive(x, e) ==
    LET c    == AsChunk(x, e.d)
        pass == Pass(file[x], c)
    IN  /\ pc[x] = "receive" /\ Len(pass.out) <= MaxLines
        /\ received' = [received EXCEPT ![x] = c]
        /\ net' = [net EXCEPT ![x] = Left(x, e), ![Peer(x)] = Put(@, AckOf(c))]
        /\ IF Endless(c, pass)
           THEN pc' = [pc EXCEPT ![x] = "hung"] /\ UNCHANGED <<file, shown>>
           ELSE IF c.complete
           THEN /\ shown' = [shown EXCEPT ![x] = Append(@, [k \in DOMAIN pass.out |-> pass.out[k].data])]
                /\ file' = [file EXCEPT ![x] = <<>>]
                /\ pc' = [pc EXCEPT ![x] = "prompt"]
           ELSE /\ file' = [file EXCEPT ![x] = pass.out]
                /\ UNCHANGED <<pc, shown>>
        /\ UNCHANGED <<typed, acked, waited, reliable>>

-----------------------------------------------------------------------------
Takes(x) == \E e \in Arriving(x) : Ack(x, e) \/ Receive(x, e)

Next == \E x \in Sides :
          \/ \E n \in 1 .. MaxChunks : Type(x, n)
          \/ Exit(x) \/ Retransmit(x)
          \/ Takes(x)

Spec == Init /\ [][Next]_tvars

-----------------------------------------------------------------------------
(* Properties. *)

\* On any network, whatever is lost, repeated, late or taken for something
\* else: no chunk is stored before the chunks that come before it in its
\* message, so a text is never printed with a hole in it.
NoHole == \A x \in Sides : \A i \in DOMAIN file[x] :
             file[x][i].seq > 0 => \E j \in 1 .. i - 1 : file[x][j].seq = file[x][i].seq - 1

\* On a reliable network the messages printed are the messages typed, whole and
\* in order, on both sides; no side hangs, and the two never wait for each
\* other: if none is with its operator or gone, a datagram is on its way.
Exact == reliable =>
    /\ \A x \in Sides :
         /\ pc[x] # "hung"
         /\ Len(shown[x]) <= Len(typed[Peer(x)])
         /\ \A m \in DOMAIN shown[x] :
              shown[x][m] = [k \in 1 .. typed[Peer(x)][m] |-> <<Peer(x), m, k - 1>>]
    /\ \E x \in Sides : pc[x] \in {"prompt", "off"} \/ net[x] # {}
==============================================================================
