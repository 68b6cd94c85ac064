-------------------------- MODULE RockPaperScissors --------------------------
(***************************************************************************)
(* Rock, paper, scissors between two clients and a server                  *)
(* (networks/partA/rpc): rounds of a decision, a result, the wish to play  *)
(* again and a verdict, none of them repeated if lost.                     *)
(*                                                                         *)
(* Over TCP the server reads from a connection for each player, where a    *)
(* client that has gone is an end of file; over UDP it reads one socket,   *)
(* the players are whoever writes first, and datagrams may be lost.  The   *)
(* kinds of client are the same program but for that.  Clients may be      *)
(* killed at any time.                                                     *)
(***************************************************************************)
EXTENDS Integers, Sequences, Functions

CONSTANT Decisions   \* what a player may type, by round; its length bounds the rounds

VARIABLES transport,  \* "tcp", "udp"
          client,     \* client -> "throw", "result", "again", "verdict", "closed"
          throws, results, answers,  \* client -> what it typed and was told, by round
          server,     \* [at, decision, address, answer], at = <<phase, slot>>
          inbox,      \* client -> messages from it to the server
          outbox,     \* client -> messages from the server to it
          lost        \* has a datagram been lost or a client been killed?

rvars == <<transport, client, throws, results, answers, server, inbox, outbox, lost>>

Slots    == {"A", "B"}   \* the server's two players, and the names of the clients
Other(c) == IF c = "A" THEN "B" ELSE "A"

Init == /\ transport \in {"tcp", "udp"}
        /\ client = [c \in Slots |-> "throw"]
        /\ throws = [c \in Slots |-> <<>>]
        /\ results = [c \in Slots |-> <<>>]
        /\ answers = [c \in Slots |-> <<>>]
        /\ server = [at |-> <<"decision", "A">>, decision |-> [s \in Slots |-> ""],
                     address |-> [s \in Slots |-> s], answer |-> [s \in Slots |-> ""]]
        /\ inbox = [c \in Slots |-> <<>>]
        /\ outbox = [c \in Slots |-> <<>>]
        /\ lost = FALSE

-----------------------------------------------------------------------------
(* The clients. *)

Sends(c, m) == inbox' = [inbox EXCEPT ![c] = Append(@, m)]

Throw(c, d) ==
    /\ client[c] = "throw" /\ Len(throws[c]) < Len(Decisions) /\ d \in Decisions[Len(throws[c]) + 1]
    /\ throws' = [throws EXCEPT ![c] = Append(@, d)]
    /\ Sends(c, d)
    /\ client' = [client EXCEPT ![c] = "result"]
    /\ UNCHANGED <<transport, results, answers, server, outbox, lost>>

\* recv leaves v in the variable: a message, or any rubbish if the server has
\* gone.
Dead == <<"dead", "A">>

Told(c, v) ==
    \/ outbox[c] # <<>> /\ v = Head(outbox[c]) /\ outbox' = [outbox EXCEPT ![c] = Tail(@)]
    \/ outbox[c] = <<>> /\ server.at = Dead /\ UNCHANGED outbox

GetResult(c, v) ==
    /\ client[c] = "result" /\ Told(c, v)
    /\ results' = [results EXCEPT ![c] = Append(@, v)]
    /\ client' = [client EXCEPT ![c] = "again"]
    /\ UNCHANGED <<transport, throws, answers, server, inbox, lost>>

Answer(c, a) ==
    /\ client[c] = "again"
    /\ answers' = [answers EXCEPT ![c] = Append(@, a)]
    /\ Sends(c, a)
    /\ client' = [client EXCEPT ![c] = "verdict"]
    /\ UNCHANGED <<transport, throws, results, server, outbox, lost>>

\* Who wants no more or is told so leaves.
Leaves(a, v) == a = "n" \/ v = 0

GetVerdict(c, v) ==
    /\ client[c] = "verdict" /\ Told(c, v)
    /\ client' = [client EXCEPT ![c] = IF Leaves(answers[c][Len(answers[c])], v) THEN "closed" ELSE "throw"]
    /\ UNCHANGED <<transport, throws, results, answers, server, inbox, lost>>

Killed(c) ==
    /\ client[c] # "closed"
    /\ client' = [client EXCEPT ![c] = "closed"]
    /\ lost' = TRUE
    /\ UNCHANGED <<transport, throws, results, answers, server, inbox, outbox>>

-----------------------------------------------------------------------------
(* The server. *)

At(phase, s) == server.at = <<phase, s>>

\* recv from the socket of a player: a message, or an end of file, which leaves
\* no text, and a single character as it was.
TcpReceive(s, field, from) ==
    \/ /\ inbox[s] # <<>>
       /\ inbox' = [inbox EXCEPT ![s] = Tail(@)]
       /\ server' = [server EXCEPT !.at = from, ![field][s] = Head(inbox[s])]
    \/ /\ inbox[s] = <<>> /\ client[s] = "closed"
       /\ \E rest \in (IF field = "decision" THEN {""} ELSE {"y", "n"}) :
            server' = [server EXCEPT !.at = from, ![field][s] = rest]
       /\ UNCHANGED inbox

\* recvfrom the one socket: whoever is next is the player, and its address the
\* player's.
UdpReceive(s, field, from) == \E c \in Slots :
    /\ inbox[c] # <<>>
    /\ inbox' = [inbox EXCEPT ![c] = Tail(@)]
    /\ server' = [server EXCEPT !.at = from, ![field][s] = Head(inbox[c]), !.address[s] = c]

Receive(phase, s) ==
    LET field == IF phase = "decision" THEN "decision" ELSE "answer"
        from  == IF s = "A" THEN <<phase, "B">>
                 ELSE <<IF phase = "decision" THEN "result" ELSE "verdict", "A">>
    IN  /\ At(phase, s)
        /\ IF transport = "tcp" THEN TcpReceive(s, field, from) ELSE UdpReceive(s, field, from)
        /\ UNCHANGED <<transport, client, throws, results, answers, outbox, lost>>

Beats == {<<"Rock", "Scissors">>, <<"Paper", "Rock">>, <<"Scissors", "Paper">>}

\* What it is not the victory of A nor a draw is the victory of B.
Result(s) ==
    LET a == server.decision["A"]
        b == server.decision["B"]
    IN  IF a = b THEN 0 ELSE IF (<<a, b>> \in Beats) = (s = "A") THEN 1 ELSE 2

Stop == "n" \in {server.answer[s] : s \in Slots}

\* After a verdict the UDP server ends if somebody stops; the TCP server never.
NextAt(phase, s) ==
    IF s = "A" THEN <<phase, "B">>
    ELSE IF phase = "result" THEN <<"answer", "A">>
    ELSE IF transport = "udp" /\ Stop THEN <<"off", "A">> ELSE <<"decision", "A">>

\* Sending to who has gone may be fatal over TCP (SIGPIPE).
Send(phase, s) ==
    LET c == server.address[s]
        v == IF phase = "result" THEN Result(s) ELSE IF Stop THEN 0 ELSE 1
    IN  /\ At(phase, s)
        /\ IF client[c] = "closed"
           THEN /\ UNCHANGED outbox
                /\ \/ server' = [server EXCEPT !.at = NextAt(phase, s)]
                   \/ transport = "tcp" /\ server' = [server EXCEPT !.at = Dead]
           ELSE /\ outbox' = [outbox EXCEPT ![c] = Append(@, v)]
                /\ server' = [server EXCEPT !.at = NextAt(phase, s)]
        /\ UNCHANGED <<transport, client, throws, results, answers, inbox, lost>>

-----------------------------------------------------------------------------
Lose(c) ==
    /\ transport = "udp"
    /\ \/ inbox[c] # <<>> /\ inbox' = [inbox EXCEPT ![c] = Tail(@)] /\ UNCHANGED outbox
       \/ outbox[c] # <<>> /\ outbox' = [outbox EXCEPT ![c] = Tail(@)] /\ UNCHANGED inbox
    /\ lost' = TRUE
    /\ UNCHANGED <<transport, client, throws, results, answers, server>>

Plays(c) == \/ \E d \in UNION Range(Decisions) : Throw(c, d)
            \/ \E v \in 0 .. 2 : GetResult(c, v)
            \/ \E a \in {"y", "n"} : Answer(c, a)
            \/ \E v \in 0 .. 1 : GetVerdict(c, v)

Serves == \E s \in Slots : \/ \E phase \in {"decision", "answer"} : Receive(phase, s)
                           \/ \E phase \in {"result", "verdict"} : Send(phase, s)

Next == Serves \/ \E c \in Slots : Plays(c) \/ Killed(c) \/ Lose(c)

Spec == Init /\ [][Next]_rvars

-----------------------------------------------------------------------------
(* Properties. *)

Prey == [Rock |-> "Scissors", Scissors |-> "Paper", Paper |-> "Rock"]

\* Whatever is lost and whoever is killed, while the server lives: what a
\* client is told of a round is the judgement on what both typed in that round,
\* nobody goes on to a round after one of the two has had enough, and unless
\* something was lost the three never all wait for each other.
RoundsAgree ==
    /\ server.at # Dead =>
         \A c \in Slots, k \in DOMAIN Decisions :
            LET o == Other(c) IN
            /\ k \in DOMAIN results[c] /\ k \in DOMAIN throws[o] /\ {throws[c][k], throws[o][k]} \subseteq DOMAIN Prey =>
                 results[c][k] = IF throws[c][k] = throws[o][k] THEN 0
                                 ELSE IF throws[o][k] = Prey[throws[c][k]] THEN 1 ELSE 2
            /\ k + 1 \in DOMAIN throws[c] /\ k \in DOMAIN answers[o] => answers[o][k] = "y"
    /\ ~ lost => \/ \E c \in Slots : client[c] \in {"throw", "again", "closed"} \/ inbox[c] # <<>> \/ outbox[c] # <<>>
                \/ server.at[1] \in {"result", "verdict"}
==============================================================================
