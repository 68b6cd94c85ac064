------------------------------ MODULE BlockStore ------------------------------
(***************************************************************************)
(* What the buffer cache promises: each block has one current content,     *)
(* which its holder, and only its holder, reads and changes.               *)
(***************************************************************************)
CONSTANTS Proc, Block, Val, InitVal, None

VARIABLES content, holder

Init == /\ content = [b \in Block |-> InitVal]
        /\ holder = [b \in Block |-> None]

Take(p, b) == /\ holder[b] = None
              /\ holder' = [holder EXCEPT ![b] = p]
              /\ UNCHANGED content

Change(p, b, v) == /\ holder[b] = p
                   /\ content' = [content EXCEPT ![b] = v]
                   /\ UNCHANGED holder

Drop(p, b) == /\ holder[b] = p
              /\ holder' = [holder EXCEPT ![b] = None]
              /\ UNCHANGED content

Next == \E p \in Proc, b \in Block :
            Take(p, b) \/ Drop(p, b) \/ \E v \in Val : Change(p, b, v)

Spec == Init /\ [][Next]_<<content, holder>>
===============================================================================
