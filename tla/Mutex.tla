-------------------------------- MODULE Mutex --------------------------------
(***************************************************************************)
(* What a set of locks promises to its users: the set of contexts inside   *)
(* the critical section of each lock never has more than one member, and   *)
(* only the member leaves it.  The users of the locks (Proc, Log, Pipe,    *)
(* ...) take and drop locks in single steps of this kind.                  *)
(***************************************************************************)
CONSTANTS Lock, Context

VARIABLE holder     \* holder[l]: the contexts inside l's critical section

Take(t, l) == /\ holder[l] = {}
              /\ holder' = [holder EXCEPT ![l] = {t}]

Drop(t, l) == /\ holder[l] = {t}
              /\ holder' = [holder EXCEPT ![l] = {}]

Init == holder = [l \in Lock |-> {}]

Next == \E t \in Context, l \in Lock : Take(t, l) \/ Drop(t, l)

Spec == Init /\ [][Next]_holder
===============================================================================
