----------------------------- MODULE DiskRequests -----------------------------
(***************************************************************************)
(* What virtio_disk_rw promises: it returns when the device has carried    *)
(* out the caller's own request, which happens once.                       *)
(***************************************************************************)
CONSTANT Proc

VARIABLE status

Init == status = [p \in Proc |-> "none"]

Move(p, from, to) == /\ status[p] = from
                     /\ status' = [status EXCEPT ![p] = to]

Request(p) == Move(p, "none", "requested")
Serve(p)   == Move(p, "requested", "served")
Return(p)  == Move(p, "served", "none")

Next == \E p \in Proc : Request(p) \/ Serve(p) \/ Return(p)

Spec == Init /\ [][Next]_status
===============================================================================
