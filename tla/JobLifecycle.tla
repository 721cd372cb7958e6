---------------------------- MODULE JobLifecycle ----------------------------
(***************************************************************************)
(* What the provisioning path promises of one ticket, whatever the number  *)
(* of workers, webhooks and failures behind it: a job reserves one address *)
(* before it advances, is completed only with that address active, fails   *)
(* only with the address given back, and starts over only by a new         *)
(* approval of a failed ticket.                                            *)
(***************************************************************************)
CONSTANT Tickets

VARIABLES
    status,   \* ticket -> what GET /jobs/{id} answers, "absent" without a job
    lease     \* ticket -> its address in the IPAM: "none", "reserved", "active"

vars == <<status, lease>>

Init ==
    /\ status = [t \in Tickets |-> "absent"]
    /\ lease = [t \in Tickets |-> "none"]

Move(t, from, to) == status[t] = from /\ status' = [status EXCEPT ![t] = to]

Approve(t) ==
    /\ Move(t, "absent", "queued") \/ Move(t, "failed", "queued")
    /\ UNCHANGED lease

Acquire(t) ==
    /\ status[t] = "queued" /\ lease[t] = "none"
    /\ lease' = [lease EXCEPT ![t] = "reserved"]
    /\ UNCHANGED status

Advance(t) ==
    /\ lease[t] = "reserved"
    /\ Move(t, "queued", "ip_reserved") \/ Move(t, "ip_reserved", "provisioning")
    /\ UNCHANGED lease

Activate(t) ==
    /\ status[t] = "provisioning" /\ lease[t] = "reserved"
    /\ lease' = [lease EXCEPT ![t] = "active"]
    /\ UNCHANGED status

Complete(t) ==
    /\ lease[t] = "active"
    /\ Move(t, "provisioning", "completed")
    /\ UNCHANGED lease

(* Compensation, before the job is marked failed.                          *)
Release(t) ==
    /\ status[t] = "provisioning"
    /\ lease' = [lease EXCEPT ![t] = "none"]
    /\ UNCHANGED status

Fail(t) ==
    /\ lease[t] = "none"
    /\ Move(t, "queued", "failed") \/ Move(t, "provisioning", "failed")
    /\ UNCHANGED lease

Next == \E t \in Tickets :
    Approve(t) \/ Acquire(t) \/ Advance(t) \/ Activate(t) \/ Complete(t) \/ Release(t) \/ Fail(t)

Spec == Init /\ [][Next]_vars
=============================================================================
