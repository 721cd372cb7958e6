------------------------------ MODULE JobModel ------------------------------
(***************************************************************************)
(* What every component of the provisioning path shares: the names of the  *)
(* things it handles, the misfortunes it may meet, and the columns of a    *)
(* provisioning job.  ticket_id is unique in the job table and a job never *)
(* changes its ticket, so a ticket stands for its job and the job's id.    *)
(***************************************************************************)
EXTENDS Integers

CONSTANTS
    Tickets,    \* OTOBO tickets, each with at most one job
    Addrs,      \* host addresses of the requested prefix
    Slots,      \* places a VM can take: vmids (Proxmox) or VM names (vSphere)
    NoTicket,
    NoAddr,
    NoRef,
    Faults      \* what the environment may do to the system, see FaultKinds

FaultKinds == {
    "overlap",       \* two webhooks of one ticket in the API at the same time
    "abandon",       \* the API dies, or the broker refuses, before a job is enqueued
    "crash",         \* a worker process is lost; its message is delivered again
    "timeLimit",     \* the hard time limit kills a task; its message is acknowledged
    "retry",         \* a vSphere call raises a builtin ConnectionError or TimeoutError
    "setupError",    \* the run ends before its try block (no settings, no IPAM client)
    "lostReply",     \* a call to the IPAM takes effect and still raises
    "releaseError",  \* the IPAM refuses or misses a delete
    "finalizeError", \* the IPAM refuses or misses an update
    "partialVm",     \* provision raises after the VM was created
    "destroyError",  \* the hypervisor refuses or misses a delete
    "listError",     \* the hypervisor's VM listing fails or lacks descriptions
    "notifyError" }  \* an OTOBO callback fails

ASSUME ModelAssumption ==
    /\ NoTicket \notin Tickets
    /\ NoAddr \notin Addrs
    /\ NoRef \notin Slots
    /\ Faults \subseteq FaultKinds

-----------------------------------------------------------------------------
(* An address object of the IPAM.  Its id is never used again: an address  *)
(* that is deleted and created anew has the next generation.  The column   *)
(* reserved_ip is the address of netbox_ip_id, always set and cleared with *)
(* it, so one field stands for both.                                       *)
IpIds == [addr : Addrs, gen : Nat \ {0}]
NoIp == [addr |-> NoAddr, gen |-> 0]

Pending == {"queued", "ip_reserved", "provisioning"}
Statuses == Pending \cup {"completed", "failed"}

(* "absent" is a ticket without a row; obj is netbox_vm_id (0 is NULL).    *)
Rows == [status : Statuses \cup {"absent"},
         ip     : IpIds \cup {NoIp},
         obj    : Nat,
         ref    : Slots \cup {NoRef}]
NoRow == [status |-> "absent", ip |-> NoIp, obj |-> 0, ref |-> NoRef]
NewRow == [status |-> "queued", ip |-> NoIp, obj |-> 0, ref |-> NoRef]
=============================================================================
