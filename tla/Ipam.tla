-------------------------------- MODULE Ipam --------------------------------
(***************************************************************************)
(* NetBox or Nautobot as the IPAM adapters use it: address objects of one  *)
(* prefix and VM objects.  An adapter call is one request that takes       *)
(* effect or not; what the adapter does with an error is part of the call. *)
(***************************************************************************)
EXTENDS JobModel

CONSTANTS
    Provider,    \* "netbox" or "nautobot"
    HasCluster,  \* does the request's node name a cluster the IPAM knows?
    MaxGen       \* bound: address and VM objects created per address and ticket

VARIABLES
    leases,      \* address -> its current object and the ticket it is for
    vmObjs       \* ticket -> its current VM object

ASSUME IpamAssumption ==
    /\ Provider \in {"netbox", "nautobot"}
    /\ HasCluster \in BOOLEAN
    /\ MaxGen \in Nat

ipamVars == <<leases, vmObjs>>

Leases == [gen    : Nat,
           state  : {"free", "reserved", "active"},
           ticket : Tickets \cup {NoTicket}]
VmObjs == [gen : Nat, state : {"absent", "planned", "active"}]

IpamTypeOK ==
    /\ leases \in [Addrs -> Leases]
    /\ vmObjs \in [Tickets -> VmObjs]

IpamInit ==
    /\ leases = [a \in Addrs |-> [gen |-> 0, state |-> "free", ticket |-> NoTicket]]
    /\ vmObjs = [t \in Tickets |-> [gen |-> 0, state |-> "absent"]]

(* Mutant of Live: the object is looked up by its address, not by its id.  *)
LiveByAddress(id) == id # NoIp /\ leases[id.addr].state # "free"

(* The object with this id still exists.                                   *)
Live(id) ==
    /\ id # NoIp
    /\ leases[id.addr].gen = id.gen
    /\ leases[id.addr].state # "free"

LiveObj(t, obj) == obj # 0 /\ vmObjs[t].gen = obj /\ vmObjs[t].state # "absent"

-----------------------------------------------------------------------------
(* reserve_ip: the address object the IPAM would create next for a.        *)
NextId(a) == [addr |-> a, gen |-> leases[a].gen + 1]

(* Mutant of ReserveIp: the chosen address is not checked against others.  *)
ReserveTaken(t, a) ==
    /\ leases[a].gen < MaxGen
    /\ leases' = [leases EXCEPT ![a] =
                    [gen |-> @.gen + 1, state |-> "reserved", ticket |-> t]]

ReserveIp(t, a) ==
    /\ leases[a].state = "free"
    /\ leases[a].gen < MaxGen
    /\ leases' = [leases EXCEPT ![a] =
                    [gen |-> @.gen + 1, state |-> "reserved", ticket |-> t]]

(* create_vm_if_possible: a VM object needs a known cluster and a name not *)
(* taken by another object there; anything else yields None.               *)
CreateObj(t) ==
    /\ HasCluster
    /\ vmObjs[t].state = "absent"
    /\ vmObjs[t].gen < MaxGen
    /\ vmObjs' = [vmObjs EXCEPT ![t] = [gen |-> @.gen + 1, state |-> "planned"]]

(* release_ip and delete_vm: an object already gone is no error, and an    *)
(* error is logged and swallowed, so compensate always returns.            *)
Released(id) ==
    IF Live(id)
    THEN [leases EXCEPT ![id.addr] =
            [gen |-> @.gen, state |-> "free", ticket |-> NoTicket]]
    ELSE leases

Deleted(t, obj) ==
    IF LiveObj(t, obj) THEN [vmObjs EXCEPT ![t].state = "absent"] ELSE vmObjs

(* Mutant of CompensateIpam: an address already set active is kept.        *)
ReleaseReserved(t, id, obj) ==
    /\ leases' = IF id # NoIp /\ leases[id.addr].state = "reserved" THEN Released(id) ELSE leases
    /\ vmObjs' = Deleted(t, obj)

CompensateIpam(t, id, obj) ==
    /\ \/ leases' = Released(id)
       \/ "releaseError" \in Faults /\ leases' = leases
    /\ \/ vmObjs' = Deleted(t, obj)
       \/ "releaseError" \in Faults /\ vmObjs' = vmObjs

(* finalize: NetBox gets each object and skips one that is gone.  Nautobot *)
(* patches it: a missing address raises, a VM object's error is swallowed. *)
Activated(id) ==
    IF Live(id) THEN [leases EXCEPT ![id.addr].state = "active"] ELSE leases

ObjActivated(t, obj) ==
    IF LiveObj(t, obj) THEN [vmObjs EXCEPT ![t].state = "active"] ELSE vmObjs

FinalizeOk(t, id, obj) ==
    /\ Provider = "nautobot" => Live(id)
    /\ leases' = Activated(id)
    /\ \/ vmObjs' = ObjActivated(t, obj)
       \/ Provider = "nautobot" /\ "finalizeError" \in Faults /\ vmObjs' = vmObjs

(* The address update raised, before or after it took effect, or NetBox's  *)
(* update of the VM object did.                                            *)
FinalizeError(id) ==
    \/ /\ "finalizeError" \in Faults
       /\ leases' \in {leases, Activated(id)}
       /\ UNCHANGED vmObjs
    \/ /\ Provider = "nautobot"
       /\ ~Live(id)
       /\ UNCHANGED ipamVars
=============================================================================
