----------------------------- MODULE AdapterCalls -----------------------------
(***************************************************************************)
(* The saga of Provisioning seen from the adapters: several tasks at once, *)
(* each request they make a step of its own, against one IPAM and several  *)
(* hypervisor connections.  What Provisioning takes as one step (ReserveIp, *)
(* CreateVm) is taken apart here; what it is about (the job row, lost and  *)
(* repeated tasks) is left out, but a failed ticket may be approved again. *)
(***************************************************************************)
EXTENDS HypervisorCalls

CONSTANTS
    Products,  \* the pairs of IPAM and hypervisor to look at
    MaxRuns    \* bound: ticket -> approvals of it

VARIABLES
    runs,      \* ticket -> approvals so far
    mistaken   \* history: the slots where a search was mistaken, see Watch

ASSUME AdapterCallsAssumption ==
    /\ Products \subseteq Providers \X Kinds
    /\ MaxRuns \in [Tickets -> Nat \ {0}]

vars == <<pc, addressVars, callVars, runs, mistaken>>

Init ==
    /\ IpamCallsInit
    /\ HypervisorCallsInit
    /\ <<provider, kind>> \in Products
    /\ runs = [t \in Tickets |-> 1]
    /\ mistaken = {}

(* reserve_ip.                                                             *)
ReserveStep(t) ==
    /\ Allocate(t) \/ List(t) \/ Create(t)
    /\ UNCHANGED <<callVars, runs>>

(* provision.                                                              *)
ProvisionStep(t) ==
    /\ \/ Route(t) \/ Find(t) \/ NextId(t) \/ Make(t)
       \/ Await(t) \/ Configure(t) \/ Start(t)
    /\ UNCHANGED <<addressVars, runs>>

(* Mutant of Finalize: the rollback stands in a finally block.             *)
FinalizeReleasing(t) ==
    /\ \/ Goto(t, "finalize", "done") /\ Release(t)
       \/ Goto(t, "finalize", "undo") /\ UNCHANGED addressVars
    /\ UNCHANGED <<callVars, runs>>

(* finalize, and the commit that completes the job.                        *)
Finalize(t) ==
    /\ \E to \in {"done", "undo"} : Goto(t, "finalize", to)
    /\ UNCHANGED <<addressVars, callVars, runs>>

(* What provision kept in its frames goes with them.                       *)
Forget(t) ==
    /\ at' = [at EXCEPT ![t] = Default]
    /\ hops' = [hops EXCEPT ![t] = 0]
    /\ Slot(t, NoSlot)
    /\ task' = [task EXCEPT ![t] = "none"]

(* The except block: compensate, then destroy if provision returned.       *)
Compensate(t) ==
    /\ Goto(t, "undo", IF ref[t] # NoRef THEN "destroy" ELSE "failed")
    /\ Release(t)
    /\ Forget(t)
    /\ UNCHANGED <<kind, req, vms, ref, runs>>

DestroyStep(t) == Destroy(t) /\ UNCHANGED <<addressVars, runs>>

(* The failed ticket is approved again: its job starts over.               *)
Again(t) ==
    /\ runs[t] < MaxRuns[t]
    /\ Goto(t, "failed", IF provider = "netbox" THEN "list" ELSE "allocate")
    /\ runs' = [runs EXCEPT ![t] = @ + 1]
    /\ ref' = [ref EXCEPT ![t] = NoRef]
    /\ UNCHANGED <<addressVars, kind, req, vms, at, hops, slot, task>>

TaskStep(t) ==
    ReserveStep(t) \/ ProvisionStep(t) \/ Finalize(t) \/ Compensate(t) \/ DestroyStep(t)

Step ==
    \/ \E t \in Tickets : TaskStep(t) \/ Again(t)
    \/ \E p \in Places : TaskEnds(p) /\ UNCHANGED runs

(* No action reads the history variable: it takes in the vmid or name of   *)
(* every VM that a search takes for its ticket's although it is another    *)
(* ticket's, or was deleted and only not waited for.                       *)
Watch ==
    mistaken' = mistaken \cup {s \in Slots : \E t \in Tickets :
        /\ pc[t] = "find" /\ pc'[t] = "finalize" /\ ref'[t].slot = s
        /\ LET vm == vms[<<at[t], s>>] IN vm.ticket # t \/ vm.state = "deleting"}

Next == Step /\ Watch

(* Every request of a task is answered or times out; nothing is assumed of *)
(* the hypervisor's own tasks.                                             *)
Fairness == \A t \in Tickets : WF_vars(TaskStep(t) /\ Watch)

Spec == Init /\ [][Next]_vars
FairSpec == Spec /\ Fairness

-----------------------------------------------------------------------------
Steps == {"allocate", "list", "create", "route", "find", "nextid", "make", "wait",
          "configure", "start", "finalize", "undo", "destroy", "done", "failed"}

Vms == [ticket : Tickets \cup {NoTicket}, node : Nodes \cup {NoNode},
        addr : Addrs \cup {NoAddr}, power : {"off", "on"},
        state : {"none", "making", "ready", "deleting"}]

(* Types of the variables, and a task that has passed reserve_ip holds an  *)
(* address until it gives it back.                                         *)
TypeOK ==
    /\ pc \in [Tickets -> Steps]
    /\ provider \in Providers
    /\ book \in [Addrs -> Tickets \cup {NoTicket}]
    /\ picked \in [Tickets -> Addrs \cup {NoAddr}]
    /\ held \in [Tickets -> Addrs \cup {NoAddr}]
    /\ kind \in Kinds
    /\ req \in [Tickets -> Asks]
    /\ vms \in [Places -> Vms]
    /\ at \in [Tickets -> Conns]
    /\ hops \in [Tickets -> 0 .. MaxHops]
    /\ slot \in [Tickets -> Slots \cup {NoSlot}]
    /\ task \in [Tickets -> {"none", "running", "ok", "failed"}]
    /\ ref \in [Tickets -> [node : Nodes \cup {NoNode}, slot : Slots \cup {NoSlot}]]
    /\ \A t \in Tickets : runs[t] \in 1 .. MaxRuns[t]
    /\ mistaken \subseteq Slots
    /\ \A t \in Tickets :
          pc[t] \in {"route", "find", "nextid", "make", "wait", "configure", "start",
                     "finalize", "done"} => held[t] # NoAddr

(* No two jobs work with one address, and the address a job works with is  *)
(* registered for its ticket, although lists are old when used and replies *)
(* get lost (netbox.py 38-44, nautobot.py 110-134).                        *)
HeldByOne ==
    \A t \in Tickets : held[t] # NoAddr => book[held[t]] = t

(* The requests of reserve_ip and release_ip together implement the single *)
(* step per call that Provisioning takes them for.                         *)
Pool == INSTANCE AddressPool WITH owner <- book, given <- held
ImplementsPool == Pool!Spec

(* A run loses at most one address, with Nautobot's fallback at most two,  *)
(* and NetBox loses none before the run fails.                             *)
Strays(t) == {a \in Addrs : book[a] = t /\ held[t] # a}

StraysBounded ==
    LET perRun == IF provider = "nautobot" THEN 2 ELSE 1
        failing(t) == pc[t] \in {"undo", "destroy", "failed"}
    IN  \A t \in Tickets :
            Cardinality(Strays(t)) <= perRun * runs[t] - (IF failing(t) THEN 0 ELSE 1)

-----------------------------------------------------------------------------
(* The nodes a request may mean: a node of the connection it names, that   *)
(* connection's only node, or, when it names none, the node anywhere; and  *)
(* any node of the default connection when it names nothing at all.        *)
Means(r, c, n) ==
    /\ n \in NodesOn[c]
    /\ r.api \in {NoConn, c}
    /\ n = r.node \/ r.node = NoNode
    /\ Unplaced(r) => c = Default

(* However tasks are handed from connection to connection, a VM is only    *)
(* ever made on a node its request means (proxmox.py 83-120).              *)
PlacedAsRequested ==
    \A p \in Places :
        vms[p] # NoVm => Means(req[vms[p].ticket], p[1], vms[p].node)

(* destroy runs on the default connection, whichever the VM was made on.   *)
(* There it can meet a foreign VM: on Proxmox one with the same vmid on a  *)
(* node of the same name, on vSphere one that was given the same name.     *)
OnlyThere(n) == \A c, d \in Conns : n \in NodesOn[c] /\ n \in NodesOn[d] => c = d
OneAsks(s) == \A t, u \in Tickets : req[t].name = s /\ req[u].name = s => t = u

Unmistakable(c, n, s) ==
    c # Default \/ IF kind = "proxmox" THEN OnlyThere(n) ELSE OneAsks(s)

ChangesOwn(p) ==
    LET vm == vms[p]
    IN  vm.state \in {"ready", "deleting"} /\ vms'[p] # vm =>
            \/ pc'[vm.ticket] # pc[vm.ticket]
            \/ vm.state = "deleting" /\ UNCHANGED pc

(* A VM that has been made is reconfigured, started, stopped and sent away *)
(* by its own ticket's task only, whoever was given the same vmid, and     *)
(* then goes by itself; unless a search was once mistaken in its vmid or   *)
(* name, or destroy cannot tell it from another connection's.              *)
OwnVmOnly ==
    [][\A p \in Places :
         p[2] \notin mistaken /\ Unmistakable(p[1], vms[p].node, p[2]) => ChangesOwn(p)]_vars

(* The same without the provisos: destroy is "Best-effort cleanup of a     *)
(* partially created VM", so it cleans up none but the ticket's own.       *)
CleansUpOwnVm == [][\A p \in Places : ChangesOwn(p)]_vars

(* A completed job has its VM where hypervisor_ref says, and no delete of  *)
(* an earlier run is under way that it could still fall to; one that its   *)
(* own run made carries the job's address, and on Proxmox it runs.  The    *)
(* exceptions are those of OwnVmOnly.                                      *)
CompletedVmReady ==
    \A t \in Tickets :
        LET c == at[t]  n == ref[t].node  s == ref[t].slot
            vm == vms[<<c, s>>]
        IN  pc[t] = "done" =>
                /\ <<c, s>> \in Places
                /\ s \notin mistaken /\ Unmistakable(c, n, s) =>
                    /\ vm.state = "ready" /\ vm.ticket = t
                    /\ slot[t] # NoSlot => /\ vm.addr = held[t]
                                           /\ kind = "proxmox" => vm.power = "on"

(* Every run ends, even when the hypervisor's tasks do not and when the    *)
(* connections keep handing a request to each other.                       *)
RunsEnd == \A t \in Tickets : []<>(pc[t] \in {"done", "failed"})
=============================================================================
