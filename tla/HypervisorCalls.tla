--------------------------- MODULE HypervisorCalls ---------------------------
(***************************************************************************)
(* The provisioners request by request, over several API connections, each *)
(* a cluster or a standalone host.  A connection finds the one that serves *)
(* the requested node, looks for the ticket's VM, asks for a vmid, has the *)
(* VM made by a task of the hypervisor, waits for it with a deadline, and  *)
(* configures and starts it.  hypervisor_ref names node and vmid on        *)
(* Proxmox and the hostname on vSphere, but not the connection.            *)
(***************************************************************************)
EXTENDS IpamCalls

CONSTANTS
    Conns,     \* the configured connections, in their order
    Nodes,
    NodesOn,   \* connection -> the nodes its API lists
    NoNode,
    Slots,     \* vmids, or on vSphere VM names
    NoSlot,
    Requests,  \* ticket -> the requests it may carry, see Asks
    Mentions,  \* <<t, u>>: a search for t's number hits the notes of u's VM
    MaxHops    \* bound: Python's recursion limit

VARIABLES
    kind,      \* the hypervisor of all requests
    req,       \* ticket -> where and under which name it requests its VM
    vms,       \* <<connection, slot>> -> the VM there
    at,        \* ticket -> the connection its task talks to
    hops,      \* ticket -> how often it was handed to another one
    slot,      \* ticket -> the vmid or name it works on
    task,      \* ticket -> how the hypervisor's task it waits for stands
    ref        \* ticket -> hypervisor_ref

NoConn == 0
Kinds == {"proxmox", "vmware"}
Places == Conns \X Slots
Asks == [api : Conns \cup {NoConn}, node : Nodes \cup {NoNode}, name : Slots]

ASSUME HypervisorCallsAssumption ==
    /\ 1 \in Conns /\ Conns \subseteq Nat \ {NoConn}
    /\ NoNode \notin Nodes
    /\ NodesOn \in [Conns -> SUBSET Nodes]
    /\ Slots \subseteq Nat /\ NoSlot \notin Slots
    /\ Requests \in [Tickets -> SUBSET Asks]
    /\ Mentions \subseteq Tickets \X Tickets
    /\ \A t \in Tickets : <<t, t>> \in Mentions
    /\ MaxHops \in Nat

(* get_provisioner connects to settings.proxmox_host or vmware_host, which *)
(* is the first connection.                                                *)
Default == 1

NoVm == [ticket |-> NoTicket, node |-> NoNode, addr |-> NoAddr,
         power |-> "off", state |-> "none"]
NoRef == [node |-> NoNode, slot |-> NoSlot]
At(t) == <<at[t], slot[t]>>

placeVars == <<kind, req, at, hops, slot, task, ref>>
callVars == <<vms, placeVars>>

HypervisorCallsInit ==
    /\ kind \in Kinds
    /\ req \in [Tickets -> UNION {Requests[t] : t \in Tickets}]
    /\ \A t \in Tickets : req[t] \in Requests[t]
    /\ vms = [p \in Places |-> NoVm]
    /\ at = [t \in Tickets |-> Default]
    /\ hops = [t \in Tickets |-> 0]
    /\ slot = [t \in Tickets |-> NoSlot]
    /\ task = [t \in Tickets |-> "none"]
    /\ ref = [t \in Tickets |-> NoRef]

-----------------------------------------------------------------------------
(* A request names a connection and a node of it ("host/node"), the        *)
(* connection alone (node NoNode: a standalone host), a node alone, or     *)
(* neither; and a hostname, which only vSphere takes for the VM's name.    *)
NodeHere(c, r) == r.node \in NodesOn[c] \/ (r.node = NoNode /\ r.api = c)

Unplaced(r) == r.node = NoNode /\ r.api = NoConn

(* _qemu_node: the name as listed; a connection's own address, or any      *)
(* name at all, stands for the only node there is.                         *)
QemuNodes(c, r) == {n \in NodesOn[c] : n = r.node \/ NodesOn[c] = {n}}

(* _placement_host: the named ESXi host, else the first one listed.        *)
Placements(c, r) == {n \in NodesOn[c] : r.node \in {n, NoNode}}

NodesFor(t) ==
    IF kind = "proxmox" THEN QemuNodes(at[t], req[t]) ELSE Placements(at[t], req[t])

Others(c, r) == {d \in Conns \ {c} : r.node \in NodesOn[d]}

HandTo(t, c) ==
    /\ IF hops[t] = MaxHops THEN Goto(t, "route", "undo") ELSE Goto(t, "route", "route")
    /\ at' = [at EXCEPT ![t] = c]
    /\ hops' = [hops EXCEPT ![t] = IF @ = MaxHops THEN @ ELSE @ + 1]

(* Mutant of RouteProxmox: the connection named in the request is ignored. *)
RouteByNode(t) ==
    LET c == at[t]  r == req[t]
    IN  /\ \/ /\ NodeHere(c, r)
              /\ Goto(t, "route", "find") /\ UNCHANGED at
              /\ hops' = [hops EXCEPT ![t] = 0]
           \/ /\ ~NodeHere(c, r) /\ Others(c, r) # {}
              /\ HandTo(t, First(Others(c, r)))
           \/ Goto(t, "route", "undo") /\ UNCHANGED <<at, hops>>
        /\ UNCHANGED <<kind, req, vms, slot, task, ref>>

(* provision: hand over to the named connection, else stay if the node is  *)
(* here, else go to the first other one that lists it.  The connection     *)
(* handed to runs provision again, so it decides anew.                     *)
RouteProxmox(t) ==
    LET c == at[t]  r == req[t]
    IN  /\ \/ /\ r.api \notin {NoConn, c}
              /\ HandTo(t, r.api)
           \/ /\ r.api \in {NoConn, c} /\ NodeHere(c, r)
              /\ Goto(t, "route", "find") /\ UNCHANGED at
              /\ hops' = [hops EXCEPT ![t] = 0]
           \/ \E d \in Others(c, r) :
                /\ r.api \in {NoConn, c} /\ ~NodeHere(c, r)
                /\ d = First(Others(c, r))
                /\ HandTo(t, d)
           \/ /\ r.api \in {NoConn, c}
              /\ Goto(t, "route", "undo") /\ UNCHANGED <<at, hops>>
        /\ UNCHANGED <<kind, req, vms, slot, task, ref>>

(* The vSphere provisioner hands over at most once, without asking again;  *)
(* a request that names no place stays where it is.                        *)
RouteVmware(t) ==
    LET c == at[t]  r == req[t]
    IN  /\ \/ /\ Goto(t, "route", "find")
              /\ r.api \notin {NoConn, c}
              /\ at' = [at EXCEPT ![t] = r.api]
           \/ /\ Goto(t, "route", "find")
              /\ r.api \in {NoConn, c} /\ (NodeHere(c, r) \/ Unplaced(r))
              /\ UNCHANGED at
           \/ Goto(t, "route", "undo") /\ UNCHANGED at
        /\ UNCHANGED <<kind, req, vms, hops, slot, task, ref>>

Route(t) ==
    \/ kind = "proxmox" /\ RouteProxmox(t)
    \/ kind = "vmware" /\ RouteVmware(t)

-----------------------------------------------------------------------------
Slot(t, s) == slot' = [slot EXCEPT ![t] = s]
SetVm(p, vm) == vms' = [vms EXCEPT ![p] = vm]

(* hypervisor_ref of the VM at p; vSphere names it without its host.       *)
RefTo(p) == [node |-> IF kind = "proxmox" THEN vms[p].node ELSE NoNode, slot |-> p[2]]

Provisioned(t, p) == ref' = [ref EXCEPT ![t] = RefTo(p)] /\ UNCHANGED slot

Fails(t, from) == Goto(t, from, "undo") /\ UNCHANGED <<vms, slot, ref>>

(* The VMs a search takes for the ticket's: those with its number in their *)
(* notes or tags, on Proxmox on the node only, and on vSphere the one with *)
(* its hostname.  A VM that is still being made has no notes yet, and one  *)
(* that is being deleted still has them.                                   *)
Hits(t) ==
    {p \in {at[t]} \X Slots :
        /\ vms[p].state \in {"ready", "deleting"}
        /\ \/ /\ <<t, vms[p].ticket>> \in Mentions
              /\ kind = "proxmox" => vms[p].node \in NodesFor(t)
           \/ kind = "vmware" /\ p[2] = req[t].name}

(* _find_by_ticket and _find_vm.  A Proxmox listing that fails is taken    *)
(* for an empty one.                                                       *)
Find(t) ==
    /\ \/ \E p \in Hits(t) : Goto(t, "find", "finalize") /\ Provisioned(t, p) /\ UNCHANGED vms
       \/ /\ NodesFor(t) # {}
          /\ kind = "proxmox" \/ Hits(t) = {}
          /\ Goto(t, "find", IF kind = "proxmox" THEN "nextid" ELSE "make")
          /\ Slot(t, IF kind = "proxmox" THEN NoSlot ELSE req[t].name)
          /\ UNCHANGED <<vms, ref>>
       \/ Fails(t, "find")
    /\ UNCHANGED <<kind, req, at, hops, task>>

FreeSlots(c) == {s \in Slots : vms[<<c, s>>] = NoVm}

(* cluster/nextid: the lowest vmid not in use now; nothing reserves it.    *)
NextId(t) ==
    /\ \/ \E s \in FreeSlots(at[t]) :
            /\ Goto(t, "nextid", "make")
            /\ s = First(FreeSlots(at[t]))
            /\ Slot(t, s)
            /\ UNCHANGED <<vms, ref>>
       \/ Fails(t, "nextid")
    /\ UNCHANGED <<kind, req, at, hops, task>>

(* Mutant of Make: a vmid that is taken meanwhile is used all the same.    *)
MakeOver(t) ==
    /\ \/ \E n \in NodesFor(t), to \in {"wait", "undo"} :
            /\ Goto(t, "make", to)
            /\ SetVm(At(t), [ticket |-> t, node |-> n, power |-> "off", state |-> "making",
                             addr |-> IF kind = "vmware" THEN held[t] ELSE NoAddr])
            /\ to = "undo" => "lostReply" \in Misfortunes
            /\ task' = [task EXCEPT ![t] = "running"]
            /\ UNCHANGED <<slot, ref>>
       \/ Fails(t, "make") /\ UNCHANGED task
    /\ UNCHANGED <<kind, req, at, hops>>

(* clone.post, qemu.post, CreateVM_Task, CloneVM_Task: the hypervisor      *)
(* refuses a vmid or name in use, else takes it and begins to make the VM, *)
(* with the ticket in its notes and on vSphere also the address.           *)
Make(t) ==
    /\ \/ \E n \in NodesFor(t), to \in {"wait", "undo"} :
            /\ Goto(t, "make", to)
            /\ vms[At(t)] = NoVm
            /\ SetVm(At(t), [ticket |-> t, node |-> n, power |-> "off", state |-> "making",
                             addr |-> IF kind = "vmware" THEN held[t] ELSE NoAddr])
            /\ to = "undo" => "lostReply" \in Misfortunes
            /\ task' = [task EXCEPT ![t] = "running"]
            /\ UNCHANGED <<slot, ref>>
       \/ Fails(t, "make") /\ UNCHANGED task
    /\ UNCHANGED <<kind, req, at, hops>>

(* The hypervisor's task that makes a VM ends, at any time or never, and   *)
(* tells the task that still waits for it.  A template on vSphere is       *)
(* powered on at once.                                                     *)
MakeEnds(p) ==
    LET t == vms[p].ticket
        tell(end) == task' = IF pc[t] = "wait" /\ At(t) = p
                             THEN [task EXCEPT ![t] = end] ELSE task
    IN  /\ vms[p].state = "making"
        /\ \/ SetVm(p, NoVm) /\ tell("failed")
           \/ \E power \in {"off", "on"} :
                /\ power = "on" => kind = "vmware"
                /\ SetVm(p, [vms[p] EXCEPT !.state = "ready", !.power = power])
                /\ tell("ok")

(* The tasks that stop and delete a VM end, at any time or never, unseen:  *)
(* the VM is gone, or stays when the delete is refused because the VM      *)
(* still ran, or fails for another reason.                                 *)
DeleteEnds(p) ==
    /\ vms[p].state = "deleting"
    /\ \/ SetVm(p, NoVm)
       \/ \E power \in {vms[p].power, "off"} :
             SetVm(p, [vms[p] EXCEPT !.state = "ready", !.power = power])
    /\ UNCHANGED task

TaskEnds(p) ==
    /\ MakeEnds(p) \/ DeleteEnds(p)
    /\ UNCHANGED <<pc, addressVars, kind, req, at, hops, slot, ref>>

(* Mutant of Await: the wait has no deadline.                              *)
AwaitForever(t) ==
    /\ \/ /\ Goto(t, "wait", IF kind = "proxmox" THEN "configure" ELSE "start")
          /\ task[t] = "ok" /\ (kind = "proxmox" \/ vms[At(t)].power = "off")
          /\ UNCHANGED <<vms, slot, ref>>
       \/ /\ Goto(t, "wait", "finalize")
          /\ task[t] = "ok" /\ kind = "vmware" /\ vms[At(t)].power = "on"
          /\ Provisioned(t, At(t)) /\ UNCHANGED vms
       \/ Fails(t, "wait") /\ task[t] = "failed"
    /\ task' = [task EXCEPT ![t] = "none"]
    /\ UNCHANGED <<kind, req, at, hops>>

(* _wait_task, _wait: the task's outcome, or none within 600 seconds.  On  *)
(* vSphere a VM that is powered on already needs no start.                 *)
Await(t) ==
    /\ \/ /\ Goto(t, "wait", IF kind = "proxmox" THEN "configure" ELSE "start")
          /\ task[t] = "ok" /\ (kind = "proxmox" \/ vms[At(t)].power = "off")
          /\ UNCHANGED <<vms, slot, ref>>
       \/ /\ Goto(t, "wait", "finalize")
          /\ task[t] = "ok" /\ kind = "vmware" /\ vms[At(t)].power = "on"
          /\ Provisioned(t, At(t)) /\ UNCHANGED vms
       \/ Fails(t, "wait")
    /\ task' = [task EXCEPT ![t] = "none"]
    /\ UNCHANGED <<kind, req, at, hops>>

(* A finished VM is addressed by its node and vmid.                        *)
Reached(t) ==
    vms[At(t)].state \in {"ready", "deleting"} /\ vms[At(t)].node \in NodesFor(t)

(* _apply_runtime_config of the vmid just made.                            *)
Configure(t) ==
    /\ \/ \E to \in {"start", "undo"} :
            /\ Goto(t, "configure", to)
            /\ Reached(t)
            /\ SetVm(At(t), [vms[At(t)] EXCEPT !.ticket = t, !.addr = held[t]])
            /\ to = "undo" => "lostReply" \in Misfortunes
            /\ UNCHANGED <<slot, ref>>
       \/ Fails(t, "configure")
    /\ UNCHANGED <<kind, req, at, hops, task>>

(* Mutant of Start: a Proxmox start that fails is only logged, too.        *)
StartLogged(t) ==
    /\ \E power \in {"off", "on"} :
          /\ Goto(t, "start", "finalize")
          /\ Reached(t)
          /\ SetVm(At(t), [vms[At(t)] EXCEPT !.power = power])
          /\ Provisioned(t, At(t))
    /\ UNCHANGED <<kind, req, at, hops, task>>

(* status.start.post and its task; PowerOnVM_Task, whose failure is only   *)
(* logged.                                                                 *)
Start(t) ==
    /\ \/ /\ Goto(t, "start", "finalize")
          /\ Reached(t)
          /\ \E power \in {"off", "on"} :
                /\ power = "off" => kind = "vmware"
                /\ SetVm(At(t), [vms[At(t)] EXCEPT !.power = power])
          /\ Provisioned(t, At(t))
       \/ /\ kind = "proxmox" /\ "lostReply" \in Misfortunes
          /\ Goto(t, "start", "undo")
          /\ Reached(t)
          /\ SetVm(At(t), [vms[At(t)] EXCEPT !.power = "on"])
          /\ UNCHANGED <<slot, ref>>
       \/ Fails(t, "start")
    /\ UNCHANGED <<kind, req, at, hops, task>>

(* The VM that hypervisor_ref names on the connection destroy runs on: a   *)
(* provisioner made anew, for the default connection.  A VM that is being  *)
(* made is locked.                                                         *)
Destroyed(t) ==
    {p \in {Default} \X {ref[t].slot} :
        /\ p \in Places
        /\ vms[p].state \in {"ready", "deleting"}
        /\ kind = "proxmox" => vms[p].node = ref[t].node}

(* destroy of the except block.  Proxmox is asked to stop and to delete,   *)
(* and not waited for; vSphere is waited for, 600 seconds per task.  All   *)
(* errors, the end of a wait too, are logged only.                         *)
Destroy(t) ==
    /\ Goto(t, "destroy", "failed")
    /\ \/ Destroyed(t) = {} /\ UNCHANGED vms
       \/ \E p \in Destroyed(t) :
             \/ /\ kind = "proxmox" \/ "destroyError" \in Misfortunes
                /\ SetVm(p, [vms[p] EXCEPT !.state = "deleting"])
             \/ /\ kind = "vmware"
                /\ SetVm(p, NoVm)
             \/ /\ "destroyError" \in Misfortunes
                /\ \E power \in {vms[p].power, "off"} :
                      SetVm(p, [vms[p] EXCEPT !.power = power])
    /\ UNCHANGED placeVars
=============================================================================
