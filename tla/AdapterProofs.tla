----------------------------- MODULE AdapterProofs -----------------------------
(***************************************************************************)
(* For every number of tickets, addresses, connections, nodes and vmids:   *)
(* the requests of the IPAM adapters implement an address pool that hands  *)
(* an address to one ticket at a time; a run loses one address, or two; a  *)
(* VM is only made on a node its request means; a VM is changed by its own *)
(* ticket's task only, and a completed job has its VM, except where the    *)
(* search found another's VM (mistaken).  The invariants add to            *)
(* TypeOK what each request knows when it is made: that a job holds no     *)
(* address before reserve_ip returned one (AddrInv), that a task past the  *)
(* routing stands at a connection its request names and, on Proxmox, that  *)
(* lists the node (PlaceInv), and, from the request that makes a VM to the *)
(* one that deletes it, whose VM is where the task looks for it (VmInv).   *)
(***************************************************************************)
EXTENDS AdapterCalls, FiniteSetTheorems, TLAPS

Reserving == {"allocate", "list", "create", "destroy", "failed"}
Slotted == {"make", "wait", "configure", "start"}
Routed == Slotted \cup {"find", "nextid"}
Holding == Routed \cup {"route", "finalize", "done"}
Unrouted == Reserving \cup {"route"}

AddrInv ==
    /\ pc \in [Tickets -> Steps]
    /\ provider \in Providers
    /\ book \in [Addrs -> Tickets \cup {NoTicket}]
    /\ picked \in [Tickets -> Addrs \cup {NoAddr}]
    /\ held \in [Tickets -> Addrs \cup {NoAddr}]
    /\ HeldByOne
    /\ \A t \in Tickets : pc[t] \in Reserving => held[t] = NoAddr
    /\ \A t \in Tickets : pc[t] \in Holding => held[t] # NoAddr
    /\ \A t \in Tickets : pc[t] = "create" => picked[t] \in Addrs

(* A connection that may serve the request, as the routing left it.        *)
Serves(c, r) ==
    /\ r.api \in {NoConn, c}
    /\ IF kind = "proxmox" THEN NodeHere(c, r) ELSE Unplaced(r) => c = Default

PlaceTypes ==
    /\ kind \in Kinds
    /\ req \in [Tickets -> Asks]
    /\ vms \in [Places -> Vms]
    /\ at \in [Tickets -> Conns]
    /\ hops \in [Tickets -> 0 .. MaxHops]
    /\ slot \in [Tickets -> Slots \cup {NoSlot}]
    /\ task \in [Tickets -> {"none", "running", "ok", "failed"}]
    /\ ref \in [Tickets -> [node : Nodes \cup {NoNode}, slot : Slots \cup {NoSlot}]]

PlaceInv ==
    /\ PlaceTypes
    /\ \A t \in Tickets : pc[t] \in Slotted => slot[t] \in Slots
    /\ \A t \in Tickets : pc[t] \in Routed => Serves(at[t], req[t])
    /\ \A t \in Tickets : pc[t] \in Unrouted => kind = "proxmox" \/ at[t] = Default
    /\ PlacedAsRequested

IInv ==
    /\ AddrInv
    /\ PlaceInv
    /\ \A t \in Tickets : runs[t] \in 1 .. MaxRuns[t]
    /\ mistaken \subseteq Slots

-----------------------------------------------------------------------------
(* A node the task may use at a connection that serves its request is one  *)
(* the request means.                                                      *)
LEMMA ServedIsMeant ==
    ASSUME NEW c \in Conns, NEW r \in Asks, kind \in Kinds, Serves(c, r),
           NEW n, n \in IF kind = "proxmox" THEN QemuNodes(c, r) ELSE Placements(c, r)
    PROVE  n \in Nodes /\ Means(r, c, n)
  <1>1. NodesOn[c] \subseteq Nodes /\ n \in NodesOn[c]
    BY HypervisorCallsAssumption DEF QemuNodes, Placements
  <1>2. n = r.node \/ r.node = NoNode
    <2>1. CASE kind = "proxmox"
      BY <2>1 DEF QemuNodes, Serves, NodeHere, Unplaced
    <2>2. CASE kind = "vmware"
      BY <2>2 DEF Placements
    <2>3. QED
      BY <2>1, <2>2 DEF Kinds
  <1>3. Unplaced(r) => c = Default
    BY <1>1, HypervisorCallsAssumption DEF Unplaced, Serves, NodeHere, NoConn
  <1>4. QED
    BY <1>1, <1>2, <1>3 DEF Means, Serves

(* Every step of a task moves it from one of its own pcs to another.       *)
LEMMA GotoTypes ==
    ASSUME AddrInv, NEW t \in Tickets, NEW from, NEW to \in Steps, Goto(t, from, to)
    PROVE  /\ pc' \in [Tickets -> Steps] /\ pc[t] = from /\ pc'[t] = to
           /\ \A u \in Tickets : u # t => pc'[u] = pc[u]
  BY DEF AddrInv, Goto

-----------------------------------------------------------------------------
(* What a step may do to the addresses: the steps of the pool, and those   *)
(* that leave it alone.                                                    *)
PoolStep(t) ==
    \/ \E a \in Addrs : Pool!Take(t, a) \/ Pool!Lose(t, a)
    \/ Pool!Return(t)
    \/ UNCHANGED <<book, held>>

(* One request of reserve_ip.                                              *)
LEMMA ReserveIsPoolStep ==
    ASSUME AddrInv, NEW t \in Tickets, ReserveStep(t)
    PROVE  PoolStep(t)
  <1> USE DEF AddrInv, PoolStep, Pool!Take, Pool!Lose, Pool!Register, Register, Hold
  <1>1. CASE Allocate(t)
    <2>1. pc[t] = "allocate" /\ held[t] = NoAddr
      BY <1>1 DEF Allocate, Goto, Reserving
    <2>2. QED
      BY <1>1, <2>1 DEF Allocate, Free
  <1>2. CASE List(t)
    BY <1>2 DEF List
  <1>3. CASE Create(t)
    <2>1. pc[t] = "create" /\ held[t] = NoAddr /\ picked[t] \in Addrs
      BY <1>3 DEF Create, Goto, Reserving
    <2>2. QED
      BY <1>3, <2>1 DEF Create
  <1>4. QED
    BY <1>1, <1>2, <1>3 DEF ReserveStep

(* release_ip, which does nothing for a task that holds no address.        *)
LEMMA ReleaseIsPoolStep ==
    ASSUME AddrInv, NEW t \in Tickets, Release(t)
    PROVE  PoolStep(t)
  <1> USE DEF AddrInv
  <1>1. CASE held[t] = NoAddr
    <2>1. [a \in Addrs |-> IF a = held[t] THEN NoTicket ELSE book[a]] = book
      BY <1>1, IpamCallsAssumption
    <2>2. held' = held
      BY <1>1 DEF Release, Hold
    <2>3. QED
      BY <2>1, <2>2 DEF Release, PoolStep
  <1>2. CASE held[t] # NoAddr
    <2>1. [a \in Addrs |-> IF a = held[t] THEN NoTicket ELSE book[a]]
             = [book EXCEPT ![held[t]] = NoTicket]
      OBVIOUS
    <2>2. QED
      BY <1>2, <2>1 DEF Release, PoolStep, Pool!Return, Hold
  <1>3. QED
    BY <1>1, <1>2

(* The pool gives no address of one ticket to another.                     *)
LEMMA PoolKeepsOwners ==
    ASSUME AddrInv, NEW t \in Tickets, PoolStep(t)
    PROVE  /\ book' \in [Addrs -> Tickets \cup {NoTicket}]
           /\ held' \in [Tickets -> Addrs \cup {NoAddr}]
           /\ \A u \in Tickets : u # t => held'[u] = held[u]
           /\ HeldByOne'
  <1> USE IpamCallsAssumption DEF AddrInv, HeldByOne
  <1>1. CASE \E a \in Addrs : Pool!Take(t, a) \/ Pool!Lose(t, a)
    <2>1. PICK a \in Addrs : Pool!Take(t, a) \/ Pool!Lose(t, a)
      BY <1>1
    <2>2. book[a] = NoTicket /\ book' = [book EXCEPT ![a] = t]
      BY <2>1 DEF Pool!Take, Pool!Lose, Pool!Register
    <2>3. held' \in {held, [held EXCEPT ![t] = a]}
      BY <2>1 DEF Pool!Take, Pool!Lose
    <2>4. book' \in [Addrs -> Tickets \cup {NoTicket}] /\ held' \in [Tickets -> Addrs \cup {NoAddr}]
      BY <2>2, <2>3
    <2>5. \A u \in Tickets : held[u] # a
      BY <2>2
    <2>6. book'[a] = t /\ \A b \in Addrs : b # a => book'[b] = book[b]
      BY <2>2
    <2>7. \A u \in Tickets : held'[u] = held[u] \/ (u = t /\ held'[u] = a)
      BY <2>3
    <2>8. \A u \in Tickets : u # t => held'[u] = held[u]
      BY <2>3
    <2>9. HeldByOne'
      BY <2>4, <2>5, <2>6, <2>7, ZenonT(30)
    <2>10. QED
      BY <2>4, <2>8, <2>9
  <1>2. CASE Pool!Return(t)
    <2>1. held[t] \in Addrs /\ held' = [held EXCEPT ![t] = NoAddr]
      BY <1>2 DEF Pool!Return
    <2>2. \A u \in Tickets : u # t /\ held[u] # NoAddr => held[u] # held[t]
      BY <2>1
    <2>3. book' = book \/ book' = [book EXCEPT ![held[t]] = NoTicket]
      BY <1>2 DEF Pool!Return
    <2>4. QED
      BY <2>1, <2>2, <2>3
  <1>3. CASE UNCHANGED <<book, held>>
    BY <1>3
  <1>4. QED
    BY <1>1, <1>2, <1>3 DEF PoolStep

(* Each action keeps the addresses' part of the invariant.                 *)
LEMMA ReserveKeepsAddr ==
    ASSUME AddrInv, NEW t \in Tickets, ReserveStep(t)
    PROVE  AddrInv'
  <1>1. /\ book' \in [Addrs -> Tickets \cup {NoTicket}]
        /\ held' \in [Tickets -> Addrs \cup {NoAddr}]
        /\ \A u \in Tickets : u # t => held'[u] = held[u]
        /\ HeldByOne'
    BY ReserveIsPoolStep, PoolKeepsOwners
  <1>2. CASE Allocate(t)
    <2>1. PICK to \in {"route", "list", "undo"} :
            /\ Goto(t, "allocate", to)
            /\ to = "route" => \E a \in Addrs : Hold(t, a)
            /\ to # "route" => held' = held
      BY <1>2 DEF Allocate, Free
    <2>2. picked' = picked /\ provider' = provider
      BY <1>2 DEF Allocate
    <2>3. held[t] = NoAddr /\ (to = "route" => held'[t] # NoAddr)
      BY <2>1, IpamCallsAssumption DEF AddrInv, Goto, Hold, Reserving
    <2>4. QED
      BY <1>1, <2>1, <2>2, <2>3, GotoTypes DEF AddrInv, Steps, Reserving, Holding, Routed, Slotted
  <1>3. CASE List(t)
    <2>1. PICK to \in {"create", "undo"} :
            /\ Goto(t, "list", to)
            /\ to = "create" => \E a \in Addrs : picked' = [picked EXCEPT ![t] = a]
            /\ to # "create" => picked' = picked
      BY <1>3 DEF List, Free
    <2>2. held' = held /\ provider' = provider
      BY <1>3 DEF List
    <2>3. held[t] = NoAddr /\ pc[t] = "list"
      BY <2>1 DEF AddrInv, Goto, Reserving
    <2>4. /\ picked' \in [Tickets -> Addrs \cup {NoAddr}]
          /\ \A u \in Tickets : u # t => picked'[u] = picked[u]
          /\ to = "create" => picked'[t] \in Addrs
      BY <2>1 DEF AddrInv
    <2>5. QED
      BY <1>1, <2>1, <2>2, <2>3, <2>4, GotoTypes DEF AddrInv, Steps, Reserving, Holding, Routed, Slotted
  <1>4. CASE Create(t)
    <2>1. PICK to \in {"route", "undo"} :
            /\ Goto(t, "create", to)
            /\ to = "route" => Hold(t, picked[t])
            /\ to # "route" => held' = held
      BY <1>4 DEF Create
    <2>2. picked' = picked /\ provider' = provider
      BY <1>4 DEF Create
    <2>3. picked[t] \in Addrs /\ (to = "route" => held'[t] # NoAddr)
      BY <2>1, IpamCallsAssumption DEF AddrInv, Goto, Hold
    <2>4. QED
      BY <1>1, <2>1, <2>2, <2>3, GotoTypes DEF AddrInv, Steps, Reserving, Holding, Routed, Slotted
  <1>5. QED
    BY <1>2, <1>3, <1>4 DEF ReserveStep

(* Steps that leave the addresses alone keep it as long as they do not     *)
(* enter reserve_ip again with an address in hand.                         *)
LEMMA ElsewhereKeepsAddr ==
    ASSUME AddrInv, NEW t \in Tickets, NEW from \in Holding, NEW to \in Holding \cup {"undo"},
           Goto(t, from, to), UNCHANGED addressVars
    PROVE  AddrInv'
  <1>1. to \in Steps /\ to \notin Reserving
    BY DEF Steps, Reserving, Holding, Routed, Slotted
  <1>2. held[t] # NoAddr /\ to # "create"
    BY <1>1 DEF AddrInv, Goto, Reserving
  <1>3. QED
    BY <1>1, <1>2, GotoTypes DEF AddrInv, addressVars, HeldByOne

(* The pcs of provision.                                                   *)
LEMMA ProvisionMoves ==
    ASSUME NEW t \in Tickets, ProvisionStep(t)
    PROVE  /\ \E from \in Routed \cup {"route"}, to \in Holding \cup {"undo"} : Goto(t, from, to)
           /\ UNCHANGED addressVars
  <1>1. UNCHANGED addressVars
    BY DEF ProvisionStep
  <1>2. CASE Route(t)
    <2>1. \E to \in {"route", "find", "undo"} : Goto(t, "route", to)
      BY <1>2 DEF Route, RouteProxmox, RouteVmware, HandTo
    <2>2. QED
      BY <1>1, <2>1 DEF Holding, Routed
  <1>3. CASE Find(t)
    <2>1. \E to \in {"finalize", "nextid", "make", "undo"} : Goto(t, "find", to)
      BY <1>3 DEF Find, Fails
    <2>2. QED
      BY <1>1, <2>1 DEF Holding, Routed, Slotted
  <1>4. CASE NextId(t)
    <2>1. \E to \in {"make", "undo"} : Goto(t, "nextid", to)
      BY <1>4 DEF NextId, Fails
    <2>2. QED
      BY <1>1, <2>1 DEF Holding, Routed, Slotted
  <1>5. CASE Make(t)
    <2>1. \E to \in {"wait", "undo"} : Goto(t, "make", to)
      BY <1>5 DEF Make, Fails
    <2>2. QED
      BY <1>1, <2>1 DEF Holding, Routed, Slotted
  <1>6. CASE Await(t)
    <2>1. \E to \in {"configure", "start", "finalize", "undo"} : Goto(t, "wait", to)
      BY <1>6 DEF Await, Fails
    <2>2. QED
      BY <1>1, <2>1 DEF Holding, Routed, Slotted
  <1>7. CASE Configure(t)
    <2>1. \E to \in {"start", "undo"} : Goto(t, "configure", to)
      BY <1>7 DEF Configure, Fails
    <2>2. QED
      BY <1>1, <2>1 DEF Holding, Routed, Slotted
  <1>8. CASE Start(t)
    <2>1. \E to \in {"finalize", "undo"} : Goto(t, "start", to)
      BY <1>8 DEF Start, Fails
    <2>2. QED
      BY <1>1, <2>1 DEF Holding, Routed, Slotted
  <1>9. QED
    BY <1>2, <1>3, <1>4, <1>5, <1>6, <1>7, <1>8 DEF ProvisionStep

LEMMA NextKeepsAddr ==
    ASSUME AddrInv, [Next]_vars
    PROVE  AddrInv'
  <1> USE DEF Holding, Routed, Slotted
  <1>1. ASSUME NEW t \in Tickets, ReserveStep(t)
        PROVE  AddrInv'
    BY <1>1, ReserveKeepsAddr
  <1>2. ASSUME NEW t \in Tickets, ProvisionStep(t)
        PROVE  AddrInv'
    BY <1>2, ProvisionMoves, ElsewhereKeepsAddr
  <1>3. ASSUME NEW t \in Tickets, Finalize(t)
        PROVE  AddrInv'
    BY <1>3, ElsewhereKeepsAddr DEF Finalize
  <1>4. ASSUME NEW t \in Tickets, Compensate(t)
        PROVE  AddrInv'
    <2>1. PICK to \in {"destroy", "failed"} : Goto(t, "undo", to)
      BY <1>4 DEF Compensate
    <2>2. Release(t) /\ picked' = [picked EXCEPT ![t] = NoAddr] /\ provider' = provider
      BY <1>4 DEF Compensate, Release
    <2>3. held' = [held EXCEPT ![t] = NoAddr]
      BY <2>2 DEF Release, Hold
    <2>4. QED
      BY <2>1, <2>2, <2>3, GotoTypes, ReleaseIsPoolStep, PoolKeepsOwners
         DEF AddrInv, Steps, Reserving
  <1>5. ASSUME NEW t \in Tickets, DestroyStep(t)
        PROVE  AddrInv'
    <2>1. Goto(t, "destroy", "failed") /\ UNCHANGED addressVars
      BY <1>5 DEF DestroyStep, Destroy
    <2>2. QED
      BY <2>1, GotoTypes DEF AddrInv, addressVars, HeldByOne, Steps, Reserving
  <1>6. ASSUME NEW t \in Tickets, Again(t)
        PROVE  AddrInv'
    <2>1. PICK to \in {"list", "allocate"} : Goto(t, "failed", to)
      BY <1>6 DEF Again
    <2>2. UNCHANGED addressVars
      BY <1>6 DEF Again
    <2>3. QED
      BY <2>1, <2>2, GotoTypes DEF AddrInv, addressVars, HeldByOne, Steps, Reserving
  <1>7. ASSUME NEW p \in Places, TaskEnds(p)
        PROVE  AddrInv'
    <2>1. UNCHANGED <<pc, addressVars>>
      BY <1>7 DEF TaskEnds
    <2>2. QED
      BY <2>1 DEF AddrInv, addressVars, HeldByOne
  <1>8. CASE UNCHANGED vars
    BY <1>8 DEF vars, AddrInv, addressVars, HeldByOne
  <1>9. QED
    BY <1>1, <1>2, <1>3, <1>4, <1>5, <1>6, <1>7, <1>8 DEF Next, Step, TaskStep

-----------------------------------------------------------------------------
(* Putting a VM on a node its ticket's request means keeps every VM on     *)
(* such a node.                                                            *)
LEMMA SetVmPlaced ==
    ASSUME PlaceTypes, PlacedAsRequested, NEW p, NEW vm \in Vms, SetVm(p, vm), req' = req,
           p \in Places /\ vm # NoVm => Means(req[vm.ticket], p[1], vm.node)
    PROVE  vms' \in [Places -> Vms] /\ PlacedAsRequested'
  <1>1. vms' = [vms EXCEPT ![p] = vm] /\ vms \in [Places -> Vms]
    BY DEF SetVm, PlaceTypes
  <1>2. vms' \in [Places -> Vms]
    BY <1>1
  <1>3. ASSUME NEW q \in Places, vms'[q] # NoVm
        PROVE  Means(req[vms'[q].ticket], q[1], vms'[q].node)
    <2>1. CASE q = p
      BY <1>1, <1>3, <2>1
    <2>2. CASE q # p
      BY <1>1, <1>3, <2>2 DEF PlacedAsRequested
    <2>3. QED
      BY <2>1, <2>2
  <1>4. QED
    BY <1>2, <1>3 DEF PlacedAsRequested, Means, Unplaced

(* What is left to show of a task's step once it is known what it does to  *)
(* the VMs, to its connection and to its vmid.                             *)
LEMMA PlaceFrame ==
    ASSUME AddrInv, PlaceInv, PlaceTypes', PlacedAsRequested',
           NEW t \in Tickets, NEW from, NEW to \in Steps, Goto(t, from, to),
           kind' = kind, req' = req,
           NEW c \in Conns, at' = [at EXCEPT ![t] = c],
           NEW s \in Slots \cup {NoSlot}, slot' = [slot EXCEPT ![t] = s],
           to \in Slotted => s \in Slots,
           to \in Routed => Serves(c, req[t]),
           to \in Unrouted => kind = "proxmox" \/ c = Default
    PROVE  PlaceInv'
  <1>1. /\ pc'[t] = to /\ at'[t] = c /\ slot'[t] = s
        /\ \A u \in Tickets : u # t => pc'[u] = pc[u] /\ at'[u] = at[u] /\ slot'[u] = slot[u]
    BY GotoTypes DEF PlaceInv, PlaceTypes
  <1>2. \A u \in Tickets : pc'[u] \in Slotted => slot'[u] \in Slots
    BY <1>1 DEF PlaceInv
  <1>3. \A u \in Tickets : pc'[u] \in Routed => Serves(at'[u], req[u])
    BY <1>1 DEF PlaceInv
  <1>4. \A u \in Tickets : pc'[u] \in Routed => Serves(at[u], req[u])'
    BY <1>3 DEF Serves, NodeHere, Unplaced
  <1>5. \A u \in Tickets : pc'[u] \in Unrouted => kind = "proxmox" \/ at'[u] = Default
    BY <1>1 DEF PlaceInv
  <1>6. QED
    BY <1>2, <1>4, <1>5 DEF PlaceInv, Default

(* The same for a step that stays at its connection and with its vmid.     *)
LEMMA PlaceFrameStill ==
    ASSUME AddrInv, PlaceInv, PlaceTypes', PlacedAsRequested',
           NEW t \in Tickets, NEW from, NEW to \in Steps, Goto(t, from, to),
           UNCHANGED <<kind, req, at, slot>>,
           to \in Slotted => slot[t] \in Slots,
           to \in Routed => from \in Routed,
           to \in Unrouted => from \in Unrouted
    PROVE  PlaceInv'
  <1>1. /\ pc[t] = from /\ pc'[t] = to
        /\ \A u \in Tickets : u # t => pc'[u] = pc[u]
    BY GotoTypes
  <1>2. \A u \in Tickets : pc'[u] \in Slotted => slot'[u] \in Slots
    BY <1>1 DEF PlaceInv
  <1>3. \A u \in Tickets : pc'[u] \in Routed => Serves(at[u], req[u])
    BY <1>1 DEF PlaceInv
  <1>4. \A u \in Tickets : pc'[u] \in Routed => Serves(at[u], req[u])'
    BY <1>3 DEF Serves, NodeHere, Unplaced
  <1>5. \A u \in Tickets : pc'[u] \in Unrouted => kind = "proxmox" \/ at[u] = Default
    BY <1>1 DEF PlaceInv
  <1>6. QED
    BY <1>2, <1>4, <1>5 DEF PlaceInv, Default

(* Routing ends at a connection that serves the request, or goes on.       *)
LEMMA RouteKeepsPlace ==
    ASSUME AddrInv, PlaceInv, NEW t \in Tickets, Route(t)
    PROVE  PlaceInv'
  <1> DEFINE c == at[t]  r == req[t]
  <1>1. c \in Conns /\ r \in Asks /\ r.api \in Conns \cup {NoConn}
    BY DEF PlaceInv, PlaceTypes, Asks
  <1>2. UNCHANGED <<kind, req, vms, slot, task, ref>>
    BY DEF Route, RouteProxmox, RouteVmware
  <1>3. PlacedAsRequested'
    BY <1>2 DEF PlaceInv, PlacedAsRequested, Means, Unplaced
  <1>4. ASSUME NEW d \in Conns, HandTo(t, d), kind = "proxmox"
        PROVE  PlaceInv'
    <2>1. PICK to \in {"route", "undo"} : Goto(t, "route", to)
      BY <1>4 DEF HandTo
    <2>2. at' = [at EXCEPT ![t] = d] /\ hops' \in [Tickets -> 0 .. MaxHops]
      <3>1. hops \in [Tickets -> 0 .. MaxHops] /\ hops[t] \in 0 .. MaxHops /\ MaxHops \in Nat
        BY HypervisorCallsAssumption DEF PlaceInv, PlaceTypes
      <3>2. (IF hops[t] = MaxHops THEN hops[t] ELSE hops[t] + 1) \in 0 .. MaxHops
        BY <3>1
      <3>3. hops' = [hops EXCEPT ![t] = IF hops[t] = MaxHops THEN hops[t] ELSE hops[t] + 1]
        BY <1>4 DEF HandTo
      <3>4. QED
        BY <1>4, <3>1, <3>2, <3>3 DEF HandTo
    <2>3. slot' = [slot EXCEPT ![t] = slot[t]] /\ slot[t] \in Slots \cup {NoSlot}
      BY <1>2 DEF PlaceInv, PlaceTypes
    <2>4. PlaceTypes'
      BY <1>2, <2>2 DEF PlaceInv, PlaceTypes
    <2>5. to \in Steps /\ to \notin Routed /\ to \notin Slotted
      BY DEF Steps, Routed, Slotted, Unrouted, Reserving
    <2>6. QED
      BY <1>2, <1>3, <1>4, <2>1, <2>2, <2>3, <2>4, <2>5, PlaceFrame
  <1>5. ASSUME NEW d \in Conns, Serves(d, r), Goto(t, "route", "find"),
               at' = [at EXCEPT ![t] = d], hops' \in [Tickets -> 0 .. MaxHops]
        PROVE  PlaceInv'
    <2>1. slot' = [slot EXCEPT ![t] = slot[t]] /\ slot[t] \in Slots \cup {NoSlot}
      BY <1>2 DEF PlaceInv, PlaceTypes
    <2>2. PlaceTypes'
      BY <1>2, <1>5 DEF PlaceInv, PlaceTypes
    <2>3. "find" \in Steps /\ "find" \notin Slotted /\ "find" \notin Unrouted
      BY DEF Steps, Slotted, Unrouted, Reserving
    <2>4. QED
      BY <1>2, <1>3, <1>5, <2>1, <2>2, <2>3, PlaceFrame
  <1>6. ASSUME Goto(t, "route", "undo"), UNCHANGED <<at, hops>>
        PROVE  PlaceInv'
    <2>1. PlaceTypes'
      BY <1>2, <1>6 DEF PlaceInv, PlaceTypes
    <2>2. "undo" \in Steps /\ "undo" \notin Routed \cup Slotted \cup Unrouted
      BY DEF Steps, Routed, Slotted, Unrouted, Reserving
    <2>3. QED
      BY <1>2, <1>3, <1>6, <2>1, <2>2, PlaceFrameStill
  <1>7. at = [at EXCEPT ![t] = c] /\ hops \in [Tickets -> 0 .. MaxHops]
    BY DEF PlaceInv, PlaceTypes
  <1>8. CASE kind = "proxmox" /\ RouteProxmox(t)
    <2>1. Others(c, r) \subseteq Conns
      BY DEF Others
    <2>2. [hops EXCEPT ![t] = 0] \in [Tickets -> 0 .. MaxHops]
      BY <1>7, HypervisorCallsAssumption
    <2>3. CASE r.api \notin {NoConn, c} /\ HandTo(t, r.api)
      BY <1>1, <1>4, <1>8, <2>3
    <2>4. CASE /\ r.api \in {NoConn, c} /\ NodeHere(c, r)
               /\ Goto(t, "route", "find") /\ at' = at /\ hops' = [hops EXCEPT ![t] = 0]
      BY <1>1, <1>5, <1>7, <1>8, <2>2, <2>4 DEF Serves
    <2>5. CASE \E d \in Others(c, r) : HandTo(t, d)
      BY <1>4, <1>8, <2>1, <2>5
    <2>6. CASE Goto(t, "route", "undo") /\ UNCHANGED <<at, hops>>
      BY <1>6, <2>6
    <2>7. QED
      BY <1>8, <2>3, <2>4, <2>5, <2>6 DEF RouteProxmox
  <1>9. CASE kind = "vmware" /\ RouteVmware(t)
    <2>1. hops' = hops
      BY <1>9 DEF RouteVmware
    <2>2. CASE Goto(t, "route", "find") /\ r.api \notin {NoConn, c} /\ at' = [at EXCEPT ![t] = r.api]
      BY <1>1, <1>5, <1>7, <1>9, <2>1, <2>2 DEF Serves, Unplaced
    <2>3. CASE Goto(t, "route", "find") /\ r.api \in {NoConn, c} /\ at' = at
      <3>1. c = Default
        BY <1>9, <2>3 DEF PlaceInv, Goto, Unrouted
      <3>2. Serves(c, r)
        BY <1>9, <2>3, <3>1 DEF Serves
      <3>3. QED
        BY <1>1, <1>5, <1>7, <2>1, <2>3, <3>2
    <2>4. CASE Goto(t, "route", "undo") /\ at' = at
      BY <1>6, <2>1, <2>4
    <2>5. QED
      BY <1>9, <2>2, <2>3, <2>4 DEF RouteVmware
  <1>10. QED
    BY <1>8, <1>9 DEF Route

(* The references a step may store.                                        *)
LEMMA ProvisionedTypes ==
    ASSUME PlaceTypes, NEW t \in Tickets, NEW p \in Places, Provisioned(t, p)
    PROVE  /\ ref' \in [Tickets -> [node : Nodes \cup {NoNode}, slot : Slots \cup {NoSlot}]]
           /\ slot' = slot
  <1>1. vms[p].node \in Nodes \cup {NoNode} /\ p[2] \in Slots
    BY DEF PlaceTypes, Vms, Places
  <1>2. RefTo(p) \in [node : Nodes \cup {NoNode}, slot : Slots \cup {NoSlot}]
    BY <1>1 DEF RefTo
  <1>3. QED
    BY <1>2 DEF Provisioned, PlaceTypes

(* A task that works on a vmid stands at a place.                          *)
LEMMA SlottedPlaces ==
    ASSUME PlaceInv, NEW t \in Tickets, pc[t] \in Slotted
    PROVE  At(t) \in Places /\ at[t] \in Conns /\ slot[t] \in Slots /\ Serves(at[t], req[t])
  BY DEF PlaceInv, PlaceTypes, At, Places, Slotted, Routed

LEMMA FindKeepsPlace ==
    ASSUME AddrInv, PlaceInv, NEW t \in Tickets, Find(t)
    PROVE  PlaceInv'
  <1>1. UNCHANGED <<kind, req, at, hops, task>> /\ vms' = vms
    BY DEF Find, Fails
  <1>2. PlacedAsRequested'
    BY <1>1 DEF PlaceInv, PlacedAsRequested, Means, Unplaced
  <1>3. CASE \E p \in Hits(t) : Goto(t, "find", "finalize") /\ Provisioned(t, p)
    <2>1. PICK p \in Places : Goto(t, "find", "finalize") /\ Provisioned(t, p)
      BY <1>3 DEF Hits, Places, PlaceInv, PlaceTypes
    <2>2. PlaceTypes' /\ slot' = slot
      BY <1>1, <2>1, ProvisionedTypes DEF PlaceInv, PlaceTypes
    <2>3. "finalize" \in Steps /\ "finalize" \notin Routed \cup Slotted \cup Unrouted
      BY DEF Steps, Routed, Slotted, Unrouted, Reserving
    <2>4. QED
      BY <1>1, <1>2, <2>1, <2>2, <2>3, PlaceFrameStill
  <1>4. CASE /\ Goto(t, "find", IF kind = "proxmox" THEN "nextid" ELSE "make")
             /\ Slot(t, IF kind = "proxmox" THEN NoSlot ELSE req[t].name)
             /\ ref' = ref
    <2> DEFINE to == IF kind = "proxmox" THEN "nextid" ELSE "make"
               s == IF kind = "proxmox" THEN NoSlot ELSE req[t].name
    <2>1. /\ to \in Steps \ Unrouted
          /\ s \in Slots \cup {NoSlot} /\ (to \in Slotted => s \in Slots)
      BY DEF Steps, Slotted, Unrouted, Reserving, PlaceInv, PlaceTypes, Asks
    <2>2. slot' = [slot EXCEPT ![t] = s] /\ Goto(t, "find", to)
      BY <1>4 DEF Slot
    <2>3. PlaceTypes'
      BY <1>1, <1>4, <2>1, <2>2 DEF PlaceInv, PlaceTypes
    <2>4. at' = [at EXCEPT ![t] = at[t]] /\ at[t] \in Conns
      BY <1>1 DEF PlaceInv, PlaceTypes
    <2>5. Serves(at[t], req[t])
      BY <1>4 DEF PlaceInv, Goto, Routed
    <2> HIDE DEF to, s
    <2>6. QED
      BY <1>1, <1>2, <2>1, <2>2, <2>3, <2>4, <2>5, PlaceFrame
  <1>5. CASE Fails(t, "find")
    <2>1. PlaceTypes' /\ slot' = slot /\ Goto(t, "find", "undo")
      BY <1>1, <1>5 DEF PlaceInv, PlaceTypes, Fails
    <2>2. "undo" \in Steps /\ "undo" \notin Routed \cup Slotted \cup Unrouted
      BY DEF Steps, Routed, Slotted, Unrouted, Reserving
    <2>3. QED
      BY <1>1, <1>2, <2>1, <2>2, PlaceFrameStill
  <1>6. QED
    BY <1>3, <1>4, <1>5 DEF Find

(* Giving up leaves everything but the pc as it was.                       *)
LEMMA FailsKeepsPlace ==
    ASSUME AddrInv, PlaceInv, NEW t \in Tickets, NEW from, Fails(t, from),
           UNCHANGED <<kind, req, at, hops>>,
           task' \in [Tickets -> {"none", "running", "ok", "failed"}]
    PROVE  PlaceInv'
  <1>1. PlaceTypes' /\ slot' = slot /\ Goto(t, from, "undo")
    BY DEF PlaceInv, PlaceTypes, Fails
  <1>2. PlacedAsRequested'
    BY DEF Fails, PlaceInv, PlacedAsRequested, Means, Unplaced
  <1>3. "undo" \in Steps /\ "undo" \notin Routed \cup Slotted \cup Unrouted
    BY DEF Steps, Routed, Slotted, Unrouted, Reserving
  <1>4. QED
    BY <1>1, <1>2, <1>3, PlaceFrameStill

LEMMA NextIdKeepsPlace ==
    ASSUME AddrInv, PlaceInv, NEW t \in Tickets, NextId(t)
    PROVE  PlaceInv'
  <1>1. UNCHANGED <<kind, req, at, hops, task>> /\ vms' = vms /\ ref' = ref
    BY DEF NextId, Fails
  <1>2. CASE Fails(t, "nextid")
    BY <1>1, <1>2, FailsKeepsPlace DEF PlaceInv, PlaceTypes
  <1>3. CASE \E s \in Slots : Goto(t, "nextid", "make") /\ Slot(t, s)
    <2>1. PICK s \in Slots : Goto(t, "nextid", "make") /\ slot' = [slot EXCEPT ![t] = s]
      BY <1>3 DEF Slot
    <2>2. PlaceTypes'
      BY <1>1, <2>1 DEF PlaceInv, PlaceTypes
    <2>3. PlacedAsRequested'
      BY <1>1 DEF PlaceInv, PlacedAsRequested, Means, Unplaced
    <2>4. at' = [at EXCEPT ![t] = at[t]] /\ at[t] \in Conns
      BY <1>1 DEF PlaceInv, PlaceTypes
    <2>5. Serves(at[t], req[t]) /\ "make" \in Steps \ Unrouted
      BY <2>1 DEF PlaceInv, Goto, Routed, Steps, Unrouted, Reserving
    <2>6. QED
      BY <1>1, <2>1, <2>2, <2>3, <2>4, <2>5, PlaceFrame
  <1>4. QED
    BY <1>2, <1>3 DEF NextId, FreeSlots

(* The VM is made on one of the nodes the task may use.                    *)
LEMMA MakeKeepsPlace ==
    ASSUME AddrInv, PlaceInv, NEW t \in Tickets, Make(t)
    PROVE  PlaceInv'
  <1>1. UNCHANGED <<kind, req, at, hops>>
    BY DEF Make
  <1>2. CASE Fails(t, "make") /\ UNCHANGED task
    BY <1>1, <1>2, FailsKeepsPlace DEF PlaceInv, PlaceTypes
  <1>3. ASSUME NEW n \in NodesFor(t), NEW to \in {"wait", "undo"}, Goto(t, "make", to),
               SetVm(At(t), [ticket |-> t, node |-> n, power |-> "off", state |-> "making",
                             addr |-> IF kind = "vmware" THEN held[t] ELSE NoAddr]),
               task' = [task EXCEPT ![t] = "running"], UNCHANGED <<slot, ref>>
        PROVE  PlaceInv'
    <2> DEFINE vm == [ticket |-> t, node |-> n, power |-> "off", state |-> "making",
                      addr |-> IF kind = "vmware" THEN held[t] ELSE NoAddr]
    <2>1. pc[t] \in Slotted
      BY <1>3 DEF Goto, Slotted
    <2>2. At(t) \in Places /\ at[t] \in Conns /\ slot[t] \in Slots /\ Serves(at[t], req[t])
      BY <2>1, SlottedPlaces
    <2>3. n \in Nodes /\ Means(req[t], at[t], n)
      BY <2>2, ServedIsMeant DEF NodesFor, PlaceInv, PlaceTypes
    <2>4. vm \in Vms /\ vm.ticket = t /\ vm.node = n
      BY <2>3 DEF Vms, AddrInv
    <2>5. vms' \in [Places -> Vms] /\ PlacedAsRequested'
      <3>1. SetVm(At(t), vm) /\ At(t)[1] = at[t] /\ req' = req /\ PlaceTypes /\ PlacedAsRequested
        BY <1>1, <1>3 DEF At, PlaceInv
      <3> HIDE DEF vm
      <3>2. QED
        BY <2>3, <2>4, <3>1, SetVmPlaced
    <2>6. PlaceTypes'
      BY <1>1, <1>3, <2>5 DEF PlaceInv, PlaceTypes
    <2>7. to \in Steps \ Unrouted /\ (to \in Routed => "make" \in Routed)
      BY DEF Steps, Routed, Slotted, Unrouted, Reserving
    <2>8. QED
      BY <1>1, <1>3, <2>2, <2>5, <2>6, <2>7, PlaceFrameStill
  <1>4. QED
    BY <1>2, <1>3 DEF Make

(* A VM changed in place keeps its node; a new ticket in its notes is one  *)
(* whose request means that node.                                          *)
LEMMA ReachedChange ==
    ASSUME AddrInv, PlaceInv, NEW t \in Tickets, pc[t] \in Slotted, Reached(t), req' = req,
           NEW vm, vm \in Vms, SetVm(At(t), vm), vm.node = vms[At(t)].node,
           vm.ticket \in {t, vms[At(t)].ticket}
    PROVE  vms' \in [Places -> Vms] /\ PlacedAsRequested'
  <1>1. At(t) \in Places /\ at[t] \in Conns /\ Serves(at[t], req[t]) /\ At(t)[1] = at[t]
    BY SlottedPlaces DEF At
  <1>2. Means(req[t], at[t], vms[At(t)].node)
    BY <1>1, ServedIsMeant DEF Reached, NodesFor, PlaceInv, PlaceTypes
  <1>3. vms[At(t)] # NoVm
    BY DEF Reached, NoVm
  <1>4. Means(req[vms[At(t)].ticket], at[t], vms[At(t)].node)
    BY <1>1, <1>3 DEF PlaceInv, PlacedAsRequested
  <1>5. Means(req[vm.ticket], at[t], vm.node)
    BY <1>2, <1>4
  <1>6. QED
    BY <1>1, <1>5, SetVmPlaced DEF PlaceInv

LEMMA AwaitKeepsPlace ==
    ASSUME AddrInv, PlaceInv, NEW t \in Tickets, Await(t)
    PROVE  PlaceInv'
  <1>1. /\ UNCHANGED <<kind, req, at, hops>> /\ vms' = vms
        /\ task' \in [Tickets -> {"none", "running", "ok", "failed"}]
    BY DEF Await, Fails, PlaceInv, PlaceTypes
  <1>2. PlacedAsRequested'
    BY <1>1 DEF PlaceInv, PlacedAsRequested, Means, Unplaced
  <1>3. CASE Fails(t, "wait")
    BY <1>1, <1>3, FailsKeepsPlace
  <1>4. CASE \E to \in {"configure", "start"} : Goto(t, "wait", to) /\ UNCHANGED <<slot, ref>>
    <2>1. PICK to \in {"configure", "start"} : Goto(t, "wait", to) /\ UNCHANGED <<slot, ref>>
      BY <1>4
    <2>2. pc[t] \in Slotted
      BY <2>1 DEF Goto, Slotted
    <2>3. slot[t] \in Slots
      BY <2>2, SlottedPlaces
    <2>4. PlaceTypes'
      BY <1>1, <2>1 DEF PlaceInv, PlaceTypes
    <2>5. to \in Steps \ Unrouted /\ "wait" \in Routed
      BY DEF Steps, Routed, Slotted, Unrouted, Reserving
    <2>6. QED
      BY <1>1, <1>2, <2>1, <2>3, <2>4, <2>5, PlaceFrameStill
  <1>5. CASE Goto(t, "wait", "finalize") /\ Provisioned(t, At(t))
    <2>1. pc[t] \in Slotted
      BY <1>5 DEF Goto, Slotted
    <2>2. At(t) \in Places
      BY <2>1, SlottedPlaces
    <2>3. PlaceTypes' /\ slot' = slot
      BY <1>1, <1>5, <2>2, ProvisionedTypes DEF PlaceInv, PlaceTypes
    <2>4. "finalize" \in Steps /\ "finalize" \notin Routed \cup Slotted \cup Unrouted
      BY DEF Steps, Routed, Slotted, Unrouted, Reserving
    <2>5. QED
      BY <1>1, <1>2, <1>5, <2>3, <2>4, PlaceFrameStill
  <1>6. QED
    BY <1>3, <1>4, <1>5 DEF Await

LEMMA ConfigureKeepsPlace ==
    ASSUME AddrInv, PlaceInv, NEW t \in Tickets, Configure(t)
    PROVE  PlaceInv'
  <1>1. UNCHANGED <<kind, req, at, hops, task>>
    BY DEF Configure
  <1>2. CASE Fails(t, "configure")
    BY <1>1, <1>2, FailsKeepsPlace DEF PlaceInv, PlaceTypes
  <1>3. ASSUME NEW to \in {"start", "undo"}, Goto(t, "configure", to), Reached(t),
               SetVm(At(t), [vms[At(t)] EXCEPT !.ticket = t, !.addr = held[t]]),
               UNCHANGED <<slot, ref>>
        PROVE  PlaceInv'
    <2> DEFINE vm == [vms[At(t)] EXCEPT !.ticket = t, !.addr = held[t]]
    <2>1. pc[t] \in Slotted
      BY <1>3 DEF Goto, Slotted
    <2>2. At(t) \in Places /\ slot[t] \in Slots
      BY <2>1, SlottedPlaces
    <2>3. vms[At(t)] \in Vms /\ held[t] \in Addrs \cup {NoAddr}
      BY <2>2 DEF PlaceInv, PlaceTypes, AddrInv
    <2>4. vm \in Vms /\ vm.ticket = t /\ vm.node = vms[At(t)].node
      BY <2>3 DEF Vms
    <2>5. vms' \in [Places -> Vms] /\ PlacedAsRequested'
      <3>1. SetVm(At(t), vm) /\ req' = req
        BY <1>1, <1>3
      <3> HIDE DEF vm
      <3>2. QED
        BY <1>3, <2>1, <2>4, <3>1, ReachedChange
    <2>6. PlaceTypes'
      BY <1>1, <1>3, <2>5 DEF PlaceInv, PlaceTypes
    <2>7. to \in Steps \ Unrouted /\ "configure" \in Routed
      BY DEF Steps, Routed, Slotted, Unrouted, Reserving
    <2>8. QED
      BY <1>1, <1>3, <2>2, <2>5, <2>6, <2>7, PlaceFrameStill
  <1>4. QED
    BY <1>2, <1>3 DEF Configure

LEMMA StartKeepsPlace ==
    ASSUME AddrInv, PlaceInv, NEW t \in Tickets, Start(t)
    PROVE  PlaceInv'
  <1>1. UNCHANGED <<kind, req, at, hops, task>>
    BY DEF Start
  <1>2. CASE Fails(t, "start")
    BY <1>1, <1>2, FailsKeepsPlace DEF PlaceInv, PlaceTypes
  <1>3. ASSUME NEW to \in {"finalize", "undo"}, Goto(t, "start", to), Reached(t),
               NEW power \in {"off", "on"}, SetVm(At(t), [vms[At(t)] EXCEPT !.power = power]),
               Provisioned(t, At(t)) \/ UNCHANGED <<slot, ref>>
        PROVE  PlaceInv'
    <2> DEFINE vm == [vms[At(t)] EXCEPT !.power = power]
    <2>1. pc[t] \in Slotted
      BY <1>3 DEF Goto, Slotted
    <2>2. At(t) \in Places /\ slot[t] \in Slots
      BY <2>1, SlottedPlaces
    <2>3. vms[At(t)] \in Vms
      BY <2>2 DEF PlaceInv, PlaceTypes
    <2>4. vm \in Vms /\ vm.ticket = vms[At(t)].ticket /\ vm.node = vms[At(t)].node
      BY <2>3 DEF Vms
    <2>5. vms' \in [Places -> Vms] /\ PlacedAsRequested'
      <3>1. SetVm(At(t), vm) /\ req' = req
        BY <1>1, <1>3
      <3> HIDE DEF vm
      <3>2. QED
        BY <1>3, <2>1, <2>4, <3>1, ReachedChange
    <2>6. /\ ref' \in [Tickets -> [node : Nodes \cup {NoNode}, slot : Slots \cup {NoSlot}]]
          /\ slot' = slot
      BY <1>3, <2>2, ProvisionedTypes DEF PlaceInv, PlaceTypes
    <2>7. PlaceTypes'
      BY <1>1, <2>5, <2>6 DEF PlaceInv, PlaceTypes
    <2>8. to \in Steps \ Unrouted /\ to \notin Routed /\ to \notin Slotted
      BY DEF Steps, Routed, Slotted, Unrouted, Reserving
    <2>9. QED
      BY <1>1, <1>3, <2>5, <2>6, <2>7, <2>8, PlaceFrameStill
  <1>4. QED
    BY <1>2, <1>3 DEF Start

(* The hypervisor finishes or drops a VM where it is.                      *)
LEMMA TaskEndsKeepsPlace ==
    ASSUME PlaceInv, NEW p \in Places, TaskEnds(p)
    PROVE  PlaceInv'
  <1>1. UNCHANGED <<pc, kind, req, at, hops, slot, ref>>
    BY DEF TaskEnds
  <1>2. task' \in [Tickets -> {"none", "running", "ok", "failed"}]
    BY DEF TaskEnds, MakeEnds, DeleteEnds, PlaceInv, PlaceTypes
  <1>3. PICK vm \in Vms : /\ SetVm(p, vm)
                          /\ vm # NoVm => vm.ticket = vms[p].ticket /\ vm.node = vms[p].node
    <2>1. vms[p] \in Vms /\ vms[p].power \in {"off", "on"}
      BY DEF PlaceInv, PlaceTypes, Vms
    <2>2. CASE SetVm(p, NoVm)
      BY <2>2 DEF NoVm, Vms
    <2>3. ASSUME NEW power \in {"off", "on"},
                 SetVm(p, [vms[p] EXCEPT !.state = "ready", !.power = power])
          PROVE  \E vm \in Vms : /\ SetVm(p, vm)
                                 /\ vm # NoVm => vm.ticket = vms[p].ticket /\ vm.node = vms[p].node
      <3> DEFINE vm == [vms[p] EXCEPT !.state = "ready", !.power = power]
      <3>1. vm \in Vms /\ vm.ticket = vms[p].ticket /\ vm.node = vms[p].node
        BY <2>1 DEF Vms
      <3>2. QED
        BY <2>3, <3>1
    <2>4. QED
      BY <2>1, <2>2, <2>3 DEF TaskEnds, MakeEnds, DeleteEnds
  <1>4. vms[p] # NoVm
    BY DEF TaskEnds, MakeEnds, DeleteEnds, NoVm
  <1>5. vm # NoVm => Means(req[vm.ticket], p[1], vm.node)
    BY <1>3, <1>4 DEF PlaceInv, PlacedAsRequested
  <1>6. vms' \in [Places -> Vms] /\ PlacedAsRequested'
    BY <1>1, <1>3, <1>5, SetVmPlaced DEF PlaceInv
  <1>7. QED
    BY <1>1, <1>2, <1>6 DEF PlaceInv, PlaceTypes, Serves, NodeHere, Unplaced

(* What destroy may make of the VM it meets.                               *)
DestroyOf(vm) ==
    {NoVm, [vm EXCEPT !.state = "deleting"]}
        \cup {[vm EXCEPT !.power = power] : power \in {vm.power, "off"}}

LEMMA DestroyTypes ==
    ASSUME NEW vm \in Vms, NEW new \in DestroyOf(vm)
    PROVE  /\ new \in Vms
           /\ \/ new = NoVm
              \/ /\ new.ticket = vm.ticket /\ new.node = vm.node /\ new.addr = vm.addr
                 /\ new.state \in {vm.state, "deleting"}
  <1>1. vm.power \in {"off", "on"}
    BY DEF Vms
  <1>2. CASE new = NoVm
    BY <1>2 DEF NoVm, Vms
  <1>3. CASE new = [vm EXCEPT !.state = "deleting"]
    BY <1>3 DEF Vms
  <1>4. CASE \E power \in {"off", "on"} : new = [vm EXCEPT !.power = power]
    BY <1>4 DEF Vms
  <1>5. QED
    BY <1>1, <1>2, <1>3, <1>4 DEF DestroyOf

LEMMA DestroyEffect ==
    ASSUME NEW t \in Tickets, Destroy(t)
    PROVE  \/ vms' = vms
           \/ \E p \in Destroyed(t) :
                p \in Places /\ \E vm \in DestroyOf(vms[p]) : SetVm(p, vm)
  BY DEF Destroy, DestroyOf, Destroyed

(* destroy removes a VM, sends it away or switches it off.                 *)
LEMMA DestroyKeepsPlace ==
    ASSUME AddrInv, PlaceInv, NEW t \in Tickets, Destroy(t)
    PROVE  PlaceInv'
  <1>1. UNCHANGED placeVars /\ Goto(t, "destroy", "failed")
    BY DEF Destroy
  <1>2. ASSUME NEW p \in Destroyed(t), NEW vm \in DestroyOf(vms[p]), p \in Places, SetVm(p, vm)
        PROVE  vms' \in [Places -> Vms] /\ PlacedAsRequested'
    <2>1. vms[p] \in Vms /\ req' = req
      BY <1>1, <1>2 DEF PlaceInv, PlaceTypes, placeVars
    <2>2. vm \in Vms /\ (vm = NoVm \/ (vm.ticket = vms[p].ticket /\ vm.node = vms[p].node))
      BY <2>1, DestroyTypes
    <2>3. vms[p] # NoVm
      BY DEF Destroyed, NoVm
    <2>4. vm # NoVm => Means(req[vm.ticket], p[1], vm.node)
      BY <1>2, <2>2, <2>3 DEF PlaceInv, PlacedAsRequested
    <2>5. QED
      BY <1>2, <2>1, <2>2, <2>4, SetVmPlaced DEF PlaceInv
  <1>3. vms' \in [Places -> Vms] /\ PlacedAsRequested'
    BY <1>1, <1>2, DestroyEffect
       DEF PlaceInv, PlaceTypes, PlacedAsRequested, Means, Unplaced, placeVars
  <1>4. PlaceTypes'
    BY <1>1, <1>3 DEF PlaceInv, PlaceTypes, placeVars
  <1>5. "failed" \in Steps \ (Routed \cup Slotted) /\ "destroy" \in Unrouted
    BY DEF Steps, Routed, Slotted, Unrouted, Reserving
  <1>6. QED
    BY <1>1, <1>3, <1>4, <1>5, PlaceFrameStill DEF placeVars

(* Steps that touch neither the hypervisor nor what the task knows of it.  *)
LEMMA StillKeepsPlace ==
    ASSUME AddrInv, PlaceInv, NEW t \in Tickets, NEW from, NEW to \in Steps \ Routed,
           Goto(t, from, to), UNCHANGED callVars,
           to \in Unrouted => from \in Unrouted
    PROVE  PlaceInv'
  <1>1. UNCHANGED <<kind, req, at, slot>> /\ to \notin Slotted
    BY DEF callVars, placeVars, Routed
  <1>2. PlaceTypes' /\ PlacedAsRequested'
    BY DEF callVars, placeVars, PlaceInv, PlaceTypes, PlacedAsRequested, Means, Unplaced
  <1>3. QED
    BY <1>1, <1>2, PlaceFrameStill

LEMMA ReserveMoves ==
    ASSUME NEW t \in Tickets, ReserveStep(t)
    PROVE  \E from \in {"allocate", "list", "create"},
              to \in {"allocate", "list", "create", "route", "undo"} : Goto(t, from, to)
  <1>1. CASE Allocate(t)
    BY <1>1 DEF Allocate
  <1>2. CASE List(t)
    BY <1>2 DEF List
  <1>3. CASE Create(t)
    BY <1>3 DEF Create
  <1>4. QED
    BY <1>1, <1>2, <1>3 DEF ReserveStep

LEMMA CompensateKeepsPlace ==
    ASSUME AddrInv, PlaceInv, NEW t \in Tickets, Compensate(t)
    PROVE  PlaceInv'
  <1>1. PICK to \in {"destroy", "failed"} : Goto(t, "undo", to)
    BY DEF Compensate
  <1>2. UNCHANGED <<kind, req, vms, ref>> /\ Forget(t)
    BY DEF Compensate
  <1>3. Default \in Conns /\ MaxHops \in Nat
    BY HypervisorCallsAssumption DEF Default
  <1>4. /\ at' = [at EXCEPT ![t] = Default]
        /\ slot' = [slot EXCEPT ![t] = NoSlot]
    BY <1>2 DEF Forget, Slot
  <1>5. PlaceTypes' /\ PlacedAsRequested'
    BY <1>2, <1>3, <1>4 DEF Forget, PlaceInv, PlaceTypes, PlacedAsRequested, Means, Unplaced
  <1>6. to \in Steps /\ to \notin Routed /\ to \notin Slotted
    BY DEF Steps, Routed, Slotted, Unrouted, Reserving
  <1>7. QED
    BY <1>1, <1>2, <1>3, <1>4, <1>5, <1>6, PlaceFrame

LEMMA AgainKeepsPlace ==
    ASSUME AddrInv, PlaceInv, NEW t \in Tickets, Again(t)
    PROVE  PlaceInv'
  <1>1. PICK to \in {"list", "allocate"} : Goto(t, "failed", to)
    BY DEF Again
  <1>2. UNCHANGED <<kind, req, vms, at, hops, slot, task>>
    BY DEF Again
  <1>3. NoRef \in [node : Nodes \cup {NoNode}, slot : Slots \cup {NoSlot}]
    BY DEF NoRef
  <1>4. PlaceTypes' /\ PlacedAsRequested'
    BY <1>2, <1>3 DEF Again, PlaceInv, PlaceTypes, PlacedAsRequested, Means, Unplaced
  <1>5. to \in Steps /\ to \notin Routed /\ to \notin Slotted /\ "failed" \in Unrouted
    BY DEF Steps, Routed, Slotted, Unrouted, Reserving
  <1>6. QED
    BY <1>1, <1>2, <1>4, <1>5, PlaceFrameStill

LEMMA NextKeepsPlace ==
    ASSUME AddrInv, PlaceInv, [Next]_vars
    PROVE  PlaceInv'
  <1>1. ASSUME NEW t \in Tickets, ReserveStep(t)
        PROVE  PlaceInv'
    <2>1. PICK from \in {"allocate", "list", "create"},
               to \in {"allocate", "list", "create", "route", "undo"} : Goto(t, from, to)
      BY <1>1, ReserveMoves
    <2>2. to \in Steps \ Routed /\ from \in Unrouted /\ UNCHANGED callVars
      BY <1>1 DEF ReserveStep, Steps, Routed, Slotted, Unrouted, Reserving
    <2>3. QED
      BY <2>1, <2>2, StillKeepsPlace
  <1>2. ASSUME NEW t \in Tickets, ProvisionStep(t)
        PROVE  PlaceInv'
    BY <1>2, RouteKeepsPlace, FindKeepsPlace, NextIdKeepsPlace, MakeKeepsPlace,
       AwaitKeepsPlace, ConfigureKeepsPlace, StartKeepsPlace DEF ProvisionStep
  <1>3. ASSUME NEW t \in Tickets, Finalize(t)
        PROVE  PlaceInv'
    <2>1. PICK to \in {"done", "undo"} : Goto(t, "finalize", to)
      BY <1>3 DEF Finalize
    <2>2. to \in Steps \ Routed /\ to \notin Unrouted /\ UNCHANGED callVars
      BY <1>3 DEF Finalize, Steps, Routed, Slotted, Unrouted, Reserving
    <2>3. QED
      BY <2>1, <2>2, StillKeepsPlace
  <1>4. ASSUME NEW t \in Tickets, Compensate(t) \/ DestroyStep(t) \/ Again(t)
        PROVE  PlaceInv'
    BY <1>4, CompensateKeepsPlace, DestroyKeepsPlace, AgainKeepsPlace DEF DestroyStep
  <1>5. ASSUME NEW p \in Places, TaskEnds(p)
        PROVE  PlaceInv'
    BY <1>5, TaskEndsKeepsPlace
  <1>6. CASE UNCHANGED vars
    BY <1>6 DEF vars, callVars, placeVars, PlaceInv, PlaceTypes, PlacedAsRequested, Means, Unplaced,
                Serves, NodeHere, Unplaced
  <1>7. QED
    BY <1>1, <1>2, <1>3, <1>4, <1>5, <1>6 DEF Next, Step, TaskStep

-----------------------------------------------------------------------------
LEMMA InitHolds ==
    ASSUME Init
    PROVE  IInv /\ Pool!Init
  <1> USE DEF Init, IpamCallsInit, HypervisorCallsInit
  <1>1. AddrInv
    <2>1. \A t \in Tickets : pc[t] \in {"list", "allocate"}
      OBVIOUS
    <2>2. pc \in [Tickets -> Steps] /\ provider \in Providers
      BY DEF Steps
    <2>3. QED
      BY <2>1, <2>2 DEF AddrInv, HeldByOne, Reserving, Holding, Routed, Slotted
  <1>2. PlaceTypes
    <2>1. req \in [Tickets -> Asks]
      BY HypervisorCallsAssumption
    <2>2. NoVm \in Vms /\ NoRef \in [node : Nodes \cup {NoNode}, slot : Slots \cup {NoSlot}]
      BY DEF NoVm, NoRef, Vms
    <2>3. Default \in Conns /\ 0 \in 0 .. MaxHops
      BY HypervisorCallsAssumption DEF Default
    <2>4. QED
      BY <2>1, <2>2, <2>3 DEF PlaceTypes
  <1>3. \A t \in Tickets : pc[t] \notin Routed /\ pc[t] \notin Slotted
    BY DEF Routed, Slotted
  <1>4. PlacedAsRequested
    BY DEF PlacedAsRequested
  <1>5. \A t \in Tickets : runs[t] \in 1 .. MaxRuns[t]
    BY AdapterCallsAssumption
  <1>6. Pool!Init
    BY DEF Pool!Init
  <1>7. QED
    BY <1>1, <1>2, <1>3, <1>4, <1>5, <1>6 DEF IInv, PlaceInv

LEMMA NextHolds ==
    ASSUME IInv, [Next]_vars
    PROVE  IInv'
  <1>1. AddrInv'
    BY NextKeepsAddr DEF IInv
  <1>2. PlaceInv'
    BY NextKeepsPlace DEF IInv
  <1>3. \A t \in Tickets : runs'[t] \in 1 .. MaxRuns[t]
    <2>1. CASE runs' = runs
      BY <2>1 DEF IInv
    <2>2. ASSUME NEW t \in Tickets, Again(t)
          PROVE  \A u \in Tickets : runs'[u] \in 1 .. MaxRuns[u]
      <3>1. runs[t] < MaxRuns[t] /\ runs' = [runs EXCEPT ![t] = runs[t] + 1]
        BY <2>2 DEF Again
      <3>2. \A u \in Tickets : runs[u] \in 1 .. MaxRuns[u] /\ MaxRuns[u] \in Nat
        BY AdapterCallsAssumption DEF IInv
      <3>3. QED
        BY <3>1, <3>2
    <2>3. QED
      BY <2>1, <2>2 DEF Next, Step, TaskStep, ReserveStep, ProvisionStep, Finalize, Compensate,
                        DestroyStep, vars
  <1>4. mistaken' \subseteq Slots
    BY DEF IInv, Next, Watch, vars
  <1>5. QED
    BY <1>1, <1>2, <1>3, <1>4 DEF IInv

THEOREM AdapterInvariant == Spec => []IInv
  <1>1. Init => IInv
    BY InitHolds
  <1>2. IInv /\ [Next]_vars => IInv'
    BY NextHolds
  <1>3. QED
    BY <1>1, <1>2, PTL DEF Spec

(* Every variable keeps its type, and from reserve_ip to the end of the    *)
(* job a task holds an address.                                            *)
THEOREM AdapterTypes == Spec => []TypeOK
  <1>1. IInv => TypeOK
    BY DEF IInv, AddrInv, PlaceInv, PlaceTypes, TypeOK, Holding, Routed, Slotted
  <1>2. QED
    BY <1>1, AdapterInvariant, PTL

(* No two jobs work with one address, however the requests of their        *)
(* reserve_ip calls interleave and whatever replies get lost.              *)
THEOREM OneHolder == Spec => []HeldByOne
  <1>1. IInv => HeldByOne
    BY DEF IInv, AddrInv
  <1>2. QED
    BY <1>1, AdapterInvariant, PTL

(* However requests are handed from connection to connection, a VM is only *)
(* made on a node that its request means.                                  *)
THEOREM PlacementHonoured == Spec => []PlacedAsRequested
  <1>1. IInv => PlacedAsRequested
    BY DEF IInv, PlaceInv
  <1>2. QED
    BY <1>1, AdapterInvariant, PTL

(* The requests of the IPAM adapters implement the address pool.           *)
LEMMA NextIsPoolStep ==
    ASSUME IInv, [Next]_vars
    PROVE  [Pool!Next]_<<book, held>>
  <1> SUFFICES ASSUME ~ UNCHANGED <<book, held>>
               PROVE  \E t \in Tickets : PoolStep(t)
    BY DEF PoolStep, Pool!Next
  <1>1. ASSUME NEW t \in Tickets, ReserveStep(t)
        PROVE  PoolStep(t)
    BY <1>1, ReserveIsPoolStep DEF IInv
  <1>2. ASSUME NEW t \in Tickets, Compensate(t)
        PROVE  PoolStep(t)
    BY <1>2, ReleaseIsPoolStep DEF IInv, Compensate
  <1>3. \/ \E t \in Tickets : ReserveStep(t) \/ Compensate(t)
        \/ UNCHANGED <<book, held>>
    BY DEF Next, Step, TaskStep, ProvisionStep, Finalize, DestroyStep, Again, TaskEnds,
           addressVars, vars
  <1>4. QED
    BY <1>1, <1>2, <1>3

THEOREM AdaptersArePool == Spec => ImplementsPool
  <1>1. Init => Pool!Init
    BY InitHolds
  <1>2. IInv /\ [Next]_vars => [Pool!Next]_(Pool!poolVars)
    BY NextIsPoolStep DEF Pool!poolVars
  <1>3. QED
    BY <1>1, <1>2, AdapterInvariant, PTL DEF Spec, ImplementsPool, Pool!Spec
-----------------------------------------------------------------------------
(* Whose the VMs are.  A VM is distinct when no search was mistaken in its *)
(* slot and destroy can tell it from all others; a task is certain when    *)
(* the VM it works on is distinct.                                         *)
Distinct(p) == p[2] \notin mistaken /\ Unmistakable(p[1], vms[p].node, p[2])

Certain(t) ==
    /\ slot[t] \notin mistaken
    /\ \A n \in NodesFor(t) : Unmistakable(at[t], n, slot[t])

(* A finished VM of t, on a node that t may use.                           *)
Built(t, p) ==
    vms[p].state = "ready" /\ vms[p].ticket = t /\ vms[p].node \in NodesFor(t)

(* On vSphere everything of a ticket bears its hostname.                   *)
VmsNamed ==
    \A p \in Places : vms[p] # NoVm =>
        /\ vms[p].ticket \in Tickets
        /\ kind = "vmware" => p[2] = req[vms[p].ticket].name

Named(t) ==
    kind = "vmware" =>
        /\ pc[t] # "nextid"
        /\ slot[t] \in {NoSlot, req[t].name}
        /\ ref[t] # NoRef => ref[t].slot \in {req[t].name} \cup mistaken

(* What a run has not been told yet.                                       *)
Preparing == {"allocate", "list", "create", "route", "find", "nextid", "make"}

Fresh(t) ==
    /\ pc[t] \in (Preparing \ {"make"}) \cup {"destroy", "failed"} => slot[t] = NoSlot
    /\ pc[t] \in Preparing \cup Slotted => ref[t] = NoRef

(* The VM a task waits for is its own as long as the task is, and once it  *)
(* is finished, if the task is certain.                                    *)
BeingMade(t) ==
    LET vm == vms[At(t)]
    IN  pc[t] = "wait" =>
            /\ task[t] = "running" =>
                 /\ vm.state = "making" /\ vm.ticket = t /\ vm.node \in NodesFor(t)
                 /\ kind = "vmware" => vm.addr = held[t]
            /\ vm.state = "making" /\ vm.ticket = t => task[t] = "running"

Made(t) ==
    /\ (pc[t] = "wait" /\ task[t] = "ok") \/ pc[t] \in {"configure", "start"}
    /\ Certain(t)
    => /\ Built(t, At(t))
       /\ kind = "vmware" \/ pc[t] = "start" => vms[At(t)].addr = held[t]

(* What hypervisor_ref leads to, from provision's return on, wherever its  *)
(* node is looked for,                                                     *)
RefersToOwn(t) ==
    /\ pc[t] # "failed" /\ ref[t] # NoRef
    /\ kind = "proxmox" /\ OnlyThere(ref[t].node) /\ ref[t].slot \notin mistaken
    => \A c \in Conns : ref[t].node \in NodesOn[c] /\ ref[t].slot \in Slots =>
         LET vm == vms[<<c, ref[t].slot>>]
         IN  vm.state = "ready" /\ vm.ticket = t /\ vm.node = ref[t].node

(* and at the connection where provision found or made the VM.             *)
Delivered(t) ==
    LET vm == vms[<<at[t], ref[t].slot>>]
    IN  /\ vm.state = "ready" /\ vm.ticket = t
        /\ kind = "proxmox" => vm.node = ref[t].node
        /\ slot[t] # NoSlot => /\ vm.addr = held[t]
                               /\ kind = "proxmox" => vm.power = "on"

Ready(t) ==
    pc[t] \in {"finalize", "done"} =>
        /\ ref[t].slot \in Slots
        /\ kind = "proxmox" => ref[t].node \in NodesOn[at[t]]
        /\ ref[t].slot \notin mistaken /\ Unmistakable(at[t], ref[t].node, ref[t].slot)
              => Delivered(t)

Own(t) == Named(t) /\ Fresh(t) /\ BeingMade(t) /\ Made(t) /\ RefersToOwn(t) /\ Ready(t)

VmInv == VmsNamed /\ \A t \in Tickets : Own(t)

-----------------------------------------------------------------------------
(* A Proxmox task has at most one node to use.                             *)
LEMMA CertainNode ==
    ASSUME NEW t \in Tickets, kind \in Kinds, NEW n, n \in NodesFor(t)
    PROVE  Certain(t) <=> slot[t] \notin mistaken /\ Unmistakable(at[t], n, slot[t])
  <1>1. CASE kind = "proxmox"
    <2>1. \A m \in NodesFor(t) : m = n
      BY <1>1 DEF NodesFor, QemuNodes
    <2>2. QED
      BY <2>1 DEF Certain
  <1>2. CASE kind = "vmware"
    <2>1. \A m : Unmistakable(at[t], m, slot[t]) <=> Unmistakable(at[t], n, slot[t])
      BY <1>2 DEF Unmistakable
    <2>2. QED
      BY <2>1 DEF Certain
  <1>3. QED
    BY <1>1, <1>2 DEF Kinds

(* What makes a VM unmistakable stays as it is.                            *)
LEMMA SameUnmistakable ==
    ASSUME kind' = kind, req' = req
    PROVE  \A c, n, s : Unmistakable(c, n, s)' <=> Unmistakable(c, n, s)
  BY DEF Unmistakable, OneAsks, OnlyThere

LEMMA MistakenGrows ==
    ASSUME Watch
    PROVE  mistaken \subseteq mistaken'
  BY DEF Watch

LEMMA StaysCertain ==
    ASSUME NEW t \in Tickets, kind' = kind, req' = req, at'[t] = at[t], slot'[t] = slot[t],
           mistaken \subseteq mistaken', Certain(t)'
    PROVE  Certain(t)
  <1>1. slot[t] \notin mistaken
    BY DEF Certain
  <1>2. NodesFor(t)' = NodesFor(t)
    BY DEF NodesFor, QemuNodes, Placements
  <1>3. ASSUME NEW n \in NodesFor(t)
        PROVE  Unmistakable(at[t], n, slot[t])
    BY <1>2, <1>3 DEF Certain, Unmistakable, OneAsks, OnlyThere
  <1>4. QED
    BY <1>1, <1>3 DEF Certain

LEMMA NodesForHere ==
    ASSUME NEW t \in Tickets, NEW n, n \in NodesFor(t)
    PROVE  n \in NodesOn[at[t]]
  BY DEF NodesFor, QemuNodes, Placements

(* A VM stands where its node is.                                          *)
LEMMA VmsStandThere ==
    ASSUME PlaceInv, NEW p \in Places, vms[p] # NoVm
    PROVE  vms[p].node \in NodesOn[p[1]]
  BY DEF PlaceInv, PlacedAsRequested, Means, Unplaced

(* A finished VM that a task can configure or start is its own, and no     *)
(* delete of it is under way.                                              *)
LEMMA ReachesOwn ==
    ASSUME PlaceInv, NEW t \in Tickets, Own(t), pc[t] \in {"configure", "start"}, Reached(t),
           Distinct(At(t))
    PROVE  vms[At(t)].ticket = t /\ vms[At(t)].state = "ready"
  <1>1. vms[At(t)].node \in NodesFor(t) /\ kind \in Kinds
    BY DEF Reached, PlaceInv, PlaceTypes
  <1>2. Certain(t)
    BY <1>1, CertainNode DEF Distinct, At
  <1>3. QED
    BY <1>2 DEF Own, Made, Built

(* One that destroy sends away is the one hypervisor_ref was written for.  *)
LEMMA DestroysOwn ==
    ASSUME PlaceInv, VmsNamed, NEW t \in Tickets, Own(t), pc[t] = "destroy",
           NEW p \in Destroyed(t), Distinct(p)
    PROVE  vms[p].ticket = t
  <1>1. /\ p \in Places /\ p = <<Default, ref[t].slot>> /\ vms[p].state \in {"ready", "deleting"}
        /\ kind = "proxmox" => vms[p].node = ref[t].node
    BY DEF Destroyed
  <1>2. ref[t].slot \in Slots /\ Default \in Conns /\ p[1] = Default /\ p[2] = ref[t].slot
    BY <1>1 DEF Places
  <1>3. ref[t] # NoRef /\ ref[t].slot \notin mistaken
    BY <1>2, HypervisorCallsAssumption DEF NoRef, Distinct
  <1>4. vms[p] # NoVm
    BY <1>1 DEF NoVm
  <1>5. CASE kind = "vmware"
    <2>1. /\ ref[t].slot = req[t].name /\ vms[p].ticket \in Tickets
          /\ req[vms[p].ticket].name = ref[t].slot
      BY <1>1, <1>2, <1>3, <1>4, <1>5 DEF Own, Named, VmsNamed
    <2>2. OneAsks(ref[t].slot)
      BY <1>2, <1>5 DEF Distinct, Unmistakable
    <2>3. QED
      BY <2>1, <2>2 DEF OneAsks
  <1>6. CASE kind = "proxmox"
    <2>1. OnlyThere(ref[t].node)
      BY <1>1, <1>2, <1>6 DEF Distinct, Unmistakable
    <2>2. ref[t].node \in NodesOn[Default]
      BY <1>1, <1>2, <1>4, <1>6, VmsStandThere
    <2>3. QED
      BY <1>1, <1>2, <1>3, <1>6, <2>1, <2>2 DEF Own, RefersToOwn
  <1>7. QED
    BY <1>5, <1>6 DEF PlaceInv, PlaceTypes, Kinds

-----------------------------------------------------------------------------
(* What a task does to the VMs.                                            *)
QuietStep(t) == ReserveStep(t) \/ Finalize(t) \/ Compensate(t) \/ Again(t)

LEMMA QuietVms ==
    ASSUME NEW t \in Tickets,
           QuietStep(t) \/ Route(t) \/ Find(t) \/ NextId(t) \/ Await(t)
    PROVE  vms' = vms
  BY DEF QuietStep, ReserveStep, Finalize, Compensate, Again, callVars, Route, RouteProxmox,
         RouteVmware, Find, NextId, Await, Fails

(* No task touches a VM that is being made, or a distinct one of another   *)
(* ticket.                                                                 *)
LEMMA TaskSpares ==
    ASSUME IInv, VmInv, NEW t \in Tickets, TaskStep(t) \/ Again(t), NEW p \in Places,
           \/ vms[p].state = "making"
           \/ vms[p].state \in {"ready", "deleting"} /\ vms[p].ticket # t /\ Distinct(p)
    PROVE  vms'[p] = vms[p]
  <1> USE DEF IInv, VmInv
  <1>0. vms \in [Places -> Vms]
    BY DEF PlaceInv, PlaceTypes
  <1>1. CASE QuietStep(t) \/ Route(t) \/ Find(t) \/ NextId(t) \/ Await(t)
    BY <1>1, QuietVms
  <1>2. CASE Make(t)
    <2>1. vms' = vms \/ (vms[At(t)] = NoVm /\ \E vm : SetVm(At(t), vm))
      BY <1>2 DEF Make, Fails
    <2>2. vms[p] # NoVm
      BY DEF NoVm
    <2>3. QED
      BY <1>0, <2>1, <2>2 DEF SetVm
  <1>3. CASE Configure(t) \/ Start(t)
    <2>1. vms' = vms \/ (Reached(t) /\ \E vm : SetVm(At(t), vm))
      BY <1>3 DEF Configure, Start, Fails
    <2>2. pc[t] \in {"configure", "start"}
      BY <1>3 DEF Configure, Start, Fails, Goto
    <2>3. ~(Reached(t) /\ p = At(t))
      BY <2>2, ReachesOwn DEF Reached
    <2>4. QED
      BY <1>0, <2>1, <2>3 DEF SetVm
  <1>4. CASE DestroyStep(t)
    <2>1. p \notin Destroyed(t)
      <3>1. pc[t] = "destroy"
        BY <1>4 DEF DestroyStep, Destroy, Goto
      <3>2. QED
        BY <3>1, DestroysOwn DEF Destroyed
    <2>2. QED
      BY <1>0, <1>4, <2>1, DestroyEffect DEF DestroyStep, SetVm
  <1>5. QED
    BY <1>1, <1>2, <1>3, <1>4 DEF TaskStep, ProvisionStep, QuietStep

(* A VM that a task begins to make is its own.                             *)
LEMMA TaskMakesOwn ==
    ASSUME IInv, NEW t \in Tickets, TaskStep(t) \/ Again(t), NEW p \in Places,
           vms[p].state # "making", vms'[p].state = "making"
    PROVE  vms'[p].ticket = t
  <1>0. vms \in [Places -> Vms]
    BY DEF IInv, PlaceInv, PlaceTypes
  <1>1. CASE QuietStep(t) \/ Route(t) \/ Find(t) \/ NextId(t) \/ Await(t)
    BY <1>1, QuietVms
  <1>2. CASE Make(t)
    BY <1>0, <1>2 DEF Make, Fails, SetVm
  <1>3. CASE Configure(t) \/ Start(t)
    <2>1. \/ vms' = vms
          \/ Reached(t) /\ \E vm : SetVm(At(t), vm) /\ vm.state = vms[At(t)].state
      <3>1. At(t) \in Places => vms[At(t)] \in Vms
        BY <1>0
      <3>2. CASE Configure(t)
        <4>1. pc[t] \in Slotted
          BY <3>2 DEF Configure, Fails, Goto, Slotted
        <4>2. [vms[At(t)] EXCEPT !.ticket = t, !.addr = held[t]].state = vms[At(t)].state
          BY <3>1, <4>1, SlottedPlaces DEF IInv, Vms
        <4>3. QED
          BY <3>2, <4>2 DEF Configure, Fails
      <3>3. CASE Start(t)
        <4>1. pc[t] \in Slotted
          BY <3>3 DEF Start, Fails, Goto, Slotted
        <4>2. \A power : [vms[At(t)] EXCEPT !.power = power].state = vms[At(t)].state
          BY <3>1, <4>1, SlottedPlaces DEF IInv, Vms
        <4>3. QED
          BY <3>3, <4>2 DEF Start, Fails
      <3>4. QED
        BY <1>3, <3>2, <3>3
    <2>2. QED
      BY <1>0, <2>1 DEF SetVm, Reached
  <1>4. CASE DestroyStep(t)
    <2>1. CASE vms' = vms
      BY <2>1
    <2>2. ASSUME NEW q \in Places, NEW vm \in DestroyOf(vms[q]), SetVm(q, vm)
          PROVE  vms'[p].state # "making"
      <3>1. vms[q] \in Vms
        BY <1>0
      <3>2. vm.state \in {vms[q].state, "deleting", "none"}
        BY <3>1, DestroyTypes DEF NoVm
      <3>3. QED
        BY <1>0, <2>2, <3>2 DEF SetVm
    <2>3. QED
      BY <1>4, <2>1, <2>2, DestroyEffect DEF DestroyStep
  <1>5. QED
    BY <1>1, <1>2, <1>3, <1>4 DEF TaskStep, ProvisionStep, QuietStep

(* A step of one ticket's task leaves what the others know alone.          *)
LEMMA TaskTouchesSelf ==
    ASSUME IInv, NEW t \in Tickets, TaskStep(t) \/ Again(t)
    PROVE  /\ kind' = kind /\ req' = req
           /\ \A u \in Tickets : u # t =>
                /\ pc'[u] = pc[u] /\ held'[u] = held[u]
                /\ at'[u] = at[u] /\ slot'[u] = slot[u]
                /\ task'[u] = task[u] /\ ref'[u] = ref[u]
  <1> USE DEF IInv
  <1>1. /\ pc \in [Tickets -> Steps] /\ held \in [Tickets -> Addrs \cup {NoAddr}]
        /\ at \in [Tickets -> Conns] /\ slot \in [Tickets -> Slots \cup {NoSlot}]
        /\ task \in [Tickets -> {"none", "running", "ok", "failed"}]
        /\ ref \in [Tickets -> [node : Nodes \cup {NoNode}, slot : Slots \cup {NoSlot}]]
    BY DEF AddrInv, PlaceInv, PlaceTypes
  <1>2. CASE ReserveStep(t)
    <2>1. \A u \in Tickets : u # t => held'[u] = held[u]
      BY <1>2, ReserveIsPoolStep, PoolKeepsOwners
    <2>2. \A u \in Tickets : u # t => pc'[u] = pc[u]
      BY <1>1, <1>2, ReserveMoves DEF Goto
    <2>3. QED
      BY <1>2, <2>1, <2>2 DEF ReserveStep, callVars, placeVars
  <1>3. CASE Compensate(t)
    <2>1. \A u \in Tickets : u # t => held'[u] = held[u]
      BY <1>3, ReleaseIsPoolStep, PoolKeepsOwners DEF Compensate
    <2>2. QED
      BY <1>1, <1>3, <2>1 DEF Compensate, Forget, Goto, Slot
  <1>4. CASE ProvisionStep(t)
    <2>1. held' = held
      BY <1>4 DEF ProvisionStep, addressVars
    <2>2. \A u \in Tickets : u # t => pc'[u] = pc[u]
      BY <1>1, <1>4, ProvisionMoves DEF Goto
    <2>3. CASE Route(t)
      BY <1>1, <2>1, <2>2, <2>3 DEF Route, RouteProxmox, RouteVmware, HandTo
    <2>4. CASE Find(t)
      BY <1>1, <2>1, <2>2, <2>4 DEF Find, Fails, Provisioned, Slot
    <2>5. CASE NextId(t)
      BY <1>1, <2>1, <2>2, <2>5 DEF NextId, Fails, Slot
    <2>6. CASE Make(t)
      BY <1>1, <2>1, <2>2, <2>6 DEF Make, Fails
    <2>7. CASE Await(t)
      BY <1>1, <2>1, <2>2, <2>7 DEF Await, Fails, Provisioned
    <2>8. CASE Configure(t)
      BY <1>1, <2>1, <2>2, <2>8 DEF Configure, Fails
    <2>9. CASE Start(t)
      BY <1>1, <2>1, <2>2, <2>9 DEF Start, Fails, Provisioned
    <2>10. QED
      BY <1>4, <2>3, <2>4, <2>5, <2>6, <2>7, <2>8, <2>9 DEF ProvisionStep
  <1>5. CASE Finalize(t) \/ Again(t)
    BY <1>1, <1>5 DEF Finalize, Again, Goto, addressVars, callVars, placeVars
  <1>6. CASE DestroyStep(t)
    BY <1>1, <1>6 DEF DestroyStep, Destroy, Goto, addressVars, placeVars
  <1>7. QED
    BY <1>2, <1>3, <1>4, <1>5, <1>6 DEF TaskStep

(* A ticket keeps what it knows of its VMs when its own variables and its  *)
(* VMs stay as they are.                                                   *)
LEMMA OwnFrame ==
    ASSUME PlaceInv, VmsNamed, NEW u \in Tickets, Own(u),
           kind' = kind, req' = req, pc'[u] = pc[u], held'[u] = held[u], at'[u] = at[u],
           slot'[u] = slot[u], task'[u] = task[u], ref'[u] = ref[u],
           mistaken \subseteq mistaken',
           \A p \in Places :
               vms[p].state = "ready" /\ vms[p].ticket = u /\ Distinct(p) => vms'[p] = vms[p],
           pc[u] = "wait" => \/ vms'[At(u)] = vms[At(u)]
                             \/ task[u] # "running" /\ vms'[At(u)].state # "making"
                             \/ task[u] # "running" /\ vms'[At(u)].ticket # u
    PROVE  Own(u)'
  <1>1. At(u)' = At(u) /\ NodesFor(u)' = NodesFor(u) /\ (Certain(u)' => Certain(u))
    BY StaysCertain DEF At, NodesFor, QemuNodes, Placements
  <1>2. \A n : OnlyThere(n)' = OnlyThere(n)
    BY DEF OnlyThere
  <1>3. kind \in Kinds /\ at[u] \in Conns
    BY DEF PlaceInv, PlaceTypes
  <1>4. Named(u)' /\ Fresh(u)'
    BY DEF Own, Named, Fresh
  <1>5. BeingMade(u)'
    BY <1>1 DEF Own, BeingMade
  <1>6. Made(u)'
    <2> SUFFICES ASSUME (pc[u] = "wait" /\ task[u] = "ok") \/ pc[u] \in {"configure", "start"},
                        Certain(u)
                 PROVE  /\ Built(u, At(u))'
                        /\ kind = "vmware" \/ pc[u] = "start" => vms'[At(u)].addr = held[u]
      BY <1>1 DEF Made
    <2>1. /\ Built(u, At(u))
          /\ kind = "vmware" \/ pc[u] = "start" => vms[At(u)].addr = held[u]
      BY DEF Own, Made
    <2>2. Distinct(At(u))
      BY <1>3, <2>1, CertainNode DEF Built, Distinct, At
    <2>3. At(u) \in Places
      BY SlottedPlaces DEF Slotted
    <2>4. vms'[At(u)] = vms[At(u)]
      BY <2>1, <2>2, <2>3 DEF Built
    <2>5. QED
      BY <1>1, <2>1, <2>4 DEF Built
  <1>7. RefersToOwn(u)'
    <2> SUFFICES ASSUME pc[u] # "failed", ref[u] # NoRef, kind = "proxmox",
                        OnlyThere(ref[u].node), ref[u].slot \notin mistaken, NEW c \in Conns,
                        ref[u].node \in NodesOn[c], ref[u].slot \in Slots
                 PROVE  vms'[<<c, ref[u].slot>>] = vms[<<c, ref[u].slot>>]
                        /\ LET vm == vms[<<c, ref[u].slot>>]
                           IN  vm.state = "ready" /\ vm.ticket = u /\ vm.node = ref[u].node
      BY <1>2 DEF RefersToOwn
    <2>1. LET vm == vms[<<c, ref[u].slot>>]
          IN  vm.state = "ready" /\ vm.ticket = u /\ vm.node = ref[u].node
      BY DEF Own, RefersToOwn
    <2>2. <<c, ref[u].slot>> \in Places /\ Distinct(<<c, ref[u].slot>>)
      BY <2>1 DEF Places, Distinct, Unmistakable
    <2>3. QED
      BY <2>1, <2>2
  <1>8. Ready(u)'
    <2>0. Unmistakable(at[u], ref[u].node, ref[u].slot)'
             <=> Unmistakable(at[u], ref[u].node, ref[u].slot)
      BY DEF Unmistakable, OneAsks, OnlyThere
    <2> SUFFICES ASSUME pc[u] \in {"finalize", "done"}, ref[u].slot \notin mistaken,
                        Unmistakable(at[u], ref[u].node, ref[u].slot)
                 PROVE  vms'[<<at[u], ref[u].slot>>] = vms[<<at[u], ref[u].slot>>]
      BY <2>0 DEF Own, Ready, Delivered
    <2>1. ref[u].slot \in Slots /\ Delivered(u)
      BY DEF Own, Ready
    <2>2. <<at[u], ref[u].slot>> \in Places
      BY <1>3, <2>1 DEF Places
    <2>3. Distinct(<<at[u], ref[u].slot>>)
      BY <1>3, <2>1 DEF Distinct, Unmistakable, Delivered, Kinds
    <2>4. QED
      BY <2>1, <2>2, <2>3 DEF Delivered
  <1>9. QED
    BY <1>4, <1>5, <1>6, <1>7, <1>8 DEF Own

LEMMA TaskKeepsOthers ==
    ASSUME IInv, VmInv, NEW t \in Tickets, TaskStep(t) \/ Again(t), NEW u \in Tickets, u # t,
           mistaken \subseteq mistaken'
    PROVE  Own(u)'
  <1>1. /\ kind' = kind /\ req' = req
        /\ pc'[u] = pc[u] /\ held'[u] = held[u] /\ at'[u] = at[u] /\ slot'[u] = slot[u]
        /\ task'[u] = task[u] /\ ref'[u] = ref[u]
    BY TaskTouchesSelf
  <1>2. \A p \in Places :
            vms[p].state = "ready" /\ vms[p].ticket = u /\ Distinct(p) => vms'[p] = vms[p]
    BY TaskSpares
  <1>3. pc[u] = "wait" => \/ vms'[At(u)] = vms[At(u)]
                          \/ task[u] # "running" /\ vms'[At(u)].state # "making"
                          \/ task[u] # "running" /\ vms'[At(u)].ticket # u
    <2> SUFFICES ASSUME pc[u] = "wait", vms'[At(u)] # vms[At(u)]
                 PROVE  /\ task[u] # "running"
                        /\ vms'[At(u)].state # "making" \/ vms'[At(u)].ticket # u
      OBVIOUS
    <2>1. At(u) \in Places
      BY SlottedPlaces DEF IInv, Slotted
    <2>2. vms[At(u)].state # "making"
      BY <2>1, TaskSpares
    <2>3. task[u] # "running"
      BY <2>2 DEF VmInv, Own, BeingMade
    <2>4. vms'[At(u)].state # "making" \/ vms'[At(u)].ticket # u
      BY <2>1, <2>2, TaskMakesOwn
    <2>5. QED
      BY <2>3, <2>4
  <1>4. QED
    BY <1>1, <1>2, <1>3, OwnFrame DEF IInv, VmInv

-----------------------------------------------------------------------------
(* What is left to show of a task that gets no further than to its next    *)
(* request, or gives up.                                                   *)
LEMMA OwnPreparing ==
    ASSUME NEW t \in Tickets, pc'[t] \in Preparing \cup {"undo"}, ref'[t] = NoRef,
           pc'[t] \notin {"make", "undo"} => slot'[t] = NoSlot,
           req' = req,
           kind' = "vmware" => pc'[t] # "nextid" /\ slot'[t] \in {NoSlot, req[t].name}
    PROVE  Own(t)'
  <1>1. Named(t)' /\ Fresh(t)'
    BY DEF Named, Fresh, Preparing, Slotted
  <1>2. BeingMade(t)' /\ Made(t)' /\ Ready(t)'
    BY DEF BeingMade, Made, Ready, Preparing
  <1>3. RefersToOwn(t)'
    BY DEF RefersToOwn
  <1>4. QED
    BY <1>1, <1>2, <1>3 DEF Own

LEMMA FailsKeepsOwn ==
    ASSUME IInv, NEW t \in Tickets, Own(t), NEW from \in Preparing \cup Slotted, Fails(t, from),
           kind' = kind, req' = req
    PROVE  Own(t)'
  <1>1. pc[t] = from /\ pc'[t] = "undo" /\ ref' = ref /\ slot' = slot
    BY DEF Fails, Goto, IInv, AddrInv
  <1>2. ref[t] = NoRef
    BY <1>1 DEF Own, Fresh
  <1>3. QED
    BY <1>1, <1>2, OwnPreparing DEF Own, Named

LEMMA ReserveKeepsOwn ==
    ASSUME IInv, NEW t \in Tickets, Own(t), ReserveStep(t)
    PROVE  Own(t)'
  <1>1. PICK from \in {"allocate", "list", "create"},
             to \in {"allocate", "list", "create", "route", "undo"} : Goto(t, from, to)
    BY ReserveMoves
  <1>2. pc[t] = from /\ pc'[t] = to
    BY <1>1 DEF Goto, IInv, AddrInv
  <1>3. ref[t] = NoRef /\ slot[t] = NoSlot
    BY <1>2 DEF Own, Fresh, Preparing
  <1>4. ref' = ref /\ slot' = slot /\ req' = req
    BY DEF ReserveStep, callVars, placeVars
  <1>5. QED
    BY <1>2, <1>3, <1>4, OwnPreparing DEF Preparing

LEMMA RouteKeepsOwn ==
    ASSUME IInv, NEW t \in Tickets, Own(t), Route(t)
    PROVE  Own(t)'
  <1>1. PICK to \in {"route", "find", "undo"} : Goto(t, "route", to)
    BY DEF Route, RouteProxmox, RouteVmware, HandTo
  <1>2. pc[t] = "route" /\ pc'[t] = to
    BY <1>1 DEF Goto, IInv, AddrInv
  <1>3. ref[t] = NoRef /\ slot[t] = NoSlot
    BY <1>2 DEF Own, Fresh, Preparing
  <1>4. ref' = ref /\ slot' = slot /\ req' = req
    BY DEF Route, RouteProxmox, RouteVmware
  <1>5. QED
    BY <1>2, <1>3, <1>4, OwnPreparing DEF Preparing

(* A failed ticket starts over with nothing.                               *)
LEMMA AgainKeepsOwn ==
    ASSUME IInv, NEW t \in Tickets, Own(t), Again(t)
    PROVE  Own(t)'
  <1>1. PICK to \in {"list", "allocate"} : Goto(t, "failed", to)
    BY DEF Again
  <1>2. pc[t] = "failed" /\ pc'[t] = to
    BY <1>1 DEF Goto, IInv, AddrInv
  <1>3. slot' = slot /\ slot[t] = NoSlot /\ req' = req
    BY <1>2 DEF Again, Own, Fresh
  <1>4. ref'[t] = NoRef
    BY DEF Again, IInv, PlaceInv, PlaceTypes
  <1>5. QED
    BY <1>2, <1>3, <1>4, OwnPreparing DEF Preparing

(* finalize fails or the job is done: the VM stays where it is.            *)
LEMMA FinalizeKeepsOwn ==
    ASSUME IInv, NEW t \in Tickets, Own(t), Finalize(t),
           mistaken \subseteq mistaken'
    PROVE  Own(t)'
  <1>1. PICK to \in {"done", "undo"} : Goto(t, "finalize", to)
    BY DEF Finalize
  <1>2. pc[t] = "finalize" /\ pc'[t] = to
    BY <1>1 DEF Goto, IInv, AddrInv
  <1>3. UNCHANGED <<kind, req, vms, at, slot, task, ref, held>>
    BY DEF Finalize, callVars, placeVars, addressVars
  <1>4. /\ \A n : OnlyThere(n)' = OnlyThere(n)
        /\ Unmistakable(at[t], ref[t].node, ref[t].slot)'
              => Unmistakable(at[t], ref[t].node, ref[t].slot)
    BY <1>3 DEF Unmistakable, OneAsks, OnlyThere
  <1>5. Named(t)' /\ Fresh(t)'
    BY <1>2, <1>3 DEF Own, Named, Fresh, Preparing, Slotted
  <1>6. BeingMade(t)' /\ Made(t)'
    BY <1>2 DEF BeingMade, Made
  <1>7. RefersToOwn(t)'
    BY <1>2, <1>3, <1>4 DEF Own, RefersToOwn
  <1>8. Ready(t)'
    BY <1>2, <1>3, <1>4 DEF Own, Ready, Delivered
  <1>9. QED
    BY <1>5, <1>6, <1>7, <1>8 DEF Own

(* The address goes back, and what provision returned stays.               *)
LEMMA CompensateKeepsOwn ==
    ASSUME IInv, NEW t \in Tickets, Own(t), Compensate(t),
           mistaken \subseteq mistaken'
    PROVE  Own(t)'
  <1>1. PICK to \in {"destroy", "failed"} : Goto(t, "undo", to)
    BY DEF Compensate
  <1>2. pc[t] = "undo" /\ pc'[t] = to
    BY <1>1 DEF Goto, IInv, AddrInv
  <1>3. UNCHANGED <<kind, req, vms, ref>> /\ slot'[t] = NoSlot
    BY DEF Compensate, Forget, Slot, IInv, PlaceInv, PlaceTypes
  <1>4. \A n : OnlyThere(n)' = OnlyThere(n)
    BY DEF OnlyThere
  <1>5. Named(t)' /\ Fresh(t)'
    BY <1>2, <1>3 DEF Own, Named, Fresh, Preparing, Slotted
  <1>6. BeingMade(t)' /\ Made(t)' /\ Ready(t)'
    BY <1>2 DEF BeingMade, Made, Ready
  <1>7. RefersToOwn(t)'
    BY <1>2, <1>3, <1>4 DEF Own, RefersToOwn
  <1>8. QED
    BY <1>5, <1>6, <1>7 DEF Own

LEMMA DestroyKeepsOwn ==
    ASSUME IInv, NEW t \in Tickets, Own(t), Destroy(t),
           mistaken \subseteq mistaken'
    PROVE  Own(t)'
  <1>1. pc[t] = "destroy" /\ pc'[t] = "failed"
    BY DEF Destroy, Goto, IInv, AddrInv
  <1>2. UNCHANGED <<kind, req, slot, ref>>
    BY DEF Destroy, placeVars
  <1>3. Named(t)' /\ Fresh(t)'
    BY <1>1, <1>2 DEF Own, Named, Fresh, Preparing, Slotted
  <1>4. BeingMade(t)' /\ Made(t)' /\ Ready(t)' /\ RefersToOwn(t)'
    BY <1>1 DEF BeingMade, Made, Ready, RefersToOwn
  <1>5. QED
    BY <1>3, <1>4 DEF Own

-----------------------------------------------------------------------------
(* What is left to show of a step of provision that returns the VM at p.   *)
LEMMA OwnProvisioned ==
    ASSUME IInv, NEW t \in Tickets, NEW from, Goto(t, from, "finalize"),
           NEW p \in Places, p[1] = at[t], Provisioned(t, p),
           UNCHANGED <<kind, req, at, held>>,
           kind = "proxmox" => vms'[p].node = vms[p].node /\ vms'[p].node \in NodesOn[at[t]],
           kind = "vmware" =>
               p[2] \in {req[t].name} \cup mistaken' /\ slot[t] \in {NoSlot, req[t].name},
           p[2] \notin mistaken' /\ Unmistakable(at[t], vms[p].node, p[2]) =>
               /\ vms'[p].state = "ready" /\ vms'[p].ticket = t
               /\ slot[t] # NoSlot => /\ vms'[p].addr = held[t]
                                      /\ kind = "proxmox" => vms'[p].power = "on"
    PROVE  Own(t)'
  <1>1. pc'[t] = "finalize" /\ slot' = slot /\ ref'[t] = RefTo(p)
    BY DEF Goto, Provisioned, IInv, AddrInv, PlaceInv, PlaceTypes
  <1>2. p = <<at[t], p[2]>> /\ p[2] \in Slots /\ at[t] \in Conns
    BY DEF Places
  <1>3. ref'[t].slot = p[2] /\ (kind = "proxmox" => ref'[t].node = vms'[p].node)
    BY <1>1 DEF RefTo
  <1>4. \A n : OnlyThere(n)' = OnlyThere(n)
    BY DEF OnlyThere
  <1>5. kind \in Kinds
    BY DEF IInv, PlaceInv, PlaceTypes
  <1>6. Named(t)' /\ Fresh(t)'
    BY <1>1, <1>3 DEF Named, Fresh, Preparing, Slotted
  <1>7. BeingMade(t)' /\ Made(t)'
    BY <1>1 DEF BeingMade, Made
  <1>8. RefersToOwn(t)'
    <2> SUFFICES ASSUME kind = "proxmox", OnlyThere(ref'[t].node), p[2] \notin mistaken',
                        NEW c \in Conns, ref'[t].node \in NodesOn[c]
                 PROVE  LET vm == vms'[<<c, p[2]>>]
                        IN  vm.state = "ready" /\ vm.ticket = t /\ vm.node = ref'[t].node
      BY <1>3, <1>4 DEF RefersToOwn
    <2>1. c = at[t]
      BY <1>2, <1>3 DEF OnlyThere
    <2>2. Unmistakable(at[t], vms[p].node, p[2])
      BY <1>3 DEF Unmistakable
    <2>3. QED
      BY <1>2, <1>3, <2>1, <2>2
  <1>9. Ready(t)'
    <2>1. <<at'[t], ref'[t].slot>> = p
      BY <1>2, <1>3
    <2>2. ASSUME p[2] \notin mistaken', Unmistakable(at[t], ref[t].node, ref[t].slot)'
          PROVE  Delivered(t)'
      <3>1. Unmistakable(at[t], vms[p].node, p[2])
        BY <1>3, <1>5, <2>2 DEF Unmistakable, OneAsks, OnlyThere, Kinds
      <3>2. QED
        BY <1>1, <1>3, <1>5, <2>1, <2>2, <3>1 DEF Delivered, Kinds
    <2>3. QED
      BY <1>1, <1>2, <1>3, <1>4, <2>2 DEF Ready
  <1>10. QED
    BY <1>6, <1>7, <1>8, <1>9 DEF Own

(* A search takes another ticket's VM, or one that was sent away, for the  *)
(* ticket's only where it is called mistaken.                              *)
LEMMA HitsOwn ==
    ASSUME IInv, VmsNamed, NEW t \in Tickets, NEW p \in Hits(t)
    PROVE  /\ p \in Places /\ p = <<at[t], p[2]>> /\ p[2] \in Slots
           /\ vms[p].state \in {"ready", "deleting"} /\ vms[p].node \in NodesOn[at[t]]
           /\ kind = "vmware" /\ vms[p].ticket = t => p[2] = req[t].name
  <1>1. /\ p \in Places /\ p = <<at[t], p[2]>> /\ p[2] \in Slots
        /\ vms[p].state \in {"ready", "deleting"}
    BY DEF Hits, Places, IInv, PlaceInv, PlaceTypes
  <1>2. vms[p] # NoVm
    BY <1>1 DEF NoVm
  <1>3. vms[p].node \in NodesOn[p[1]]
    BY <1>1, <1>2, VmsStandThere DEF IInv
  <1>4. kind = "vmware" /\ vms[p].ticket = t => p[2] = req[t].name
    BY <1>1, <1>2 DEF VmsNamed
  <1>5. QED
    BY <1>1, <1>3, <1>4

LEMMA FindKeepsOwn ==
    ASSUME IInv, VmsNamed, NEW t \in Tickets, Own(t), Find(t), held' = held, Watch
    PROVE  Own(t)'
  <1>1. pc[t] = "find" /\ UNCHANGED <<kind, req, at, vms>>
    BY DEF Find, Fails, Goto
  <1>2. slot[t] = NoSlot /\ ref[t] = NoRef
    BY <1>1 DEF Own, Fresh, Preparing
  <1>3. ASSUME NEW p \in Hits(t), Goto(t, "find", "finalize"), Provisioned(t, p)
        PROVE  Own(t)'
    <2>1. /\ p \in Places /\ p = <<at[t], p[2]>> /\ p[2] \in Slots
          /\ vms[p].state \in {"ready", "deleting"} /\ vms[p].node \in NodesOn[at[t]]
          /\ kind = "vmware" /\ vms[p].ticket = t => p[2] = req[t].name
      BY HitsOwn
    <2>2. pc'[t] = "finalize" /\ ref'[t].slot = p[2]
      BY <1>3 DEF Goto, Provisioned, RefTo, IInv, AddrInv, PlaceInv, PlaceTypes
    <2>3. p[2] \in mistaken' \/ (vms[p].ticket = t /\ vms[p].state = "ready")
      BY <1>1, <2>1, <2>2 DEF Watch
    <2>4. p[1] = at[t]
      BY <2>1
    <2>5. QED
      BY <1>1, <1>2, <1>3, <2>1, <2>3, <2>4, OwnProvisioned
  <1>4. CASE /\ Goto(t, "find", IF kind = "proxmox" THEN "nextid" ELSE "make")
             /\ Slot(t, IF kind = "proxmox" THEN NoSlot ELSE req[t].name)
             /\ ref' = ref
    <2>1. /\ pc'[t] = IF kind = "proxmox" THEN "nextid" ELSE "make"
          /\ slot'[t] = IF kind = "proxmox" THEN NoSlot ELSE req[t].name
      BY <1>4 DEF Goto, Slot, IInv, AddrInv, PlaceInv, PlaceTypes
    <2>2. QED
      BY <1>1, <1>2, <1>4, <2>1, OwnPreparing DEF Preparing
  <1>5. CASE Fails(t, "find")
    BY <1>1, <1>5, FailsKeepsOwn DEF Preparing
  <1>6. QED
    BY <1>3, <1>4, <1>5 DEF Find

LEMMA NextIdKeepsOwn ==
    ASSUME IInv, NEW t \in Tickets, Own(t), NextId(t)
    PROVE  Own(t)'
  <1>1. pc[t] = "nextid" /\ UNCHANGED <<kind, req>>
    BY DEF NextId, Fails, Goto
  <1>2. ref[t] = NoRef /\ kind # "vmware"
    BY <1>1 DEF Own, Fresh, Named, Preparing
  <1>3. CASE Fails(t, "nextid")
    BY <1>1, <1>3, FailsKeepsOwn DEF Preparing
  <1>4. CASE Goto(t, "nextid", "make") /\ ref' = ref
    <2>1. pc'[t] = "make"
      BY <1>4 DEF Goto, IInv, AddrInv
    <2>2. QED
      BY <1>1, <1>2, <1>4, <2>1, OwnPreparing DEF Preparing
  <1>5. QED
    BY <1>3, <1>4 DEF NextId

LEMMA MakeKeepsOwn ==
    ASSUME IInv, NEW t \in Tickets, Own(t), Make(t), held' = held
    PROVE  Own(t)'
  <1>1. pc[t] = "make" /\ UNCHANGED <<kind, req, at>>
    BY DEF Make, Fails, Goto
  <1>2. ref[t] = NoRef /\ Named(t)
    BY <1>1 DEF Own, Fresh, Preparing
  <1>3. CASE Fails(t, "make")
    BY <1>1, <1>3, FailsKeepsOwn DEF Preparing
  <1>4. ASSUME NEW n \in NodesFor(t), NEW to \in {"wait", "undo"}, Goto(t, "make", to),
               SetVm(At(t), [ticket |-> t, node |-> n, power |-> "off", state |-> "making",
                             addr |-> IF kind = "vmware" THEN held[t] ELSE NoAddr]),
               task' = [task EXCEPT ![t] = "running"], UNCHANGED <<slot, ref>>
        PROVE  Own(t)'
    <2>1. pc'[t] = to /\ task'[t] = "running"
      BY <1>4 DEF Goto, IInv, AddrInv, PlaceInv, PlaceTypes
    <2>2. CASE to = "undo"
      BY <1>1, <1>2, <1>4, <2>1, <2>2, OwnPreparing DEF Named
    <2>3. CASE to = "wait"
      <3>1. At(t)' = At(t) /\ NodesFor(t)' = NodesFor(t)
        BY <1>1, <1>4 DEF At, NodesFor, QemuNodes, Placements
      <3>2. At(t) \in Places
        BY <1>1, SlottedPlaces DEF IInv, Slotted
      <3>3. vms'[At(t)] = [ticket |-> t, node |-> n, power |-> "off", state |-> "making",
                           addr |-> IF kind = "vmware" THEN held[t] ELSE NoAddr]
        BY <1>4, <3>2 DEF SetVm, IInv, PlaceInv, PlaceTypes
      <3>4. BeingMade(t)'
        BY <1>1, <2>1, <3>1, <3>3 DEF BeingMade
      <3>5. Named(t)' /\ Fresh(t)'
        BY <1>1, <1>2, <1>4, <2>1, <2>3 DEF Named, Fresh, Preparing
      <3>6. Made(t)' /\ RefersToOwn(t)' /\ Ready(t)'
        BY <1>2, <1>4, <2>1, <2>3 DEF Made, RefersToOwn, Ready
      <3>7. QED
        BY <3>4, <3>5, <3>6 DEF Own
    <2>4. QED
      BY <2>2, <2>3
  <1>5. QED
    BY <1>3, <1>4 DEF Make

(* What is left to show of a step that goes on with the VM it made.        *)
LEMMA OwnGoesOn ==
    ASSUME IInv, NEW t \in Tickets, Own(t), NEW from \in Slotted, NEW to \in {"configure", "start"},
           Goto(t, from, to), UNCHANGED <<kind, req, at, slot, ref>>, mistaken \subseteq mistaken',
           Certain(t) =>
               /\ vms'[At(t)].state = "ready" /\ vms'[At(t)].ticket = t
               /\ vms'[At(t)].node \in NodesFor(t)
               /\ kind = "vmware" \/ to = "start" => vms'[At(t)].addr = held'[t]
    PROVE  Own(t)'
  <1>1. pc[t] = from /\ pc'[t] = to
    BY DEF Goto, IInv, AddrInv
  <1>2. At(t)' = At(t) /\ NodesFor(t)' = NodesFor(t) /\ (Certain(t)' => Certain(t))
    BY StaysCertain DEF At, NodesFor, QemuNodes, Placements
  <1>3. ref[t] = NoRef
    BY <1>1 DEF Own, Fresh
  <1>4. Named(t)' /\ Fresh(t)'
    BY <1>1, <1>3 DEF Own, Named, Fresh, Preparing
  <1>5. Made(t)'
    BY <1>1, <1>2 DEF Made, Built
  <1>6. BeingMade(t)' /\ RefersToOwn(t)' /\ Ready(t)'
    BY <1>1, <1>3 DEF BeingMade, RefersToOwn, Ready
  <1>7. QED
    BY <1>4, <1>5, <1>6 DEF Own

LEMMA AwaitKeepsOwn ==
    ASSUME IInv, NEW t \in Tickets, Own(t), Await(t), held' = held,
           mistaken \subseteq mistaken'
    PROVE  Own(t)'
  <1>1. pc[t] = "wait" /\ UNCHANGED <<kind, req, at, vms>>
    BY DEF Await, Fails, Goto
  <1>2. At(t) \in Places /\ slot[t] \in Slots /\ slot[t] # NoSlot
    BY <1>1, SlottedPlaces, HypervisorCallsAssumption DEF IInv, Slotted
  <1>3. kind = "vmware" => slot[t] = req[t].name
    BY <1>2 DEF Own, Named
  <1>4. CASE Fails(t, "wait")
    BY <1>1, <1>4, FailsKeepsOwn DEF Slotted
  <1>5. CASE /\ Goto(t, "wait", IF kind = "proxmox" THEN "configure" ELSE "start")
             /\ task[t] = "ok" /\ UNCHANGED <<slot, ref>>
    <2> DEFINE to == IF kind = "proxmox" THEN "configure" ELSE "start"
    <2>1. to \in {"configure", "start"} /\ (to = "start" => kind = "vmware")
      BY DEF IInv, PlaceInv, PlaceTypes, Kinds
    <2>2. Certain(t) => Built(t, At(t)) /\ (kind = "vmware" => vms[At(t)].addr = held[t])
      BY <1>1, <1>5 DEF Own, Made
    <2>3. "wait" \in Slotted
      BY DEF Slotted
    <2>4. Goto(t, "wait", to)
      BY <1>5
    <2> HIDE DEF to
    <2>5. QED
      BY <1>1, <1>5, <2>1, <2>2, <2>3, <2>4, OwnGoesOn DEF Built
  <1>6. CASE /\ Goto(t, "wait", "finalize") /\ task[t] = "ok" /\ kind = "vmware"
             /\ Provisioned(t, At(t))
    <2>1. At(t)[1] = at[t] /\ At(t)[2] = slot[t]
      BY DEF At
    <2>2. ASSUME slot[t] \notin mistaken', Unmistakable(at[t], vms[At(t)].node, slot[t])
          PROVE  /\ vms[At(t)].state = "ready" /\ vms[At(t)].ticket = t
                 /\ vms[At(t)].addr = held[t]
      <3>1. Certain(t)
        BY <1>6, <2>2 DEF Certain, Unmistakable
      <3>2. QED
        BY <1>1, <1>6, <3>1 DEF Own, Made, Built
    <2>3. kind # "proxmox"
      BY <1>6
    <2>4. QED
      BY <1>1, <1>2, <1>3, <1>6, <2>1, <2>2, <2>3, OwnProvisioned
  <1>7. QED
    BY <1>4, <1>5, <1>6 DEF Await

LEMMA ConfigureKeepsOwn ==
    ASSUME IInv, NEW t \in Tickets, Own(t), Configure(t), held' = held,
           mistaken \subseteq mistaken'
    PROVE  Own(t)'
  <1>1. pc[t] = "configure" /\ UNCHANGED <<kind, req, at>>
    BY DEF Configure, Fails, Goto
  <1>2. At(t) \in Places /\ vms[At(t)] \in Vms
    BY <1>1, SlottedPlaces DEF IInv, Slotted, PlaceInv, PlaceTypes
  <1>3. CASE Fails(t, "configure")
    BY <1>1, <1>3, FailsKeepsOwn DEF Slotted
  <1>4. ASSUME NEW to \in {"start", "undo"}, Goto(t, "configure", to), Reached(t),
               SetVm(At(t), [vms[At(t)] EXCEPT !.ticket = t, !.addr = held[t]]),
               UNCHANGED <<slot, ref>>
        PROVE  Own(t)'
    <2>1. pc'[t] = to /\ ref[t] = NoRef
      BY <1>1, <1>4 DEF Goto, IInv, AddrInv, Own, Fresh, Slotted
    <2>2. CASE to = "undo"
      BY <1>1, <1>4, <2>1, <2>2, OwnPreparing DEF Own, Named
    <2>3. CASE to = "start"
      <3>1. Certain(t) => vms[At(t)].state = "ready"
        BY <1>1 DEF Own, Made, Built
      <3>2. vms'[At(t)] = [vms[At(t)] EXCEPT !.ticket = t, !.addr = held[t]]
        BY <1>2, <1>4 DEF SetVm, IInv, PlaceInv, PlaceTypes
      <3>3. /\ vms'[At(t)].state = vms[At(t)].state /\ vms'[At(t)].ticket = t
            /\ vms'[At(t)].node \in NodesFor(t) /\ vms'[At(t)].addr = held[t]
        BY <1>2, <1>4, <3>2 DEF Reached, Vms
      <3>4. "configure" \in Slotted
        BY DEF Slotted
      <3>5. QED
        BY <1>1, <1>4, <2>3, <3>1, <3>3, <3>4, OwnGoesOn
    <2>4. QED
      BY <2>2, <2>3
  <1>5. QED
    BY <1>3, <1>4 DEF Configure

LEMMA StartKeepsOwn ==
    ASSUME IInv, NEW t \in Tickets, Own(t), Start(t), held' = held,
           mistaken \subseteq mistaken'
    PROVE  Own(t)'
  <1>1. pc[t] = "start" /\ UNCHANGED <<kind, req, at>>
    BY DEF Start, Fails, Goto
  <1>2. At(t) \in Places /\ vms[At(t)] \in Vms /\ slot[t] \in Slots /\ slot[t] # NoSlot
    BY <1>1, SlottedPlaces, HypervisorCallsAssumption DEF IInv, Slotted, PlaceInv, PlaceTypes
  <1>3. CASE Fails(t, "start")
    BY <1>1, <1>3, FailsKeepsOwn DEF Slotted
  <1>4. CASE Goto(t, "start", "undo") /\ UNCHANGED <<slot, ref>>
    <2>1. pc'[t] = "undo" /\ ref[t] = NoRef
      BY <1>1, <1>4 DEF Goto, IInv, AddrInv, Own, Fresh, Slotted
    <2>2. QED
      BY <1>1, <1>4, <2>1, OwnPreparing DEF Own, Named
  <1>5. ASSUME NEW power \in {"off", "on"}, power = "off" => kind = "vmware",
               Goto(t, "start", "finalize"), Reached(t),
               SetVm(At(t), [vms[At(t)] EXCEPT !.power = power]), Provisioned(t, At(t))
        PROVE  Own(t)'
    <2>1. vms'[At(t)] = [vms[At(t)] EXCEPT !.power = power]
      BY <1>2, <1>5 DEF SetVm, IInv, PlaceInv, PlaceTypes
    <2>2. /\ vms'[At(t)].state = vms[At(t)].state /\ vms'[At(t)].ticket = vms[At(t)].ticket
          /\ vms'[At(t)].node = vms[At(t)].node /\ vms'[At(t)].addr = vms[At(t)].addr
          /\ vms'[At(t)].power = power
      BY <1>2, <1>5, <2>1 DEF Reached, Vms
    <2>3. vms[At(t)].node \in NodesOn[at[t]] /\ At(t)[1] = at[t] /\ At(t)[2] = slot[t]
      BY <1>5, NodesForHere DEF Reached, At
    <2>4. kind = "vmware" => slot[t] = req[t].name
      BY <1>2 DEF Own, Named
    <2>5. ASSUME slot[t] \notin mistaken', Unmistakable(at[t], vms[At(t)].node, slot[t])
          PROVE  /\ vms'[At(t)].state = "ready" /\ vms'[At(t)].ticket = t
                 /\ vms'[At(t)].addr = held[t]
                 /\ kind = "proxmox" => vms'[At(t)].power = "on"
      <3>1. Certain(t)
        BY <1>5, <2>5, CertainNode DEF Reached, IInv, PlaceInv, PlaceTypes
      <3>2. Built(t, At(t)) /\ vms[At(t)].addr = held[t]
        BY <1>1, <3>1 DEF Own, Made
      <3>3. QED
        BY <1>5, <2>2, <3>2 DEF Built
    <2>6. QED
      BY <1>1, <1>2, <1>5, <2>2, <2>3, <2>4, <2>5, OwnProvisioned
  <1>6. QED
    BY <1>3, <1>4, <1>5 DEF Start

(* The hypervisor finishes or drops a VM, and tells the task that waits    *)
(* for it.                                                                 *)
LEMMA MakeEndsKeepsOwn ==
    ASSUME IInv, VmInv, NEW p \in Places, TaskEnds(p), MakeEnds(p), NEW u \in Tickets,
           mistaken \subseteq mistaken'
    PROVE  Own(u)'
  <1>1. UNCHANGED <<pc, held, kind, req, at, slot, ref>> /\ vms[p].state = "making"
    BY DEF TaskEnds, MakeEnds, addressVars
  <1>2. /\ \A q \in Places : q # p => vms'[q] = vms[q]
        /\ \/ vms'[p].state = "none"
           \/ /\ vms'[p].state = "ready" /\ vms'[p].ticket = vms[p].ticket
              /\ vms'[p].node = vms[p].node /\ vms'[p].addr = vms[p].addr
    <2>1. vms \in [Places -> Vms] /\ vms[p] \in Vms
      BY DEF IInv, PlaceInv, PlaceTypes
    <2>2. \A power \in {"off", "on"} :
            LET vm == [vms[p] EXCEPT !.state = "ready", !.power = power]
            IN  /\ vm.state = "ready" /\ vm.ticket = vms[p].ticket
                /\ vm.node = vms[p].node /\ vm.addr = vms[p].addr
      BY <2>1 DEF Vms
    <2>3. NoVm.state = "none"
      BY DEF NoVm
    <2>4. \/ SetVm(p, NoVm)
          \/ \E power \in {"off", "on"} :
                SetVm(p, [vms[p] EXCEPT !.state = "ready", !.power = power])
      BY DEF MakeEnds
    <2>5. QED
      BY <2>1, <2>2, <2>3, <2>4 DEF SetVm
  <1>3. CASE pc[u] = "wait" /\ At(u) = p /\ vms[p].ticket = u
    <2>1. task[u] = "running" /\ ref[u] = NoRef /\ Named(u) /\ Fresh(u) /\ BeingMade(u)
      BY <1>1, <1>3 DEF VmInv, Own, BeingMade, Fresh, Slotted
    <2>2. task'[u] \in {"ok", "failed"} /\ (task'[u] = "ok" => vms'[p].state = "ready")
      <3>1. task \in [Tickets -> {"none", "running", "ok", "failed"}] /\ vms \in [Places -> Vms]
        BY DEF IInv, PlaceInv, PlaceTypes
      <3>2. CASE SetVm(p, NoVm) /\ task' = [task EXCEPT ![u] = "failed"]
        BY <3>1, <3>2
      <3>3. CASE (\E power \in {"off", "on"} :
                     SetVm(p, [vms[p] EXCEPT !.state = "ready", !.power = power]))
                 /\ task' = [task EXCEPT ![u] = "ok"]
        <4>1. PICK power \in {"off", "on"} :
                vms'[p] = [vms[p] EXCEPT !.state = "ready", !.power = power]
          BY <3>1, <3>3 DEF SetVm
        <4>2. vms'[p].state = "ready"
          BY <3>1, <4>1 DEF Vms
        <4>3. QED
          BY <3>1, <3>3, <4>2
      <3>4. QED
        BY <1>3, <3>2, <3>3 DEF MakeEnds
    <2>3. At(u)' = At(u) /\ NodesFor(u)' = NodesFor(u)
      BY <1>1 DEF At, NodesFor, QemuNodes, Placements
    <2>4. Named(u)' /\ Fresh(u)' /\ RefersToOwn(u)' /\ Ready(u)'
      BY <1>1, <1>3, <2>1 DEF Named, Fresh, RefersToOwn, Ready
    <2>5. BeingMade(u)'
      BY <1>2, <1>3, <2>2, <2>3 DEF BeingMade
    <2>6. Made(u)'
      BY <1>1, <1>2, <1>3, <2>1, <2>2, <2>3 DEF BeingMade, Made, Built
    <2>7. QED
      BY <2>4, <2>5, <2>6 DEF Own
  <1>4. CASE ~(pc[u] = "wait" /\ At(u) = p /\ vms[p].ticket = u)
    <2>1. task'[u] = task[u]
      BY <1>4 DEF MakeEnds, IInv, PlaceInv, PlaceTypes
    <2>2. \A q \in Places :
            vms[q].state = "ready" /\ vms[q].ticket = u /\ Distinct(q) => vms'[q] = vms[q]
      BY <1>1, <1>2
    <2>3. pc[u] = "wait" => \/ vms'[At(u)] = vms[At(u)]
                            \/ task[u] # "running" /\ vms'[At(u)].state # "making"
      <3> SUFFICES ASSUME pc[u] = "wait", At(u) = p
                   PROVE  task[u] # "running" /\ vms'[p].state # "making"
        BY <1>2, SlottedPlaces DEF IInv, Slotted
      <3>1. task[u] # "running"
        BY <1>4 DEF VmInv, Own, BeingMade
      <3>2. QED
        BY <1>2, <3>1
    <2>4. QED
      BY <1>1, <2>1, <2>2, <2>3, OwnFrame DEF IInv, VmInv
  <1>5. QED
    BY <1>3, <1>4

(* A VM that was sent away goes or stays, and no task works on it.         *)
LEMMA DeleteEndsKeepsOwn ==
    ASSUME IInv, VmInv, NEW p \in Places, TaskEnds(p), DeleteEnds(p), NEW u \in Tickets,
           mistaken \subseteq mistaken'
    PROVE  Own(u)'
  <1>1. UNCHANGED <<pc, held, kind, req, at, slot, ref, task>> /\ vms[p].state = "deleting"
    BY DEF TaskEnds, DeleteEnds, addressVars
  <1>2. \A q \in Places : q # p => vms'[q] = vms[q]
    BY DEF DeleteEnds, SetVm, IInv, PlaceInv, PlaceTypes
  <1>3. vms'[p].state \in {"none", "ready"}
    <2>1. vms \in [Places -> Vms] /\ vms[p] \in Vms
      BY DEF IInv, PlaceInv, PlaceTypes
    <2>2. \A power : [vms[p] EXCEPT !.state = "ready", !.power = power].state = "ready"
      BY <2>1 DEF Vms
    <2>3. NoVm.state = "none"
      BY DEF NoVm
    <2>4. CASE SetVm(p, NoVm)
      BY <2>1, <2>3, <2>4 DEF SetVm
    <2>5. ASSUME NEW power,
                 SetVm(p, [vms[p] EXCEPT !.state = "ready", !.power = power])
          PROVE  vms'[p].state = "ready"
      <3>1. vms'[p] = [vms[p] EXCEPT !.state = "ready", !.power = power]
        BY <2>1, <2>5 DEF SetVm
      <3>2. QED
        BY <2>2, <3>1
    <2>6. QED
      BY <2>4, <2>5 DEF DeleteEnds
  <1>4. \A q \in Places :
          vms[q].state = "ready" /\ vms[q].ticket = u /\ Distinct(q) => vms'[q] = vms[q]
    BY <1>1, <1>2
  <1>5. pc[u] = "wait" => \/ vms'[At(u)] = vms[At(u)]
                          \/ task[u] # "running" /\ vms'[At(u)].state # "making"
    <2> SUFFICES ASSUME pc[u] = "wait", At(u) = p
                 PROVE  task[u] # "running" /\ vms'[p].state # "making"
      BY <1>2, SlottedPlaces DEF IInv, Slotted
    <2>1. task[u] # "running"
      BY <1>1 DEF VmInv, Own, BeingMade
    <2>2. QED
      BY <1>3, <2>1
  <1>6. QED
    BY <1>1, <1>4, <1>5, OwnFrame DEF IInv, VmInv

-----------------------------------------------------------------------------
(* VMs get their slot and their ticket together.                           *)
LEMMA SetVmNamed ==
    ASSUME VmsNamed, vms \in [Places -> Vms], kind' = kind, req' = req, NEW p, NEW vm, SetVm(p, vm),
           p \in Places /\ vm # NoVm =>
               vm.ticket \in Tickets /\ (kind = "vmware" => p[2] = req[vm.ticket].name)
    PROVE  VmsNamed'
  <1> SUFFICES ASSUME NEW q \in Places, vms'[q] # NoVm
               PROVE  /\ vms'[q].ticket \in Tickets
                      /\ kind = "vmware" => q[2] = req[vms'[q].ticket].name
    BY DEF VmsNamed
  <1>1. CASE q = p
    BY <1>1 DEF SetVm
  <1>2. CASE q # p
    BY <1>2 DEF SetVm, VmsNamed
  <1>3. QED
    BY <1>1, <1>2

LEMMA TaskKeepsNamed ==
    ASSUME IInv, VmInv, NEW t \in Tickets, TaskStep(t) \/ Again(t)
    PROVE  VmsNamed'
  <1> USE DEF VmInv
  <1>1. kind' = kind /\ req' = req /\ vms \in [Places -> Vms]
    BY TaskTouchesSelf DEF IInv, PlaceInv, PlaceTypes
  <1>2. ASSUME pc[t] \in Slotted
        PROVE  /\ At(t) \in Places /\ vms[At(t)] \in Vms
               /\ kind = "vmware" => At(t)[2] = req[t].name
    <2>1. At(t) \in Places /\ slot[t] \in Slots
      BY <1>2, SlottedPlaces DEF IInv
    <2>2. slot[t] # NoSlot /\ At(t)[2] = slot[t]
      BY <2>1, HypervisorCallsAssumption DEF At
    <2>3. QED
      BY <1>1, <2>1, <2>2 DEF Own, Named
  <1>3. CASE UNCHANGED vms
    BY <1>1, <1>3 DEF VmsNamed
  <1>4. CASE Make(t)
    <2>1. pc[t] \in Slotted
      BY <1>4 DEF Make, Fails, Goto, Slotted
    <2>2. vms' = vms \/ \E n \in NodesFor(t) :
            SetVm(At(t), [ticket |-> t, node |-> n, power |-> "off", state |-> "making",
                          addr |-> IF kind = "vmware" THEN held[t] ELSE NoAddr])
      BY <1>4 DEF Make, Fails
    <2>3. QED
      BY <1>1, <1>2, <1>3, <2>1, <2>2, SetVmNamed
  <1>5. CASE Configure(t)
    <2>1. pc[t] \in Slotted
      BY <1>5 DEF Configure, Fails, Goto, Slotted
    <2>2. vms' = vms \/ SetVm(At(t), [vms[At(t)] EXCEPT !.ticket = t, !.addr = held[t]])
      BY <1>5 DEF Configure, Fails
    <2>3. [vms[At(t)] EXCEPT !.ticket = t, !.addr = held[t]].ticket = t
      BY <1>2, <2>1 DEF Vms
    <2>4. QED
      BY <1>1, <1>2, <1>3, <2>1, <2>2, <2>3, SetVmNamed
  <1>6. CASE Start(t)
    <2>1. pc[t] \in Slotted
      BY <1>6 DEF Start, Fails, Goto, Slotted
    <2>2. vms' = vms \/ (Reached(t) /\ \E power \in {"off", "on"} :
                            SetVm(At(t), [vms[At(t)] EXCEPT !.power = power]))
      BY <1>6 DEF Start, Fails
    <2>3. \A power : [vms[At(t)] EXCEPT !.power = power].ticket = vms[At(t)].ticket
      BY <1>2, <2>1 DEF Vms
    <2>4. Reached(t) => /\ vms[At(t)].ticket \in Tickets
                        /\ kind = "vmware" => At(t)[2] = req[vms[At(t)].ticket].name
      BY <1>2, <2>1 DEF VmsNamed, Reached, NoVm
    <2>5. QED
      BY <1>1, <1>3, <2>2, <2>3, <2>4, SetVmNamed
  <1>7. CASE DestroyStep(t)
    <2>1. ASSUME NEW q \in Destroyed(t), NEW vm \in DestroyOf(vms[q]), q \in Places, SetVm(q, vm)
          PROVE  VmsNamed'
      <3>1. vms[q] \in Vms /\ vms[q] # NoVm
        BY <1>1, <2>1 DEF Destroyed, NoVm
      <3>2. vm # NoVm => vm.ticket = vms[q].ticket
        BY <3>1, DestroyTypes
      <3>3. QED
        BY <1>1, <2>1, <3>1, <3>2, SetVmNamed DEF VmsNamed
    <2>2. QED
      BY <1>3, <1>7, <2>1, DestroyEffect DEF DestroyStep
  <1>8. QED
    BY <1>3, <1>4, <1>5, <1>6, <1>7, QuietVms DEF TaskStep, ProvisionStep, QuietStep

LEMMA TaskEndsKeepsNamed ==
    ASSUME IInv, VmInv, NEW p \in Places, TaskEnds(p)
    PROVE  VmsNamed'
  <1>1. UNCHANGED <<kind, req>> /\ vms \in [Places -> Vms] /\ vms[p] \in Vms
    BY DEF TaskEnds, IInv, PlaceInv, PlaceTypes
  <1>2. vms[p] # NoVm
    BY DEF TaskEnds, MakeEnds, DeleteEnds, NoVm
  <1>3. vms[p].ticket \in Tickets /\ (kind = "vmware" => p[2] = req[vms[p].ticket].name)
    BY <1>2 DEF VmInv, VmsNamed
  <1>4. \A power \in {"off", "on"} :
            [vms[p] EXCEPT !.state = "ready", !.power = power].ticket = vms[p].ticket
    BY <1>1 DEF Vms
  <1>5. \/ SetVm(p, NoVm)
        \/ \E power \in {"off", "on"} :
              SetVm(p, [vms[p] EXCEPT !.state = "ready", !.power = power])
    BY <1>1 DEF TaskEnds, MakeEnds, DeleteEnds, Vms
  <1>6. CASE SetVm(p, NoVm)
    BY <1>1, <1>6, SetVmNamed DEF VmInv
  <1>7. ASSUME NEW power \in {"off", "on"},
               SetVm(p, [vms[p] EXCEPT !.state = "ready", !.power = power])
        PROVE  VmsNamed'
    <2> DEFINE vm == [vms[p] EXCEPT !.state = "ready", !.power = power]
    <2>1. vm.ticket = vms[p].ticket /\ SetVm(p, vm)
      BY <1>4, <1>7
    <2> HIDE DEF vm
    <2>2. QED
      BY <1>1, <1>3, <2>1, SetVmNamed DEF VmInv
  <1>8. QED
    BY <1>5, <1>6, <1>7

-----------------------------------------------------------------------------
LEMMA ProvisionKeepsOwn ==
    ASSUME IInv, VmInv, NEW t \in Tickets, ProvisionStep(t), Watch
    PROVE  Own(t)'
  <1>1. held' = held /\ VmsNamed /\ Own(t)
    BY DEF ProvisionStep, addressVars, VmInv
  <1>2. mistaken \subseteq mistaken'
    BY MistakenGrows
  <1>3. QED
    BY <1>1, <1>2, RouteKeepsOwn, FindKeepsOwn, NextIdKeepsOwn, MakeKeepsOwn, AwaitKeepsOwn,
       ConfigureKeepsOwn, StartKeepsOwn DEF ProvisionStep

LEMMA NextKeepsVms ==
    ASSUME IInv, VmInv, [Next]_vars
    PROVE  VmInv'
  <1>1. ASSUME NEW t \in Tickets, TaskStep(t) \/ Again(t), Watch
        PROVE  VmInv'
    <2>1. mistaken \subseteq mistaken'
      BY <1>1, MistakenGrows
    <2>2. Own(t)
      BY DEF VmInv
    <2>3. Own(t)'
      BY <1>1, <2>1, <2>2, ReserveKeepsOwn, ProvisionKeepsOwn, FinalizeKeepsOwn, CompensateKeepsOwn,
         DestroyKeepsOwn, AgainKeepsOwn DEF TaskStep, DestroyStep
    <2>4. \A u \in Tickets : u # t => Own(u)'
      BY <1>1, <2>1, TaskKeepsOthers
    <2>5. VmsNamed'
      BY <1>1, TaskKeepsNamed
    <2>6. QED
      BY <2>3, <2>4, <2>5 DEF VmInv
  <1>2. ASSUME NEW p \in Places, TaskEnds(p), Watch
        PROVE  VmInv'
    <2>1. MakeEnds(p) \/ DeleteEnds(p)
      BY <1>2 DEF TaskEnds
    <2>2. \A u \in Tickets : Own(u)'
      BY <1>2, <2>1, MistakenGrows, MakeEndsKeepsOwn, DeleteEndsKeepsOwn
    <2>3. QED
      BY <1>2, <2>2, TaskEndsKeepsNamed DEF VmInv
  <1>3. CASE UNCHANGED vars
    <2>1. UNCHANGED <<pc, held, kind, req, vms, at, slot, task, ref, mistaken>>
      BY <1>3 DEF vars, addressVars, callVars, placeVars
    <2>2. VmsNamed'
      BY <2>1 DEF VmInv, VmsNamed
    <2>3. \A u \in Tickets : Own(u)'
      BY <2>1, OwnFrame DEF IInv, VmInv
    <2>4. QED
      BY <2>2, <2>3 DEF VmInv
  <1>4. QED
    BY <1>1, <1>2, <1>3 DEF Next, Step

LEMMA VmInvInit ==
    ASSUME Init
    PROVE  VmInv
  <1>1. \A t \in Tickets : /\ pc[t] \in {"list", "allocate"}
                           /\ slot[t] = NoSlot /\ ref[t] = NoRef
    BY DEF Init, IpamCallsInit, HypervisorCallsInit
  <1>2. \A t \in Tickets : Named(t) /\ Fresh(t) /\ RefersToOwn(t)
    BY <1>1 DEF Named, Fresh, RefersToOwn
  <1>3. \A t \in Tickets : BeingMade(t) /\ Made(t) /\ Ready(t)
    BY <1>1 DEF BeingMade, Made, Ready
  <1>4. VmsNamed
    BY DEF Init, HypervisorCallsInit, VmsNamed
  <1>5. QED
    BY <1>2, <1>3, <1>4 DEF VmInv, Own

(* Every task finds its own VM where it works on one.                      *)
THEOREM VmInvariant == Spec => [](IInv /\ VmInv)
  <1>1. Init => VmInv
    BY VmInvInit
  <1>2. IInv /\ VmInv /\ [Next]_vars => VmInv'
    BY NextKeepsVms
  <1>3. QED
    BY <1>1, <1>2, AdapterInvariant, PTL DEF Spec

(* A step that changes a VM moves its task on.                             *)
LEMMA ChangesMoveOn ==
    ASSUME IInv, NEW t \in Tickets, TaskStep(t) \/ Again(t), vms' # vms
    PROVE  pc'[t] # pc[t]
  <1>1. Make(t) \/ Configure(t) \/ Start(t) \/ DestroyStep(t)
    BY QuietVms DEF TaskStep, ProvisionStep, QuietStep
  <1>2. \E from, to \in Steps : from # to /\ Goto(t, from, to)
    BY <1>1 DEF Make, Configure, Start, DestroyStep, Destroy, Fails, Steps
  <1>3. QED
    BY <1>2, GotoTypes DEF IInv

(* A VM that has been made is reconfigured, started, stopped and sent away *)
(* by its own ticket's task only, whoever was given the same vmid, and     *)
(* then goes by itself; unless a search was once mistaken in its vmid or   *)
(* name, or destroy cannot tell it from another connection's.              *)
THEOREM OwnVmsTouched == Spec => OwnVmOnly
  <1>1. IInv /\ VmInv /\ [Next]_vars =>
           [\A p \in Places :
              p[2] \notin mistaken /\ Unmistakable(p[1], vms[p].node, p[2]) => ChangesOwn(p)]_vars
    <2> SUFFICES ASSUME IInv, VmInv, Next, NEW p \in Places, Distinct(p),
                        vms[p].state \in {"ready", "deleting"}, vms'[p] # vms[p]
                 PROVE  \/ pc'[vms[p].ticket] # pc[vms[p].ticket]
                        \/ vms[p].state = "deleting" /\ UNCHANGED pc
      BY DEF ChangesOwn, Distinct
    <2>1. ASSUME NEW t \in Tickets, TaskStep(t) \/ Again(t)
          PROVE  pc'[vms[p].ticket] # pc[vms[p].ticket]
      <3>1. vms[p].ticket = t
        BY <2>1, TaskSpares
      <3>2. QED
        BY <2>1, <3>1, ChangesMoveOn
    <2>2. ASSUME NEW q \in Places, TaskEnds(q)
          PROVE  vms[p].state = "deleting" /\ UNCHANGED pc
      <3>1. \E vm : vms' = [vms EXCEPT ![q] = vm]
        BY <2>2 DEF TaskEnds, MakeEnds, DeleteEnds, SetVm
      <3>2. q = p
        BY <3>1 DEF IInv, PlaceInv, PlaceTypes
      <3>3. QED
        BY <2>2, <3>2 DEF TaskEnds, MakeEnds, DeleteEnds
    <2>3. QED
      BY <2>1, <2>2 DEF Next, Step
  <1>2. QED
    BY <1>1, VmInvariant, PTL DEF Spec, OwnVmOnly

(* A completed job has its VM where hypervisor_ref says, no delete of it   *)
(* is under way, and one that its own run made carries the job's address   *)
(* and on Proxmox runs; with the exceptions of OwnVmsTouched.              *)
THEOREM CompletedVmsReady == Spec => []CompletedVmReady
  <1>1. IInv /\ VmInv => CompletedVmReady
    <2> SUFFICES ASSUME IInv, VmInv, NEW t \in Tickets, pc[t] = "done"
                 PROVE  /\ <<at[t], ref[t].slot>> \in Places
                        /\ ref[t].slot \notin mistaken
                           /\ Unmistakable(at[t], ref[t].node, ref[t].slot) => Delivered(t)
      BY DEF CompletedVmReady, Delivered
    <2>1. Ready(t) /\ at[t] \in Conns
      BY DEF VmInv, Own, IInv, PlaceInv, PlaceTypes
    <2>2. QED
      BY <2>1 DEF Ready, Places
  <1>2. QED
    BY <1>1, VmInvariant, PTL

-----------------------------------------------------------------------------
(* How many addresses a ticket's runs have registered: at most one in each *)
(* request that may register one and has been made.                        *)
Registered(t) == {a \in Addrs : book[a] = t}

PerRun == IF provider = "nautobot" THEN 2 ELSE 1

ThisRun(t) ==
    IF pc[t] = "allocate" THEN 0
    ELSE IF pc[t] \in {"list", "create"} THEN PerRun - 1 ELSE PerRun

Spent(t) ==
    /\ provider = "netbox" => pc[t] # "allocate"
    /\ IsFiniteSet(Registered(t))
    /\ Cardinality(Registered(t)) <= PerRun * (runs[t] - 1) + ThisRun(t)

SpentInv == runs \in [Tickets -> Int] /\ \A t \in Tickets : Spent(t)

(* What one request may register or give back.                             *)
LEMMA OneMore ==
    ASSUME NEW t \in Tickets, Spent(t), NEW a \in Addrs,
           book \in [Addrs -> Tickets \cup {NoTicket}], Register(t, a)
    PROVE  /\ IsFiniteSet(Registered(t)')
           /\ Cardinality(Registered(t)') <= Cardinality(Registered(t)) + 1
           /\ \A u \in Tickets : u # t => Registered(u)' = Registered(u)
  <1>1. book[a] = NoTicket /\ book' = [book EXCEPT ![a] = t] /\ t # NoTicket
    BY IpamCallsAssumption DEF Register
  <1>2. Registered(t)' = Registered(t) \cup {a}
    BY <1>1 DEF Registered
  <1>3. \A u \in Tickets : u # t => Registered(u)' = Registered(u)
    BY <1>1, IpamCallsAssumption DEF Registered
  <1>4. IsFiniteSet(Registered(t)) /\ Cardinality(Registered(t)) \in Nat
    BY FS_CardinalityType DEF Spent
  <1>5. QED
    BY <1>2, <1>3, <1>4, FS_AddElement, SMTT(30)

LEMMA NoMore ==
    ASSUME NEW t \in Tickets, Spent(t), Registered(t)' \subseteq Registered(t)
    PROVE  /\ IsFiniteSet(Registered(t)')
           /\ Cardinality(Registered(t)') <= Cardinality(Registered(t))
  BY FS_Subset DEF Spent

(* The arithmetic of a step that moves a task on within its run.           *)
LEMMA SpentFrame ==
    ASSUME IInv, NEW t \in Tickets, Spent(t), provider' = provider, runs'[t] = runs[t],
           provider = "netbox" => pc'[t] # "allocate",
           IsFiniteSet(Registered(t)'),
           NEW more \in {0, 1}, Cardinality(Registered(t)') <= Cardinality(Registered(t)) + more,
           ThisRun(t) + more <= ThisRun(t)'
    PROVE  Spent(t)'
  <1>1. Cardinality(Registered(t)) \in Nat /\ Cardinality(Registered(t)') \in Nat
    BY FS_CardinalityType DEF Spent
  <1>2. PerRun' = PerRun /\ PerRun \in {1, 2} /\ runs[t] \in Int
    BY AdapterCallsAssumption DEF PerRun, IInv
  <1>3. ThisRun(t) \in Int /\ ThisRun(t)' \in Int
    BY <1>2 DEF ThisRun
  <1>4. Cardinality(Registered(t)) <= PerRun * (runs[t] - 1) + ThisRun(t)
    BY DEF Spent
  <1>5. PerRun * (runs[t] - 1) \in Int
    BY <1>2
  <1> DEFINE base == PerRun * (runs[t] - 1)
  <1> HIDE DEF base
  <1>6. Cardinality(Registered(t)') <= base + ThisRun(t)'
    BY <1>1, <1>3, <1>4, <1>5 DEF base
  <1>7. QED
    BY <1>2, <1>6 DEF Spent, base

(* A ticket that a step leaves alone.                                      *)
LEMMA SpentStill ==
    ASSUME NEW u \in Tickets, Spent(u), provider' = provider, runs'[u] = runs[u],
           pc'[u] = pc[u], Registered(u)' = Registered(u)
    PROVE  Spent(u)'
  BY DEF Spent, PerRun, ThisRun

LEMMA ReserveKeepsSpent ==
    ASSUME IInv, SpentInv, NEW t \in Tickets, ReserveStep(t)
    PROVE  SpentInv'
  <1>1. /\ pc \in [Tickets -> Steps] /\ book \in [Addrs -> Tickets \cup {NoTicket}]
        /\ provider \in Providers /\ runs' = runs
        /\ \A u \in Tickets : Spent(u)
    BY DEF IInv, AddrInv, ReserveStep, SpentInv
  <1>2. provider' = provider /\ \A u \in Tickets : u # t => pc'[u] = pc[u]
    BY TaskTouchesSelf DEF TaskStep, ReserveStep, Allocate, List, Create
  <1>3. book' = book \/ \E a \in Addrs : Register(t, a)
    BY DEF ReserveStep, Allocate, List, Create, Free, Goto, IInv, AddrInv
  <1>4. \A u \in Tickets : u # t => Registered(u)' = Registered(u)
    BY <1>1, <1>3, OneMore DEF Registered
  <1>5. PerRun' = PerRun /\ PerRun \in {1, 2} /\ (provider = "nautobot" => PerRun = 2)
    BY <1>2 DEF PerRun
  <1>6. /\ IsFiniteSet(Registered(t)')
        /\ Cardinality(Registered(t)') <= Cardinality(Registered(t)) + 1
        /\ book' = book => Cardinality(Registered(t)') <= Cardinality(Registered(t)) + 0
    <2>1. IsFiniteSet(Registered(t)) /\ Cardinality(Registered(t)) \in Nat
      BY <1>1, FS_CardinalityType DEF Spent
    <2>2. CASE book' = book
      BY <2>1, <2>2 DEF Registered
    <2>3. CASE book' # book
      BY <1>1, <1>3, <2>3, OneMore
    <2>4. QED
      BY <2>2, <2>3
  <1>7. CASE Allocate(t)
    <2>1. pc[t] = "allocate" /\ pc'[t] \in {"route", "list", "undo"}
      BY <1>1, <1>7 DEF Allocate, Goto
    <2>2. provider = "nautobot"
      BY <1>1, <2>1 DEF Spent, Providers
    <2>3. ThisRun(t) + 1 <= ThisRun(t)'
      BY <1>5, <2>1, <2>2 DEF ThisRun
    <2>4. Spent(t)'
      BY <1>1, <1>2, <1>6, <2>1, <2>3, SpentFrame
    <2>5. QED
      BY <1>1, <1>2, <1>4, <2>4, SpentStill DEF SpentInv
  <1>8. CASE List(t)
    <2>1. pc[t] = "list" /\ pc'[t] \in {"create", "undo"} /\ book' = book
      BY <1>1, <1>8 DEF List, Goto
    <2>2. ThisRun(t) + 0 <= ThisRun(t)'
      BY <1>5, <2>1 DEF ThisRun
    <2>3. Spent(t)'
      BY <1>1, <1>2, <1>6, <2>1, <2>2, SpentFrame
    <2>4. QED
      BY <1>1, <1>2, <1>4, <2>3, SpentStill DEF SpentInv
  <1>9. CASE Create(t)
    <2>1. pc[t] = "create" /\ pc'[t] \in {"route", "undo"}
      BY <1>1, <1>9 DEF Create, Goto
    <2>2. ThisRun(t) + 1 <= ThisRun(t)'
      BY <1>5, <2>1 DEF ThisRun
    <2>3. Spent(t)'
      BY <1>1, <1>2, <1>6, <2>1, <2>2, SpentFrame
    <2>4. QED
      BY <1>1, <1>2, <1>4, <2>3, SpentStill DEF SpentInv
  <1>10. QED
    BY <1>7, <1>8, <1>9 DEF ReserveStep

(* From reserve_ip's return to the end of the run nothing is registered.   *)
LEMMA LaterKeepsSpent ==
    ASSUME IInv, SpentInv, NEW t \in Tickets, NEW from, NEW to, Goto(t, from, to),
           from \notin Reserving \ {"destroy"}, to \notin Reserving \ {"destroy", "failed"},
           provider' = provider, runs' = runs,
           Registered(t)' \subseteq Registered(t),
           \A u \in Tickets : u # t => Registered(u)' = Registered(u)
    PROVE  SpentInv'
  <1>1. /\ pc[t] = from /\ pc'[t] = to /\ \A u \in Tickets : u # t => pc'[u] = pc[u]
        /\ \A u \in Tickets : Spent(u)
    BY DEF Goto, IInv, AddrInv, SpentInv
  <1>2. PerRun' = PerRun /\ PerRun \in {1, 2}
    BY DEF PerRun
  <1>3. ThisRun(t) + 0 <= ThisRun(t)'
    BY <1>1, <1>2 DEF ThisRun, Reserving
  <1>4. /\ IsFiniteSet(Registered(t)')
        /\ Cardinality(Registered(t)') <= Cardinality(Registered(t)) + 0
    <2>1. Cardinality(Registered(t)) \in Nat
      BY <1>1, FS_CardinalityType DEF Spent
    <2>2. QED
      BY <1>1, <2>1, NoMore
  <1>5. Spent(t)'
    BY <1>1, <1>3, <1>4, SpentFrame DEF Reserving
  <1>6. QED
    BY <1>1, <1>5, SpentStill DEF SpentInv

LEMMA ReleaseKeepsSpent ==
    ASSUME IInv, SpentInv, NEW t \in Tickets, Compensate(t)
    PROVE  SpentInv'
  <1>1. PICK to \in {"destroy", "failed"} : Goto(t, "undo", to)
    BY DEF Compensate
  <1>2. provider' = provider /\ runs' = runs
    BY DEF Compensate, Release
  <1>3. book' = book \/ book' = [a \in Addrs |-> IF a = held[t] THEN NoTicket ELSE book[a]]
    BY DEF Compensate, Release
  <1>4. held[t] # NoAddr => book[held[t]] = t
    BY DEF IInv, AddrInv, HeldByOne
  <1>5. NoTicket \notin Tickets /\ NoAddr \notin Addrs
    BY IpamCallsAssumption
  <1>6. Registered(t)' \subseteq Registered(t)
    BY <1>3, <1>5 DEF Registered
  <1>7. \A u \in Tickets : u # t => Registered(u)' = Registered(u)
    BY <1>3, <1>4, <1>5 DEF Registered
  <1>8. QED
    BY <1>1, <1>2, <1>6, <1>7, LaterKeepsSpent DEF Reserving

LEMMA AgainKeepsSpent ==
    ASSUME IInv, SpentInv, NEW t \in Tickets, Again(t)
    PROVE  SpentInv'
  <1>1. /\ pc[t] = "failed"
        /\ pc'[t] = IF provider = "netbox" THEN "list" ELSE "allocate"
        /\ \A u \in Tickets : u # t => pc'[u] = pc[u]
    BY DEF Again, Goto, IInv, AddrInv
  <1>2. provider' = provider /\ provider \in Providers /\ book' = book
    BY DEF Again, addressVars, IInv, AddrInv
  <1>3. runs'[t] = runs[t] + 1 /\ runs[t] \in Int /\ \A u \in Tickets : u # t => runs'[u] = runs[u]
    <2>1. runs' = [runs EXCEPT ![t] = runs[t] + 1]
      BY DEF Again
    <2>2. runs[t] \in 1 .. MaxRuns[t] /\ MaxRuns[t] \in Nat
      BY AdapterCallsAssumption DEF IInv
    <2>3. runs'[t] = runs[t] + 1
      BY <2>1 DEF SpentInv
    <2>4. QED
      BY <2>1, <2>2, <2>3
  <1>4. \A u \in Tickets : Registered(u)' = Registered(u) /\ Spent(u)
    BY <1>2 DEF Registered, SpentInv
  <1>5. Spent(t)'
    <2>1. IsFiniteSet(Registered(t)) /\ Cardinality(Registered(t)) \in Nat
      BY <1>4, FS_CardinalityType DEF Spent
    <2>2. Cardinality(Registered(t)) <= PerRun * (runs[t] - 1) + PerRun
      BY <1>1, <1>4 DEF Spent, ThisRun
    <2>3. CASE provider = "netbox"
      BY <1>1, <1>2, <1>3, <1>4, <2>1, <2>2, <2>3 DEF Spent, ThisRun, PerRun
    <2>4. CASE provider = "nautobot"
      BY <1>1, <1>2, <1>3, <1>4, <2>1, <2>2, <2>4 DEF Spent, ThisRun, PerRun
    <2>5. QED
      BY <1>2, <2>3, <2>4 DEF Providers
  <1>6. runs' \in [Tickets -> Int]
    BY <1>3 DEF Again, SpentInv
  <1>7. QED
    BY <1>1, <1>2, <1>3, <1>4, <1>5, <1>6, SpentStill DEF SpentInv

LEMMA NextKeepsSpent ==
    ASSUME IInv, SpentInv, [Next]_vars
    PROVE  SpentInv'
  <1> USE DEF Holding, Routed, Slotted, Reserving
  <1>1. ASSUME UNCHANGED <<book, provider, runs, pc>>
        PROVE  SpentInv'
    BY <1>1 DEF SpentInv, Spent, Registered, PerRun, ThisRun
  <1>2. ASSUME NEW t \in Tickets, NEW from \in Holding \cup {"destroy"},
               NEW to \in Holding \cup {"undo", "failed"}, Goto(t, from, to),
               UNCHANGED <<book, provider, runs>>
        PROVE  SpentInv'
    <2>1. \A u \in Tickets : Registered(u)' = Registered(u)
      BY <1>2 DEF Registered
    <2>2. QED
      BY <1>2, <2>1, LaterKeepsSpent
  <1>3. ASSUME NEW t \in Tickets, ProvisionStep(t)
        PROVE  SpentInv'
    <2>1. PICK from \in Routed \cup {"route"}, to \in Holding \cup {"undo"} : Goto(t, from, to)
      BY <1>3, ProvisionMoves
    <2>2. UNCHANGED <<book, provider, runs>>
      BY <1>3 DEF ProvisionStep, addressVars
    <2>3. QED
      BY <1>2, <2>1, <2>2
  <1>4. ASSUME NEW t \in Tickets, Finalize(t)
        PROVE  SpentInv'
    BY <1>2, <1>4 DEF Finalize, addressVars
  <1>5. ASSUME NEW t \in Tickets, DestroyStep(t)
        PROVE  SpentInv'
    BY <1>2, <1>5 DEF DestroyStep, Destroy, addressVars
  <1>6. ASSUME NEW p \in Places, TaskEnds(p) /\ UNCHANGED runs
        PROVE  SpentInv'
    BY <1>1, <1>6 DEF TaskEnds, addressVars
  <1>7. CASE UNCHANGED vars
    BY <1>1, <1>7 DEF vars, addressVars
  <1>8. QED
    BY <1>3, <1>4, <1>5, <1>6, <1>7, ReserveKeepsSpent, ReleaseKeepsSpent, AgainKeepsSpent
       DEF Next, Step, TaskStep

(* A run loses at most one address, with Nautobot's fallback at most two,  *)
(* and NetBox loses none before the run fails: whatever replies get lost   *)
(* and whatever releases fail.                                             *)
THEOREM FewStrays == Spec => []StraysBounded
  <1>1. Init => SpentInv
    <2> SUFFICES ASSUME Init, NEW t \in Tickets
                 PROVE  Spent(t)
      BY DEF SpentInv, Init
    <2>1. /\ provider \in Providers /\ book = [a \in Addrs |-> NoTicket] /\ runs[t] = 1
          /\ pc[t] = IF provider = "netbox" THEN "list" ELSE "allocate"
      BY DEF Init, IpamCallsInit
    <2>2. Registered(t) = {}
      BY <2>1, IpamCallsAssumption DEF Registered
    <2>3. PerRun * (runs[t] - 1) = 0 /\ ThisRun(t) \in Nat
      BY <2>1 DEF PerRun, ThisRun
    <2>4. QED
      BY <2>1, <2>2, <2>3, FS_EmptySet DEF Spent
  <1>2. IInv /\ SpentInv /\ [Next]_vars => SpentInv'
    BY NextKeepsSpent
  <1>3. IInv /\ SpentInv => StraysBounded
    <2> SUFFICES ASSUME IInv, SpentInv, NEW t \in Tickets
                 PROVE  Cardinality(Strays(t)) <=
                          PerRun * runs[t] - (IF pc[t] \in {"undo", "destroy", "failed"} THEN 0 ELSE 1)
      BY DEF StraysBounded, PerRun
    <2>1. /\ IsFiniteSet(Registered(t)) /\ Cardinality(Registered(t)) \in Nat
          /\ Cardinality(Registered(t)) <= PerRun * (runs[t] - 1) + ThisRun(t)
      BY FS_CardinalityType DEF SpentInv, Spent
    <2>2. /\ IsFiniteSet(Strays(t)) /\ Cardinality(Strays(t)) \in Nat
          /\ Cardinality(Strays(t)) <= Cardinality(Registered(t))
      <3>1. Strays(t) \in SUBSET Registered(t)
        BY DEF Strays, Registered
      <3>2. QED
        BY <2>1, <3>1, FS_Subset, FS_CardinalityType
    <2>3. PerRun \in {1, 2} /\ runs[t] \in Int
      BY AdapterCallsAssumption DEF PerRun, IInv
    <2>4. PerRun * runs[t] \in Int /\ PerRun * (runs[t] - 1) = PerRun * runs[t] - PerRun
      <3>1. CASE PerRun = 1
        BY <2>3, <3>1
      <3>2. CASE PerRun = 2
        BY <2>3, <3>2
      <3>3. QED
        BY <2>3, <3>1, <3>2
    <2>5. CASE pc[t] \in Reserving \cup {"undo"}
      BY <2>1, <2>2, <2>3, <2>4, <2>5 DEF ThisRun, Reserving
    <2>6. CASE pc[t] \in Holding
      <3>1. held[t] \in Registered(t) \ Strays(t)
        BY <2>6 DEF IInv, AddrInv, HeldByOne, Registered, Strays
      <3>2. Strays(t) \in SUBSET (Registered(t) \ {held[t]})
        BY <3>1 DEF Strays, Registered
      <3>3. Cardinality(Strays(t)) <= Cardinality(Registered(t)) - 1
        <4>1. /\ IsFiniteSet(Registered(t) \ {held[t]})
              /\ Cardinality(Registered(t) \ {held[t]}) = Cardinality(Registered(t)) - 1
          BY <2>1, <3>1, FS_RemoveElement
        <4>2. Cardinality(Strays(t)) <= Cardinality(Registered(t) \ {held[t]})
          BY <3>2, <4>1, FS_Subset
        <4>3. QED
          BY <2>1, <2>2, <4>1, <4>2
      <3>4. ThisRun(t) = PerRun
        BY <2>6 DEF ThisRun, Holding, Routed, Slotted
      <3>5. QED
        BY <2>1, <2>2, <2>3, <2>4, <2>6, <3>3, <3>4 DEF Holding, Routed, Slotted
    <2>7. QED
      BY <2>5, <2>6 DEF IInv, AddrInv, Steps, Reserving, Holding, Routed, Slotted
  <1>4. QED
    BY <1>1, <1>2, <1>3, AdapterInvariant, PTL DEF Spec
=============================================================================
