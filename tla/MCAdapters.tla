------------------------------ MODULE MCAdapters ------------------------------
(* Small instances of AdapterCalls.                                        *)
EXTENDS AdapterCalls, TLC

CONSTANTS t1, t2, pve, n1

(* A cluster of two nodes and a standalone host, which share a node name.  *)
ClusterAndHost == (1 :> {n1, pve}) @@ (2 :> {pve})

(* Two standalone hosts whose only node has the default name.              *)
TwoHosts == (1 :> {pve}) @@ (2 :> {pve})

Ask(c, n, s) == [api |-> c, node |-> n, name |-> s]

NetboxProxmox == <<"netbox", "proxmox">>
NautobotVmware == <<"nautobot", "vmware">>

Pairs == {NetboxProxmox, NautobotVmware}
ProxmoxOnly == {NetboxProxmox}

(* Ticket numbers of which none is a prefix of another.                    *)
OwnNotes == {<<t, t>> : t \in Tickets}

(* Ticket numbers such as 1 and 12: a search for t1's number also hits the *)
(* notes of t2's VM.                                                       *)
PrefixNotes == OwnNotes \cup {<<t1, t2>>}

(* The second ticket is approved again once.                               *)
Approvals == (t1 :> 1) @@ (t2 :> 2)

(* A node alone; the host by its address, with the first ticket's hostname; *)
(* a node the catalog listed there before it moved; no place at all, with  *)
(* the first ticket's hostname.                                            *)
MixedAsks ==
    (t1 :> {Ask(1, n1, 1)}) @@
    (t2 :> {Ask(NoConn, n1, 2), Ask(2, NoNode, 1), Ask(2, n1, 2), Ask(NoConn, NoNode, 1)})

Once == [t \in Tickets |-> 1]

(* With several connections the catalog names standalone hosts alone.      *)
HostAsks ==
    (t1 :> {Ask(c, NoNode, 1) : c \in Conns}) @@ (t2 :> {Ask(c, NoNode, 2) : c \in Conns})
=============================================================================
