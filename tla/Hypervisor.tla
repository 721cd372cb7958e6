----------------------------- MODULE Hypervisor -----------------------------
(***************************************************************************)
(* Proxmox VE or vSphere as the provisioners use it.  A VM remembers the   *)
(* ticket in its notes or tags ("otobo:<ticket>"), the address it was      *)
(* configured with, whether it was started, and whether a delete that was  *)
(* asked for is still under way.  A slot is what hypervisor_ref names: the *)
(* next free vmid on Proxmox, free again once its VM is gone, and the      *)
(* hostname on vSphere.                                                    *)
(***************************************************************************)
EXTENDS JobModel

CONSTANTS
    Kind,      \* "proxmox" or "vmware"
    SlotsFor,  \* ticket -> the slots its VM may take (vSphere: its hostname)
    Mentions   \* <<t, u>>: a search for t's needle hits the notes of u's VM

VARIABLE vms   \* slot -> the VM in it

ASSUME HypervisorAssumption ==
    /\ Kind \in {"proxmox", "vmware"}
    /\ SlotsFor \in [Tickets -> SUBSET Slots]
    /\ Mentions \subseteq Tickets \X Tickets
    /\ \A t \in Tickets : <<t, t>> \in Mentions

NoVm == [ticket |-> NoTicket, addr |-> NoAddr, power |-> "off", leaving |-> FALSE]

NewVm(t, addr, power) ==
    [ticket |-> t, addr |-> addr, power |-> power, leaving |-> FALSE]

Vms == [ticket  : Tickets \cup {NoTicket},
        addr    : Addrs \cup {NoAddr},
        power   : {"off", "on"},
        leaving : BOOLEAN]

HypervisorTypeOK == vms \in [Slots -> Vms]

HypervisorInit == vms = [s \in Slots |-> NoVm]

(* _find_by_ticket: the needle as a substring of a VM's notes or tags.     *)
(* _find_vm: the same, or any VM that already has the requested hostname.  *)
Hits(t) ==
    {s \in Slots :
        /\ vms[s].ticket # NoTicket
        /\ \/ <<t, vms[s].ticket>> \in Mentions
           \/ Kind = "vmware" /\ s \in SlotsFor[t]}

(* Clone or create into a free slot.  Proxmox configures and starts the VM *)
(* in later calls; vSphere creates it configured and powers it on, and a   *)
(* power-on that fails is only logged.                                     *)
CreateVm(t, s, addr) ==
    /\ s \in SlotsFor[t]
    /\ vms[s] = NoVm
    /\ \/ /\ Kind = "proxmox"
          /\ vms' = [vms EXCEPT ![s] = NewVm(t, NoAddr, "off")]
       \/ /\ Kind = "vmware"
          /\ \E power \in {"off", "on"} :
                vms' = [vms EXCEPT ![s] = NewVm(t, addr, power)]

(* config.put and status.start.post on a vmid that still exists.           *)
ConfigureVm(t, s, addr) ==
    /\ vms[s].ticket # NoTicket
    /\ vms' = [vms EXCEPT ![s] = [@ EXCEPT !.ticket = t, !.addr = addr]]

StartVm(s) ==
    /\ vms[s].ticket # NoTicket
    /\ vms' = [vms EXCEPT ![s].power = "on"]

(* destroy on Proxmox posts a stop and a delete, on vSphere it waits for    *)
(* both tasks, 600 seconds each.  Every error is logged and swallowed, the *)
(* hypervisor's refusal and the end of a wait too.                         *)
DestroyVm(s) ==
    \/ /\ Kind = "proxmox" \/ "destroyError" \in Faults
       /\ vms' = [vms EXCEPT ![s].leaving = vms[s].ticket # NoTicket]
    \/ /\ Kind = "vmware"
       /\ vms' = [vms EXCEPT ![s] = NoVm]
    \/ /\ "destroyError" \in Faults
       /\ vms' \in {vms, [vms EXCEPT ![s].power = "off"]}

(* The stop and the delete end at any later time or never, and nobody      *)
(* looks: the VM is gone, or it stays, when the delete was refused because *)
(* the VM still ran or failed for another reason.                          *)
DeleteEnds(s) ==
    /\ vms[s].leaving
    /\ \/ vms' = [vms EXCEPT ![s] = NoVm]
       \/ \E power \in {vms[s].power, "off"} :
             vms' = [vms EXCEPT ![s] = [@ EXCEPT !.leaving = FALSE, !.power = power]]
=============================================================================
