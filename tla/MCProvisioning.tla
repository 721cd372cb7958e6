--------------------------- MODULE MCProvisioning ---------------------------
(* Small instances of Provisioning.                                        *)
EXTENDS Provisioning, TLC

CONSTANTS t1, t2, s1, s2

(* Proxmox: a new VM takes whichever vmid is free.  On vSphere, with one   *)
(* slot: all tickets ask for the same hostname.                            *)
AnySlot == [t \in Tickets |-> Slots]

(* Ticket numbers of which none is a prefix of another.                    *)
OwnNotes == {<<t, t>> : t \in Tickets}

(* Ticket numbers such as 1 and 12: a search for t1's needle also hits the *)
(* notes of t2's VM.                                                       *)
PrefixNotes == OwnNotes \cup {<<t1, t2>>}

(* vSphere: the VM takes its hostname; here no two tickets ask for one.    *)
OwnName == [t \in Tickets |-> IF t = t1 THEN {s1} ELSE {s2}]

(* Sound with AnySlot, where one vmid is as good as another.               *)
Symmetry ==
    Permutations(Workers) \cup Permutations(Addrs) \cup Permutations(Handlers)
        \cup Permutations(Slots)
=============================================================================
