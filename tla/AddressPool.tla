----------------------------- MODULE AddressPool -----------------------------
(***************************************************************************)
(* What reserve_ip and release_ip promise, whatever the IPAM product and   *)
(* however many requests they take: an address is handed to one ticket at  *)
(* a time.  A call that fails may leave an address registered that no job  *)
(* knows of; such an address is lost, never given to somebody else.        *)
(***************************************************************************)
CONSTANTS Tickets, Addrs, NoTicket, NoAddr

VARIABLES
    owner,   \* address -> the ticket its IPAM object is for
    given    \* ticket -> the address its job works with

poolVars == <<owner, given>>

Init ==
    /\ owner = [a \in Addrs |-> NoTicket]
    /\ given = [t \in Tickets |-> NoAddr]

Register(t, a) ==
    /\ owner[a] = NoTicket
    /\ owner' = [owner EXCEPT ![a] = t]

Take(t, a) ==
    /\ given[t] = NoAddr
    /\ Register(t, a)
    /\ given' = [given EXCEPT ![t] = a]

Lose(t, a) == Register(t, a) /\ given' = given

(* The job gives the address up; the IPAM may fail to delete it.           *)
Return(t) ==
    /\ given[t] # NoAddr
    /\ owner' \in {owner, [owner EXCEPT ![given[t]] = NoTicket]}
    /\ given' = [given EXCEPT ![t] = NoAddr]

Next ==
    \E t \in Tickets :
        \/ \E a \in Addrs : Take(t, a) \/ Lose(t, a)
        \/ Return(t)

Spec == Init /\ [][Next]_poolVars
=============================================================================
