------------------------------ MODULE IpamCalls ------------------------------
(***************************************************************************)
(* The IPAM adapters request by request.  NetBox: list the free addresses, *)
(* then create the first.  Nautobot: let the server allocate one and, when *)
(* it answers with an error, list and create as well.  The IPAM refuses a  *)
(* second object for an address; nothing else keeps two workers apart that *)
(* listed the same one.                                                    *)
(***************************************************************************)
EXTENDS Integers, FiniteSets

CONSTANTS
    Tickets,   \* each the subject of one running task
    Addrs,     \* the host addresses of the prefix, in the order of the lists
    NoTicket,
    NoAddr,
    Misfortunes  \* what calls of the adapters may meet beyond plain failure

VARIABLES
    pc,        \* ticket -> the request its task makes next
    provider,  \* the IPAM product, the same for all tasks
    book,      \* address -> the ticket named in its IPAM object
    picked,    \* ticket -> the first entry of the list it read
    held       \* ticket -> the address reserve_ip returned

MisfortuneKinds == {
    "lostReply",    \* a request takes effect and still raises
    "releaseError", \* a delete in the IPAM fails
    "destroyError"} \* a delete in the hypervisor fails

ASSUME IpamCallsAssumption ==
    /\ Addrs \subseteq Nat /\ NoAddr \notin Addrs
    /\ NoTicket \notin Tickets
    /\ Misfortunes \subseteq MisfortuneKinds

addressVars == <<provider, book, picked, held>>

Providers == {"netbox", "nautobot"}

Goto(t, from, to) == pc[t] = from /\ pc' = [pc EXCEPT ![t] = to]

Free == {a \in Addrs : book[a] = NoTicket}
First(S) == CHOOSE a \in S : \A b \in S : a <= b

IpamCallsInit ==
    /\ provider \in Providers
    /\ pc = [t \in Tickets |-> IF provider = "netbox" THEN "list" ELSE "allocate"]
    /\ book = [a \in Addrs |-> NoTicket]
    /\ picked = [t \in Tickets |-> NoAddr]
    /\ held = [t \in Tickets |-> NoAddr]

Register(t, a) ==
    /\ book[a] = NoTicket
    /\ book' = [book EXCEPT ![a] = t]

Hold(t, a) == held' = [held EXCEPT ![t] = a]

-----------------------------------------------------------------------------
(* POST available-ips.  An HTTP error, after which the address may exist,  *)
(* goes on with the list; a connection that fails or times out raises.     *)
Allocate(t) ==
    /\ \/ \E a \in Free :
            /\ a = First(Free)
            /\ Register(t, a)
            /\ \/ Goto(t, "allocate", "route") /\ Hold(t, a)
               \/ /\ "lostReply" \in Misfortunes
                  /\ \E to \in {"list", "undo"} : Goto(t, "allocate", to)
                  /\ UNCHANGED held
       \/ /\ \E to \in {"list", "undo"} : Goto(t, "allocate", to)
          /\ UNCHANGED <<book, held>>
    /\ UNCHANGED <<provider, picked>>

(* GET available-ips: an empty list raises, as any failing request does.   *)
List(t) ==
    /\ \/ \E a \in Free :
            /\ Goto(t, "list", "create")
            /\ a = First(Free)
            /\ picked' = [picked EXCEPT ![t] = a]
       \/ Goto(t, "list", "undo") /\ UNCHANGED picked
    /\ UNCHANGED <<provider, book, held>>

(* Mutant of Create: an address that turns out to exist is taken for done. *)
CreateOrGet(t) ==
    /\ \/ /\ Goto(t, "create", "route")
          /\ book' = [book EXCEPT ![picked[t]] = IF @ = NoTicket THEN t ELSE @]
          /\ Hold(t, picked[t])
       \/ Goto(t, "create", "undo") /\ UNCHANGED <<book, held>>
    /\ UNCHANGED <<provider, picked>>

(* Mutant of Create: after an error the list is read again.                *)
CreateRetried(t) ==
    /\ \/ /\ Goto(t, "create", "route")
          /\ Register(t, picked[t]) /\ Hold(t, picked[t])
       \/ /\ "lostReply" \in Misfortunes
          /\ Goto(t, "create", "list")
          /\ Register(t, picked[t]) /\ UNCHANGED held
       \/ Goto(t, "create", "list") /\ UNCHANGED <<book, held>>
    /\ UNCHANGED <<provider, picked>>

(* POST ip-addresses with the first entry of a list that may be old.       *)
Create(t) ==
    /\ \/ /\ Goto(t, "create", "route")
          /\ Register(t, picked[t]) /\ Hold(t, picked[t])
       \/ /\ "lostReply" \in Misfortunes
          /\ Goto(t, "create", "undo")
          /\ Register(t, picked[t]) /\ UNCHANGED held
       \/ Goto(t, "create", "undo") /\ UNCHANGED <<book, held>>
    /\ UNCHANGED <<provider, picked>>

(* release_ip of the except block, a failing delete is logged only; what  *)
(* the adapters read is forgotten with the run.                            *)
Release(t) ==
    /\ book' \in {[a \in Addrs |-> IF a = held[t] THEN NoTicket ELSE book[a]]}
                    \cup (IF "releaseError" \in Misfortunes THEN {book} ELSE {})
    /\ Hold(t, NoAddr)
    /\ picked' = [picked EXCEPT ![t] = NoAddr]
    /\ UNCHANGED provider
=============================================================================
