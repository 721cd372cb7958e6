---------------------------- MODULE CatalogSync -----------------------------
(***************************************************************************)
(* Keeping OTOBO's dropdowns and ACLs like the inventory: the sync script, *)
(* which the catalog-sync container runs in a loop and the setup runs at   *)
(* its end.  All of them hand their values over in files of the same name. *)
(***************************************************************************)
EXTENDS Integers

CONSTANTS
    Streams,     \* setup requests; each may run one sync in the API container
    Loop,        \* the loop of the catalog-sync container
    Endpoints,   \* configured Proxmox and VMware connections
    Vmware,      \* those of them that are VMware
    MaxChanges,  \* bound: changes of the inventory
    MaxFaults    \* bound: failing connections, commands and scripts

ASSUME SyncAssumption ==
    /\ Loop \notin Streams
    /\ Vmware \subseteq Endpoints
    /\ MaxChanges \in Nat /\ MaxFaults \in Nat

VARIABLES
    inventory,      \* what the hypervisors offer now, as a version
    syncs,          \* a run of the sync script in every place that may run it
    remoteCatalog,  \* /tmp/otobo_catalog_values.json on the OTOBO host
    catalog,        \* OTOBO's dynamic fields and its ACLs
    faults          \* what went wrong so far

syncVars == <<inventory, syncs, remoteCatalog, catalog, faults>>

Syncs == Streams \cup {Loop}

(* A list has, for every endpoint, the version it was read at, no entry, or*)
(* the address of the endpoint in place of its hosts.  Datastores, listed  *)
(* last, are listed like images.                                           *)
Lists == {"images", "hosts"}
NoEntry == -1
ByAddress == -2
Values == [Lists -> [Endpoints -> ByAddress .. MaxChanges]]
NoValues == [list \in Lists |-> [e \in Endpoints |-> NoEntry]]
InventoryAt(version) == [list \in Lists |-> [e \in Endpoints |-> version]]

Stages == {"idle", "push", "fields", "acl", "done", "failed"} \cup Lists
Ended == {"done", "failed"}
NextStage == [images |-> "hosts", hosts |-> "push"]

SyncTypeOK ==
    /\ inventory \in 0 .. MaxChanges
    /\ syncs \in [Syncs -> [stage : Stages, values : Values]]
    /\ remoteCatalog \in Values
    /\ catalog \in [fields : Values, acl : Values]
    /\ faults \in 0 .. MaxFaults

SyncInit ==
    /\ inventory = 0
    /\ syncs = [x \in Syncs |-> [stage |-> "idle", values |-> NoValues]]
    /\ remoteCatalog = NoValues
    /\ catalog = [fields |-> NoValues, acl |-> NoValues]
    /\ faults = 0

Stage(x, stage) == syncs[x].stage = stage
Fault == faults < MaxFaults /\ faults' = faults + 1

-----------------------------------------------------------------------------
StartSync(x) == syncs' = [syncs EXCEPT ![x] = [stage |-> "images", values |-> NoValues]]
EndSync(x, how) == syncs' = [syncs EXCEPT ![x] = [stage |-> how, values |-> NoValues]]

(* An endpoint that cannot be reached is logged and left out, but a VMware *)
(* endpoint still stands for itself among the hosts.                       *)
Absent(list, e) == IF list = "hosts" /\ e \in Vmware THEN ByAddress ELSE NoEntry

(* list_images, list_hosts and list_datastores, one after the other.       *)
List(x) ==
    \E list \in Lists, down \in SUBSET Endpoints :
        /\ Stage(x, list)
        /\ \/ down = {} /\ UNCHANGED faults
           \/ down # {} /\ Fault
        /\ syncs' = [syncs EXCEPT
             ![x].stage = NextStage[list],
             ![x].values[list] = [e \in Endpoints |->
                                    IF e \in down THEN Absent(list, e) ELSE inventory]]
        /\ UNCHANGED <<inventory, remoteCatalog, catalog>>

(* The values are written to a file and scp puts it on the OTOBO host.     *)
Push(x) ==
    /\ Stage(x, "push")
    /\ remoteCatalog' = syncs[x].values
    /\ syncs' = [syncs EXCEPT ![x] = [stage |-> "fields", values |-> NoValues]]
    /\ UNCHANGED <<inventory, catalog, faults>>

(* The Perl script takes its values from the file on the OTOBO host, then  *)
(* updates the fields, then the ACLs.                                      *)
Fields(x) ==
    /\ Stage(x, "fields")
    /\ syncs' = [syncs EXCEPT ![x] = [stage |-> "acl", values |-> remoteCatalog]]
    /\ catalog' = [catalog EXCEPT !.fields = remoteCatalog]
    /\ UNCHANGED <<inventory, remoteCatalog, faults>>

Acl(x) ==
    /\ Stage(x, "acl")
    /\ catalog' = [catalog EXCEPT !.acl = syncs[x].values]
    /\ EndSync(x, "done")
    /\ UNCHANGED <<inventory, remoteCatalog, faults>>

(* A command fails or the script dies: check_call raises, the sync ends.   *)
(* Settings that could not be read name no OTOBO host, which ends it too,  *)
(* when it is about to push.                                               *)
SyncFails(x) ==
    /\ syncs[x].stage \in {"push", "fields", "acl"}
    /\ Fault
    /\ EndSync(x, "failed")
    /\ UNCHANGED <<inventory, remoteCatalog, catalog>>

SyncStep(x) == List(x) \/ Push(x) \/ Fields(x) \/ Acl(x) \/ SyncFails(x)

TurnsAfter(stages) ==
    /\ \/ Stage(Loop, "idle") /\ StartSync(Loop)
       \/ syncs[Loop].stage \in stages /\ syncs' = [syncs EXCEPT ![Loop].stage = "idle"]
    /\ UNCHANGED <<inventory, remoteCatalog, catalog, faults>>

(* Mutant of LoopTurn: a sync that fails ends the loop.                    *)
LoopEndsWithFailure == TurnsAfter({"done"})

(* catalog_sync_loop: whatever the result of a sync, sleep and start anew. *)
LoopTurn == TurnsAfter(Ended)

(* An administrator of a hypervisor adds or removes something.             *)
ChangeInventory ==
    /\ inventory < MaxChanges
    /\ inventory' = inventory + 1
    /\ UNCHANGED <<syncs, remoteCatalog, catalog, faults>>
=============================================================================
