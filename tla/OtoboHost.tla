----------------------------- MODULE OtoboHost ------------------------------
(***************************************************************************)
(* Everything that changes OTOBO's configuration: setups started in the    *)
(* browser and the catalog loop, which meet only in files on its host.     *)
(***************************************************************************)
EXTENDS OtoboSetup

vars == <<syncVars, setupVars>>

TypeOK == SyncTypeOK /\ SetupTypeOK

Init == SyncInit /\ SetupInit

RunStep(s) ==
    \/ /\ ReadKey(s) \/ WriteJson(s) \/ WriteScript(s) \/ PushJson(s) \/ PushScript(s)
          \/ RunPerl(s) \/ SaveKey(s)
       /\ UNCHANGED syncVars
    \/ /\ AwaitSync(s)
       /\ UNCHANGED <<streamVars, local, remote, webservice, vaultKey>>
       /\ UNCHANGED <<inventory, remoteCatalog, catalog, faults>>
    \/ RunFails(s) /\ UNCHANGED <<inventory, syncs, remoteCatalog, catalog>>

Next ==
    \/ \E s \in Streams : StreamStep(s) /\ UNCHANGED syncVars
    \/ \E s \in Streams : RunStep(s)
    \/ RotateKey /\ UNCHANGED syncVars
    \/ \E x \in Syncs : SyncStep(x) /\ UNCHANGED setupVars
    \/ (LoopTurn \/ ChangeInventory) /\ UNCHANGED setupVars

(* The loop's container is restarted when it stops, and each of its        *)
(* commands ends; nothing is assumed of setups and their syncs.            *)
Fairness == WF_vars((SyncStep(Loop) \/ LoopTurn) /\ UNCHANGED setupVars)

Spec == Init /\ [][Next]_vars /\ Fairness

-----------------------------------------------------------------------------
(* Properties                                                              *)

(* "Setup is already running": a script that runs belongs to the stream    *)
(* that holds the lock, so there is one at a time.                         *)
OneSetup == \A s \in Streams : Running(s) => holder = s

(* "Show remote actions without writing": no dry run ever runs a script    *)
(* that writes to OTOBO, whoever put it there.                             *)
DryRunsWriteNothing == \A s \in Streams : requests[s].dry => webservice.by # s

(* A setup that ends with success leaves OTOBO sending the key that Werft  *)
(* expects, in spite of key rotations and failed setups in between.        *)
KeysAgree ==
    [][\A s \in Streams : At(s, "save") /\ runs'[s].pc = "saved" =>
          webservice.key = vaultKey']_vars

(* Failed and partial syncs, setups that sync at the same time and files   *)
(* taken from one another heal: OTOBO's dropdowns and ACLs come to show    *)
(* the inventory.                                                          *)
CatalogConverges ==
    <>[](catalog = [fields |-> InventoryAt(inventory), acl |-> InventoryAt(inventory)])
=============================================================================
