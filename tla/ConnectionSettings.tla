-------------------------- MODULE ConnectionSettings --------------------------
(***************************************************************************)
(* The list of hypervisor connections, from the page it is edited on to    *)
(* the settings it is stored in and back to those who connect.  Secrets    *)
(* never reach a page: a field left blank means the stored one, which the  *)
(* server has to find again by the address, or by the address the page     *)
(* says the connection had before.  A page saves the list as a whole, from *)
(* settings read once, and several pages may be open.  SettingsVault says  *)
(* how current a read of the settings is; here it is current.              *)
(***************************************************************************)
EXTENDS Integers, SequencesExt

CONSTANTS
    Pages,      \* browsers with the settings open
    Kind,       \* whose connections: "proxmox" or "vmware"
    Hosts,      \* addresses
    NoHost,
    Secrets,
    NoSecret,
    Imported,   \* settings that the import of a .env file may leave
    MaxRows,    \* bound: connections on a page
    MaxEdits,   \* bound: changes on pages
    MaxSaves    \* bound: saves

ASSUME ConnectionSettingsAssumption ==
    /\ Kind \in {"proxmox", "vmware"}
    /\ NoHost \notin Hosts /\ NoSecret \notin Secrets
    /\ MaxRows \in Nat /\ MaxEdits \in Nat /\ MaxSaves \in Nat

VARIABLES
    vault,      \* the stored settings
    page,       \* page -> the connections on it
    put,        \* page -> the save under way
    edits,      \* changes on pages so far
    saves       \* saves so far

vars == <<vault, page, put, edits, saves>>

(* rows is proxmox_endpoints; hosts is proxmox_host and proxmox_hosts, and *)
(* secret proxmox_token_value, from before there was a list.               *)
Connections == [host : Hosts, secret : Secrets \cup {NoSecret}]
Vaults == [rows : Seq(Connections), hosts : Seq(Hosts), secret : Secrets \cup {NoSecret}]

(* Every setting may be in the file, the list, too, and nothing makes the  *)
(* older fields agree with it; _split_hosts drops repeated addresses.      *)
ASSUME ImportedAssumption ==
    /\ Imported \subseteq Vaults
    /\ \A v \in Imported : IsInjective(v.hosts)

(* host, previous_host, whether a secret is configured, the one typed.     *)
(* from, a ghost, is the place the row had in the list the page was loaded *)
(* with, 0 for a new one; changed counts the changes of its form.          *)
Rows == [host : Hosts, prev : Hosts \cup {NoHost}, configured : BOOLEAN,
         typed : Secrets \cup {NoSecret}, from : Nat, changed : Nat]

(* loaded is a ghost.                                                      *)
Shown == [rows : Seq(Rows), loaded : Seq(Connections)]

(* What a save sends, and the settings as the server read them for it.     *)
NoPut == [busy |-> FALSE]

-----------------------------------------------------------------------------
(* list_proxmox_endpoints, list_vmware_endpoints.                          *)
Listed(v) ==
    IF v.rows # <<>>
    THEN [i \in DOMAIN v.rows |->
            [v.rows[i] EXCEPT !.secret = IF @ = NoSecret THEN v.secret ELSE @]]
    ELSE [i \in DOMAIN v.hosts |-> [host |-> v.hosts[i], secret |-> v.secret]]

NoConnection == [host |-> NoHost, secret |-> NoSecret]

(* proxmox_endpoint_for, vmware_endpoint_for: the only connection serves   *)
(* whatever address is asked for.                                          *)
EndpointFor(v, h) ==
    LET list == Listed(v)
        i == SelectInSeq(list, LAMBDA c : c.host = h)
    IN  IF i # 0 THEN list[i]
        ELSE IF Len(list) = 1 /\ h # NoHost THEN list[1] ELSE NoConnection

(* The secret the provisioners and the catalog connect to an address with: *)
(* the connection's, else the one from before there was a list.            *)
UsedAt(v, h) ==
    LET secret == EndpointFor(v, h).secret
    IN  IF secret = NoSecret THEN v.secret ELSE secret

-----------------------------------------------------------------------------
(* The entry of an address in the dict made of a list: the last one.       *)
ByHost(list, h) ==
    {list[i] : i \in {k \in DOMAIN list :
        /\ list[k].host = h
        /\ \A j \in DOMAIN list : j > k => list[j].host # h}}

(* The entry of the stored list that a row sent back is taken for: the one *)
(* of its address, else the one of its previous address.                   *)
Earlier(list, row) ==
    LET here == ByHost(list, row.host)
        before == ByHost(list, row.prev)
    IN  CHOOSE c \in IF here # {} THEN here
                    ELSE IF before # {} THEN before ELSE {NoConnection} : TRUE

(* Mutant of Merged: previous_host is not looked at.                       *)
MergedByHost(read, sent) ==
    [i \in DOMAIN sent |->
        LET old == Earlier(Listed(read), [sent[i] EXCEPT !.prev = NoHost]).secret
        IN  [host |-> sent[i].host,
             secret |-> IF sent[i].typed # NoSecret THEN sent[i].typed
                        ELSE IF old # NoSecret THEN old ELSE read.secret]]

(* merge_proxmox_incoming, merge_vmware_incoming: a secret left blank is   *)
(* the earlier one, else the one from before there was a list.             *)
Merged(read, sent) ==
    [i \in DOMAIN sent |->
        LET old == Earlier(Listed(read), sent[i]).secret
        IN  [host |-> sent[i].host,
             secret |-> IF sent[i].typed # NoSecret THEN sent[i].typed
                        ELSE IF old # NoSecret THEN old ELSE read.secret]]

(* Mutant of Saved: the first connection's secret is not stored the old    *)
(* way, too.                                                               *)
SavedApart(v, read, sent) ==
    LET rows == Merged(read, sent)
    IN  [rows |-> rows, hosts |-> [i \in DOMAIN rows |-> rows[i].host], secret |-> v.secret]

(* The settings after a save, v being those it finds: list and addresses   *)
(* are replaced, and so is the old secret unless the new one is blank.     *)
Saved(v, read, sent) ==
    LET rows == Merged(read, sent)
        secret == IF rows = <<>> THEN read.secret ELSE rows[1].secret
    IN  [rows |-> rows,
         hosts |-> [i \in DOMAIN rows |-> rows[i].host],
         secret |-> IF secret = NoSecret THEN v.secret ELSE secret]

-----------------------------------------------------------------------------
(* mask_settings and fillSettings: secrets are shown as configured or not. *)
PageOf(v) ==
    LET list == Listed(v)
    IN  [loaded |-> list,
         rows |-> [i \in DOMAIN list |->
            [host |-> list[i].host, prev |-> NoHost, configured |-> list[i].secret # NoSecret,
             typed |-> NoSecret, from |-> i, changed |-> 0]]]

(* The settings as the import of a .env file leaves them, and open pages.  *)
Init ==
    /\ vault \in Imported
    /\ page = [o \in Pages |-> PageOf(vault)]
    /\ put = [o \in Pages |-> NoPut]
    /\ edits = 0
    /\ saves = 0

(* loadSettings, also after a save, unless that is lost.                   *)
Load(o) ==
    /\ page' = [page EXCEPT ![o] = PageOf(vault)]
    /\ UNCHANGED <<vault, put, edits, saves>>

Shows(o, rows) ==
    /\ edits < MaxEdits
    /\ edits' = edits + 1
    /\ page' = [page EXCEPT ![o].rows = rows]
    /\ UNCHANGED <<vault, put, saves>>

(* Mutant of Add: a new connection may come without a secret.              *)
AddBare(o, h, s) ==
    /\ Len(page[o].rows) < MaxRows
    /\ Shows(o, Append(page[o].rows, [host |-> h, prev |-> NoHost, configured |-> FALSE,
                                      typed |-> s, from |-> 0, changed |-> 0]))

(* applyConnModal for a new connection, which needs a secret.              *)
Add(o, h, s) ==
    /\ s # NoSecret
    /\ Len(page[o].rows) < MaxRows
    /\ Shows(o, Append(page[o].rows, [host |-> h, prev |-> NoHost, configured |-> FALSE,
                                      typed |-> s, from |-> 0, changed |-> 0]))

(* applyConnModal for one that is on the page, with any change of address  *)
(* or none: previous_host becomes the address it had before this change.   *)
Edit(o, i, h, s) ==
    LET row == page[o].rows[i]
        typed == IF s = NoSecret THEN row.typed ELSE s
    IN  /\ i \in DOMAIN page[o].rows
        /\ Kind = "proxmox" => typed # NoSecret \/ row.configured
        /\ Shows(o, [page[o].rows EXCEPT ![i] =
                [host |-> h, prev |-> row.host, configured |-> row.configured,
                 typed |-> typed, from |-> row.from, changed |-> row.changed + 1]])

Drop(o, i) ==
    /\ i \in DOMAIN page[o].rows
    /\ Shows(o, RemoveAt(page[o].rows, i))

(* payloadConns.                                                           *)
Payload(rows) ==
    [i \in DOMAIN rows |->
        [host |-> rows[i].host, typed |-> rows[i].typed,
         prev |-> IF rows[i].prev = NoHost THEN rows[i].host ELSE rows[i].prev]]

(* The page is sent, and put_ops_settings reads the settings.              *)
Send(o) ==
    /\ ~put[o].busy /\ saves < MaxSaves
    /\ saves' = saves + 1
    /\ put' = [put EXCEPT ![o] = [busy |-> TRUE, read |-> vault, page |-> page[o],
                                 sent |-> Payload(page[o].rows)]]
    /\ UNCHANGED <<vault, page, edits>>

(* The merge and save_vault.                                               *)
Commit(o) ==
    /\ put[o].busy
    /\ vault' = Saved(vault, put[o].read, put[o].sent)
    /\ put' = [put EXCEPT ![o] = NoPut]
    /\ UNCHANGED <<page, edits, saves>>

(* The save fails, and the page stays as it is.                            *)
Fail(o) ==
    /\ put[o].busy
    /\ put' = [put EXCEPT ![o] = NoPut]
    /\ UNCHANGED <<vault, page, edits, saves>>

Next ==
    \E o \in Pages :
        \/ Load(o) \/ Send(o) \/ Commit(o) \/ Fail(o)
        \/ \E i \in 1 .. MaxRows : Drop(o, i)
        \/ \E h \in Hosts, s \in Secrets \cup {NoSecret} :
            Add(o, h, s) \/ \E i \in 1 .. MaxRows : Edit(o, i, h, s)

Spec == Init /\ [][Next]_vars

-----------------------------------------------------------------------------
Puts ==
    {NoPut} \cup
    [busy : {TRUE}, read : Vaults, page : Shown,
     sent : Seq([host : Hosts, typed : Secrets \cup {NoSecret}, prev : Hosts])]

(* Types of the variables, and no row of a page is without a secret that   *)
(* was not so when the page was loaded.                                    *)
TypeOK ==
    /\ vault \in Vaults
    /\ page \in [Pages -> Shown]
    /\ put \in [Pages -> Puts]
    /\ edits \in 0 .. MaxEdits
    /\ saves \in 0 .. MaxSaves
    /\ \A o \in Pages : \A i \in DOMAIN page[o].rows :
          page[o].rows[i].from = 0 => page[o].rows[i].typed # NoSecret

(* The fields from before there was a list go with the list: the default   *)
(* connection, which a provisioner finds by proxmox_host alone, is the     *)
(* first of the list, and is connected to with the secret of that entry.   *)
FirstIsDefault(v) ==
    LET list == Listed(v)
    IN  /\ v.hosts = [i \in DOMAIN list |-> list[i].host]
        /\ list # <<>> => /\ EndpointFor(v, v.hosts[1]) = list[1]
                          /\ UsedAt(v, v.hosts[1]) = v.secret

(* Every save of a page leaves it so, whatever it was merged with, what    *)
(* other saves did since it was read, and whatever a .env file had set     *)
(* apart (proxmox.py 46-54, endpoints.py 204-230).                         *)
DefaultIsFirst == [][\A o \in Pages : Commit(o) => FirstIsDefault(vault')]_vars

(* Nothing was saved between the load of the page and the save.            *)
Current(o) == put[o].page.loaded = Listed(put[o].read)

(* The row has kept its address, or has one that no connection had.        *)
Unmistaken(o, i) ==
    LET row == put[o].page.rows[i]
        was == {k \in DOMAIN put[o].page.loaded : put[o].page.loaded[k].host = row.host}
        home == put[o].page.loaded[row.from].host
        same == {k \in DOMAIN put[o].page.loaded : put[o].page.loaded[k].host = home}
    IN  was \subseteq {row.from} /\ same = {row.from}

LeftBlank(o, i) ==
    LET row == put[o].page.rows[i]
    IN  /\ row.typed = NoSecret /\ row.from # 0
        /\ put[o].page.loaded[row.from].secret # NoSecret

KeptBy(o, i) == Listed(vault')[i].secret = put[o].page.loaded[put[o].page.rows[i].from].secret

(* A connection whose secret was left blank keeps it through a save, also  *)
(* when its address has changed or another save came in between: if it was *)
(* changed no more than once since the page was loaded (app.js 390-443,    *)
(* endpoints.py 186-192).                                                  *)
KeepsSecret ==
    [][\A o \in Pages : Commit(o) /\ Current(o) =>
        \A i \in DOMAIN put[o].sent :
            LeftBlank(o, i) /\ Unmistaken(o, i) /\ put[o].page.rows[i].changed <= 1
                => KeptBy(o, i)]_vars

(* The same however often it was changed, as the page says: the secret is  *)
(* stored, leave blank to keep (app.js 382).  A connection that is given a *)
(* new address and then changed once more before the save is looked up by  *)
(* the address in between, and gets the secret of the connection that has  *)
(* it, or that of the first one.                                           *)
KeepsStoredSecret ==
    [][\A o \in Pages : Commit(o) /\ Current(o) =>
        \A i \in DOMAIN put[o].sent :
            LeftBlank(o, i) /\ Unmistaken(o, i) => KeptBy(o, i)]_vars
=============================================================================
