--------------------------- MODULE SettingsVault ----------------------------
(***************************************************************************)
(* The settings: one encrypted row, a cache of _CACHE_TTL seconds in every *)
(* process, saves that read all of it, change some of it and write all of  *)
(* it back.  Several threads of a process load and save at the same time,  *)
(* and nothing but the database row is shared between processes.           *)
(***************************************************************************)
EXTENDS MasterKey, Integers

CONSTANTS
    Fields,       \* settings that can be changed on their own
    NoField,
    Savers,       \* threads that save: requests, the import at start, the setup
    Scripts,      \* threads that clear the cache first: sync loop, sync, setup
    ReadFails,    \* may a read of the row fail?
    TTL,          \* _CACHE_TTL
    MaxSaves,     \* bound: saves started in a behaviour
    MaxTime,      \* bound: value of the clock
    MaxRestarts   \* bound: processes started again

ASSUME VaultAssumption ==
    /\ NoField \notin Fields
    /\ Savers \subseteq Threads /\ Scripts \subseteq Threads
    /\ ReadFails \in BOOLEAN
    /\ TTL \in Nat /\ MaxSaves \in Nat /\ MaxTime \in Nat /\ MaxRestarts \in Nat

VARIABLES
    row,          \* app_settings: NoKey stands for no row
    caches,       \* process -> _cache
    threads,      \* thread -> its call of load_settings or save_vault
    saves,        \* saves started so far; a save writes its number
    now,          \* time.monotonic(), the same for all processes
    committed,    \* ghost: version of the row -> when it was committed
    restarts      \* processes started again so far

vars == <<keyVars, row, caches, threads, saves, now, committed, restarts>>

(* Settings are known by the save that last wrote each field, 0 being the  *)
(* default.  Version is a ghost: the number of commits before.             *)
Defaults == [f \in Fields |-> 0]
Contents == [Fields -> 0 .. MaxSaves]
RowStates == [version : 0 .. MaxSaves, data : Contents, key : Keys]
NoRow == [version |-> 0, data |-> Defaults, key |-> NoKey]

Unread == -1   \* the version of defaults that stand in for an unreadable row

Settings == [version : Unread .. MaxSaves, data : Contents]
Failed == [version |-> Unread, data |-> Defaults]
Cached == [valid : BOOLEAN, stamp : 0 .. MaxTime, settings : Settings]
NoCache == [valid |-> FALSE, stamp |-> 0, settings |-> Failed]

(* field is what a save changes and value its number; stamp the time taken *)
(* first; fetched the row as read; got the settings; insert whether        *)
(* db.get found no row.                                                    *)
Idle == [pc |-> "idle", field |-> NoField, value |-> 0, stamp |-> 0,
         fetched |-> NoRow, got |-> Failed, insert |-> FALSE]

Calls == [pc : {"idle", "load", "hit", "fetch", "key", "create", "write", "store",
                "saveKey", "saveCreate", "saveWrite", "get", "put", "invalidate"},
          field : Fields \cup {NoField}, value : 0 .. MaxSaves, stamp : 0 .. MaxTime,
          fetched : RowStates, got : Settings, insert : BOOLEAN]

VaultTypeOK ==
    /\ KeyTypeOK
    /\ row \in RowStates
    /\ caches \in [Procs -> Cached]
    /\ threads \in [Threads -> Calls]
    /\ saves \in 0 .. MaxSaves
    /\ now \in 0 .. MaxTime
    /\ committed \in [0 .. MaxSaves -> 0 .. MaxTime]
    /\ restarts \in 0 .. MaxRestarts

Init ==
    /\ KeyInit
    /\ row = NoRow
    /\ caches = [p \in Procs |-> NoCache]
    /\ threads = [th \in Threads |-> Idle]
    /\ saves = 0 /\ now = 0 /\ restarts = 0
    /\ committed = [v \in 0 .. MaxSaves |-> 0]

At(th, pc) == threads[th].pc = pc
Goto(th, pc) == threads' = [threads EXCEPT ![th].pc = pc]
Return(th) == threads' = [threads EXCEPT ![th] = Idle]
backVars == <<saves, now, committed, restarts>>

-----------------------------------------------------------------------------
Save(th, f) ==
    /\ At(th, "idle") /\ th \in Savers
    /\ saves < MaxSaves
    /\ saves' = saves + 1
    /\ threads' = [threads EXCEPT ![th] =
                     [Idle EXCEPT !.pc = "load", !.field = f, !.value = saves + 1]]
    /\ UNCHANGED <<keyVars, row, caches, now, committed, restarts>>

(* The settings a save writes; their version no longer matters.            *)
Changed(settings, t) ==
    [version |-> Unread, data |-> [settings.data EXCEPT ![t.field] = t.value]]

(* What load_settings does with its result: return it, or, in save_vault,  *)
(* put the changed field into it.                                          *)
Loaded(th, settings) ==
    threads' = [threads EXCEPT ![th] =
        IF @.field = NoField THEN Idle
        ELSE [Idle EXCEPT !.pc = "saveKey", !.field = threads[th].field,
                          !.got = Changed(settings, threads[th])]]

(* load_settings, also called on its own: the clock is read before         *)
(* anything else, and it stamps the new entry.                             *)
CheckCache(th) ==
    LET cache == caches[ProcOf[th]] IN
    /\ At(th, "idle") \/ At(th, "load")
    /\ threads' = [threads EXCEPT ![th] =
         IF cache.valid /\ now - cache.stamp < TTL
         THEN [@ EXCEPT !.pc = "hit"]
         ELSE [@ EXCEPT !.pc = "fetch", !.stamp = now]]
    /\ UNCHANGED <<keyVars, row, caches, backVars>>

(* _cache is a global, read again for the answer: another thread may have  *)
(* replaced the entry, or cleared it, which raises.                        *)
Hit(th) ==
    LET cache == caches[ProcOf[th]] IN
    /\ At(th, "hit")
    /\ \/ cache.valid /\ Loaded(th, cache.settings)
       \/ ~cache.valid /\ Return(th)
    /\ UNCHANGED <<keyVars, row, caches, backVars>>

(* _load_overlay_from_db: without a row the defaults hold, and so they do  *)
(* when it cannot be read.                                                 *)
Fetch(th) ==
    /\ At(th, "fetch")
    /\ threads' = [threads EXCEPT ![th] =
         IF row.key = NoKey
         THEN [@ EXCEPT !.pc = "store", !.got = [version |-> 0, data |-> Defaults]]
         ELSE [@ EXCEPT !.pc = "key", !.fetched = row]]
    /\ UNCHANGED <<keyVars, row, caches, backVars>>

FetchFails(th) ==
    /\ ReadFails
    /\ At(th, "fetch")
    /\ threads' = [threads EXCEPT ![th] = [@ EXCEPT !.pc = "store", !.got = Failed]]
    /\ UNCHANGED <<keyVars, row, caches, backVars>>

(* load_or_create_master_key, then decrypt_blob: any error is logged and   *)
(* leaves the defaults.                                                    *)
LoadKey(th) ==
    LET t == threads[th]
        data == IF keys'[ProcOf[th]] = t.fetched.key
                THEN [version |-> t.fetched.version, data |-> t.fetched.data]
                ELSE Failed
        store(settings) == threads' = [threads EXCEPT ![th] =
                             [@ EXCEPT !.pc = "store", !.fetched = NoRow, !.got = settings]]
    IN
    /\ \/ t.pc \in {"key", "create"} /\ HaveKey(th) /\ store(data)
       \/ t.pc \in {"key", "create"} /\ KeyRaises(th) /\ store(Failed)
       \/ t.pc = "key" /\ NoKeyFile(th) /\ Goto(th, "create")
       \/ t.pc = "create" /\ CreateKeyFile /\ Goto(th, "write")
       \/ t.pc = "write" /\ WriteKey(th) /\ store(data)
    /\ UNCHANGED <<row, caches, backVars>>

(* Mutant of Store: the entry counts from when it is stored.               *)
StoreNow(th) ==
    LET t == threads[th] IN
    /\ At(th, "store")
    /\ caches' = [caches EXCEPT ![ProcOf[th]] =
                    [valid |-> TRUE, stamp |-> now, settings |-> t.got]]
    /\ Loaded(th, t.got)
    /\ UNCHANGED <<keyVars, row, backVars>>

(* Mutant of Store: caches the row as it was read, not the settings.       *)
StoreRow(th) ==
    LET t == threads[th] IN
    /\ At(th, "store")
    /\ caches' = [caches EXCEPT ![ProcOf[th]] =
                    [valid |-> TRUE, stamp |-> t.stamp, settings |-> t.fetched]]
    /\ Loaded(th, t.got)
    /\ UNCHANGED <<keyVars, row, backVars>>

Store(th) ==
    LET t == threads[th] IN
    /\ At(th, "store")
    /\ caches' = [caches EXCEPT ![ProcOf[th]] =
                    [valid |-> TRUE, stamp |-> t.stamp, settings |-> t.got]]
    /\ Loaded(th, t.got)
    /\ UNCHANGED <<keyVars, row, backVars>>

-----------------------------------------------------------------------------
(* save_vault: the same key, but here its error ends the save.             *)
SaveKey(th) ==
    LET t == threads[th] IN
    /\ \/ t.pc \in {"saveKey", "saveCreate"} /\ HaveKey(th) /\ Goto(th, "get")
       \/ t.pc \in {"saveKey", "saveCreate"} /\ KeyRaises(th) /\ Return(th)
       \/ t.pc = "saveKey" /\ NoKeyFile(th) /\ Goto(th, "saveCreate")
       \/ t.pc = "saveCreate" /\ CreateKeyFile /\ Goto(th, "saveWrite")
       \/ t.pc = "saveWrite" /\ WriteKey(th) /\ Goto(th, "get")
    /\ UNCHANGED <<row, caches, backVars>>

Get(th) ==
    /\ At(th, "get")
    /\ threads' = [threads EXCEPT ![th] =
                     [@ EXCEPT !.pc = "put", !.insert = (row.key = NoKey)]]
    /\ UNCHANGED <<keyVars, row, caches, backVars>>

(* The commit.  An INSERT of a row that exists by now is refused.          *)
Put(th) ==
    LET t == threads[th] IN
    /\ At(th, "put")
    /\ \/ /\ ~t.insert \/ row.key = NoKey
          /\ row.version < MaxSaves   \* the bound of Save, never reached here
          /\ row' = [version |-> row.version + 1, data |-> t.got.data, key |-> keys[ProcOf[th]]]
          /\ committed' = [committed EXCEPT ![row.version + 1] = now]
          /\ Goto(th, "invalidate")
       \/ /\ t.insert /\ row.key # NoKey
          /\ Return(th)
          /\ UNCHANGED <<row, committed>>
    /\ UNCHANGED <<keyVars, caches, saves, now, restarts>>

(* invalidate_cache, then load_settings once more for the answer.          *)
Invalidate(th) ==
    /\ At(th, "invalidate")
    /\ caches' = [caches EXCEPT ![ProcOf[th]] = NoCache]
    /\ threads' = [threads EXCEPT ![th] = [Idle EXCEPT !.pc = "load"]]
    /\ UNCHANGED <<keyVars, row, backVars>>

(* invalidate_settings_cache, which the sync loop and the scripts call     *)
(* before they load.                                                       *)
Refresh(th) ==
    /\ At(th, "idle") /\ th \in Scripts
    /\ caches' = [caches EXCEPT ![ProcOf[th]] = NoCache]
    /\ Goto(th, "load")
    /\ UNCHANGED <<keyVars, row, backVars>>

-----------------------------------------------------------------------------
Tick ==
    /\ now < MaxTime
    /\ now' = now + 1
    /\ UNCHANGED <<keyVars, row, caches, threads, saves, committed, restarts>>

(* A process ends anywhere and starts again with nothing in memory.        *)
Restart(p) ==
    /\ restarts < MaxRestarts
    /\ restarts' = restarts + 1
    /\ ForgetKey(p)
    /\ caches' = [caches EXCEPT ![p] = NoCache]
    /\ threads' = [th \in Threads |-> IF ProcOf[th] = p THEN Idle ELSE threads[th]]
    /\ UNCHANGED <<row, saves, now, committed>>

Step(th) ==
    \/ Refresh(th) \/ \E f \in Fields : Save(th, f)
    \/ CheckCache(th) \/ Hit(th) \/ Fetch(th) \/ FetchFails(th) \/ LoadKey(th) \/ Store(th)
    \/ SaveKey(th) \/ Get(th) \/ Put(th) \/ Invalidate(th)

Next == (\E th \in Threads : Step(th)) \/ Tick \/ \E p \in Procs : Restart(p)

Spec == Init /\ [][Next]_vars

-----------------------------------------------------------------------------
(* Properties                                                              *)

(* An entry that load_settings accepts for an answer was the content of    *)
(* the row less than TTL ago, however long the load that filled it took    *)
(* and whatever other threads and processes saved meanwhile.  Defaults of  *)
(* a failed read aside, and as of the check: the answer reads _cache again *)
(* (Hit), and may find an older entry that a slow load just stored.        *)
HitsAtMostTTLOld ==
    [][\A th \in Threads :
         ~At(th, "hit") /\ threads'[th].pc = "hit" =>
            LET v == caches[ProcOf[th]].settings.version
            IN  v \in {Unread, row.version} \/ committed[v + 1] > now - TTL]_vars

(* The stored settings can be read by every process, those that start      *)
(* together on an empty volume included: there is one key.                 *)
VaultReadable ==
    row.key # NoKey =>
        /\ keyFile.key = row.key
        /\ \A p \in Procs : keys[p] \in {NoKey, row.key}

(* "Leeres Secret-Feld bleibt unveraendert": a save changes the fields it  *)
(* was given, and every other field stays as it is stored.                 *)
SavesOnlyOwnField ==
    [][\A f \in Fields : row'.data[f] # row.data[f] =>
          \E th \in Threads : At(th, "put") /\ threads'[th] # threads[th]
                              /\ threads[th].field = f]_vars
=============================================================================
