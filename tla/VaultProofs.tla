---------------------------- MODULE VaultProofs -----------------------------
(***************************************************************************)
(* Theorems about SettingsVault, for any number of processes, threads,     *)
(* fields and saves: types, one key for all, and the age of what a cache   *)
(* answers.                                                                *)
(***************************************************************************)
EXTENDS SettingsVault, TLAPS

Writing(th) == threads[th].pc \in {"write", "saveWrite"}

(* Why there is one key: the file is created once, by O_EXCL, and until    *)
(* its creator has written it no process and no row has a key.             *)
OneKey ==
    /\ keyFile.key # NoKey => keyFile.exists
    /\ \A p \in Procs : keys[p] \in {NoKey, keyFile.key}
    /\ row.key \in {NoKey, keyFile.key}
    /\ \A th \in Threads : Writing(th) => keyFile.exists /\ keyFile.key = NoKey
    /\ \A th, u \in Threads : Writing(th) /\ Writing(u) => th = u
    /\ \A th \in Threads : threads[th].pc \in {"get", "put"} => keys[ProcOf[th]] # NoKey

(* Version v was the row's content at time s or later.                     *)
CurrentAt(v, s) ==
    /\ s <= now
    /\ v # Unread => v <= row.version /\ (v # row.version => committed[v + 1] >= s)

(* Why a cache tells its age: its stamp is older than the read behind it.  *)
HonestCall(t) ==
    /\ t.stamp <= now
    /\ t.pc \in {"key", "create", "write"} => CurrentAt(t.fetched.version, t.stamp)
    /\ t.pc = "store" => CurrentAt(t.got.version, t.stamp)

HonestStamps ==
    /\ row.key = NoKey => row.version = 0
    /\ \A p \in Procs :
          caches[p].valid => CurrentAt(caches[p].settings.version, caches[p].stamp)
    /\ \A th \in Threads : HonestCall(threads[th])

-----------------------------------------------------------------------------
LEMMA VaultConstants ==
    /\ Failed \in Settings /\ NoRow \in RowStates /\ Idle \in Calls /\ NoCache \in Cached
    /\ 0 \in 0 .. MaxSaves /\ 0 \in 0 .. MaxTime /\ 0 \in 0 .. MaxRestarts
  <1>1. /\ 0 \in 0 .. MaxSaves /\ 0 \in 0 .. MaxTime /\ 0 \in 0 .. MaxRestarts
        /\ Unread \in Unread .. MaxSaves
    BY VaultAssumption DEF Unread
  <1>2. Defaults \in Contents
    BY <1>1 DEF Defaults, Contents
  <1>3. Failed \in Settings /\ NoRow \in RowStates
    BY <1>1, <1>2 DEF Failed, Settings, NoRow, RowStates, Keys
  <1>4. Idle \in Calls
    BY <1>1, <1>3 DEF Idle, Calls
  <1>5. NoCache \in Cached
    BY <1>1, <1>3 DEF NoCache, Cached
  <1>6. QED
    BY <1>1, <1>3, <1>4, <1>5

(* What a thread does with the settings it loaded keeps the types.         *)
LEMMA LoadedType ==
    ASSUME VaultTypeOK, NEW th \in Threads, NEW settings \in Settings, Loaded(th, settings)
    PROVE  threads' \in [Threads -> Calls]
  <1>1. threads \in [Threads -> Calls]
    BY DEF VaultTypeOK
  <1>2. Idle \in Calls
    BY VaultConstants
  <1>3. CASE threads[th].field = NoField
    BY <1>1, <1>2, <1>3 DEF Loaded
  <1>4. CASE threads[th].field # NoField
    <2>1. threads[th].field \in Fields /\ threads[th].value \in 0 .. MaxSaves
      BY <1>1, <1>4 DEF Calls
    <2>2. Changed(settings, threads[th]) \in Settings
      BY <2>1, VaultAssumption DEF Changed, Settings, Contents, Unread
    <2>3. [Idle EXCEPT !.pc = "saveKey", !.field = threads[th].field,
                       !.got = Changed(settings, threads[th])] \in Calls
      BY <1>2, <2>1, <2>2 DEF Calls
    <2>4. QED
      BY <1>1, <1>4, <2>3 DEF Loaded
  <1>5. QED
    BY <1>3, <1>4

(* The key's actions keep its types.                                       *)
LEMMA KeyTypes ==
    ASSUME KeyTypeOK, NEW th \in Threads,
           \/ HaveKey(th) \/ KeyRaises(th) \/ NoKeyFile(th) \/ CreateKeyFile \/ WriteKey(th)
    PROVE  KeyTypeOK'
  <1>1. ProcOf[th] \in Procs
    BY KeyAssumption
  <1>2. CASE HaveKey(th)
    BY <1>1, <1>2 DEF HaveKey, KeyTypeOK, keyVars, Keys
  <1>3. CASE KeyRaises(th) \/ NoKeyFile(th)
    BY <1>3 DEF KeyRaises, NoKeyFile, keyVars, KeyTypeOK
  <1>4. CASE CreateKeyFile
    BY <1>4 DEF CreateKeyFile, KeyTypeOK, Keys
  <1>5. CASE WriteKey(th)
    BY <1>1, <1>5 DEF WriteKey, KeyTypeOK, Keys
  <1>6. QED
    BY <1>2, <1>3, <1>4, <1>5

(* A thread's step keeps the types.                                        *)
LEMMA StepTypes ==
    ASSUME VaultTypeOK, NEW th \in Threads, Step(th)
    PROVE  VaultTypeOK'
  <1> USE VaultConstants, KeyAssumption DEF backVars, At, Goto, Return
  <1>0. /\ KeyTypeOK
        /\ threads \in [Threads -> Calls] /\ caches \in [Procs -> Cached] /\ row \in RowStates
        /\ threads[th] \in Calls /\ ProcOf[th] \in Procs
    BY DEF VaultTypeOK
  <1>k. UNCHANGED keyVars => KeyTypeOK'
    BY <1>0 DEF KeyTypeOK, keyVars
  <1>p. ASSUME NEW pc \in {"idle", "load", "hit", "fetch", "key", "create", "write", "store",
                          "saveKey", "saveCreate", "saveWrite", "get", "put", "invalidate"}
        PROVE  [threads EXCEPT ![th].pc = pc] \in [Threads -> Calls]
    BY <1>0, <1>p DEF Calls
  <1>i. [threads EXCEPT ![th] = Idle] \in [Threads -> Calls]
    BY <1>0
  <1>1. CASE Refresh(th)
    <2>1. threads' \in [Threads -> Calls]
      BY <1>p, <1>1 DEF Refresh
    <2>2. caches' \in [Procs -> Cached]
      BY <1>0, <1>1 DEF Refresh
    <2>3. QED
      BY <1>1, <1>k, <2>1, <2>2 DEF Refresh, VaultTypeOK
  <1>2. ASSUME NEW f \in Fields, Save(th, f) PROVE VaultTypeOK'
    <2>1. saves + 1 \in 0 .. MaxSaves /\ saves' = saves + 1
      BY <1>2, VaultAssumption DEF Save, VaultTypeOK
    <2>2. [Idle EXCEPT !.pc = "load", !.field = f, !.value = saves + 1] \in Calls
      BY <2>1 DEF Calls
    <2>3. threads' \in [Threads -> Calls]
      BY <1>0, <1>2, <2>2 DEF Save
    <2>4. QED
      BY <1>2, <1>k, <2>1, <2>3 DEF Save, VaultTypeOK
  <1>3. CASE CheckCache(th)
    <2>1. now \in 0 .. MaxTime
      BY DEF VaultTypeOK
    <2>2. [threads[th] EXCEPT !.pc = "fetch", !.stamp = now] \in Calls
      BY <1>0, <2>1 DEF Calls
    <2>3. [threads[th] EXCEPT !.pc = "hit"] \in Calls
      BY <1>0 DEF Calls
    <2>4. threads' \in [Threads -> Calls]
      BY <1>0, <1>3, <2>2, <2>3 DEF CheckCache
    <2>5. QED
      BY <1>3, <1>k, <2>4 DEF CheckCache, VaultTypeOK
  <1>4. CASE Hit(th)
    <2>1. caches[ProcOf[th]].settings \in Settings
      BY <1>0 DEF Cached
    <2>2. threads' \in [Threads -> Calls]
      BY <1>4, <1>i, <2>1, LoadedType DEF Hit
    <2>3. QED
      BY <1>4, <1>k, <2>2 DEF Hit, VaultTypeOK
  <1>5. CASE Fetch(th) \/ FetchFails(th)
    <2>1. [version |-> 0, data |-> Defaults] \in Settings
      BY VaultAssumption DEF Settings, Defaults, Contents, Unread
    <2>2. /\ [threads[th] EXCEPT !.pc = "store", !.got = [version |-> 0, data |-> Defaults]] \in Calls
          /\ [threads[th] EXCEPT !.pc = "store", !.got = Failed] \in Calls
          /\ [threads[th] EXCEPT !.pc = "key", !.fetched = row] \in Calls
      BY <1>0, <2>1 DEF Calls
    <2>3. threads' \in [Threads -> Calls]
      BY <1>0, <1>5, <2>2 DEF Fetch, FetchFails
    <2>4. QED
      BY <1>5, <1>k, <2>3 DEF Fetch, FetchFails, VaultTypeOK
  <1>6. CASE LoadKey(th)
    <2>1. [version |-> threads[th].fetched.version, data |-> threads[th].fetched.data] \in Settings
      BY <1>0, VaultAssumption DEF Calls, RowStates, Settings, Unread
    <2>2. ASSUME NEW settings \in Settings
          PROVE  [threads[th] EXCEPT !.pc = "store", !.fetched = NoRow, !.got = settings] \in Calls
      BY <1>0 DEF Calls
    <2>3. \/ threads' = [threads EXCEPT ![th].pc = "create"]
          \/ threads' = [threads EXCEPT ![th].pc = "write"]
          \/ \E settings \in Settings : threads' = [threads EXCEPT ![th] =
                 [threads[th] EXCEPT !.pc = "store", !.fetched = NoRow, !.got = settings]]
      BY <1>0, <1>6, <2>1 DEF LoadKey
    <2>4. threads' \in [Threads -> Calls]
      <3>1. CASE threads' = [threads EXCEPT ![th].pc = "create"]
        BY <1>p, <3>1
      <3>2. CASE threads' = [threads EXCEPT ![th].pc = "write"]
        BY <1>p, <3>2
      <3>3. ASSUME NEW settings \in Settings,
                   threads' = [threads EXCEPT ![th] =
                      [threads[th] EXCEPT !.pc = "store", !.fetched = NoRow, !.got = settings]]
            PROVE  threads' \in [Threads -> Calls]
        <4>1. [threads[th] EXCEPT !.pc = "store", !.fetched = NoRow, !.got = settings] \in Calls
          BY <2>2
        <4>2. QED
          BY <1>0, <3>3, <4>1
      <3>4. QED
        BY <2>3, <3>1, <3>2, <3>3
    <2>5. KeyTypeOK'
      BY <1>0, <1>6, KeyTypes DEF LoadKey
    <2>6. QED
      BY <1>6, <2>4, <2>5 DEF LoadKey, VaultTypeOK
  <1>7. CASE Store(th)
    <2>1. [valid |-> TRUE, stamp |-> threads[th].stamp, settings |-> threads[th].got] \in Cached
      BY <1>0 DEF Calls, Cached
    <2>2. threads' \in [Threads -> Calls]
      BY <1>0, <1>7, LoadedType DEF Store, Calls
    <2>3. caches' \in [Procs -> Cached]
      BY <1>0, <1>7, <2>1 DEF Store
    <2>4. QED
      BY <1>7, <1>k, <2>2, <2>3 DEF Store, VaultTypeOK
  <1>8. CASE SaveKey(th)
    <2>1. threads' \in [Threads -> Calls]
      BY <1>8, <1>p, <1>i DEF SaveKey
    <2>2. KeyTypeOK'
      BY <1>0, <1>8, KeyTypes DEF SaveKey
    <2>3. QED
      BY <1>8, <2>1, <2>2 DEF SaveKey, VaultTypeOK
  <1>9. CASE Get(th)
    <2>1. [threads[th] EXCEPT !.pc = "put", !.insert = (row.key = NoKey)] \in Calls
      BY <1>0 DEF Calls
    <2>2. threads' \in [Threads -> Calls]
      BY <1>0, <1>9, <2>1 DEF Get
    <2>3. QED
      BY <1>9, <1>k, <2>2 DEF Get, VaultTypeOK
  <1>10. CASE Put(th)
    <2>1. threads' \in [Threads -> Calls]
      BY <1>10, <1>p, <1>i DEF Put
    <2>2. /\ row' \in RowStates
          /\ committed' \in [0 .. MaxSaves -> 0 .. MaxTime]
      <3>1. CASE UNCHANGED <<row, committed>>
        BY <1>0, <3>1 DEF VaultTypeOK
      <3>2. CASE ~UNCHANGED <<row, committed>>
        <4>1. /\ row.version < MaxSaves
              /\ row' = [version |-> row.version + 1, data |-> threads[th].got.data,
                         key |-> keys[ProcOf[th]]]
              /\ committed' = [committed EXCEPT ![row.version + 1] = now]
          BY <1>10, <3>2 DEF Put
        <4>2. row.version + 1 \in 0 .. MaxSaves
          BY <1>0, <4>1, VaultAssumption DEF RowStates
        <4>3. threads[th].got.data \in Contents /\ keys[ProcOf[th]] \in Keys
          BY <1>0 DEF Calls, Settings, KeyTypeOK
        <4>4. QED
          BY <4>1, <4>2, <4>3 DEF RowStates, VaultTypeOK
      <3>3. QED
        BY <3>1, <3>2
    <2>3. QED
      BY <1>10, <1>k, <2>1, <2>2 DEF Put, VaultTypeOK
  <1>11. CASE Invalidate(th)
    <2>1. [Idle EXCEPT !.pc = "load"] \in Calls
      BY DEF Calls
    <2>2. threads' \in [Threads -> Calls] /\ caches' \in [Procs -> Cached]
      BY <1>0, <1>11, <2>1 DEF Invalidate
    <2>3. QED
      BY <1>11, <1>k, <2>2 DEF Invalidate, VaultTypeOK
  <1>12. QED
    BY <1>1, <1>2, <1>3, <1>4, <1>5, <1>6, <1>7, <1>8, <1>9, <1>10, <1>11 DEF Step

(* Every variable keeps its type.                                          *)
THEOREM VaultTyped == Spec => []VaultTypeOK
  <1>1. Init => VaultTypeOK
    BY VaultConstants DEF Init, VaultTypeOK, KeyInit, KeyTypeOK, Keys
  <1>2. VaultTypeOK /\ [Next]_vars => VaultTypeOK'
    <2> SUFFICES ASSUME VaultTypeOK, [Next]_vars PROVE VaultTypeOK'
      OBVIOUS
    <2>1. CASE Tick
      BY <2>1, VaultAssumption DEF Tick, VaultTypeOK, KeyTypeOK, keyVars
    <2>2. ASSUME NEW p \in Procs, Restart(p) PROVE VaultTypeOK'
      <3>1. threads' \in [Threads -> Calls] /\ caches' \in [Procs -> Cached]
        BY <2>2, VaultConstants DEF Restart, VaultTypeOK
      <3>2. KeyTypeOK'
        BY <2>2 DEF Restart, ForgetKey, VaultTypeOK, KeyTypeOK, Keys
      <3>3. restarts' \in 0 .. MaxRestarts
        BY <2>2, VaultAssumption DEF Restart, VaultTypeOK
      <3>4. QED
        BY <2>2, <3>1, <3>2, <3>3 DEF Restart, VaultTypeOK
    <2>3. CASE UNCHANGED vars
      BY <2>3 DEF vars, keyVars, VaultTypeOK, KeyTypeOK
    <2>4. QED
      BY <2>1, <2>2, <2>3, StepTypes DEF Next
  <1>3. QED
    BY <1>1, <1>2, PTL DEF Spec

-----------------------------------------------------------------------------
(* A step that leaves the key alone and brings no thread to a key step.    *)
LEMMA QuietKey ==
    ASSUME OneKey, UNCHANGED keyVars, row'.key \in {row.key, keyFile.key},
           \A u \in Threads :
              \/ threads'[u].pc = threads[u].pc
              \/ threads'[u].pc \notin {"write", "saveWrite", "get", "put"}
              \/ threads'[u].pc = "put" /\ threads[u].pc = "get"
    PROVE  OneKey'
  BY DEF OneKey, Writing, keyVars

(* Only thread th moves, to one of the control points pcs.                 *)
Moves(th, pcs) ==
    /\ threads'[th].pc \in pcs
    /\ \A u \in Threads \ {th} : threads'[u] = threads[u]

LEMMA ThreadMoves ==
    ASSUME threads \in [Threads -> Calls], NEW th \in Threads
    PROVE  /\ \A pc : Goto(th, pc) => Moves(th, {pc})
           /\ Return(th) => Moves(th, {"idle"})
           /\ \A c : threads' = [threads EXCEPT ![th] = c] => Moves(th, {c.pc})
           /\ \A settings : Loaded(th, settings) => Moves(th, {"idle", "saveKey"})
  <1>1. \A c : threads' = [threads EXCEPT ![th] = c] => Moves(th, {c.pc})
    BY DEF Moves
  <1>2. \A pc : Goto(th, pc) => Moves(th, {pc})
    BY DEF Goto, Moves, Calls
  <1>3. Return(th) => Moves(th, {"idle"})
    BY DEF Return, Moves, Idle
  <1>4. ASSUME NEW settings, Loaded(th, settings) PROVE Moves(th, {"idle", "saveKey"})
    <2>1. CASE threads[th].field = NoField
      BY <1>4, <2>1 DEF Loaded, Moves, Idle
    <2>2. CASE threads[th].field # NoField
      <3>1. PICK f, g : threads' = [threads EXCEPT ![th] =
                            [Idle EXCEPT !.pc = "saveKey", !.field = f, !.got = g]]
        BY <1>4, <2>2 DEF Loaded
      <3>2. QED
        BY <3>1 DEF Moves, Idle
    <2>3. QED
      BY <2>1, <2>2
  <1>5. QED
    BY <1>1, <1>2, <1>3, <1>4

(* The steps with the key, in load_settings and in save_vault.             *)
LEMMA KeySteps ==
    ASSUME VaultTypeOK, OneKey, NEW th \in Threads, LoadKey(th) \/ SaveKey(th)
    PROVE  OneKey'
  <1> USE KeyAssumption
  <1>0. /\ threads \in [Threads -> Calls] /\ keys \in [Procs -> Keys]
        /\ keyFile \in [exists : BOOLEAN, key : Keys]
        /\ ProcOf[th] \in Procs /\ row' = row
    BY DEF VaultTypeOK, KeyTypeOK, LoadKey, SaveKey
  <1>1. /\ \A u \in Threads \ {th} : threads'[u] = threads[u]
        /\ \/ HaveKey(th) /\ threads'[th].pc \in {"store", "get"}
           \/ KeyRaises(th) /\ threads'[th].pc \in {"store", "idle"}
           \/ NoKeyFile(th) /\ threads'[th].pc \in {"create", "saveCreate"}
           \/ CreateKeyFile /\ threads'[th].pc \in {"write", "saveWrite"}
           \/ WriteKey(th) /\ Writing(th) /\ threads'[th].pc \in {"store", "get"}
    <2>1. CASE LoadKey(th)
      <3>1. ASSUME NEW g, threads' = [threads EXCEPT ![th] =
                       [threads[th] EXCEPT !.pc = "store", !.fetched = NoRow, !.got = g]]
            PROVE  Moves(th, {"store"})
        BY <1>0, <3>1 DEF Moves, Calls
      <3>2. \/ HaveKey(th) /\ Moves(th, {"store"})
            \/ KeyRaises(th) /\ Moves(th, {"store"})
            \/ NoKeyFile(th) /\ Goto(th, "create")
            \/ CreateKeyFile /\ Goto(th, "write")
            \/ WriteKey(th) /\ Writing(th) /\ Moves(th, {"store"})
        BY <2>1, <3>1 DEF LoadKey, Writing
      <3>3. QED
        BY <1>0, <3>2, ThreadMoves DEF Moves
    <2>2. CASE SaveKey(th)
      <3>1. \/ HaveKey(th) /\ Goto(th, "get")
            \/ KeyRaises(th) /\ Return(th)
            \/ NoKeyFile(th) /\ Goto(th, "saveCreate")
            \/ CreateKeyFile /\ Goto(th, "saveWrite")
            \/ WriteKey(th) /\ Writing(th) /\ Goto(th, "get")
        BY <2>2 DEF SaveKey, Writing
      <3>2. QED
        BY <1>0, <3>1, ThreadMoves DEF Moves
    <2>3. QED
      BY <2>1, <2>2
  <1>2. CASE HaveKey(th) /\ threads'[th].pc \in {"store", "get"}
    BY <1>0, <1>1, <1>2 DEF HaveKey, OneKey, Writing, keyVars
  <1>3. CASE KeyRaises(th) /\ threads'[th].pc \in {"store", "idle"}
    BY <1>0, <1>1, <1>3, QuietKey DEF KeyRaises
  <1>4. CASE NoKeyFile(th) /\ threads'[th].pc \in {"create", "saveCreate"}
    BY <1>0, <1>1, <1>4, QuietKey DEF NoKeyFile
  <1>5. CASE CreateKeyFile /\ threads'[th].pc \in {"write", "saveWrite"}
    <2>1. /\ \A u \in Threads : ~Writing(u)
          /\ keyFile.key = NoKey
      BY <1>0, <1>5 DEF CreateKeyFile, OneKey
    <2>2. QED
      BY <1>0, <1>1, <1>5, <2>1 DEF CreateKeyFile, OneKey, Writing
  <1>6. CASE WriteKey(th) /\ Writing(th) /\ threads'[th].pc \in {"store", "get"}
    <2>1. /\ keyFile.exists /\ row.key = NoKey
          /\ \A p \in Procs : keys[p] = NoKey
          /\ \A u \in Threads \ {th} : ~Writing(u)
      BY <1>0, <1>6 DEF OneKey
    <2>2. /\ keyFile'.exists /\ keyFile'.key = th
          /\ keys' = [keys EXCEPT ![ProcOf[th]] = th]
      BY <1>0, <1>6, <2>1 DEF WriteKey
    <2>3. \A u \in Threads \ {th} : threads'[u].pc \notin {"write", "saveWrite", "get", "put"}
      BY <1>1, <2>1 DEF OneKey, Writing
    <2>4. QED
      BY <1>0, <1>1, <1>6, <2>1, <2>2, <2>3 DEF OneKey, Writing
  <1>7. QED
    BY <1>1, <1>2, <1>3, <1>4, <1>5, <1>6

LEMMA OneKeyStep ==
    ASSUME VaultTypeOK, OneKey, [Next]_vars
    PROVE  OneKey'
  <1>0. threads \in [Threads -> Calls]
    BY DEF VaultTypeOK
  <1>1. ASSUME NEW th \in Threads, Step(th) PROVE OneKey'
    <2>1. CASE Refresh(th) \/ CheckCache(th) \/ Invalidate(th) \/ Fetch(th) \/ FetchFails(th)
               \/ Store(th) \/ Hit(th)
      <3>1. UNCHANGED <<keyVars, row>>
        BY <2>1 DEF Refresh, CheckCache, Invalidate, Fetch, FetchFails, Store, Hit
      <3>2. Moves(th, {"idle", "load", "hit", "fetch", "store", "key", "saveKey"})
        <4>1. CASE Refresh(th)
          BY <1>0, <4>1, ThreadMoves DEF Refresh, Moves
        <4>2. CASE CheckCache(th)
          BY <1>0, <4>2 DEF CheckCache, Moves, Calls
        <4>3. CASE Invalidate(th)
          BY <1>0, <4>3 DEF Invalidate, Moves, Idle
        <4>4. CASE Fetch(th) \/ FetchFails(th)
          <5>1. \/ \E g : threads' = [threads EXCEPT ![th] =
                                      [threads[th] EXCEPT !.pc = "store", !.got = g]]
                \/ threads' = [threads EXCEPT ![th] =
                                      [threads[th] EXCEPT !.pc = "key", !.fetched = row]]
            BY <4>4 DEF Fetch, FetchFails
          <5>2. QED
            BY <1>0, <5>1, ZenonT(30) DEF Moves, Calls
        <4>5. CASE Store(th) \/ Hit(th)
          BY <1>0, <4>5, ThreadMoves DEF Store, Hit, Moves
        <4>6. QED
          BY <2>1, <4>1, <4>2, <4>3, <4>4, <4>5
      <3>3. QED
        BY <3>1, <3>2, QuietKey DEF Moves
    <2>2. CASE Get(th)
      <3>1. Moves(th, {"put"}) /\ threads[th].pc = "get"
        BY <1>0, <2>2 DEF Get, At, Moves, Calls
      <3>2. QED
        BY <2>2, <3>1, QuietKey DEF Get, Moves
    <2>3. ASSUME NEW f \in Fields, Save(th, f) PROVE OneKey'
      <3>1. Moves(th, {"load"})
        BY <1>0, <2>3 DEF Save, Moves, Idle
      <3>2. QED
        BY <2>3, <3>1, QuietKey DEF Save, Moves
    <2>6. CASE LoadKey(th) \/ SaveKey(th)
      BY <2>6, KeySteps
    <2>7. CASE Put(th)
      <3>1. keys[ProcOf[th]] = keyFile.key
        BY <2>7, KeyAssumption DEF Put, At, OneKey
      <3>2. row'.key \in {row.key, keyFile.key}
        BY <2>7, <3>1 DEF Put
      <3>3. Moves(th, {"invalidate", "idle"})
        BY <1>0, <2>7, ThreadMoves DEF Put, Moves
      <3>4. UNCHANGED keyVars
        BY <2>7 DEF Put
      <3>5. QED
        BY <3>2, <3>3, <3>4, QuietKey DEF Moves
    <2>8. QED
      BY <1>1, <2>1, <2>2, <2>3, <2>6, <2>7 DEF Step
  <1>2. CASE Tick \/ UNCHANGED vars
    BY <1>2, QuietKey DEF Tick, vars
  <1>3. ASSUME NEW p \in Procs, Restart(p) PROVE OneKey'
    BY <1>0, <1>3, KeyAssumption
       DEF Restart, ForgetKey, OneKey, Writing, Idle, VaultTypeOK, KeyTypeOK
  <1>4. QED
    BY <1>1, <1>2, <1>3 DEF Next

(* Whoever needs the key first and whoever is lost meanwhile: what is      *)
(* stored can be decrypted by every process that has a key.                *)
THEOREM StoredSettingsReadable == Spec => []VaultReadable
  <1>1. Init => OneKey
    BY DEF Init, KeyInit, OneKey, Writing, Idle, NoRow
  <1>2. VaultTypeOK /\ OneKey /\ [Next]_vars => OneKey'
    BY OneKeyStep
  <1>3. OneKey => VaultReadable
    BY DEF OneKey, VaultReadable
  <1>4. QED
    BY <1>1, <1>2, <1>3, VaultTyped, PTL DEF Spec

-----------------------------------------------------------------------------
(* What was current at a time stays so, whatever is committed later.       *)
LEMMA CurrentStays ==
    ASSUME VaultTypeOK, NEW v \in Unread .. MaxSaves, NEW s \in 0 .. MaxTime, CurrentAt(v, s),
           \/ UNCHANGED <<row, committed>> /\ now' \in Nat /\ now' >= now
           \/ /\ row.version < MaxSaves /\ row'.version = row.version + 1 /\ now' = now
              /\ committed' = [committed EXCEPT ![row.version + 1] = now]
    PROVE  CurrentAt(v, s)'
  <1>1. /\ now \in Nat /\ row.version \in 0 .. MaxSaves /\ MaxSaves \in Nat /\ MaxTime \in Nat
        /\ committed \in [0 .. MaxSaves -> 0 .. MaxTime]
    BY VaultAssumption DEF VaultTypeOK, RowStates
  <1>2. CASE UNCHANGED <<row, committed>> /\ now' \in Nat /\ now' >= now
    BY <1>1, <1>2 DEF CurrentAt
  <1>3. CASE /\ row.version < MaxSaves /\ row'.version = row.version + 1 /\ now' = now
             /\ committed' = [committed EXCEPT ![row.version + 1] = now]
    <2>1. CASE v = Unread
      BY <1>3, <2>1 DEF CurrentAt
    <2>2. CASE v = row.version
      BY <1>1, <1>3, <2>2 DEF CurrentAt, Unread
    <2>3. CASE v # Unread /\ v < row.version
      <3>1. v + 1 \in 0 .. MaxSaves /\ v + 1 # row.version + 1
        BY <1>1, <2>3 DEF Unread
      <3>2. committed'[v + 1] = committed[v + 1]
        BY <1>1, <1>3, <3>1
      <3>3. QED
        BY <1>1, <1>3, <2>3, <3>2 DEF CurrentAt
    <2>4. QED
      BY <1>1, <2>1, <2>2, <2>3 DEF CurrentAt, Unread
  <1>4. QED
    BY <1>2, <1>3

(* The call of the thread that moves: how its stamp and its control point  *)
(* change.                                                                 *)
LEMMA CallMoves ==
    ASSUME threads \in [Threads -> Calls], NEW th \in Threads
    PROVE  /\ \A settings : Loaded(th, settings) =>
                 Moves(th, {"idle", "saveKey"}) /\ threads'[th].stamp = 0
           /\ \A pc : Goto(th, pc) =>
                 /\ Moves(th, {pc}) /\ threads'[th].stamp = threads[th].stamp
                 /\ threads'[th].fetched = threads[th].fetched
           /\ Return(th) => Moves(th, {"idle"}) /\ threads'[th].stamp = 0
  <1>1. ASSUME NEW settings, Loaded(th, settings)
        PROVE  Moves(th, {"idle", "saveKey"}) /\ threads'[th].stamp = 0
    <2>1. Moves(th, {"idle", "saveKey"})
      BY <1>1, ThreadMoves
    <2>2. threads'[th].stamp = 0
      <3>1. \/ threads' = [threads EXCEPT ![th] = Idle]
            \/ \E f, g : threads' = [threads EXCEPT ![th] =
                            [Idle EXCEPT !.pc = "saveKey", !.field = f, !.got = g]]
        BY <1>1 DEF Loaded
      <3>2. ASSUME NEW c, c.stamp = 0, threads' = [threads EXCEPT ![th] = c]
            PROVE  threads'[th].stamp = 0
        BY <3>2
      <3>3. /\ Idle.stamp = 0
            /\ \A f, g : [Idle EXCEPT !.pc = "saveKey", !.field = f, !.got = g].stamp = 0
        BY DEF Idle
      <3>4. QED
        BY <3>1, <3>2, <3>3
    <2>3. QED
      BY <2>1, <2>2
  <1>2. ASSUME NEW pc, Goto(th, pc)
        PROVE  /\ Moves(th, {pc}) /\ threads'[th].stamp = threads[th].stamp
               /\ threads'[th].fetched = threads[th].fetched
    BY <1>2, ThreadMoves DEF Goto, Calls
  <1>3. ASSUME Return(th)
        PROVE  Moves(th, {"idle"}) /\ threads'[th].stamp = 0
    BY <1>3, ThreadMoves DEF Return, Idle
  <1>4. QED
    BY <1>1, <1>2, <1>3

(* A step of a thread, other than a commit: its own call stays honest.     *)
LEMMA HonestThread ==
    ASSUME VaultTypeOK, HonestStamps, NEW th \in Threads, Step(th), ~Put(th)
    PROVE  /\ \A u \in Threads \ {th} : threads'[u] = threads[u]
           /\ UNCHANGED <<row, committed, now>>
           /\ HonestCall(threads[th])'
           /\ threads'[th].pc = "hit" => CheckCache(th)
  <1> DEFINE harmless == {"idle", "load", "saveKey", "saveCreate", "saveWrite",
                          "get", "put", "invalidate"}
  <1>0. /\ threads \in [Threads -> Calls] /\ threads[th] \in Calls /\ HonestCall(threads[th])
        /\ row \in RowStates /\ now \in Nat /\ threads[th].stamp \in Nat
    BY VaultAssumption DEF VaultTypeOK, HonestStamps, Calls
  <1>u. UNCHANGED <<row, committed, now>>
    BY DEF Step, Refresh, Save, CheckCache, Hit, Fetch, FetchFails, LoadKey, Store, SaveKey, Get,
           Invalidate, backVars
  <1>c. \A v, s : CurrentAt(v, s) <=> CurrentAt(v, s)'
    BY <1>u DEF CurrentAt
  <1>h. ASSUME Moves(th, harmless), threads'[th].stamp \in {0, threads[th].stamp}
        PROVE  /\ \A u \in Threads \ {th} : threads'[u] = threads[u]
               /\ HonestCall(threads[th])'
               /\ threads'[th].pc # "hit"
    BY <1>0, <1>u, <1>h DEF Moves, HonestCall
  <1>1. CASE Refresh(th) \/ Hit(th) \/ Store(th) \/ SaveKey(th) \/ Get(th) \/ Invalidate(th)
             \/ \E f \in Fields : Save(th, f)
    <2>1. Moves(th, harmless) /\ threads'[th].stamp \in {0, threads[th].stamp}
      <3>1. CASE Refresh(th)
        <4>1. Goto(th, "load")
          BY <3>1 DEF Refresh
        <4>2. QED
          BY <1>0, <4>1, CallMoves DEF Moves
      <3>2. CASE Hit(th) \/ Store(th)
        BY <1>0, <3>2, CallMoves DEF Hit, Store, Moves
      <3>3. CASE SaveKey(th)
        <4>1. \/ Return(th)
              \/ \E pc \in {"get", "saveCreate", "saveWrite"} : Goto(th, pc)
          BY <3>3 DEF SaveKey
        <4>2. CASE Return(th)
          BY <1>0, <4>2, CallMoves DEF Moves
        <4>3. ASSUME NEW pc \in {"get", "saveCreate", "saveWrite"}, Goto(th, pc)
              PROVE  Moves(th, harmless) /\ threads'[th].stamp = threads[th].stamp
          BY <1>0, <4>3, CallMoves DEF Moves
        <4>4. QED
          BY <4>1, <4>2, <4>3
      <3>4. CASE Get(th)
        BY <1>0, <3>4 DEF Get, Moves, Calls
      <3>5. CASE Invalidate(th)
        BY <1>0, <3>5 DEF Invalidate, Moves, Idle
      <3>6. ASSUME NEW f \in Fields, Save(th, f)
            PROVE  Moves(th, harmless) /\ threads'[th].stamp = 0
        BY <1>0, <3>6 DEF Save, Moves, Idle
      <3>7. QED
        BY <1>1, <3>1, <3>2, <3>3, <3>4, <3>5, <3>6
    <2>2. QED
      BY <1>h, <1>u, <2>1
  <1>2. CASE CheckCache(th)
    <2>1. \/ threads' = [threads EXCEPT ![th] = [threads[th] EXCEPT !.pc = "hit"]]
          \/ threads' = [threads EXCEPT ![th] = [threads[th] EXCEPT !.pc = "fetch", !.stamp = now]]
      BY <1>2 DEF CheckCache
    <2>2. CASE threads' = [threads EXCEPT ![th] = [threads[th] EXCEPT !.pc = "hit"]]
      <3>1. threads'[th].pc = "hit" /\ threads'[th].stamp = threads[th].stamp
        BY <1>0, <2>2 DEF Calls
      <3>2. QED
        BY <1>0, <1>2, <1>u, <2>2, <3>1 DEF HonestCall
    <2>3. CASE threads' = [threads EXCEPT ![th] = [threads[th] EXCEPT !.pc = "fetch", !.stamp = now]]
      <3>1. threads'[th].pc = "fetch" /\ threads'[th].stamp = now
        BY <1>0, <2>3 DEF Calls
      <3>2. QED
        BY <1>0, <1>2, <1>u, <2>3, <3>1 DEF HonestCall
    <2>4. QED
      BY <2>1, <2>2, <2>3
  <1>3. CASE Fetch(th) \/ FetchFails(th)
    <2>1. \/ /\ row.key = NoKey
             /\ threads' = [threads EXCEPT ![th] = [threads[th] EXCEPT
                               !.pc = "store", !.got = [version |-> 0, data |-> Defaults]]]
          \/ threads' = [threads EXCEPT ![th] = [threads[th] EXCEPT !.pc = "key", !.fetched = row]]
          \/ threads' = [threads EXCEPT ![th] = [threads[th] EXCEPT !.pc = "store", !.got = Failed]]
      BY <1>3 DEF Fetch, FetchFails
    <2>2. /\ CurrentAt(row.version, threads[th].stamp)
          /\ row.key = NoKey => CurrentAt(0, threads[th].stamp)
          /\ CurrentAt(Unread, threads[th].stamp)
      BY <1>0 DEF HonestCall, HonestStamps, CurrentAt, RowStates
    <2>4. ASSUME threads' = [threads EXCEPT ![th] = [threads[th] EXCEPT !.pc = "key", !.fetched = row]]
          PROVE  /\ \A u \in Threads \ {th} : threads'[u] = threads[u]
                 /\ HonestCall(threads[th])'
                 /\ threads'[th].pc # "hit"
      <3>1. /\ threads'[th].pc = "key" /\ threads'[th].stamp = threads[th].stamp
            /\ threads'[th].fetched = row
        BY <1>0, <2>4 DEF Calls
      <3>2. QED
        BY <1>0, <1>c, <1>u, <2>2, <2>4, <3>1 DEF HonestCall
    <2>5. ASSUME row.key = NoKey,
                 threads' = [threads EXCEPT ![th] = [threads[th] EXCEPT
                               !.pc = "store", !.got = [version |-> 0, data |-> Defaults]]]
          PROVE  /\ \A u \in Threads \ {th} : threads'[u] = threads[u]
                 /\ HonestCall(threads[th])'
                 /\ threads'[th].pc # "hit"
      <3> DEFINE g == [version |-> 0, data |-> Defaults]
      <3>1. g.version = 0
        OBVIOUS
      <3> HIDE DEF g
      <3>2. threads' = [threads EXCEPT ![th] = [threads[th] EXCEPT !.pc = "store", !.got = g]]
        BY <2>5 DEF g
      <3>3. /\ threads'[th].pc = "store" /\ threads'[th].stamp = threads[th].stamp
            /\ threads'[th].got = g
        BY <1>0, <3>2 DEF Calls
      <3>4. HonestCall(threads[th])'
        BY <1>0, <1>c, <1>u, <2>2, <2>5, <3>1, <3>3 DEF HonestCall
      <3>5. QED
        BY <1>0, <3>2, <3>3, <3>4
    <2>6. Failed.version = Unread
      BY DEF Failed
    <2>7. CASE threads' = [threads EXCEPT ![th] = [threads[th] EXCEPT !.pc = "store", !.got = Failed]]
      <3>1. /\ threads'[th].pc = "store" /\ threads'[th].stamp = threads[th].stamp
            /\ threads'[th].got = Failed
        BY <1>0, <2>7 DEF Calls
      <3>2. HonestCall(threads[th])'
        BY <1>0, <1>c, <1>u, <2>2, <2>6, <3>1 DEF HonestCall
      <3>3. QED
        BY <1>0, <1>u, <2>7, <3>1, <3>2
    <2>8. QED
      BY <1>u, <2>1, <2>4, <2>5, <2>7
  <1>4. CASE LoadKey(th)
    <2>1. CurrentAt(threads[th].fetched.version, threads[th].stamp)
      BY <1>0, <1>4 DEF LoadKey, HonestCall
    <2>2. CurrentAt(Unread, threads[th].stamp)
      BY <1>0 DEF HonestCall, CurrentAt
    <2>4. ASSUME NEW pc \in {"create", "write"}, Goto(th, pc)
          PROVE  /\ \A u \in Threads \ {th} : threads'[u] = threads[u]
                 /\ HonestCall(threads[th])'
                 /\ threads'[th].pc # "hit"
      <3>1. /\ Moves(th, {pc}) /\ threads'[th].stamp = threads[th].stamp
            /\ threads'[th].fetched = threads[th].fetched
        BY <1>0, <2>4, CallMoves
      <3>2. QED
        BY <1>0, <1>c, <1>u, <2>1, <3>1 DEF HonestCall, Moves
    <2>5. \/ Goto(th, "create") \/ Goto(th, "write")
          \/ threads' = [threads EXCEPT ![th] =
                [threads[th] EXCEPT !.pc = "store", !.fetched = NoRow, !.got = Failed]]
          \/ threads' = [threads EXCEPT ![th] =
                [threads[th] EXCEPT !.pc = "store", !.fetched = NoRow,
                    !.got = [version |-> threads[th].fetched.version,
                             data |-> threads[th].fetched.data]]]
      BY <1>4, Zenon DEF LoadKey
    <2>6. Failed.version = Unread
      BY DEF Failed
    <2>7. CASE threads' = [threads EXCEPT ![th] =
                [threads[th] EXCEPT !.pc = "store", !.fetched = NoRow, !.got = Failed]]
      <3>1. /\ threads'[th].pc = "store" /\ threads'[th].stamp = threads[th].stamp
            /\ threads'[th].got = Failed
        BY <1>0, <2>7 DEF Calls
      <3>2. HonestCall(threads[th])'
        BY <1>0, <1>c, <1>u, <2>2, <2>6, <3>1 DEF HonestCall
      <3>3. QED
        BY <1>0, <1>u, <2>7, <3>1, <3>2
    <2>8. CASE threads' = [threads EXCEPT ![th] =
                [threads[th] EXCEPT !.pc = "store", !.fetched = NoRow,
                    !.got = [version |-> threads[th].fetched.version,
                             data |-> threads[th].fetched.data]]]
      <3> DEFINE g == [version |-> threads[th].fetched.version, data |-> threads[th].fetched.data]
      <3>1. g.version = threads[th].fetched.version
        OBVIOUS
      <3> HIDE DEF g
      <3>2. threads' = [threads EXCEPT ![th] =
                          [threads[th] EXCEPT !.pc = "store", !.fetched = NoRow, !.got = g]]
        BY <2>8 DEF g
      <3>3. /\ threads'[th].pc = "store" /\ threads'[th].stamp = threads[th].stamp
            /\ threads'[th].got = g
        BY <1>0, <3>2 DEF Calls
      <3>4. HonestCall(threads[th])'
        BY <1>0, <1>c, <1>u, <2>1, <3>1, <3>3 DEF HonestCall
      <3>5. QED
        BY <1>0, <1>u, <3>2, <3>3, <3>4
    <2>9. QED
      BY <1>u, <2>4, <2>5, <2>7, <2>8
  <1>5. QED
    BY <1>1, <1>2, <1>3, <1>4 DEF Step

(* A step that leaves time and the row alone but for a commit keeps what   *)
(* the caches and the other threads hold honest.                           *)
LEMMA HonestStep ==
    ASSUME VaultTypeOK, OneKey, HonestStamps, [Next]_vars
    PROVE  HonestStamps'
  <1>0. /\ threads \in [Threads -> Calls] /\ caches \in [Procs -> Cached] /\ row \in RowStates
        /\ now \in Nat /\ MaxTime \in Nat
    BY VaultAssumption DEF VaultTypeOK
  <1>1. ASSUME NEW t \in Calls, HonestCall(t),
               \A v \in Unread .. MaxSaves, s \in 0 .. MaxTime : CurrentAt(v, s) => CurrentAt(v, s)',
               now' \in Nat, now' >= now
        PROVE  HonestCall(t)'
    <2>1. /\ t.fetched.version \in Unread .. MaxSaves /\ t.got.version \in Unread .. MaxSaves
          /\ t.stamp \in 0 .. MaxTime
      BY <1>1, VaultAssumption DEF Calls, RowStates, Settings, Unread
    <2>2. QED
      BY <1>0, <1>1, <2>1 DEF HonestCall
  <1>2. ASSUME NEW p \in Procs, caches[p].valid,
               \A v \in Unread .. MaxSaves, s \in 0 .. MaxTime : CurrentAt(v, s) => CurrentAt(v, s)'
        PROVE  CurrentAt(caches[p].settings.version, caches[p].stamp)
               /\ (caches' = caches => CurrentAt(caches[p].settings.version, caches[p].stamp)')
    BY <1>0, <1>2 DEF HonestStamps, Cached, Settings
  <1>3. CASE Tick \/ UNCHANGED vars
    <2>1. /\ UNCHANGED <<row, caches, threads, committed>>
          /\ now' \in Nat /\ now' >= now
      BY <1>0, <1>3 DEF Tick, vars
    <2>2. \A v \in Unread .. MaxSaves, s \in 0 .. MaxTime : CurrentAt(v, s) => CurrentAt(v, s)'
      BY <2>1, CurrentStays
    <2>3. QED
      BY <1>0, <1>1, <1>2, <2>1, <2>2 DEF HonestStamps
  <1>4. ASSUME NEW p \in Procs, Restart(p) PROVE HonestStamps'
    <2>1. /\ UNCHANGED <<row, committed, now>>
          /\ \A th \in Threads : threads'[th] \in {Idle, threads[th]}
          /\ \A q \in Procs : caches'[q] \in {NoCache, caches[q]}
      BY <1>0, <1>4 DEF Restart
    <2>2. \A v, s : CurrentAt(v, s) <=> CurrentAt(v, s)'
      BY <2>1 DEF CurrentAt
    <2>3. ASSUME NEW th \in Threads PROVE HonestCall(threads[th])'
      <3>1. CASE threads'[th] = Idle
        BY <1>0, <2>1, <3>1 DEF HonestCall, Idle
      <3>2. CASE threads'[th] = threads[th]
        BY <2>1, <2>2, <3>2 DEF HonestCall, HonestStamps
      <3>3. QED
        BY <2>1, <3>1, <3>2
    <2>4. ASSUME NEW q \in Procs, caches'[q].valid
          PROVE  CurrentAt(caches[q].settings.version, caches[q].stamp)'
      BY <2>1, <2>2, <2>4 DEF HonestStamps, NoCache
    <2>5. QED
      BY <2>1, <2>3, <2>4 DEF HonestStamps
  <1>5. ASSUME NEW th \in Threads, Put(th) PROVE HonestStamps'
    <2>1. /\ UNCHANGED caches /\ now' = now
          /\ Goto(th, "invalidate") \/ Return(th)
          /\ \/ UNCHANGED <<row, committed>>
             \/ /\ row.version < MaxSaves /\ row'.version = row.version + 1
                /\ committed' = [committed EXCEPT ![row.version + 1] = now]
                /\ row'.key = keys[ProcOf[th]]
      BY <1>5 DEF Put
    <2>2. \A v \in Unread .. MaxSaves, s \in 0 .. MaxTime : CurrentAt(v, s) => CurrentAt(v, s)'
      BY <1>0, <2>1, CurrentStays
    <2>3. /\ \A u \in Threads \ {th} : threads'[u] = threads[u]
          /\ threads'[th].pc \in {"idle", "invalidate"}
          /\ threads'[th].stamp \in {0, threads[th].stamp}
      <3>1. CASE Goto(th, "invalidate")
        BY <1>0, <3>1, CallMoves DEF Moves
      <3>2. CASE Return(th)
        BY <1>0, <3>2, CallMoves DEF Moves
      <3>3. QED
        BY <2>1, <3>1, <3>2
    <2>4. ASSUME NEW u \in Threads PROVE HonestCall(threads[u])'
      <3>1. CASE u = th
        BY <1>0, <2>1, <2>3, <3>1 DEF HonestCall, HonestStamps
      <3>2. CASE u # th
        <4>1. HonestCall(threads[u]) /\ threads[u] \in Calls /\ threads'[u] = threads[u]
          BY <1>0, <2>3, <3>2 DEF HonestStamps
        <4>2. /\ threads[u].fetched.version \in Unread .. MaxSaves
              /\ threads[u].got.version \in Unread .. MaxSaves
              /\ threads[u].stamp \in 0 .. MaxTime
          BY <4>1, VaultAssumption DEF Calls, RowStates, Settings, Unread
        <4>3. QED
          BY <2>1, <2>2, <4>1, <4>2 DEF HonestCall
      <3>3. QED
        BY <3>1, <3>2
    <2>5. keys[ProcOf[th]] # NoKey
      BY <1>5 DEF Put, At, OneKey
    <2>6. row'.key = NoKey => row'.version = 0
      BY <2>1, <2>5 DEF HonestStamps
    <2>7. QED
      BY <1>2, <2>1, <2>2, <2>4, <2>6 DEF HonestStamps
  <1>6. ASSUME NEW th \in Threads, Step(th), ~Put(th) PROVE HonestStamps'
    <2>1. /\ \A u \in Threads \ {th} : threads'[u] = threads[u]
          /\ UNCHANGED <<row, committed, now>>
          /\ HonestCall(threads[th])'
      BY <1>6, HonestThread
    <2>2. \A v, s : CurrentAt(v, s) <=> CurrentAt(v, s)'
      BY <2>1 DEF CurrentAt
    <2>3. ASSUME NEW u \in Threads, u # th PROVE HonestCall(threads[u])'
      BY <2>1, <2>2, <2>3 DEF HonestCall, HonestStamps
    <2>4. ASSUME NEW p \in Procs
          PROVE  \/ caches'[p] \in {NoCache, caches[p]}
                 \/ /\ threads[th].pc = "store"
                    /\ caches'[p].settings = threads[th].got
                    /\ caches'[p].stamp = threads[th].stamp
      <3>1. CASE Store(th)
        BY <1>0, <3>1 DEF Store, At
      <3>2. CASE Refresh(th) \/ Invalidate(th)
        BY <1>0, <3>2 DEF Refresh, Invalidate
      <3>3. CASE UNCHANGED caches
        BY <3>3
      <3>4. QED
        BY <1>6, <3>1, <3>2, <3>3
           DEF Step, Save, CheckCache, Hit, Fetch, FetchFails, LoadKey, SaveKey, Get
    <2>5. ASSUME NEW p \in Procs, caches'[p].valid
          PROVE  CurrentAt(caches[p].settings.version, caches[p].stamp)'
      <3>1. CASE caches'[p] \in {NoCache, caches[p]}
        BY <2>2, <2>5, <3>1 DEF HonestStamps, NoCache
      <3>2. CASE /\ threads[th].pc = "store"
                 /\ caches'[p].settings = threads[th].got
                 /\ caches'[p].stamp = threads[th].stamp
        <4>1. CurrentAt(threads[th].got.version, threads[th].stamp)
          BY <3>2 DEF HonestStamps, HonestCall
        <4>2. QED
          BY <2>2, <3>2, <4>1
      <3>3. QED
        BY <2>4, <3>1, <3>2
    <2>6. QED
      BY <2>1, <2>3, <2>5 DEF HonestStamps
  <1>7. QED
    BY <1>3, <1>4, <1>5, <1>6 DEF Next

LEMMA HitsFresh ==
    ASSUME VaultTypeOK, HonestStamps, [Next]_vars,
           NEW th \in Threads, ~At(th, "hit"), threads'[th].pc = "hit"
    PROVE  LET v == caches[ProcOf[th]].settings.version
           IN  v \in {Unread, row.version} \/ committed[v + 1] > now - TTL
  <1>1. CheckCache(th)
    <2>1. threads \in [Threads -> Calls] /\ threads'[th] # threads[th]
      BY DEF At, VaultTypeOK
    <2>2. ASSUME NEW p \in Procs, Restart(p) PROVE FALSE
      BY <2>1, <2>2 DEF Restart, Idle
    <2>3. PICK u \in Threads : Step(u)
      BY <2>1, <2>2 DEF Next, Tick, vars
    <2>4. CASE Put(u)
      <3>1. Moves(u, {"invalidate", "idle"})
        BY <2>1, <2>4, ThreadMoves DEF Put, Moves
      <3>2. QED
        BY <2>1, <3>1 DEF Moves
    <2>5. CASE ~Put(u)
      BY <2>1, <2>3, <2>5, HonestThread
    <2>6. QED
      BY <2>4, <2>5
  <1>2. caches[ProcOf[th]].valid /\ now - caches[ProcOf[th]].stamp < TTL
    <2> DEFINE usable == caches[ProcOf[th]].valid /\ now - caches[ProcOf[th]].stamp < TTL
    <2>1. ASSUME ~usable PROVE FALSE
      <3>1. threads' = [threads EXCEPT ![th] = [threads[th] EXCEPT !.pc = "fetch", !.stamp = now]]
        BY <1>1, <2>1 DEF CheckCache
      <3>2. threads'[th].pc = "fetch"
        BY <3>1 DEF VaultTypeOK, Calls
      <3>3. QED
        BY <3>2
    <2>2. QED
      BY <2>1
  <1>3. /\ caches[ProcOf[th]] \in Cached /\ row \in RowStates /\ now \in Nat
        /\ committed \in [0 .. MaxSaves -> 0 .. MaxTime]
    BY KeyAssumption, VaultAssumption DEF VaultTypeOK
  <1>4. CurrentAt(caches[ProcOf[th]].settings.version, caches[ProcOf[th]].stamp)
    BY <1>2, KeyAssumption DEF HonestStamps
  <1>5. QED
    <2> DEFINE v == caches[ProcOf[th]].settings.version
               s == caches[ProcOf[th]].stamp
    <2>1. v \in Unread .. MaxSaves /\ s \in 0 .. MaxTime /\ row.version \in 0 .. MaxSaves
      BY <1>3 DEF Cached, Settings, RowStates
    <2>2. SUFFICES ASSUME v # Unread, v # row.version PROVE committed[v + 1] > now - TTL
      OBVIOUS
    <2>3. committed[v + 1] >= s /\ v <= row.version
      BY <1>4, <2>2 DEF CurrentAt
    <2>4. committed[v + 1] \in 0 .. MaxTime
      <3> HIDE DEF v, s
      <3>1. v + 1 \in 0 .. MaxSaves
        BY <2>1, <2>2, <2>3, VaultAssumption DEF Unread
      <3>2. QED
        BY <1>3, <3>1
    <2>5. now - s < TTL
      BY <1>2
    <2>6. QED
      <3> HIDE DEF v, s
      <3>1. QED
        BY <1>3, <2>1, <2>3, <2>4, <2>5, VaultAssumption

(* A cache answers only with settings that were in force less than         *)
(* _CACHE_TTL ago, however slow its load was.                              *)
THEOREM CacheTellsItsAge == Spec => HitsAtMostTTLOld
  <1>1. Init => HonestStamps
    BY VaultConstants DEF Init, HonestStamps, HonestCall, Idle, NoRow, NoCache
  <1>2. Init => OneKey
    BY DEF Init, KeyInit, OneKey, Writing, Idle, NoRow
  <1>3. VaultTypeOK /\ OneKey /\ HonestStamps /\ [Next]_vars => OneKey' /\ HonestStamps'
    BY OneKeyStep, HonestStep
  <1>4. VaultTypeOK /\ HonestStamps /\ [Next]_vars
          => [\A th \in Threads :
                ~At(th, "hit") /\ threads'[th].pc = "hit" =>
                   LET v == caches[ProcOf[th]].settings.version
                   IN  v \in {Unread, row.version} \/ committed[v + 1] > now - TTL]_vars
    BY HitsFresh
  <1>5. QED
    BY <1>1, <1>2, <1>3, <1>4, VaultTyped, PTL DEF Spec, HitsAtMostTTLOld
=============================================================================
