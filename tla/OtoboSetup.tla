----------------------------- MODULE OtoboSetup -----------------------------
(***************************************************************************)
(* POST /ops/setup: a request streams the output of install_otobo_setup.py *)
(* while it holds a lock; the script, a process of its own, prepares files,*)
(* copies them to the OTOBO host, runs a script there, syncs the catalog   *)
(* and stores the webhook key.                                             *)
(***************************************************************************)
EXTENDS CatalogSync, Sequences

CONSTANTS
    NoStream,
    NoKey,        \* no webhook key is set
    Rotated,      \* the key an administrator has Werft draw
    Abandons      \* may a client go away while the script runs?

ASSUME SetupAssumption ==
    /\ NoStream \notin Streams
    /\ NoKey \notin Streams /\ Rotated \notin Streams /\ Rotated # NoKey
    /\ Abandons \in BOOLEAN

VARIABLES
    requests,    \* stream -> its request, with the options of its body
    holder,      \* the stream inside "async with _setup_lock"
    waiters,     \* streams that wait for the lock, in order
    runs,        \* stream -> the setup script it started
    local,       \* otobo_bootstrap.json and .pl in the API container
    remote,      \* the same on the OTOBO host
    webservice,  \* OTOBO's webservice: its key and the run last allowed to write
    vaultKey     \* webhook_api_key in the vault

streamVars == <<requests, holder, waiters>>
setupVars == <<streamVars, runs, local, remote, webservice, vaultKey>>

(* A key is named by the run that generated it.                            *)
WebhookKeys == Streams \cup {NoKey, Rotated}
Requests == [pc : {"idle", "accepted", "waiting", "open", "over"},
             dry : BOOLEAN]
Runs == [pc : {"none", "read", "json", "script", "pushJson", "pushScript", "perl",
               "sync", "syncing", "save", "saved", "over"},
         key : WebhookKeys]
(* The script on disk either only prints what it would do, or does it.     *)
Files == [key : WebhookKeys, dry : BOOLEAN]

SetupTypeOK ==
    /\ requests \in [Streams -> Requests]
    /\ holder \in Streams \cup {NoStream}
    /\ waiters \in Seq({s \in Streams : requests[s].pc = "waiting"})
    /\ runs \in [Streams -> Runs]
    /\ local \in Files /\ remote \in Files
    /\ webservice \in [key : WebhookKeys, by : Streams \cup {NoStream}]
    /\ vaultKey \in WebhookKeys

SetupInit ==
    /\ requests = [s \in Streams |-> [pc |-> "idle", dry |-> FALSE]]
    /\ holder = NoStream /\ waiters = <<>>
    /\ runs = [s \in Streams |-> [pc |-> "none", key |-> NoKey]]
    /\ local = [key |-> NoKey, dry |-> TRUE]
    /\ remote = [key |-> NoKey, dry |-> TRUE]
    /\ webservice = [key |-> NoKey, by |-> NoStream]
    /\ vaultKey = NoKey

At(s, pc) == runs[s].pc = pc
Goto(s, pc) == runs' = [runs EXCEPT ![s].pc = pc]
Becomes(s, pc) == requests' = [requests EXCEPT ![s].pc = pc]
Running(s) == runs[s].pc \notin {"none", "saved", "over"}

-----------------------------------------------------------------------------
(* ops_setup: refused while the lock is taken.                             *)
Post(s, dry) ==
    /\ requests[s].pc = "idle"
    /\ requests' = [requests EXCEPT ![s] =
         [pc |-> IF holder # NoStream THEN "over" ELSE "accepted", dry |-> dry]]
    /\ UNCHANGED <<holder, waiters, runs, local, remote, webservice, vaultKey>>

(* The lock is the stream's, and it starts the script.                     *)
Acquire(s) == holder' = s /\ Becomes(s, "open") /\ Goto(s, "read")

(* Mutant of Enter: the test of the request is all that keeps two apart.   *)
EnterUnlocked(s) ==
    /\ requests[s].pc = "accepted"
    /\ Acquire(s)
    /\ UNCHANGED <<waiters, local, remote, webservice, vaultKey>>

(* events() begins: a lock taken since the test is waited for.             *)
Enter(s) ==
    /\ requests[s].pc = "accepted"
    /\ \/ holder = NoStream /\ waiters = <<>> /\ Acquire(s) /\ UNCHANGED waiters
       \/ /\ holder # NoStream \/ waiters # <<>>
          /\ waiters' = Append(waiters, s)
          /\ Becomes(s, "waiting")
          /\ UNCHANGED <<holder, runs>>
    /\ UNCHANGED <<local, remote, webservice, vaultKey>>

(* Mutant of Wake: the stream keeps its place among the waiting.           *)
WakeKeepsPlace(s) ==
    /\ requests[s].pc = "waiting" /\ holder = NoStream /\ Head(waiters) = s
    /\ Acquire(s)
    /\ UNCHANGED <<waiters, local, remote, webservice, vaultKey>>

Wake(s) ==
    /\ requests[s].pc = "waiting" /\ holder = NoStream /\ Head(waiters) = s
    /\ waiters' = Tail(waiters)
    /\ Acquire(s)
    /\ UNCHANGED <<local, remote, webservice, vaultKey>>

(* The script's output ended and it was waited for.                        *)
Close(s) ==
    /\ holder = s /\ runs[s].pc \in {"saved", "over"}
    /\ holder' = NoStream
    /\ Becomes(s, "over")
    /\ UNCHANGED <<waiters, runs, local, remote, webservice, vaultKey>>

(* The lock of asyncio takes a waiter that is cancelled from its queue.    *)
LeaveQueue(s) ==
    \/ \E i \in DOMAIN waiters :
          /\ waiters[i] = s
          /\ waiters' = SubSeq(waiters, 1, i - 1) \o SubSeq(waiters, i + 1, Len(waiters))
    \/ (\A i \in DOMAIN waiters : waiters[i] # s) /\ UNCHANGED waiters

(* The client goes away: the generator is cancelled and leaves the lock or *)
(* the queue for it.  Nothing ends a script that runs.                     *)
Disconnect(s) ==
    /\ requests[s].pc \in {"accepted", "waiting"} \cup IF Abandons THEN {"open"} ELSE {}
    /\ holder' = IF holder = s THEN NoStream ELSE holder
    /\ LeaveQueue(s)
    /\ Becomes(s, "over")
    /\ UNCHANGED <<runs, local, remote, webservice, vaultKey>>

StreamStep(s) ==
    \/ \E dry \in BOOLEAN : Post(s, dry)
    \/ Enter(s) \/ Wake(s) \/ Close(s) \/ Disconnect(s)

-----------------------------------------------------------------------------
(* main: the key of the vault, or a new one.                               *)
ReadKey(s) ==
    /\ At(s, "read")
    /\ runs' = [runs EXCEPT ![s] =
         [pc |-> "json", key |-> IF vaultKey = NoKey THEN s ELSE vaultKey]]
    /\ UNCHANGED <<streamVars, local, remote, webservice, vaultKey>>

WriteJson(s) ==
    /\ At(s, "json")
    /\ local' = [local EXCEPT !.key = runs[s].key]
    /\ Goto(s, "script")
    /\ UNCHANGED <<streamVars, remote, webservice, vaultKey>>

WriteScript(s) ==
    /\ At(s, "script")
    /\ local' = [local EXCEPT !.dry = requests[s].dry]
    /\ Goto(s, "pushJson")
    /\ UNCHANGED <<streamVars, remote, webservice, vaultKey>>

PushJson(s) ==
    /\ At(s, "pushJson")
    /\ remote' = [remote EXCEPT !.key = local.key]
    /\ Goto(s, "pushScript")
    /\ UNCHANGED <<streamVars, local, webservice, vaultKey>>

(* Mutant of PushScript: a dry run copies no script, but one still runs.   *)
PushScriptToWrite(s) ==
    /\ At(s, "pushScript")
    /\ remote' = IF requests[s].dry THEN remote ELSE [remote EXCEPT !.dry = local.dry]
    /\ Goto(s, "perl")
    /\ UNCHANGED <<streamVars, local, webservice, vaultKey>>

PushScript(s) ==
    /\ At(s, "pushScript")
    /\ remote' = [remote EXCEPT !.dry = local.dry]
    /\ Goto(s, "perl")
    /\ UNCHANGED <<streamVars, local, webservice, vaultKey>>

(* The script on the OTOBO host, whichever run put it and its plan there.  *)
(* A dry run ends here; another may skip the sync (skip_catalog_sync).     *)
RunPerl(s) ==
    /\ At(s, "perl")
    /\ webservice' = IF remote.dry THEN webservice ELSE [key |-> remote.key, by |-> s]
    /\ \E pc \in IF requests[s].dry THEN {"over"} ELSE {"sync", "save"} : Goto(s, pc)
    /\ UNCHANGED <<streamVars, local, remote, vaultKey>>

(* The sync is waited for; its result is only printed.                     *)
AwaitSync(s) ==
    \/ At(s, "sync") /\ StartSync(s) /\ Goto(s, "syncing")
    \/ At(s, "syncing") /\ syncs[s].stage \in Ended /\ Goto(s, "save") /\ UNCHANGED syncs

(* Mutant of SaveKey: a key the vault has by now is kept.                  *)
SaveFirstKey(s) ==
    /\ At(s, "save")
    /\ vaultKey' = IF vaultKey = NoKey THEN runs[s].key ELSE vaultKey
    /\ Goto(s, "saved")
    /\ UNCHANGED <<streamVars, local, remote, webservice>>

(* --write-vault.                                                          *)
SaveKey(s) ==
    /\ At(s, "save")
    /\ vaultKey' = runs[s].key
    /\ Goto(s, "saved")
    /\ UNCHANGED <<streamVars, local, remote, webservice>>

(* Settings that could not be read name no OTOBO host, which ends the      *)
(* script before it writes anything; or a command failed: of the copies,   *)
(* the remote script, the process import, or the commit of the vault.      *)
RunFails(s) ==
    /\ runs[s].pc \in {"json", "pushJson", "pushScript", "perl", "sync", "save"}
    /\ Fault
    /\ Goto(s, "over")
    /\ UNCHANGED <<streamVars, local, remote, webservice, vaultKey>>

(* POST /settings/webhook-key.                                             *)
RotateKey ==
    /\ vaultKey # Rotated
    /\ vaultKey' = Rotated
    /\ UNCHANGED <<streamVars, runs, local, remote, webservice>>
=============================================================================
