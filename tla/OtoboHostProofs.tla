-------------------------- MODULE OtoboHostProofs ---------------------------
(***************************************************************************)
(* Setup requests, any number of them.  As long as no client leaves a      *)
(* running setup, the lock keeps setups from taking each other's files.    *)
(* Even when clients do leave, the queue for the lock stays in order.      *)
(***************************************************************************)
EXTENDS OtoboHost, SequenceTheorems, TLAPS

(* What a step of one run must know of every stream to leave it in order.  *)
Owned(s) ==
    /\ requests[s].pc = "open" <=> holder = s
    /\ Running(s) => holder = s
    /\ requests[s].pc \in {"idle", "accepted", "waiting"} => At(s, "none")

(* The files a run has put in place are its own until it uses them.        *)
InPlace(s) ==
    /\ runs[s].pc \in {"script", "pushJson"} => local.key = runs[s].key
    /\ runs[s].pc \in {"pushJson", "pushScript"} => local.dry = requests[s].dry
    /\ runs[s].pc \in {"pushScript", "perl"} => remote.key = runs[s].key
    /\ At(s, "perl") => remote.dry = requests[s].dry
    /\ runs[s].pc \in {"sync", "syncing", "save"} =>
         webservice.key = runs[s].key /\ ~requests[s].dry
    /\ webservice.by = s => ~requests[s].dry /\ ~At(s, "none")

HostTypes ==
    /\ requests \in [Streams -> Requests]
    /\ runs \in [Streams -> Runs]
    /\ holder \in Streams \cup {NoStream}
    /\ local \in Files /\ remote \in Files
    /\ webservice \in [key : WebhookKeys, by : Streams \cup {NoStream}]
    /\ vaultKey \in WebhookKeys

HostInv == HostTypes /\ \A s \in Streams : Owned(s) /\ InPlace(s)

LEMMA HostInvInit == Init => HostInv
<1> SUFFICES ASSUME Init PROVE HostInv
    OBVIOUS
<1> USE SetupAssumption
<1>1. HostTypes
    BY DEF Init, SetupInit, HostTypes, Requests, Runs, Files, WebhookKeys
<1>2. ASSUME NEW s \in Streams PROVE Owned(s) /\ InPlace(s)
    BY DEF Init, SetupInit, Owned, InPlace, Running, At
<1>. QED
    BY <1>1, <1>2 DEF HostInv

-----------------------------------------------------------------------------
(* The steps of a request.                                                 *)
LEMMA StreamKeepsHostInv ==
    ASSUME ~Abandons, HostInv, NEW s \in Streams, StreamStep(s)
    PROVE  HostInv'
<1> USE SetupAssumption
<1> USE DEF HostInv
<1>1. ASSUME NEW dry \in BOOLEAN, Post(s, dry) PROVE HostInv'
  <2>1. HostTypes'
    BY <1>1 DEF Post, HostTypes, Requests
  <2>2. ASSUME NEW u \in Streams PROVE Owned(u)' /\ InPlace(u)'
    BY <1>1 DEF Post, HostTypes, Requests, Owned, InPlace, Running, At
  <2>. QED
    BY <2>1, <2>2
<1>2. ASSUME requests[s].pc \in {"accepted", "waiting"}, holder = NoStream, Acquire(s),
             UNCHANGED <<local, remote, webservice, vaultKey>>
      PROVE HostInv'
  <2>1. HostTypes'
    BY <1>2 DEF Acquire, Becomes, Goto, HostTypes, Requests, Runs
  <2>2. ASSUME NEW u \in Streams PROVE Owned(u)' /\ InPlace(u)'
    BY <1>2 DEF Acquire, Becomes, Goto, HostTypes, Requests, Runs, Owned, InPlace, Running, At
  <2>. QED
    BY <2>1, <2>2
<1>3. ASSUME requests[s].pc = "accepted", Becomes(s, "waiting"),
             UNCHANGED <<holder, runs, local, remote, webservice, vaultKey>>
      PROVE HostInv'
  <2>1. HostTypes'
    BY <1>3 DEF Becomes, HostTypes, Requests
  <2>2. ASSUME NEW u \in Streams PROVE Owned(u)' /\ InPlace(u)'
    BY <1>3 DEF Becomes, HostTypes, Requests, Owned, InPlace, Running, At
  <2>. QED
    BY <2>1, <2>2
<1>4. ASSUME Close(s) PROVE HostInv'
  <2>1. HostTypes'
    BY <1>4 DEF Close, Becomes, HostTypes, Requests
  <2>2. ASSUME NEW u \in Streams PROVE Owned(u)' /\ InPlace(u)'
    BY <1>4 DEF Close, Becomes, HostTypes, Requests, Owned, InPlace, Running, At
  <2>. QED
    BY <2>1, <2>2
<1>5. ASSUME Disconnect(s) PROVE HostInv'
  <2>1. requests[s].pc \in {"accepted", "waiting"} /\ holder' = holder
    BY <1>5, ~Abandons DEF Disconnect, Owned
  <2>2. HostTypes'
    BY <1>5, <2>1 DEF Disconnect, Becomes, HostTypes, Requests
  <2>3. ASSUME NEW u \in Streams PROVE Owned(u)' /\ InPlace(u)'
    BY <1>5, <2>1 DEF Disconnect, Becomes, HostTypes, Requests, Owned, InPlace, Running, At
  <2>. QED
    BY <2>2, <2>3
<1>. QED
    BY <1>1, <1>2, <1>3, <1>4, <1>5 DEF StreamStep, Enter, Wake

-----------------------------------------------------------------------------
(* The steps of the script.                                                *)

(* A run that takes a step has the lock, so every other stands still.      *)
LEMMA AloneHere ==
    ASSUME HostInv, NEW s \in Streams, Running(s), NEW u \in Streams, u # s
    PROVE  runs[u].pc \in {"none", "saved", "over"}
    BY DEF HostInv, Owned, Running

LEMMA RunKeepsHostInv ==
    ASSUME HostInv, NEW s \in Streams, RunStep(s)
    PROVE  HostInv'
<1> USE SetupAssumption
<1>1. Running(s)
    BY DEF RunStep, ReadKey, WriteJson, WriteScript, PushJson, PushScript, RunPerl,
           SaveKey, AwaitSync, RunFails, Running, At
<1>2. runs \in [Streams -> Runs] /\ requests \in [Streams -> Requests]
    BY DEF HostInv, HostTypes
<1>3. \A u \in Streams : u # s => runs[u].pc \in {"none", "saved", "over"}
    BY <1>1, AloneHere
<1>4. \A u \in Streams : u # s => runs'[u] = runs[u]
    BY <1>2 DEF RunStep, ReadKey, WriteJson, WriteScript, PushJson, PushScript, RunPerl,
           SaveKey, AwaitSync, RunFails, Goto
<1>5. UNCHANGED <<requests, holder>>
    BY DEF RunStep, ReadKey, WriteJson, WriteScript, PushJson, PushScript, RunPerl,
           SaveKey, AwaitSync, RunFails, streamVars
<1>6. webservice'.by \in {webservice.by, s}
    BY DEF RunStep, ReadKey, WriteJson, WriteScript, PushJson, PushScript, RunPerl,
           SaveKey, AwaitSync, RunFails
<1>7. ASSUME NEW u \in Streams, u # s PROVE Owned(u)' /\ InPlace(u)'
    BY <1>3, <1>4, <1>5, <1>6, <1>7 DEF HostInv, Owned, InPlace, Running, At
<1>8. SUFFICES HostTypes' /\ Owned(s)' /\ InPlace(s)'
    BY <1>7 DEF HostInv
<1> USE <1>1, <1>2, <1>5
<1> USE DEF HostInv, HostTypes, Runs, Files, At, Goto, Owned, InPlace, Running
<1>9. CASE ReadKey(s)
    BY <1>9 DEF ReadKey, WebhookKeys
<1>10. CASE WriteJson(s)
    BY <1>10 DEF WriteJson
<1>11. CASE WriteScript(s)
    BY <1>11 DEF WriteScript, Requests
<1>12. CASE PushJson(s)
    BY <1>12 DEF PushJson
<1>13. CASE PushScript(s)
    BY <1>13 DEF PushScript
<1>14. CASE RunPerl(s)
    BY <1>14 DEF RunPerl
<1>15. CASE SaveKey(s)
    BY <1>15 DEF SaveKey
<1>16. CASE AwaitSync(s) /\ UNCHANGED <<local, remote, webservice, vaultKey>>
    BY <1>16 DEF AwaitSync
<1>17. CASE RunFails(s)
    BY <1>17 DEF RunFails
<1>. QED
    BY <1>9, <1>10, <1>11, <1>12, <1>13, <1>14, <1>15, <1>16, <1>17 DEF RunStep

LEMMA NextKeepsHostInv ==
    ASSUME ~Abandons
    PROVE  HostInv /\ [Next]_vars => HostInv'
<1> SUFFICES ASSUME HostInv, [Next]_vars PROVE HostInv'
    OBVIOUS
<1>1. ASSUME NEW s \in Streams, StreamStep(s) PROVE HostInv'
    BY <1>1, StreamKeepsHostInv
<1>2. ASSUME NEW s \in Streams, RunStep(s) PROVE HostInv'
    BY <1>2, RunKeepsHostInv
<1>3. ASSUME RotateKey PROVE HostInv'
    BY <1>3 DEF RotateKey, streamVars, HostInv, HostTypes, WebhookKeys, Owned, InPlace,
                Running, At
<1>4. ASSUME UNCHANGED setupVars PROVE HostInv'
    BY <1>4 DEF setupVars, streamVars, HostInv, HostTypes, Owned, InPlace, Running, At
<1>. QED
    BY <1>1, <1>2, <1>3, <1>4 DEF Next, vars

-----------------------------------------------------------------------------
(* A setup script that runs belongs to the request that holds the lock.    *)
THEOREM OneSetupAtATime ==
    ASSUME ~Abandons
    PROVE  Spec => []OneSetup
<1>1. HostInv => OneSetup
    BY DEF HostInv, Owned, OneSetup
<1>2. HostInv /\ [Next]_vars => HostInv'
    BY NextKeepsHostInv
<1>. QED
    BY <1>1, <1>2, HostInvInit, PTL DEF Spec

(* No dry run runs a script that writes to OTOBO.                          *)
THEOREM DryRunsAreDry ==
    ASSUME ~Abandons
    PROVE  Spec => []DryRunsWriteNothing
<1>1. HostInv => DryRunsWriteNothing
    BY DEF HostInv, InPlace, DryRunsWriteNothing
<1>2. HostInv /\ [Next]_vars => HostInv'
    BY NextKeepsHostInv
<1>. QED
    BY <1>1, <1>2, HostInvInit, PTL DEF Spec

(* A setup that succeeds leaves one webhook key on both sides.             *)
THEOREM SetupsLeaveOneKey ==
    ASSUME ~Abandons
    PROVE  Spec => KeysAgree
<1>1. HostInv /\ [Next]_vars
        => [\A s \in Streams : At(s, "save") /\ runs'[s].pc = "saved" =>
               webservice.key = vaultKey']_vars
  <2> SUFFICES ASSUME HostInv, Next, NEW s \in Streams, At(s, "save"), runs'[s].pc = "saved"
               PROVE  webservice.key = vaultKey'
      OBVIOUS
  <2>1. SaveKey(s)
    <3>1. ASSUME NEW u \in Streams, RunStep(u) PROVE SaveKey(s)
      <4>1. Running(u) /\ Running(s)
          BY <3>1 DEF RunStep, ReadKey, WriteJson, WriteScript, PushJson, PushScript, RunPerl,
                      SaveKey, AwaitSync, RunFails, Running, At
      <4>2. u = s
          BY <4>1 DEF HostInv, Owned
      <4>3. SaveKey(s) \/ RunFails(s)
          BY <3>1, <4>2 DEF RunStep, ReadKey, WriteJson, WriteScript, PushJson, PushScript,
                  RunPerl, AwaitSync, At
      <4>4. ~RunFails(s)
          BY DEF RunFails, Goto, HostInv, HostTypes, Runs
      <4>. QED
          BY <4>3, <4>4
    <3>2. ASSUME NEW u \in Streams, StreamStep(u) PROVE FALSE
      <4>1. runs' = runs \/ Acquire(u)
          BY <3>2 DEF StreamStep, Post, Enter, Wake, Close, Disconnect
      <4>2. runs'[s].pc \in {"save", "read"}
          BY <4>1 DEF Acquire, Goto, HostInv, HostTypes, Runs, At
      <4>. QED
          BY <4>2
    <3>3. ASSUME UNCHANGED runs PROVE FALSE
        BY <3>3 DEF At
    <3>. QED
        BY <3>1, <3>2, <3>3 DEF Next, RotateKey, setupVars
  <2>. QED
      BY <2>1 DEF SaveKey, HostInv, InPlace, At
<1>2. HostInv /\ [Next]_vars => HostInv'
    BY NextKeepsHostInv
<1>. QED
    BY <1>1, <1>2, HostInvInit, PTL DEF Spec, KeysAgree

-----------------------------------------------------------------------------
(* The queue for the lock holds the streams that wait, each of them once.  *)
QueueInv ==
    /\ waiters \in Seq(Streams)
    /\ \A s \in Streams :
          requests[s].pc = "waiting" <=> \E i \in 1 .. Len(waiters) : waiters[i] = s
    /\ \A i, j \in 1 .. Len(waiters) : waiters[i] = waiters[j] => i = j
    /\ \A s \in Streams : holder = s => requests[s].pc = "open"

LEMMA BecomesThat ==
    ASSUME HostTypes, NEW s \in Streams, NEW pc, Becomes(s, pc)
    PROVE  /\ requests'[s].pc = pc
           /\ \A u \in Streams : u # s => requests'[u] = requests[u]
    BY DEF HostTypes, Requests, Becomes

(* A stream joins the end of the queue.                                    *)
LEMMA JoinsQueue ==
    ASSUME QueueInv, NEW s \in Streams, requests[s].pc # "waiting", requests'[s].pc = "waiting",
           \A u \in Streams : u # s => requests'[u] = requests[u],
           waiters' = Append(waiters, s), holder' = holder, holder # s
    PROVE  QueueInv'
<1> DEFINE n == Len(waiters)
<1>1. n \in Nat /\ waiters \in Seq(Streams) /\ \A i \in 1 .. n : waiters[i] # s
    BY DEF QueueInv
<1>2. /\ waiters' \in Seq(Streams) /\ Len(waiters') = n + 1 /\ waiters'[n + 1] = s
      /\ \A i \in 1 .. n : waiters'[i] = waiters[i]
    BY <1>1
<1>3. ASSUME NEW u \in Streams
      PROVE  requests'[u].pc = "waiting" <=> \E i \in 1 .. Len(waiters') : waiters'[i] = u
  <2>1. CASE u = s
    BY <1>1, <1>2, <2>1
  <2>2. CASE u # s
    BY <1>1, <1>2, <2>2 DEF QueueInv
  <2>. QED
    BY <2>1, <2>2
<1>4. \A i, j \in 1 .. Len(waiters') : waiters'[i] = waiters'[j] => i = j
    BY <1>1, <1>2 DEF QueueInv
<1>. QED
    BY <1>2, <1>3, <1>4 DEF QueueInv

(* One that leaves it leaves the others in their order.                    *)
LEMMA LeavesQueue ==
    ASSUME QueueInv, NEW s \in Streams, requests'[s].pc # "waiting",
           \A u \in Streams : u # s => requests'[u] = requests[u],
           NEW k \in 1 .. Len(waiters), waiters[k] = s,
           waiters' \in Seq(Streams), Len(waiters') = Len(waiters) - 1,
           \A i \in 1 .. Len(waiters) - 1 :
               waiters'[i] = IF i < k THEN waiters[i] ELSE waiters[i + 1]
    PROVE  /\ \A u \in Streams :
                requests'[u].pc = "waiting" <=> \E i \in 1 .. Len(waiters') : waiters'[i] = u
           /\ \A i, j \in 1 .. Len(waiters') : waiters'[i] = waiters'[j] => i = j
<1> DEFINE n == Len(waiters)
<1>1. /\ n \in Nat /\ waiters \in Seq(Streams)
      /\ \A i, j \in 1 .. n : waiters[i] = waiters[j] => i = j
    BY DEF QueueInv
<1>2. \A i, j \in 1 .. Len(waiters') : waiters'[i] = waiters'[j] => i = j
    BY <1>1
<1>3. \A i \in 1 .. Len(waiters') : waiters'[i] # s
    BY <1>1
<1>4. ASSUME NEW u \in Streams, u # s
      PROVE  (\E i \in 1 .. Len(waiters') : waiters'[i] = u)
                <=> \E i \in 1 .. n : waiters[i] = u
  <2>1. ASSUME NEW i \in 1 .. n, waiters[i] = u
        PROVE  \E j \in 1 .. Len(waiters') : waiters'[j] = u
    <3>1. i # k
        BY <1>4, <2>1
    <3>2. CASE i < k
      BY <1>1, <2>1, <3>2
    <3>3. CASE i > k
      <4>1. i - 1 \in 1 .. Len(waiters') /\ waiters'[i - 1] = waiters[i]
        BY <1>1, <3>3
      <4>. QED
        BY <2>1, <4>1
    <3>. QED
      BY <1>1, <3>1, <3>2, <3>3
  <2>2. ASSUME NEW i \in 1 .. Len(waiters'), waiters'[i] = u
        PROVE  \E j \in 1 .. n : waiters[j] = u
    BY <1>1, <2>2
  <2>. QED
    BY <2>1, <2>2
<1>5. ASSUME NEW u \in Streams
      PROVE  requests'[u].pc = "waiting" <=> \E i \in 1 .. Len(waiters') : waiters'[i] = u
  <2>1. CASE u = s
    BY <1>3, <2>1
  <2>2. CASE u # s
    <3>1. requests[u].pc = "waiting" <=> \E i \in 1 .. n : waiters[i] = u
        BY DEF QueueInv
    <3>. QED
        BY <1>4, <2>2, <3>1
  <2>. QED
    BY <2>1, <2>2
<1>. QED
    BY <1>2, <1>5

LEMMA StreamKeepsQueue ==
    ASSUME HostTypes, QueueInv, NEW s \in Streams, StreamStep(s)
    PROVE  QueueInv'
<1> USE SetupAssumption
<1>1. requests \in [Streams -> Requests] /\ waiters \in Seq(Streams) /\ Len(waiters) \in Nat
    BY DEF HostTypes, QueueInv
<1>2. ASSUME NEW dry \in BOOLEAN, Post(s, dry) PROVE QueueInv'
  <2>1. waiters' = waiters /\ holder' = holder /\ requests[s].pc = "idle" /\ holder # s
    BY <1>2 DEF Post, QueueInv
  <2>2. requests'[s].pc # "waiting" /\ \A u \in Streams : u # s => requests'[u] = requests[u]
    BY <1>1, <1>2 DEF Post
  <2>. QED
    BY <2>1, <2>2 DEF QueueInv
<1>3. ASSUME requests[s].pc = "accepted", Acquire(s), waiters' = waiters PROVE QueueInv'
    BY <1>3, BecomesThat DEF Acquire, QueueInv
<1>4. ASSUME requests[s].pc = "accepted", waiters' = Append(waiters, s), Becomes(s, "waiting"),
             holder' = holder
      PROVE QueueInv'
  <2>1. holder # s
    BY <1>4 DEF QueueInv
  <2>. QED
    BY <1>4, <2>1, BecomesThat, JoinsQueue
<1>5. ASSUME Wake(s) PROVE QueueInv'
  <2>1. \E i \in 1 .. Len(waiters) : waiters[i] = s
    BY <1>5 DEF Wake, QueueInv
  <2>2. 1 \in 1 .. Len(waiters) /\ waiters[1] = s /\ waiters # << >>
    BY <1>1, <1>5, <2>1 DEF Wake
  <2>3. /\ waiters' \in Seq(Streams) /\ Len(waiters') = Len(waiters) - 1
        /\ \A i \in 1 .. Len(waiters) - 1 : waiters'[i] = waiters[i + 1]
    BY <1>1, <1>5, <2>2 DEF Wake
  <2>4. \A i \in 1 .. Len(waiters) - 1 :
            waiters'[i] = IF i < 1 THEN waiters[i] ELSE waiters[i + 1]
    BY <1>1, <2>3
  <2>5. /\ requests'[s].pc = "open" /\ holder' = s
        /\ \A u \in Streams : u # s => requests'[u] = requests[u]
    BY <1>5, BecomesThat DEF Wake, Acquire
  <2>6. \A u \in Streams : holder' = u => requests'[u].pc = "open"
    BY <2>5
  <2>7. /\ \A u \in Streams :
              requests'[u].pc = "waiting" <=> \E i \in 1 .. Len(waiters') : waiters'[i] = u
        /\ \A i, j \in 1 .. Len(waiters') : waiters'[i] = waiters'[j] => i = j
    BY <2>2, <2>3, <2>4, <2>5, LeavesQueue
  <2>. QED
    BY <2>3, <2>6, <2>7 DEF QueueInv
<1>6. ASSUME Close(s) PROVE QueueInv'
    BY <1>6, BecomesThat DEF Close, QueueInv
<1>7. ASSUME Disconnect(s) PROVE QueueInv'
  <2>1. requests'[s].pc = "over" /\ \A u \in Streams : u # s => requests'[u] = requests[u]
    BY <1>7, BecomesThat DEF Disconnect
  <2>2. \A u \in Streams : holder' = u => requests'[u].pc = "open"
    BY <1>7, <2>1 DEF Disconnect, QueueInv
  <2>3. CASE waiters' = waiters /\ \A i \in DOMAIN waiters : waiters[i] # s
    BY <1>1, <2>1, <2>2, <2>3 DEF QueueInv
  <2>4. ASSUME NEW k \in 1 .. Len(waiters), waiters[k] = s,
               waiters' = SubSeq(waiters, 1, k - 1) \o SubSeq(waiters, k + 1, Len(waiters))
        PROVE  QueueInv'
    <3>1. /\ SubSeq(waiters, 1, k - 1) \in Seq(Streams)
          /\ Len(SubSeq(waiters, 1, k - 1)) = k - 1
          /\ \A i \in 1 .. k - 1 : SubSeq(waiters, 1, k - 1)[i] = waiters[i]
      BY <1>1, <2>4
    <3>2. /\ SubSeq(waiters, k + 1, Len(waiters)) \in Seq(Streams)
          /\ Len(SubSeq(waiters, k + 1, Len(waiters))) = Len(waiters) - k
          /\ \A i \in 1 .. Len(waiters) - k :
                SubSeq(waiters, k + 1, Len(waiters))[i] = waiters[i + k]
      BY <1>1, <2>4
    <3>3. /\ waiters' \in Seq(Streams) /\ Len(waiters') = Len(waiters) - 1
          /\ \A i \in 1 .. Len(waiters) - 1 :
                waiters'[i] = IF i < k THEN waiters[i] ELSE waiters[i + 1]
      <4> DEFINE before == SubSeq(waiters, 1, k - 1)
                 after == SubSeq(waiters, k + 1, Len(waiters))
      <4>1. /\ before \in Seq(Streams) /\ Len(before) = k - 1 /\ k \in 1 .. Len(waiters)
            /\ \A i \in 1 .. k - 1 : before[i] = waiters[i]
        BY <3>1
      <4>2. /\ after \in Seq(Streams) /\ Len(after) = Len(waiters) - k
            /\ \A i \in 1 .. Len(waiters) - k : after[i] = waiters[i + k]
        BY <3>2
      <4>3. waiters' = before \o after
        BY <2>4
      <4> HIDE DEF before, after
      <4>4. /\ waiters' \in Seq(Streams) /\ Len(waiters') = Len(waiters) - 1
            /\ \A i \in 1 .. Len(waiters) - 1 :
                  waiters'[i] = IF i < k THEN before[i] ELSE after[i - (k - 1)]
        <5>1. /\ waiters' \in Seq(Streams) /\ Len(waiters') = Len(before) + Len(after)
              /\ \A i \in 1 .. Len(before) + Len(after) :
                    waiters'[i] = IF i <= Len(before) THEN before[i] ELSE after[i - Len(before)]
          BY <4>1, <4>2, <4>3, ConcatProperties
        <5>. QED
          BY <1>1, <4>1, <4>2, <5>1, SMTT(30)
      <4>5. \A i \in 1 .. Len(waiters) - 1 :
              IF i < k THEN before[i] = waiters[i] ELSE after[i - (k - 1)] = waiters[i + 1]
        BY <1>1, <4>1, <4>2
      <4>. QED
        BY <4>4, <4>5
    <3>4. /\ \A u \in Streams :
                requests'[u].pc = "waiting" <=> \E i \in 1 .. Len(waiters') : waiters'[i] = u
          /\ \A i, j \in 1 .. Len(waiters') : waiters'[i] = waiters'[j] => i = j
      BY <2>1, <2>4, <3>3, LeavesQueue
    <3>. QED
      BY <2>2, <3>3, <3>4 DEF QueueInv
  <2>5. LeaveQueue(s) /\ DOMAIN waiters = 1 .. Len(waiters)
    BY <1>1, <1>7 DEF Disconnect
  <2>. QED
    BY <2>3, <2>4, <2>5 DEF LeaveQueue
<1>. QED
    BY <1>2, <1>3, <1>4, <1>5, <1>6, <1>7 DEF StreamStep, Enter

(* The steps of a request and of its run, whether or not clients leave.    *)
LEMMA StreamKeepsTypes ==
    ASSUME HostTypes, NEW s \in Streams, StreamStep(s)
    PROVE  HostTypes'
<1>1. UNCHANGED <<local, remote, webservice, vaultKey>>
    BY DEF StreamStep, Post, Enter, Wake, Close, Disconnect
<1>2. holder' \in Streams \cup {NoStream}
    BY DEF HostTypes, StreamStep, Post, Enter, Wake, Close, Disconnect, Acquire
<1>3. requests' \in [Streams -> Requests]
  <2>1. \A pc \in {"idle", "accepted", "waiting", "open", "over"} :
            Becomes(s, pc) => requests' \in [Streams -> Requests]
    BY DEF HostTypes, Becomes, Requests
  <2>2. CASE \E dry \in BOOLEAN : Post(s, dry)
    BY <2>2 DEF Post, HostTypes, Requests
  <2>. QED
    BY <2>1, <2>2 DEF StreamStep, Enter, Wake, Close, Disconnect, Acquire
<1>4. runs' \in [Streams -> Runs]
  <2>1. runs' = runs \/ Goto(s, "read")
    BY DEF StreamStep, Post, Enter, Wake, Close, Disconnect, Acquire
  <2>. QED
    BY <2>1 DEF Goto, HostTypes, Runs
<1>. QED
    BY <1>1, <1>2, <1>3, <1>4 DEF HostTypes

LEMMA RunKeepsTypes ==
    ASSUME HostTypes, NEW s \in Streams, RunStep(s)
    PROVE  HostTypes'
<1> USE SetupAssumption DEF HostTypes, Runs, Files, At, Goto, streamVars
<1>1. CASE ReadKey(s)
    BY <1>1 DEF ReadKey, WebhookKeys
<1>2. CASE WriteJson(s)
    BY <1>2 DEF WriteJson
<1>3. CASE WriteScript(s)
    BY <1>3 DEF WriteScript, Requests
<1>4. CASE PushJson(s)
    BY <1>4 DEF PushJson
<1>5. CASE PushScript(s)
    BY <1>5 DEF PushScript
<1>6. CASE RunPerl(s)
    BY <1>6 DEF RunPerl
<1>7. CASE SaveKey(s)
    BY <1>7 DEF SaveKey
<1>8. CASE AwaitSync(s) /\ UNCHANGED <<streamVars, local, remote, webservice, vaultKey>>
    BY <1>8 DEF AwaitSync
<1>9. CASE RunFails(s)
    BY <1>9 DEF RunFails
<1>. QED
    BY <1>1, <1>2, <1>3, <1>4, <1>5, <1>6, <1>7, <1>8, <1>9 DEF RunStep

LEMMA RunKeepsQueue ==
    ASSUME QueueInv, NEW s \in Streams, RunStep(s)
    PROVE  QueueInv'
    BY DEF QueueInv, RunStep, ReadKey, WriteJson, WriteScript, PushJson, PushScript, RunPerl,
           SaveKey, AwaitSync, RunFails, streamVars

-----------------------------------------------------------------------------
(* The sync: what it read or took from the file is what it writes.         *)
LEMMA SyncedTypes ==
    ASSUME SyncTypeOK, NEW x \in Syncs, NEW stage \in Stages, NEW values \in Values,
           syncs' = [syncs EXCEPT ![x] = [stage |-> stage, values |-> values]]
    PROVE  syncs' \in [Syncs -> [stage : Stages, values : Values]]
    BY DEF SyncTypeOK

LEMMA NoValuesTypes == NoValues \in Values
    BY SyncAssumption DEF NoValues, Values, NoEntry, ByAddress

LEMMA FaultTypes ==
    ASSUME SyncTypeOK, UNCHANGED faults \/ Fault
    PROVE  faults' \in 0 .. MaxFaults
    BY SyncAssumption DEF SyncTypeOK, Fault

LEMMA SyncKeepsTypes ==
    ASSUME SyncTypeOK, NEW x \in Syncs, SyncStep(x)
    PROVE  SyncTypeOK'
<1> USE NoValuesTypes, FaultTypes
<1>1. syncs \in [Syncs -> [stage : Stages, values : Values]] /\ inventory \in 0 .. MaxChanges
    BY DEF SyncTypeOK
<1>2. CASE List(x)
  <2>1. PICK list \in Lists, down \in SUBSET Endpoints :
          /\ UNCHANGED faults \/ Fault
          /\ syncs' = [syncs EXCEPT
               ![x].stage = NextStage[list],
               ![x].values[list] = [e \in Endpoints |->
                                      IF e \in down THEN Absent(list, e) ELSE inventory]]
          /\ UNCHANGED <<inventory, remoteCatalog, catalog>>
    BY <1>2 DEF List
  <2> DEFINE row == [e \in Endpoints |-> IF e \in down THEN Absent(list, e) ELSE inventory]
  <2>2. NextStage[list] \in Stages
    BY <2>1 DEF NextStage, Lists, Stages
  <2>3. row \in [Endpoints -> ByAddress .. MaxChanges]
    BY <1>1, SyncAssumption DEF Absent, ByAddress, NoEntry
  <2> HIDE DEF row
  <2>4. [syncs[x].values EXCEPT ![list] = row] \in Values
    BY <1>1, <2>3 DEF Values
  <2>5. /\ syncs' = [syncs EXCEPT ![x] = syncs'[x]]
        /\ syncs'[x] = [[syncs[x] EXCEPT !.stage = NextStage[list]]
                           EXCEPT !.values = [syncs[x].values EXCEPT ![list] = row]]
    <3>1. DOMAIN syncs = Syncs
        BY <1>1
    <3>2. syncs[x] \in [stage : Stages, values : Values]
        BY <1>1
    <3>. QED
        BY <3>1, <3>2, <2>1 DEF row
  <2>6. syncs'[x] = [stage |-> NextStage[list],
                     values |-> [syncs[x].values EXCEPT ![list] = row]]
    <3>1. syncs[x] \in [stage : Stages, values : Values]
        BY <1>1
    <3>. QED
        BY <2>5, <3>1
  <2>7. syncs' \in [Syncs -> [stage : Stages, values : Values]]
    BY <2>2, <2>4, <2>5, <2>6, SyncedTypes
  <2>. QED
    BY <2>1, <2>7 DEF SyncTypeOK
<1>3. CASE Push(x)
  <2>1. "fields" \in Stages
    BY DEF Stages
  <2>2. syncs' \in [Syncs -> [stage : Stages, values : Values]]
    BY <1>3, <2>1, SyncedTypes DEF Push
  <2>. QED
    BY <1>1, <1>3, <2>2 DEF Push, SyncTypeOK
<1>4. CASE Fields(x)
  <2>1. "acl" \in Stages /\ remoteCatalog \in Values
    BY DEF Stages, SyncTypeOK
  <2>2. syncs' \in [Syncs -> [stage : Stages, values : Values]]
    BY <1>4, <2>1, SyncedTypes DEF Fields
  <2>. QED
    BY <1>4, <2>1, <2>2 DEF Fields, SyncTypeOK
<1>5. ASSUME NEW how \in Ended, EndSync(x, how)
      PROVE  syncs' \in [Syncs -> [stage : Stages, values : Values]]
  <2>1. how \in Stages
    BY DEF Stages, Ended
  <2>. QED
    BY <1>5, <2>1, SyncedTypes DEF EndSync
<1>6. CASE Acl(x)
    BY <1>1, <1>5, <1>6 DEF Acl, SyncTypeOK, Ended
<1>7. CASE SyncFails(x)
    BY <1>5, <1>7 DEF SyncFails, SyncTypeOK, Ended
<1>. QED
    BY <1>2, <1>3, <1>4, <1>6, <1>7 DEF SyncStep

(* What the loop and the setups do to a sync between its steps.            *)
LEMMA TurnKeepsTypes ==
    ASSUME SyncTypeOK, UNCHANGED faults \/ Fault,
           UNCHANGED <<remoteCatalog, catalog>>,
           inventory' \in 0 .. MaxChanges,
           \/ syncs' = syncs
           \/ \E x \in Syncs : StartSync(x) \/ syncs' = [syncs EXCEPT ![x].stage = "idle"]
    PROVE  SyncTypeOK'
<1>1. "images" \in Stages /\ "idle" \in Stages
    BY DEF Stages, Lists
<1>2. syncs' \in [Syncs -> [stage : Stages, values : Values]]
  <2>1. ASSUME NEW x \in Syncs, StartSync(x)
        PROVE  syncs' \in [Syncs -> [stage : Stages, values : Values]]
    BY <1>1, <2>1, NoValuesTypes, SyncedTypes DEF StartSync
  <2>2. ASSUME NEW x \in Syncs, syncs' = [syncs EXCEPT ![x].stage = "idle"]
        PROVE  syncs' \in [Syncs -> [stage : Stages, values : Values]]
    BY <1>1, <2>2 DEF SyncTypeOK
  <2>. QED
    BY <2>1, <2>2 DEF SyncTypeOK
<1>. QED
    BY <1>2, FaultTypes DEF SyncTypeOK

-----------------------------------------------------------------------------
TypeInv == SyncTypeOK /\ HostTypes /\ QueueInv

LEMMA TypeInvInit == Init => TypeInv
<1> SUFFICES ASSUME Init PROVE TypeInv
    OBVIOUS
<1>1. HostTypes
    BY HostInvInit DEF HostInv
<1>2. QueueInv
    BY SetupAssumption DEF Init, SetupInit, QueueInv
<1>3. SyncTypeOK
  <2>1. "idle" \in Stages
    BY DEF Stages
  <2>. QED
    BY <2>1, NoValuesTypes, SyncAssumption DEF Init, SyncInit, SyncTypeOK
<1>. QED
    BY <1>1, <1>2, <1>3 DEF TypeInv

LEMMA NextKeepsTypes == TypeInv /\ [Next]_vars => TypeInv'
<1> SUFFICES ASSUME TypeInv, [Next]_vars PROVE TypeInv'
    OBVIOUS
<1> USE DEF TypeInv
<1>1. ASSUME UNCHANGED syncVars PROVE SyncTypeOK'
    BY <1>1 DEF syncVars, SyncTypeOK
<1>2. ASSUME UNCHANGED setupVars PROVE HostTypes' /\ QueueInv'
    BY <1>2 DEF setupVars, streamVars, HostTypes, QueueInv
<1>3. ASSUME NEW s \in Streams, StreamStep(s), UNCHANGED syncVars PROVE TypeInv'
    BY <1>1, <1>3, StreamKeepsTypes, StreamKeepsQueue
<1>4. ASSUME NEW s \in Streams, RunStep(s) PROVE TypeInv'
  <2>1. \/ UNCHANGED syncVars
        \/ /\ UNCHANGED faults \/ Fault
           /\ UNCHANGED <<inventory, remoteCatalog, catalog>>
           /\ syncs' = syncs \/ StartSync(s)
    BY <1>4 DEF RunStep, AwaitSync, RunFails
  <2>2. s \in Syncs /\ inventory \in 0 .. MaxChanges
    BY DEF Syncs, SyncTypeOK
  <2>3. SyncTypeOK'
    BY <1>1, <2>1, <2>2, TurnKeepsTypes
  <2>. QED
    BY <1>4, <2>3, RunKeepsTypes, RunKeepsQueue
<1>5. ASSUME RotateKey, UNCHANGED syncVars PROVE TypeInv'
    BY <1>1, <1>5, SetupAssumption DEF RotateKey, streamVars, HostTypes, WebhookKeys, QueueInv
<1>6. ASSUME NEW x \in Syncs, SyncStep(x), UNCHANGED setupVars PROVE TypeInv'
    BY <1>2, <1>6, SyncKeepsTypes
<1>7. ASSUME LoopTurn, UNCHANGED setupVars PROVE TypeInv'
  <2>1. Loop \in Syncs /\ inventory \in 0 .. MaxChanges
    BY DEF Syncs, SyncTypeOK
  <2>2. SyncTypeOK'
    BY <1>7, <2>1, TurnKeepsTypes DEF LoopTurn, TurnsAfter
  <2>. QED
    BY <1>2, <1>7, <2>2
<1>8. ASSUME ChangeInventory, UNCHANGED setupVars PROVE TypeInv'
  <2>1. inventory' \in 0 .. MaxChanges
    BY <1>8, SyncAssumption DEF ChangeInventory, SyncTypeOK
  <2>. QED
    BY <1>2, <1>8, <2>1, TurnKeepsTypes DEF ChangeInventory
<1>9. ASSUME UNCHANGED vars PROVE TypeInv'
    BY <1>1, <1>2, <1>9 DEF vars
<1>. QED
    BY <1>3, <1>4, <1>5, <1>6, <1>7, <1>8, <1>9 DEF Next

(* Every variable keeps its type, and whoever comes, wakes or goes away,   *)
(* none but waiting streams are in the queue for the lock.                 *)
THEOREM HostTypesHold == Spec => []TypeOK
<1>1. TypeInv => TypeOK
  <2> SUFFICES ASSUME TypeInv
               PROVE  waiters \in Seq({s \in Streams : requests[s].pc = "waiting"})
    BY DEF TypeInv, TypeOK, SetupTypeOK, HostTypes
  <2>1. waiters \in Seq(Streams) /\ \A i \in 1 .. Len(waiters) : requests[waiters[i]].pc = "waiting"
    BY ElementOfSeq DEF TypeInv, QueueInv
  <2>. QED
    BY <2>1
<1>. QED
    BY <1>1, TypeInvInit, NextKeepsTypes, PTL DEF Spec
=============================================================================
