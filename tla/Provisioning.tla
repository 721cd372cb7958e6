---------------------------- MODULE Provisioning ----------------------------
(***************************************************************************)
(* The provisioning path of Werft as deployed: the webhook endpoint, the   *)
(* broker and the worker pool over one job table, one IPAM and one         *)
(* hypervisor.                                                             *)
(***************************************************************************)
EXTENDS Orchestrator

(* A history variable, which no action reads: the slots in which a search  *)
(* took a VM for its ticket's that was another's or was leaving.           *)
VARIABLE mistaken

vars == <<rows, queue, intakeVars, orchestratorVars, ipamVars, vms, mistaken>>

Init ==
    /\ StoreInit /\ IntakeInit /\ IpamInit /\ HypervisorInit /\ OrchestratorInit
    /\ mistaken = {}

backendVars == <<orchestratorVars, ipamVars, vms>>

Watch ==
    mistaken' = mistaken \cup {s \in Slots : \E w \in Workers :
        /\ At(w, "find") /\ workers'[w].pc = "saveRef" /\ workers'[w].ref = s
        /\ vms[s].ticket # Job(w) \/ vms[s].leaving}

HypervisorStep ==
    /\ \E s \in Slots : DeleteEnds(s)
    /\ UNCHANGED <<rows, queue, intakeVars, orchestratorVars, ipamVars>>

Step ==
    \/ \E h \in Handlers :
          \/ \E t \in Tickets : Receive(h, t) /\ UNCHANGED backendVars
          \/ InsertJob(h) /\ UNCHANGED backendVars
          \/ ResetJob(h) /\ UNCHANGED backendVars
          \/ Enqueue(h) /\ UNCHANGED backendVars
          \/ Abandon(h) /\ UNCHANGED backendVars
    \/ \E w \in Workers : WorkerStep(w) \/ Crash(w) \/ TimeLimit(w)
    \/ HypervisorStep

Next == Step /\ Watch

Spec == Init /\ [][Next]_vars

(* Every call of a request or a task ends, by its result or by a timeout,  *)
(* and an idle process takes a waiting message.  Nothing is assumed of     *)
(* OTOBO, of crashes, of deletes, or of which outcome a call has.          *)
Fairness ==
    /\ \A h \in Handlers : WF_vars(IntakeStep(h) /\ UNCHANGED backendVars /\ Watch)
    /\ \A w \in Workers : WF_vars(WorkerStep(w) /\ Watch)

FairSpec == Spec /\ Fairness

TypeOK ==
    /\ StoreTypeOK
    /\ IntakeTypeOK
    /\ IpamTypeOK
    /\ HypervisorTypeOK
    /\ OrchestratorTypeOK
    /\ mistaken \subseteq Slots

-----------------------------------------------------------------------------
(* Properties                                                              *)

(* The worker is in the saga of its job and has not committed its outcome. *)
Runs(w) == workers[w].pc \notin {"idle", "notifyOk", "notifyFailed", "raise", "ack"}

(* A job's saga never runs in two workers at once.  Nothing locks the row: *)
(* it rests on the status the webhook endpoint reads and on what Celery    *)
(* redelivers.                                                             *)
OneRunPerJob ==
    \A v, w \in Workers : Runs(v) /\ Runs(w) /\ Job(v) = Job(w) => v = w

(* "bei Fehler wieder frei": no address leaks.  What is reserved or active *)
(* in the IPAM is recorded in the row of the ticket it was reserved for,   *)
(* or a running saga of the ticket still knows it and can release it.      *)
LeasesHeld ==
    \A a \in Addrs :
        leases[a].state # "free" =>
            LET id == [addr |-> a, gen |-> leases[a].gen]
                t  == leases[a].ticket
            IN  \/ rows[t].ip = id
                \/ \E w \in Workers : Runs(w) /\ Job(w) = t /\ workers[w].ip = id

(* An address object a row or a running saga refers to was created for its *)
(* own ticket for as long as it exists, whatever crashes, is lost or runs  *)
(* twice: a stale reference never comes to name another ticket's address.  *)
OwnedBy(t, id) ==
    id # NoIp =>
        /\ id.gen <= leases[id.addr].gen
        /\ Live(id) => leases[id.addr].ticket = t

LeasesOwned ==
    /\ \A t \in Tickets : OwnedBy(t, rows[t].ip)
    /\ \A w \in Workers : Job(w) # NoTicket => OwnedBy(Job(w), workers[w].ip)

(* An address object of one ticket is finalized or deleted only by a       *)
(* worker that runs that ticket's job.                                     *)
TouchesOnlyOwnLease ==
    [][\A a \in Addrs :
         leases[a].state # "free" /\ leases'[a] # leases[a] =>
            \E w \in Workers : workers'[w] # workers[w] /\ Job(w) = leases[a].ticket]_vars

(* A VM made for one ticket is reconfigured, stopped or sent away only by  *)
(* a worker that runs that ticket's job, however vmids are used again and  *)
(* whenever deletes end, unless a search was once mistaken in its slot.    *)
TouchesOnlyOwnVm ==
    [][\A s \in Slots \ mistaken :
         vms[s].ticket # NoTicket /\ vms'[s] # vms[s] =>
            \/ vms[s].leaving /\ UNCHANGED workers
            \/ \E w \in Workers : workers'[w] # workers[w] /\ Job(w) = vms[s].ticket]_vars

(* "setzt sie nach Erfolg auf active": the address of a completed job is   *)
(* the one the IPAM holds for its ticket, and active there.                *)
CompletedHoldsLease ==
    \A t \in Tickets :
        rows[t].status = "completed" =>
            /\ Live(rows[t].ip)
            /\ leases[rows[t].ip.addr].state = "active"
            /\ leases[rows[t].ip.addr].ticket = t

(* The VM a completed job names is its own ticket's, stands and stays: no  *)
(* delete of an earlier run is under way that it could still fall to.  The *)
(* exception is a slot where a search was mistaken: it took another        *)
(* ticket's VM, or one that destroy had sent away and not waited for.      *)
CompletedVmStands ==
    \A t \in Tickets :
        rows[t].status = "completed" =>
            /\ rows[t].ref # NoRef
            /\ rows[t].ref \notin mistaken =>
                 vms[rows[t].ref].ticket = t /\ ~vms[rows[t].ref].leaving

(* Seen from outside, every ticket goes through the lifecycle the          *)
(* documentation promises, whatever happens between the steps.             *)
LeaseState(t) ==
    IF \E a \in Addrs : leases[a].ticket = t
    THEN leases[CHOOSE a \in Addrs : leases[a].ticket = t].state
    ELSE "none"

Lifecycle == INSTANCE JobLifecycle
    WITH status <- [t \in Tickets |-> rows[t].status],
         lease  <- [t \in Tickets |-> LeaseState(t)]

ImplementsLifecycle == Lifecycle!Spec

(* An accepted job is never forgotten: a request is about to enqueue it, a *)
(* message of it waits, or a worker runs its saga.  The status column says *)
(* nothing of these, and later webhooks rely on it alone.                  *)
JobsCarried ==
    \A t \in Tickets :
        rows[t].status \in Pending =>
            \/ \E h \in Handlers : handlers[h].job = t /\ handlers[h].pc = "enqueue"
            \/ \E m \in Messages : m.job = t /\ queue[m] > 0
            \/ \E w \in Workers : Runs(w) /\ Job(w) = t

(* An approved ticket comes to an end: once its job is accepted, it is     *)
(* completed or failed sooner or later.                                    *)
JobsSettle ==
    \A t \in Tickets : rows[t].status \in Pending ~> rows[t].status \in {"completed", "failed"}
=============================================================================
