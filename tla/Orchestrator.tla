---------------------------- MODULE Orchestrator ----------------------------
(***************************************************************************)
(* The provision_vm task and the saga it runs: reserve an address, provide *)
(* the VM, finalize, tell OTOBO; compensate on failure.  A worker stops at *)
(* every call that leaves the process and at every commit, so other        *)
(* workers, webhooks, lost processes and time limits fall in between.      *)
(***************************************************************************)
EXTENDS WebhookIntake, Ipam, Hypervisor

CONSTANTS
    Workers,     \* processes of the Celery worker pool
    MaxCrashes   \* bound: worker processes lost in a behaviour

VARIABLES
    workers,     \* process -> the task it runs
    notices,     \* ticket -> the last state Werft gave it in OTOBO
    crashes      \* worker processes lost so far

ASSUME OrchestratorAssumption == MaxCrashes \in Nat

Steps == {"load", "started", "reserve", "saveIp", "vmObj", "saveObj", "mark", "find",
          "create", "configure", "start", "saveRef", "finalize", "complete", "notifyOk",
          "compensate", "destroy", "markFailed", "notifyFailed", "raise", "ack"}

(* seen is the job object of the session as last loaded; ip, obj and ref   *)
(* are the locals the except block compensates with; slot is the vmid a    *)
(* running provision call created.                                         *)
NoTask == [pc |-> "idle", job |-> NoTicket, try |-> 0, seen |-> NoRow,
           ip |-> NoIp, obj |-> 0, ref |-> NoRef, slot |-> NoRef]

Tasks == [pc   : Steps \cup {"idle"},
          job  : Tickets \cup {NoTicket},
          try  : 0 .. MaxRetries,
          seen : Rows,
          ip   : IpIds \cup {NoIp},
          obj  : Nat,
          ref  : Slots \cup {NoRef},
          slot : Slots \cup {NoRef}]

OrchestratorTypeOK ==
    /\ workers \in [Workers -> Tasks]
    /\ \A w \in Workers : workers[w].pc # "idle" => workers[w].job \in Tickets
    /\ notices \in [Tickets -> {"none", "started", "completed", "failed"}]
    /\ crashes \in 0 .. MaxCrashes

OrchestratorInit ==
    /\ workers = [w \in Workers |-> NoTask]
    /\ notices = [t \in Tickets |-> "none"]
    /\ crashes = 0

orchestratorVars == <<workers, notices, crashes>>

At(w, pc) == workers[w].pc = pc
Job(w) == workers[w].job
Goto(w, pc) == workers' = [workers EXCEPT ![w].pc = pc]
Message(w) == [job |-> workers[w].job, try |-> workers[w].try]

-----------------------------------------------------------------------------
(* Mutant of Take: a task starts without a message in the broker.          *)
TakeUnsent(w, m) ==
    /\ At(w, "idle")
    /\ queue' = [queue EXCEPT ![m] = @ - 1]
    /\ workers' = [workers EXCEPT ![w] =
                     [NoTask EXCEPT !.pc = "load", !.job = m.job, !.try = m.try]]
    /\ UNCHANGED <<intakeVars, rows, leases, vmObjs, vms, notices, crashes>>

(* Celery hands a message to an idle process; it is acknowledged late.     *)
Take(w, m) ==
    /\ At(w, "idle")
    /\ queue[m] > 0
    /\ queue' = [queue EXCEPT ![m] = @ - 1]
    /\ workers' = [workers EXCEPT ![w] =
                     [NoTask EXCEPT !.pc = "load", !.job = m.job, !.try = m.try]]
    /\ UNCHANGED <<intakeVars, rows, leases, vmObjs, vms, notices, crashes>>

(* Mutant of Load: a job found under way is left to whoever runs it.       *)
LoadNotRunning(w) ==
    LET row == rows[Job(w)] IN
    /\ At(w, "load")
    /\ \/ /\ row.status \in {"queued", "failed"}
          /\ workers' = [workers EXCEPT ![w] =
               [@ EXCEPT !.pc = "started", !.seen = row,
                         !.ip = row.ip, !.obj = row.obj, !.ref = row.ref]]
       \/ row.status \notin {"queued", "failed"} /\ Goto(w, "ack")
    /\ UNCHANGED <<intakeVars, rows, queue, leases, vmObjs, vms, notices, crashes>>

(* db.get: a completed job is skipped, any other status runs.  Building    *)
(* the IPAM client and the request happens before the try block.           *)
Load(w) ==
    LET row == rows[Job(w)] IN
    /\ At(w, "load")
    /\ \/ /\ row.status \notin {"absent", "completed"}
          /\ workers' = [workers EXCEPT ![w] =
               [@ EXCEPT !.pc = "started", !.seen = row,
                         !.ip = row.ip, !.obj = row.obj, !.ref = row.ref]]
       \/ /\ row.status \in {"absent", "completed"} \/ "setupError" \in Faults
          /\ Goto(w, "ack")
    /\ UNCHANGED <<intakeVars, rows, queue, leases, vmObjs, vms, notices, crashes>>

(* An OTOBO callback sets the ticket's state; its failure is logged only.  *)
Notify(w, state) ==
    \/ notices' = [notices EXCEPT ![Job(w)] = state]
    \/ "notifyError" \in Faults /\ notices' = notices

NotifyStarted(w) ==
    /\ At(w, "started")
    /\ Notify(w, "started")
    /\ Goto(w, IF workers[w].seen.ip = NoIp THEN "reserve" ELSE "mark")
    /\ UNCHANGED <<intakeVars, rows, queue, leases, vmObjs, vms, crashes>>

(* ipam.reserve_ip for a job without an address.  It may raise, and does   *)
(* so too when only the answer to a request that took effect is lost.      *)
Reserve(w) ==
    /\ At(w, "reserve")
    /\ \/ \E a \in Addrs :
            /\ ReserveIp(Job(w), a)
            /\ \/ workers' = [workers EXCEPT ![w] =
                                [@ EXCEPT !.pc = "saveIp", !.ip = NextId(a)]]
               \/ "lostReply" \in Faults /\ Goto(w, "compensate")
       \/ Goto(w, "compensate") /\ UNCHANGED leases
    /\ UNCHANGED <<intakeVars, rows, queue, vmObjs, vms, notices, crashes>>

SaveIp(w) ==
    LET t == workers[w] IN
    /\ At(w, "saveIp")
    /\ Commit(Job(w), t.seen, [t.seen EXCEPT !.status = "ip_reserved", !.ip = t.ip])
    /\ Goto(w, "vmObj")
    /\ UNCHANGED <<intakeVars, queue, leases, vmObjs, vms, notices, crashes>>

(* ipam.create_vm_if_possible: None when it is not possible or raised.     *)
CreateVmObj(w) ==
    /\ At(w, "vmObj")
    /\ \/ /\ CreateObj(Job(w))
          /\ \/ workers' = [workers EXCEPT ![w] =
                              [@ EXCEPT !.pc = "saveObj", !.obj = vmObjs[Job(w)].gen + 1]]
             \/ "lostReply" \in Faults /\ Goto(w, "mark")
       \/ Goto(w, "mark") /\ UNCHANGED vmObjs
    /\ UNCHANGED <<intakeVars, rows, queue, leases, vms, notices, crashes>>

SaveObj(w) ==
    /\ At(w, "saveObj")
    /\ rows' = [rows EXCEPT ![Job(w)].obj = workers[w].obj]
    /\ Goto(w, "mark")
    /\ UNCHANGED <<intakeVars, queue, leases, vmObjs, vms, notices, crashes>>

(* assert job.reserved_ip, then the PROVISIONING commit.  The commits of a *)
(* new reservation made the session load the job again; without them it    *)
(* still has what it loaded first.                                         *)
Mark(w) ==
    LET t   == workers[w]
        row == IF t.seen.ip = NoIp THEN rows[Job(w)] ELSE t.seen
    IN
    /\ At(w, "mark")
    /\ \/ /\ row.ip # NoIp
          /\ Commit(Job(w), row, [row EXCEPT !.status = "provisioning"])
          /\ Goto(w, "find")
       \/ /\ row.ip = NoIp
          /\ workers' = [workers EXCEPT ![w] = [@ EXCEPT !.pc = "compensate", !.seen = row]]
          /\ UNCHANGED rows
    /\ UNCHANGED <<intakeVars, queue, leases, vmObjs, vms, notices, crashes>>

-----------------------------------------------------------------------------
(* provision: the search for a VM of the ticket.  A hit is the result as   *)
(* it stands.  A failed Proxmox listing counts as no hit; other errors of  *)
(* this part raise: get_provisioner before it, which finds no settings or  *)
(* cannot connect, and a vSphere listing.                                  *)
Find(w) ==
    LET task(pc, ref) == [workers EXCEPT ![w] =
            [@ EXCEPT !.pc = pc, !.seen = rows[Job(w)], !.ref = ref]]
    IN
    /\ At(w, "find")
    /\ \/ \E s \in Hits(Job(w)) : workers' = task("saveRef", s)
       \/ /\ Hits(Job(w)) = {} \/ (Kind = "proxmox" /\ "listError" \in Faults)
          /\ workers' = task("create", workers[w].ref)
       \/ workers' = task("compensate", workers[w].ref)
    /\ UNCHANGED <<intakeVars, rows, queue, leases, vmObjs, vms, notices, crashes>>

(* The clone or create request and the wait for its task.                  *)
Create(w) ==
    /\ At(w, "create")
    /\ \/ \E s \in Slots :
            /\ CreateVm(Job(w), s, workers[w].seen.ip.addr)
            /\ \/ /\ Kind = "proxmox"
                  /\ workers' = [workers EXCEPT ![w] =
                                   [@ EXCEPT !.pc = "configure", !.slot = s]]
               \/ /\ Kind = "vmware"
                  /\ workers' = [workers EXCEPT ![w] =
                                   [@ EXCEPT !.pc = "saveRef", !.ref = s]]
               \/ "partialVm" \in Faults /\ Goto(w, "compensate")
       \/ Goto(w, "compensate") /\ UNCHANGED vms
    /\ UNCHANGED <<intakeVars, rows, queue, leases, vmObjs, notices, crashes>>

(* Proxmox only.  An error here leaves the VM and returns no reference.    *)
Configure(w) ==
    LET s == workers[w].slot IN
    /\ At(w, "configure")
    /\ \/ ConfigureVm(Job(w), s, workers[w].seen.ip.addr) /\ Goto(w, "start")
       \/ /\ "partialVm" \in Faults \/ vms[s] = NoVm
          /\ Goto(w, "compensate")
          /\ UNCHANGED vms
    /\ UNCHANGED <<intakeVars, rows, queue, leases, vmObjs, notices, crashes>>

Start(w) ==
    LET s == workers[w].slot IN
    /\ At(w, "start")
    /\ \/ /\ StartVm(s)
          /\ \/ workers' = [workers EXCEPT ![w] = [@ EXCEPT !.pc = "saveRef", !.ref = s]]
             \/ "partialVm" \in Faults /\ Goto(w, "compensate")
       \/ /\ "partialVm" \in Faults \/ vms[s] = NoVm
          /\ Goto(w, "compensate")
          /\ UNCHANGED vms
    /\ UNCHANGED <<intakeVars, rows, queue, leases, vmObjs, notices, crashes>>

(* Mutant of SaveRef: stores the vmid it allocated, which a hit has not.   *)
SaveSlot(w) ==
    LET t == workers[w] IN
    /\ At(w, "saveRef")
    /\ Commit(Job(w), t.seen, [t.seen EXCEPT !.ref = t.slot])
    /\ Goto(w, "finalize")
    /\ UNCHANGED <<intakeVars, queue, leases, vmObjs, vms, notices, crashes>>

(* Mutant of SaveRef: goes on to COMPLETED without finalizing.             *)
SaveRefOnly(w) ==
    LET t == workers[w] IN
    /\ At(w, "saveRef")
    /\ Commit(Job(w), t.seen, [t.seen EXCEPT !.ref = t.ref])
    /\ Goto(w, "complete")
    /\ UNCHANGED <<intakeVars, queue, leases, vmObjs, vms, notices, crashes>>

SaveRef(w) ==
    LET t == workers[w] IN
    /\ At(w, "saveRef")
    /\ Commit(Job(w), t.seen, [t.seen EXCEPT !.ref = t.ref])
    /\ Goto(w, "finalize")
    /\ UNCHANGED <<intakeVars, queue, leases, vmObjs, vms, notices, crashes>>

(* Mutant of Finalize: an error of the IPAM is swallowed.                  *)
FinalizeAnyway(w) ==
    LET row == rows[Job(w)] IN
    /\ At(w, "finalize")
    /\ \/ row.ip # NoIp /\ FinalizeOk(Job(w), row.ip, row.obj)
       \/ row.ip # NoIp /\ FinalizeError(row.ip)
       \/ row.ip = NoIp /\ UNCHANGED ipamVars
    /\ workers' = [workers EXCEPT ![w] = [@ EXCEPT !.pc = "complete", !.seen = row]]
    /\ UNCHANGED <<intakeVars, rows, queue, vms, notices, crashes>>

(* The job is loaded again; without an address there is nothing to do.     *)
Finalize(w) ==
    LET row == rows[Job(w)]
        task(pc) == [workers EXCEPT ![w] = [@ EXCEPT !.pc = pc, !.seen = row]]
    IN
    /\ At(w, "finalize")
    /\ \/ row.ip # NoIp /\ FinalizeOk(Job(w), row.ip, row.obj) /\ workers' = task("complete")
       \/ row.ip # NoIp /\ FinalizeError(row.ip) /\ workers' = task("compensate")
       \/ row.ip = NoIp /\ workers' = task("complete") /\ UNCHANGED ipamVars
    /\ UNCHANGED <<intakeVars, rows, queue, vms, notices, crashes>>

Complete(w) ==
    LET t == workers[w] IN
    /\ At(w, "complete")
    /\ Commit(Job(w), t.seen, [t.seen EXCEPT !.status = "completed"])
    /\ Goto(w, "notifyOk")
    /\ UNCHANGED <<intakeVars, queue, leases, vmObjs, vms, notices, crashes>>

NotifyOk(w) ==
    /\ At(w, "notifyOk")
    /\ Notify(w, "completed")
    /\ Goto(w, "ack")
    /\ UNCHANGED <<intakeVars, rows, queue, leases, vmObjs, vms, crashes>>

-----------------------------------------------------------------------------
(* The except block, with the locals as the failing call left them.        *)
Compensate(w) ==
    LET t == workers[w] IN
    /\ At(w, "compensate")
    /\ CompensateIpam(t.job, t.ip, t.obj)
    /\ Goto(w, IF t.ref = NoRef THEN "markFailed" ELSE "destroy")
    /\ UNCHANGED <<intakeVars, rows, queue, vms, notices, crashes>>

Destroy(w) ==
    /\ At(w, "destroy")
    /\ DestroyVm(workers[w].ref)
    /\ Goto(w, "markFailed")
    /\ UNCHANGED <<intakeVars, rows, queue, leases, vmObjs, notices, crashes>>

(* FAILED; the address and the VM object are forgotten, hypervisor_ref is  *)
(* kept.                                                                   *)
MarkFailed(w) ==
    LET t == workers[w] IN
    /\ At(w, "markFailed")
    /\ Commit(Job(w), t.seen, [t.seen EXCEPT !.status = "failed", !.ip = NoIp, !.obj = 0])
    /\ Goto(w, "notifyFailed")
    /\ UNCHANGED <<intakeVars, queue, leases, vmObjs, vms, notices, crashes>>

NotifyFailed(w) ==
    /\ At(w, "notifyFailed")
    /\ Notify(w, "failed")
    /\ Goto(w, "raise")
    /\ UNCHANGED <<intakeVars, rows, queue, leases, vmObjs, vms, crashes>>

(* The exception reaches Celery, which publishes the task again for a      *)
(* builtin ConnectionError or TimeoutError while retries are left.  Only   *)
(* the vSphere client raises those, the other clients' errors are those of *)
(* requests; that the failing call was provision's is told by the status   *)
(* the task has last seen, PROVISIONING from line 77 on.                   *)
Raise(w) ==
    /\ At(w, "raise")
    /\ \/ /\ "retry" \in Faults
          /\ Kind = "vmware" /\ workers[w].seen.status = "provisioning"
          /\ workers[w].try < MaxRetries
          /\ Send([Message(w) EXCEPT !.try = @ + 1])
       \/ UNCHANGED queue
    /\ Goto(w, "ack")
    /\ UNCHANGED <<intakeVars, rows, leases, vmObjs, vms, notices, crashes>>

Ack(w) ==
    /\ At(w, "ack")
    /\ workers' = [workers EXCEPT ![w] = NoTask]
    /\ UNCHANGED <<intakeVars, rows, queue, leases, vmObjs, vms, notices, crashes>>

-----------------------------------------------------------------------------
(* Mutant of Crash: the message was acknowledged when it was taken.        *)
CrashAcked(w) ==
    /\ "crash" \in Faults
    /\ ~At(w, "idle")
    /\ crashes < MaxCrashes
    /\ crashes' = crashes + 1
    /\ workers' = [workers EXCEPT ![w] = NoTask]
    /\ UNCHANGED <<intakeVars, rows, queue, leases, vmObjs, vms, notices>>

(* task_reject_on_worker_lost: the unacknowledged message is queued again. *)
Crash(w) ==
    /\ "crash" \in Faults
    /\ ~At(w, "idle")
    /\ crashes < MaxCrashes
    /\ crashes' = crashes + 1
    /\ Send(Message(w))
    /\ workers' = [workers EXCEPT ![w] = NoTask]
    /\ UNCHANGED <<intakeVars, rows, leases, vmObjs, vms, notices>>

(* task_time_limit: the process is killed and the message acknowledged.    *)
TimeLimit(w) ==
    /\ "timeLimit" \in Faults
    /\ ~At(w, "idle")
    /\ workers' = [workers EXCEPT ![w] = NoTask]
    /\ UNCHANGED <<intakeVars, rows, queue, leases, vmObjs, vms, notices, crashes>>

(* What a live process does with its task, or idle with a message.         *)
Provision(w) == Find(w) \/ Create(w) \/ Configure(w) \/ Start(w)

Rollback(w) == Compensate(w) \/ Destroy(w) \/ MarkFailed(w) \/ NotifyFailed(w) \/ Raise(w)

WorkerStep(w) ==
    \/ \E m \in Messages : Take(w, m)
    \/ Load(w) \/ NotifyStarted(w) \/ Reserve(w) \/ SaveIp(w) \/ CreateVmObj(w) \/ SaveObj(w)
    \/ Mark(w) \/ Provision(w) \/ SaveRef(w) \/ Finalize(w) \/ Complete(w) \/ NotifyOk(w)
    \/ Rollback(w) \/ Ack(w)
=============================================================================
