----------------------------- MODULE SagaProofs -----------------------------
(***************************************************************************)
(* What the saga guarantees of its job as long as a job is not run twice:  *)
(* one run at a time, the address and the VM of a completed job, no leaked *)
(* address, and the lifecycle of JobLifecycle.  Each result states which   *)
(* faults it excludes; all others stay possible, in any number of tickets, *)
(* addresses, VMs, workers and requests.                                   *)
(*                                                                         *)
(* The argument: a job that is accepted has one bearer at a time, first    *)
(* the request that enqueues it, then its message, then the worker that    *)
(* runs it (RunInv).  So while a worker runs, nobody else writes the row   *)
(* of its job, and what the row says follows from where the worker stands  *)
(* (Phase); from that, what the IPAM (LeaseInv, StageInv) and the          *)
(* hypervisor (VmInv) hold for it.                                         *)
(***************************************************************************)
EXTENDS LeaseProofs

(* No overlapping webhooks of a ticket, and no task that Celery runs again *)
(* by itself: after a lost worker, or as a retry.                          *)
RunsOnce == Faults \cap {"overlap", "crash", "retry"} = {}

(* Every call to the IPAM that takes effect is answered, and every delete  *)
(* takes effect.                                                           *)
IpamAnswers == Faults \cap {"lostReply", "releaseError"} = {}

-----------------------------------------------------------------------------
(* What the row of a job says while a worker runs it.                      *)
Reserving == {"load", "started", "reserve", "saveIp"}
Reserved == {"vmObj", "saveObj", "mark"}
Providing == {"find", "create", "configure", "start"}
Finishing == {"finalize", "complete"}
Undoing == {"compensate", "destroy", "markFailed"}
Running == Reserving \cup Reserved \cup Providing \cup {"saveRef"} \cup Finishing \cup Undoing

(* The worker has an address that is not given back.                       *)
Holding == {"saveIp"} \cup Reserved \cup Providing \cup {"saveRef"} \cup Finishing

Phase(task, row) ==
    /\ task.pc \in Reserving => row = NewRow
    /\ task.pc \in {"started", "reserve"} => task.ip = NoIp
    /\ task.pc \in {"started", "reserve", "saveIp"} \cup Reserved => task.seen = NewRow
    /\ task.pc \in Reserved => row.status = "ip_reserved"
    /\ task.pc \in Providing \cup {"saveRef"} \cup Finishing => row.status = "provisioning"
    /\ task.pc \in Undoing => row.status \in {"queued", "provisioning"}
    /\ task.pc \in Undoing /\ row.status = "queued" => task.ip = NoIp
    /\ task.pc \in Holding => task.ip # NoIp
    /\ task.pc \in (Holding \cup Undoing) \ {"saveIp"} => task.ip = row.ip
    /\ task.pc \in Reserved \cup Providing \cup {"saveRef"} => row.ref = NoRef
    /\ task.pc \in Reserving \cup Reserved \cup Providing => task.ref = NoRef
    /\ task.pc \in {"saveRef", "destroy"} \cup Finishing => task.ref # NoRef
    /\ task.pc \in Finishing => task.ref = row.ref
    /\ task.pc \in {"create", "configure", "start", "saveRef", "complete"} \cup Undoing =>
          task.seen = row
    /\ task.pc \in {"configure", "start"} => task.slot # NoRef

(* The bearer of an accepted job: a request, a message or a worker.        *)
Serves(w, t) == Runs(w) /\ Job(w) = t
Waits(t) == \E m \in Messages : m.job = t /\ queue[m] > 0
Unserved(t) == \A w \in Workers : ~Serves(w, t)

RequestInv ==
    /\ \A h \in Handlers : handlers[h].pc = "idle" => handlers[h].job = NoTicket
    /\ \A g, h \in Handlers : handlers[g].job = handlers[h].job => g = h \/ handlers[h].job = NoTicket
    /\ \A h \in Handlers :
          handlers[h].pc = "reset" =>
             rows[handlers[h].job].status = "failed" /\ handlers[h].seen = rows[handlers[h].job]
    /\ \A h \in Handlers :
          handlers[h].pc = "enqueue" =>
             /\ rows[handlers[h].job] = NewRow
             /\ ~Waits(handlers[h].job) /\ Unserved(handlers[h].job)

QueueInv ==
    \A m \in Messages :
       queue[m] > 0 => m.try = 0 /\ queue[m] = 1 /\ rows[m.job] = NewRow /\ Unserved(m.job)

PhaseInv == \A w \in Workers : Runs(w) => Phase(workers[w], rows[Job(w)])

RunInv == RequestInv /\ QueueInv /\ OneRunPerJob /\ PhaseInv

-----------------------------------------------------------------------------
(* The IPAM has the address of a running or completed job for its ticket.  *)
Holds(t, id) == Live(id) /\ leases[id.addr].ticket = t

LeaseInv ==
    /\ \A w \in Workers : workers[w].pc \in Holding => Holds(Job(w), workers[w].ip)
    /\ \A w \in Workers : At(w, "complete") => leases[workers[w].ip.addr].state = "active"
    /\ \A t \in Tickets :
          rows[t].status = "completed" =>
             Holds(t, rows[t].ip) /\ leases[rows[t].ip.addr].state = "active"

(* With an IPAM that answers, a ticket has at most one address, none       *)
(* before it reserves and none after it gave it back.                      *)
IdOf(a) == [addr |-> a, gen |-> leases[a].gen]

(* Where the job of a ticket can stand while the IPAM has the address id   *)
(* for it, in this state.                                                  *)
Leased(t, id, state) ==
    /\ rows[t].status \notin {"absent", "failed"}
    /\ rows[t].status \in {"queued", "ip_reserved"} => state = "reserved"
    /\ \A h \in Handlers : handlers[h].job = t => handlers[h].pc # "enqueue"
    /\ ~Waits(t)
    /\ \A w \in Workers : Serves(w, t) =>
          workers[w].pc \in Holding \cup {"compensate"} /\ workers[w].ip = id

StageInv ==
    /\ \A a \in Addrs : leases[a].state = "free" <=> leases[a].ticket = NoTicket
    /\ \A a, b \in Addrs : leases[a].ticket = leases[b].ticket => a = b \/ leases[a].state = "free"
    /\ \A a \in Addrs :
          leases[a].state # "free" => Leased(leases[a].ticket, IdOf(a), leases[a].state)
    /\ \A w \in Workers : workers[w].pc \in Holding \ {"complete"} =>
          leases[workers[w].ip.addr].state = "reserved"

-----------------------------------------------------------------------------
(* The VM a run works with, and that of a completed job, is the ticket's,  *)
(* and no delete of it is under way, unless a search went wrong in its     *)
(* slot.                                                                   *)
Own(vm, wrong, t, s) == s \notin wrong => vm[s].ticket = t /\ ~vm[s].leaving

WorksOn(task, vm, wrong) ==
    /\ task.pc \in {"configure", "start"} => Own(vm, wrong, task.job, task.slot)
    /\ task.pc \in {"saveRef", "compensate", "destroy"} \cup Finishing
       /\ task.ref # NoRef => Own(vm, wrong, task.job, task.ref)

VmInv ==
    /\ \A w \in Workers : WorksOn(workers[w], vms, mistaken)
    /\ CompletedVmStands

-----------------------------------------------------------------------------
(* One bearer at a time                                                    *)

LEMMA InitRuns == Init => RunInv
  <1> SUFFICES ASSUME Init PROVE RunInv
    OBVIOUS
  <1>1. /\ \A w \in Workers : ~Runs(w)
        /\ \A h \in Handlers : handlers[h].pc = "idle" /\ handlers[h].job = NoTicket
        /\ \A m \in Messages : ~(queue[m] > 0)
    BY DEF Init, StoreInit, IntakeInit, OrchestratorInit, NoTask, NoRequest, Runs
  <1>2. QED
    BY <1>1 DEF RunInv, RequestInv, QueueInv, OneRunPerJob, PhaseInv

(* Where a worker that runs a job can be, and the status the job then has. *)
LEMMA RunsWhere ==
    ASSUME TypeOK, NEW w \in Workers
    PROVE  Runs(w) <=> workers[w].pc \in Running
  BY DEF TypeOK, OrchestratorTypeOK, Tasks, Steps, Runs, Running, Reserving, Reserved,
         Providing, Finishing, Undoing

LEMMA PhasePending ==
    ASSUME TypeOK, RunInv, NEW w \in Workers, Runs(w)
    PROVE  /\ Job(w) \in Tickets
           /\ rows[Job(w)].status \in Pending
           /\ Phase(workers[w], rows[Job(w)])
  <1>1. Job(w) \in Tickets /\ Phase(workers[w], rows[Job(w)]) /\ workers[w].pc \in Running
    BY BusyType, RunsWhere DEF RunInv, PhaseInv, Runs
  <1>2. QED
    BY <1>1 DEF Phase, Pending, Running, Reserving, Reserved, Providing, Finishing, Undoing,
                NewRow

(* A step of a worker on its own job keeps the invariant, if the task it   *)
(* leaves behind fits the row it leaves behind.                            *)
LEMMA WorkerRuns ==
    ASSUME TypeOK, TypeOK', RunInv, NEW w \in Workers,
           \A v \in Workers : v # w => workers'[v] = workers[v],
           UNCHANGED <<handlers, queue>>,
           \A t \in Tickets : t # Job(w) => rows'[t] = rows[t],
           Runs(w) \/ (rows' = rows /\ workers'[w].pc \notin Running),
           workers'[w].pc \in Running =>
              workers'[w].job = Job(w) /\ Phase(workers'[w], rows'[Job(w)])
    PROVE  RunInv'
  <1> DEFINE task == workers'[w]
  <1>2. ASSUME NEW v \in Workers, Runs(v)'
        PROVE  /\ Runs(v) /\ Job(v)' = Job(v)
               /\ v # w /\ Runs(w) => Job(v) # Job(w)
               /\ v = w => task.pc \in Running
    <2>1. CASE v = w
      <3>1. task.pc \in Running
        BY <1>2, <2>1 DEF TypeOK, OrchestratorTypeOK, Tasks, Steps, Runs, Running,
                                Reserving, Reserved, Providing, Finishing, Undoing
      <3>2. QED
        BY <2>1, <3>1 DEF Job
    <2>2. CASE v # w
      BY <1>2, <2>2 DEF Runs, Job, RunInv, OneRunPerJob
    <2>3. QED
      BY <2>1, <2>2
  <1>3. OneRunPerJob'
    BY <1>2 DEF OneRunPerJob, RunInv
  <1>4. ASSUME NEW t \in Tickets, Unserved(t)
        PROVE  Unserved(t)' /\ rows'[t] = rows[t]
    BY <1>2, <1>4 DEF Unserved, Serves, Job
  <1>5. QueueInv'
    <2> SUFFICES ASSUME NEW m \in Messages, queue[m] > 0
                 PROVE  m.try = 0 /\ queue[m] = 1 /\ rows'[m.job] = NewRow /\ Unserved(m.job)'
      BY DEF QueueInv
    <2>1. m.job \in Tickets
      BY DEF Messages
    <2>2. QED
      BY <1>4, <2>1 DEF RunInv, QueueInv
  <1>6. PhaseInv'
    <2> SUFFICES ASSUME NEW v \in Workers, Runs(v)' PROVE Phase(workers'[v], rows'[Job(v)'])
      BY DEF PhaseInv
    <2>1. CASE v = w
      BY <1>2, <2>1 DEF Job
    <2>2. CASE v # w
      <3>1. Job(v) \in Tickets /\ Phase(workers[v], rows[Job(v)])
        BY <1>2, PhasePending
      <3>2. rows'[Job(v)] = rows[Job(v)]
        BY <1>2, <2>2, <3>1
      <3>3. QED
        BY <1>2, <2>2, <3>1, <3>2
    <2>3. QED
      BY <2>1, <2>2
  <1>7. RequestInv'
    <2>1. ASSUME NEW h \in Handlers, handlers[h].pc = "reset"
          PROVE  rows'[handlers[h].job] = rows[handlers[h].job]
      <3>1. handlers[h].job \in Tickets /\ rows[handlers[h].job].status = "failed"
        BY <2>1 DEF RunInv, RequestInv, TypeOK, IntakeTypeOK
      <3>2. Runs(w) => handlers[h].job # Job(w)
        BY <3>1, PhasePending DEF Pending
      <3>3. QED
        BY <3>1, <3>2
    <2>2. ASSUME NEW h \in Handlers, handlers[h].pc = "enqueue"
          PROVE  rows'[handlers[h].job] = NewRow /\ Unserved(handlers[h].job)'
      BY <1>4, <2>2 DEF RunInv, RequestInv, TypeOK, IntakeTypeOK
    <2>3. QED
      BY <2>1, <2>2 DEF RunInv, RequestInv, Waits
  <1>8. QED
    BY <1>3, <1>5, <1>6, <1>7 DEF RunInv

(* A job that is not under way has no bearer.                              *)
LEMMA NoBearer ==
    ASSUME TypeOK, RunInv, NEW t \in Tickets, rows[t].status \notin Pending
    PROVE  /\ Unserved(t) /\ ~Waits(t)
           /\ \A h \in Handlers : handlers[h].job = t => handlers[h].pc # "enqueue"
  <1>1. Unserved(t)
    BY PhasePending DEF Unserved, Serves
  <1>2. NewRow.status \in Pending
    BY DEF NewRow, Pending
  <1>3. QED
    BY <1>1, <1>2 DEF RunInv, RequestInv, QueueInv, Waits

(* The requests of the API.  Two of one ticket never overlap, so a request *)
(* decides on a row that is still what it read when it commits.            *)
LEMMA RequestRuns ==
    ASSUME TypeOK, RunInv, RunsOnce, NEW h \in Handlers, UNCHANGED workers,
           \/ \E t \in Tickets : Receive(h, t)
           \/ InsertJob(h) \/ ResetJob(h) \/ Enqueue(h) \/ Abandon(h)
    PROVE  RunInv'
  <1> DEFINE t == handlers[h].job
  <1>0. /\ handlers[h].pc # "idle" => t \in Tickets
        /\ handlers \in [Handlers -> Requests] /\ rows \in [Tickets -> Rows]
        /\ queue \in [Messages -> Nat]
    BY DEF TypeOK, IntakeTypeOK, StoreTypeOK
  <1>1. UNCHANGED OneRunPerJob /\ \A u : Unserved(u)' <=> Unserved(u)
    BY DEF OneRunPerJob, Runs, Job, Unserved, Serves
  <1>2. ASSUME UNCHANGED rows PROVE PhaseInv'
    BY <1>2 DEF RunInv, PhaseInv, Runs, Job
  <1>3. NoRequest.pc = "idle" /\ NoRequest.job = NoTicket
    BY DEF NoRequest
  (* A request that ends takes nothing with it. *)
  <1>4. ASSUME UNCHANGED <<rows, queue>>, handlers' = [handlers EXCEPT ![h] = NoRequest]
        PROVE  RunInv'
    BY <1>0, <1>1, <1>2, <1>3, <1>4 DEF RunInv, RequestInv, QueueInv, Waits
  (* A ticket that has no bearer gets the request for one. *)
  <1>5. ASSUME UNCHANGED queue, handlers[h].pc # "idle", rows[t].status \notin Pending,
               rows' = [rows EXCEPT ![t] = NewRow],
               handlers' = [handlers EXCEPT ![h].pc = "enqueue"]
        PROVE  RunInv'
    <2>1. t \in Tickets /\ t # NoTicket
      BY <1>0, <1>5, ModelAssumption
    <2>2. Unserved(t) /\ ~Waits(t)
      BY <1>5, <2>1, NoBearer
    <2>3. PhaseInv'
      BY <1>0, <1>5, <2>1, <2>2 DEF RunInv, PhaseInv, Runs, Job, Unserved, Serves
    <2>4. QueueInv'
      BY <1>0, <1>1, <1>5, <2>1 DEF RunInv, QueueInv, Messages
    <2>5. /\ handlers'[h].pc = "enqueue" /\ handlers'[h].job = t
          /\ \A g \in Handlers : g # h => handlers'[g] = handlers[g] /\ handlers[g].job # t
      BY <1>0, <1>5, <2>1 DEF Requests, RunInv, RequestInv
    <2>6. \A g \in Handlers :
             g # h /\ handlers[g].pc # "idle" => rows'[handlers[g].job] = rows[handlers[g].job]
      BY <1>0, <1>5, <2>1, <2>5 DEF TypeOK, IntakeTypeOK
    <2>7. rows'[t] = NewRow /\ \A u : Waits(u)' <=> Waits(u)
      BY <1>0, <1>5, <2>1 DEF Waits
    <2>8. RequestInv'
      BY <1>0, <1>1, <2>1, <2>2, <2>5, <2>6, <2>7 DEF RunInv, RequestInv
    <2>9. QED
      BY <1>1, <2>3, <2>4, <2>8 DEF RunInv
  <1>6. ASSUME NEW u \in Tickets, Receive(h, u) PROVE RunInv'
    <2>1. /\ handlers[h].pc = "idle" /\ UNCHANGED <<rows, queue>>
          /\ \A g \in Handlers : handlers[g].job # u
      BY <1>6 DEF Receive, RunsOnce
    <2>2. CASE handlers' = [handlers EXCEPT ![h] = NoRequest]
      BY <1>4, <2>1, <2>2
    <2>3. ASSUME NEW r,
                 \/ r = [pc |-> "insert", job |-> u, seen |-> NoRow]
                 \/ rows[u].status = "failed" /\ r = [pc |-> "reset", job |-> u, seen |-> rows[u]],
                 handlers' = [handlers EXCEPT ![h] = r]
          PROVE  RunInv'
      <3>1. /\ r.job = u /\ r.pc \in {"insert", "reset"}
            /\ r.pc = "reset" => rows[u].status = "failed" /\ r.seen = rows[u]
        BY <2>3
      <3>2. RequestInv'
        BY <1>0, <1>1, <2>1, <2>3, <3>1, ModelAssumption DEF RunInv, RequestInv, Waits
      <3>3. QueueInv'
        BY <1>1, <2>1 DEF RunInv, QueueInv
      <3>4. QED
        BY <1>1, <1>2, <2>1, <3>2, <3>3 DEF RunInv
    <2>4. QED
      BY <1>6, <2>2, <2>3 DEF Receive
  <1>7. CASE InsertJob(h)
    BY <1>4, <1>5, <1>7 DEF InsertJob, Pending
  <1>8. CASE ResetJob(h)
    <2>1. /\ handlers[h].pc = "reset" /\ t \in Tickets
          /\ rows[t].status = "failed" /\ handlers[h].seen = rows[t] /\ rows[t] \in Rows
      BY <1>0, <1>8 DEF ResetJob, RunInv, RequestInv
    <2>2. Flush(rows[t], rows[t], NewRow) = NewRow
      BY <2>1 DEF Flush, NewRow, Rows
    <2>3. rows' = [rows EXCEPT ![t] = NewRow]
      BY <1>8, <2>1, <2>2 DEF ResetJob, Commit
    <2>4. QED
      BY <1>5, <1>8, <2>1, <2>3 DEF ResetJob, Pending
  <1>9. CASE Enqueue(h)
    <2> DEFINE n == [job |-> t, try |-> 0]
    <2>1. /\ t \in Tickets /\ t # NoTicket /\ n \in Messages /\ n.job = t
          /\ handlers[h].pc = "enqueue"
      BY <1>0, <1>9, ModelAssumption, RetriesAssumption DEF Enqueue, Messages
    <2>2. rows[t] = NewRow /\ ~Waits(t) /\ Unserved(t)
      BY <2>1 DEF RunInv, RequestInv
    <2>3. /\ queue'[n] = 1 /\ \A m \in Messages : m # n => queue'[m] = queue[m]
      BY <1>0, <1>9, <2>1, <2>2 DEF Enqueue, Send, Waits
    <2> HIDE DEF n
    <2>4. QueueInv'
      <3>1. UNCHANGED rows /\ n.try = 0
        BY <1>9 DEF Enqueue, n
      <3>2. QED
        BY <1>1, <2>1, <2>2, <2>3, <3>1 DEF RunInv, QueueInv
    <2>5. \A u \in Tickets : u # t => (Waits(u)' <=> Waits(u))
      BY <2>1, <2>3 DEF Waits
    <2>6. \A g \in Handlers : g # h => handlers'[g] = handlers[g] /\ handlers[g].job # t
      BY <1>0, <1>9, <2>1 DEF Enqueue, RunInv, RequestInv
    <2>7. UNCHANGED rows /\ handlers'[h] = NoRequest
      BY <1>0, <1>9 DEF Enqueue
    <2>8. RequestInv'
      <3>1. \A g \in Handlers : handlers[g].pc = "enqueue" => handlers[g].job \in Tickets
        BY DEF TypeOK, IntakeTypeOK
      <3>2. QED
        BY <1>1, <1>3, <2>5, <2>6, <2>7, <3>1 DEF RunInv, RequestInv
    <2>9. QED
      BY <1>1, <1>2, <2>4, <2>7, <2>8 DEF RunInv
  <1>10. CASE Abandon(h)
    BY <1>4, <1>10 DEF Abandon
  <1>11. QED
    BY <1>6, <1>7, <1>8, <1>9, <1>10

(* The worker that takes the message is the next bearer.                   *)
LEMMA TakeRuns ==
    ASSUME TypeOK, TypeOK', RunInv, NEW w \in Workers, NEW n \in Messages, Take(w, n)
    PROVE  RunInv'
  <1>1. /\ workers \in [Workers -> Tasks] /\ queue \in [Messages -> Nat]
        /\ n.job \in Tickets
    BY DEF TypeOK, OrchestratorTypeOK, StoreTypeOK, Messages
  <1>2. /\ queue[n] = 1 /\ n.try = 0 /\ rows[n.job] = NewRow /\ Unserved(n.job)
    BY DEF Take, RunInv, QueueInv
  <1>3. /\ queue'[n] = 0 /\ \A m \in Messages : m # n => queue'[m] = queue[m]
        /\ UNCHANGED <<rows, handlers>>
    BY <1>1, <1>2 DEF Take, intakeVars
  <1>4. /\ workers'[w].pc = "load" /\ workers'[w].job = n.job /\ workers'[w].ref = NoRef
        /\ ~Runs(w) /\ \A v \in Workers : v # w => workers'[v] = workers[v]
    BY <1>1 DEF Take, At, NoTask, Runs
  <1>5. \A m \in Messages : queue'[m] > 0 => m # n /\ m.job # n.job
    <2> SUFFICES ASSUME NEW m \in Messages, queue'[m] > 0 PROVE m # n /\ m.job # n.job
      OBVIOUS
    <2>1. m # n /\ m.try = 0
      BY <1>3 DEF RunInv, QueueInv
    <2>2. QED
      BY <1>2, <2>1 DEF Messages
  <1>6. \A t \in Tickets : t # n.job => (Unserved(t)' <=> Unserved(t))
    BY <1>4 DEF Unserved, Serves, Runs, Job
  <1>7. QueueInv'
    <2>1. \A m \in Messages : m.job \in Tickets
      BY DEF Messages
    <2>2. QED
      BY <1>3, <1>5, <1>6, <2>1 DEF RunInv, QueueInv
  <1>8. RequestInv'
    <2>1. \A h \in Handlers : handlers[h].pc = "enqueue" =>
             handlers[h].job \in Tickets /\ handlers[h].job # n.job
      BY <1>1, <1>2 DEF TypeOK, IntakeTypeOK, RunInv, RequestInv, Waits
    <2>2. \A t : Waits(t)' => Waits(t)
      BY <1>3, <1>5 DEF Waits
    <2>3. QED
      BY <1>3, <1>6, <2>1, <2>2 DEF RunInv, RequestInv
  <1>9. OneRunPerJob'
    BY <1>2, <1>4 DEF RunInv, OneRunPerJob, Unserved, Serves, Runs, Job
  <1>10. PhaseInv'
    <2>1. Phase(workers'[w], rows'[workers'[w].job])
      BY <1>2, <1>3, <1>4 DEF Phase, Reserving, Reserved, Providing, Finishing, Undoing, Holding
    <2>2. QED
      BY <1>3, <1>4, <2>1 DEF RunInv, PhaseInv, Runs, Job
  <1>11. QED
    BY <1>7, <1>8, <1>9, <1>10 DEF RunInv

(* A commit of a row that is as the session read it writes the row whole.  *)
LEMMA FlushWhole ==
    ASSUME NEW row \in Rows, NEW new \in Rows
    PROVE  Flush(row, row, new) = new
  BY DEF Flush, Rows

LEMMA CommitWhole ==
    ASSUME TypeOK, NEW t \in Tickets, NEW new \in Rows, Commit(t, rows[t], new)
    PROVE  rows'[t] = new /\ \A u \in Tickets : u # t => rows'[u] = rows[u]
  BY FlushWhole DEF TypeOK, StoreTypeOK, Commit

(* A worker that moves on without touching its task.                       *)
LEMMA MoveRuns ==
    ASSUME TypeOK, TypeOK', RunInv, NEW w \in Workers, workers[w].pc # "idle",
           NEW pc \in Steps, Goto(w, pc), UNCHANGED <<handlers, queue>>,
           \A t \in Tickets : t # Job(w) => rows'[t] = rows[t],
           Runs(w) \/ (rows' = rows /\ pc \notin Running),
           pc \in Running => Phase([workers[w] EXCEPT !.pc = pc], rows'[Job(w)])
    PROVE  RunInv'
  <1>1. /\ \A v \in Workers : v # w => workers'[v] = workers[v]
        /\ workers'[w] = [workers[w] EXCEPT !.pc = pc]
        /\ workers'[w].pc = pc /\ workers'[w].job = Job(w)
    BY DEF TypeOK, OrchestratorTypeOK, Tasks, Goto, Job
  <1>2. QED
    BY <1>1, WorkerRuns

(* The first part of the saga: the row is new until the address is saved.  *)
LEMMA PrologueRuns ==
    ASSUME TypeOK, TypeOK', RunInv, NEW w \in Workers,
           Load(w) \/ NotifyStarted(w) \/ Reserve(w) \/ SaveIp(w) \/ CreateVmObj(w) \/ SaveObj(w)
    PROVE  RunInv'
  <1> USE DEF At, Reserving, Reserved, Providing, Finishing, Undoing, Holding
  <1>0. workers[w].pc \in Running /\ Runs(w) /\ workers[w].pc # "idle"
    BY DEF Load, NotifyStarted, Reserve, SaveIp, CreateVmObj, SaveObj, Running, Runs
  <1>1. /\ workers \in [Workers -> Tasks] /\ Job(w) \in Tickets /\ rows[Job(w)] \in Rows
        /\ Phase(workers[w], rows[Job(w)])
    BY <1>0, PhasePending DEF TypeOK, OrchestratorTypeOK, StoreTypeOK
  <1>2. NewRow \in Rows /\ NewRow.ip = NoIp /\ NewRow.ref = NoRef /\ NewRow.status = "queued"
    BY RowConstants DEF NewRow
  <1>3. CASE Load(w)
    <2>0. rows[Job(w)] = NewRow
      BY <1>1, <1>3 DEF Load, Phase
    <2>1. CASE Goto(w, "ack")
      BY <1>0, <1>3, <2>1, MoveRuns DEF Load, Steps, Running, intakeVars
    <2>2. CASE ~Goto(w, "ack")
      <3> DEFINE row == rows[Job(w)]
                 task == [workers[w] EXCEPT !.pc = "started", !.seen = row,
                            !.ip = row.ip, !.obj = row.obj, !.ref = row.ref]
      <3>1. workers' = [workers EXCEPT ![w] = task] /\ UNCHANGED <<rows, queue, handlers>>
        BY <1>3, <2>2 DEF Load, intakeVars
      <3>2. /\ task.pc = "started" /\ task.job = Job(w) /\ task.seen = NewRow
            /\ task.ip = NoIp /\ task.ref = NoRef
        BY <1>1, <1>2, <2>0 DEF Tasks, Job
      <3>a. workers'[w] = task /\ \A v \in Workers : v # w => workers'[v] = workers[v]
        BY <1>1, <3>1
      <3> HIDE DEF task
      <3>3. Phase(task, rows'[Job(w)])
        BY <1>2, <2>0, <3>1, <3>2 DEF Phase
      <3>4. QED
        BY <1>0, <3>1, <3>2, <3>3, <3>a, WorkerRuns
    <2>3. QED
      BY <2>1, <2>2
  <1>4. CASE NotifyStarted(w)
    <2>1. Goto(w, "reserve")
      BY <1>1, <1>2, <1>4 DEF NotifyStarted, Phase
    <2>2. Phase([workers[w] EXCEPT !.pc = "reserve"], rows'[Job(w)])
      BY <1>1, <1>4 DEF NotifyStarted, Phase, Tasks
    <2>3. QED
      BY <1>0, <1>4, <2>1, <2>2, MoveRuns DEF NotifyStarted, Steps, intakeVars
  <1>5. CASE Reserve(w)
    <2>0. UNCHANGED <<rows, queue, handlers>>
      BY <1>5 DEF Reserve, intakeVars
    <2>1. CASE Goto(w, "compensate")
      <3>0. /\ rows'[Job(w)] = NewRow /\ workers[w].seen = NewRow
            /\ workers[w].ip = NoIp /\ workers[w].ref = NoRef
        BY <1>1, <1>5, <2>0 DEF Reserve, Phase
      <3>1. Phase([workers[w] EXCEPT !.pc = "compensate"], rows'[Job(w)])
        BY <1>1, <1>2, <3>0 DEF Phase, Tasks
      <3>2. QED
        BY <1>0, <2>0, <2>1, <3>1, MoveRuns DEF Steps
    <2>2. ASSUME NEW a \in Addrs,
                 workers' = [workers EXCEPT ![w] = [@ EXCEPT !.pc = "saveIp", !.ip = NextId(a)]]
          PROVE  RunInv'
      <3> DEFINE task == [workers[w] EXCEPT !.pc = "saveIp", !.ip = NextId(a)]
      <3>1. workers' = [workers EXCEPT ![w] = task]
        BY <2>2
      <3>2. /\ task.pc = "saveIp" /\ task.job = Job(w) /\ task.seen = workers[w].seen
            /\ task.ip # NoIp /\ task.ref = workers[w].ref
        BY <1>1, ModelAssumption DEF Tasks, Job, NextId, NoIp
      <3>a. workers'[w] = task /\ \A v \in Workers : v # w => workers'[v] = workers[v]
        BY <1>1, <3>1
      <3> HIDE DEF task
      <3>3. Phase(task, rows'[Job(w)])
        BY <1>1, <1>5, <2>0, <3>2 DEF Reserve, Phase
      <3>4. QED
        BY <1>0, <2>0, <3>1, <3>2, <3>3, <3>a, WorkerRuns
    <2>3. QED
      BY <1>5, <2>1, <2>2 DEF Reserve
  <1>6. CASE SaveIp(w)
    <2> DEFINE ip == workers[w].ip
               new == [NewRow EXCEPT !.status = "ip_reserved", !.ip = ip]
    <2>1. /\ workers[w].seen = NewRow /\ rows[Job(w)] = NewRow /\ ip # NoIp
          /\ workers[w].ref = NoRef /\ workers[w].pc = "saveIp"
      BY <1>1, <1>6 DEF SaveIp, Phase
    <2>2. new \in Rows /\ new.status = "ip_reserved" /\ new.ip = ip /\ new.ref = NoRef
      BY <1>1, <1>2 DEF Rows, Statuses, Pending, Tasks
    <2>3. Commit(Job(w), rows[Job(w)], new)
      BY <1>6, <2>1 DEF SaveIp
    <2> HIDE DEF new
    <2>4. rows'[Job(w)] = new /\ \A u \in Tickets : u # Job(w) => rows'[u] = rows[u]
      BY <1>1, <2>2, <2>3, CommitWhole
    <2>5. Phase([workers[w] EXCEPT !.pc = "vmObj"], rows'[Job(w)])
      BY <1>1, <2>1, <2>2, <2>4 DEF Phase, Tasks
    <2>6. QED
      BY <1>0, <1>6, <2>4, <2>5, MoveRuns DEF SaveIp, Steps, intakeVars
  <1>7. CASE CreateVmObj(w)
    <2>0. UNCHANGED <<rows, queue, handlers>>
      BY <1>7 DEF CreateVmObj, intakeVars
    <2>1. CASE Goto(w, "mark")
      <3>1. Phase([workers[w] EXCEPT !.pc = "mark"], rows'[Job(w)])
        BY <1>1, <1>7, <2>0 DEF CreateVmObj, Phase, Tasks
      <3>2. QED
        BY <1>0, <2>0, <2>1, <3>1, MoveRuns DEF Steps
    <2>2. CASE ~Goto(w, "mark")
      <3> DEFINE task == [workers[w] EXCEPT !.pc = "saveObj", !.obj = vmObjs[Job(w)].gen + 1]
      <3>1. workers' = [workers EXCEPT ![w] = task]
        BY <1>7, <2>2 DEF CreateVmObj
      <3>2. /\ task.pc = "saveObj" /\ task.job = Job(w) /\ task.seen = workers[w].seen
            /\ task.ip = workers[w].ip /\ task.ref = workers[w].ref
        BY <1>1 DEF Tasks, Job
      <3>a. workers'[w] = task /\ \A v \in Workers : v # w => workers'[v] = workers[v]
        BY <1>1, <3>1
      <3> HIDE DEF task
      <3>3. Phase(task, rows'[Job(w)])
        BY <1>1, <1>7, <2>0, <3>2 DEF CreateVmObj, Phase
      <3>4. QED
        BY <1>0, <2>0, <3>1, <3>2, <3>3, <3>a, WorkerRuns
    <2>3. QED
      BY <2>1, <2>2
  <1>8. CASE SaveObj(w)
    <2>1. /\ \A u \in Tickets : u # Job(w) => rows'[u] = rows[u]
          /\ rows'[Job(w)] = [rows[Job(w)] EXCEPT !.obj = workers[w].obj]
      BY <1>1, <1>8 DEF SaveObj, TypeOK, StoreTypeOK
    <2>2. /\ rows'[Job(w)].status = rows[Job(w)].status
          /\ rows'[Job(w)].ip = rows[Job(w)].ip /\ rows'[Job(w)].ref = rows[Job(w)].ref
      BY <1>1, <2>1 DEF Rows
    <2>3. Phase([workers[w] EXCEPT !.pc = "mark"], rows'[Job(w)])
      BY <1>1, <1>8, <2>2 DEF SaveObj, Phase, Tasks
    <2>4. QED
      BY <1>0, <1>8, <2>1, <2>3, MoveRuns DEF SaveObj, Steps, intakeVars
  <1>9. QED
    BY <1>3, <1>4, <1>5, <1>6, <1>7, <1>8

(* The middle part: the row is PROVISIONING and, from the search on, as    *)
(* the worker's session has it.                                            *)
LEMMA MiddleRuns ==
    ASSUME TypeOK, TypeOK', RunInv, NEW w \in Workers,
           Mark(w) \/ Provision(w) \/ SaveRef(w) \/ Finalize(w)
    PROVE  RunInv'
  <1> USE DEF At, Reserving, Reserved, Providing, Finishing, Undoing, Holding
  <1>0. workers[w].pc \in Running /\ Runs(w) /\ workers[w].pc # "idle"
    BY DEF Mark, Provision, Find, Create, Configure, Start, SaveRef, Finalize, Running, Runs
  <1>1. /\ workers \in [Workers -> Tasks] /\ Job(w) \in Tickets /\ rows[Job(w)] \in Rows
        /\ Phase(workers[w], rows[Job(w)])
    BY <1>0, PhasePending DEF TypeOK, OrchestratorTypeOK, StoreTypeOK
  (* What a step of the provisioner or of Finalize may leave behind. *)
  <1>2. ASSUME \A v \in Workers : v # w => workers'[v] = workers[v],
               UNCHANGED <<rows, queue, handlers>>,
               workers'[w].job = Job(w), Phase(workers'[w], rows[Job(w)])
        PROVE  RunInv'
    BY <1>0, <1>2, WorkerRuns
  <1>3. ASSUME NEW pc \in {"compensate", "start"}, Goto(w, pc), UNCHANGED <<rows, queue, handlers>>,
               workers[w].pc \in {"create", "configure", "start"},
               pc = "start" => workers[w].pc = "configure"
        PROVE  RunInv'
    <2>1. Phase([workers[w] EXCEPT !.pc = pc], rows'[Job(w)])
      BY <1>1, <1>3 DEF Phase, Tasks
    <2>2. QED
      BY <1>0, <1>3, <2>1, MoveRuns DEF Steps
  <1>4. ASSUME NEW s \in Slots, workers[w].pc \in {"create", "start"},
               UNCHANGED <<rows, queue, handlers>>,
               workers' = [workers EXCEPT ![w] = [@ EXCEPT !.pc = "saveRef", !.ref = s]]
        PROVE  RunInv'
    <2> DEFINE task == [workers[w] EXCEPT !.pc = "saveRef", !.ref = s]
    <2>1. workers' = [workers EXCEPT ![w] = task]
      BY <1>4
    <2>2. /\ task.pc = "saveRef" /\ task.job = Job(w) /\ task.seen = workers[w].seen
          /\ task.ip = workers[w].ip /\ task.ref = s /\ s # NoRef
      BY <1>1, ModelAssumption DEF Tasks, Job
    <2>a. workers'[w] = task /\ \A v \in Workers : v # w => workers'[v] = workers[v]
      BY <1>1, <2>1
    <2> HIDE DEF task
    <2>3. Phase(task, rows[Job(w)])
      BY <1>1, <1>4, <2>2 DEF Phase
    <2>4. QED
      BY <1>2, <1>4, <2>1, <2>2, <2>3, <2>a
  <1>5. CASE Mark(w)
    <2> DEFINE row == rows[Job(w)]
               new == [row EXCEPT !.status = "provisioning"]
    <2>1. workers[w].seen = NewRow /\ row.ip # NoIp /\ NewRow.ip = NoIp /\ workers[w].pc = "mark"
      BY <1>1, <1>5 DEF Mark, Phase, NewRow
    <2>2. Commit(Job(w), row, new) /\ Goto(w, "find")
      BY <1>5, <2>1 DEF Mark
    <2>3. /\ new \in Rows /\ new.status = "provisioning" /\ new.ip = row.ip /\ new.ref = row.ref
      BY <1>1 DEF Rows, Statuses, Pending
    <2> HIDE DEF new
    <2>4. rows'[Job(w)] = new /\ \A u \in Tickets : u # Job(w) => rows'[u] = rows[u]
      BY <1>1, <2>2, <2>3, CommitWhole
    <2>5. Phase([workers[w] EXCEPT !.pc = "find"], rows'[Job(w)])
      BY <1>1, <2>1, <2>3, <2>4 DEF Phase, Tasks
    <2>6. QED
      BY <1>0, <1>5, <2>2, <2>4, <2>5, MoveRuns DEF Mark, Steps, intakeVars
  <1>6. CASE Find(w)
    <2>1. PICK pc \in {"saveRef", "create", "compensate"}, ref \in Slots \cup {NoRef} :
             /\ workers' = [workers EXCEPT ![w] =
                              [@ EXCEPT !.pc = pc, !.seen = rows[Job(w)], !.ref = ref]]
             /\ pc = "saveRef" => ref \in Slots
             /\ pc # "saveRef" => ref = workers[w].ref
      BY <1>1, <1>6 DEF Find, Hits, Tasks
    <2> DEFINE task == [workers[w] EXCEPT !.pc = pc, !.seen = rows[Job(w)], !.ref = ref]
    <2>2. workers' = [workers EXCEPT ![w] = task] /\ UNCHANGED <<rows, queue, handlers>>
      BY <1>6, <2>1 DEF Find, intakeVars
    <2>3. /\ task.pc = pc /\ task.job = Job(w) /\ task.seen = rows[Job(w)]
          /\ task.ip = workers[w].ip /\ task.ref = ref
      BY <1>1 DEF Tasks, Job
    <2>a. workers'[w] = task /\ \A v \in Workers : v # w => workers'[v] = workers[v]
      BY <1>1, <2>2
    <2> HIDE DEF task
    <2>4. Phase(task, rows[Job(w)])
      BY <1>1, <1>6, <2>1, <2>3, ModelAssumption DEF Find, Phase
    <2>5. QED
      BY <1>2, <2>2, <2>3, <2>4, <2>a
  <1>7. CASE Create(w)
    <2>0. UNCHANGED <<rows, queue, handlers>> /\ workers[w].pc = "create"
      BY <1>7 DEF Create, intakeVars
    <2>1. ASSUME NEW s \in Slots,
                 workers' = [workers EXCEPT ![w] = [@ EXCEPT !.pc = "configure", !.slot = s]]
          PROVE  RunInv'
      <3> DEFINE task == [workers[w] EXCEPT !.pc = "configure", !.slot = s]
      <3>1. workers' = [workers EXCEPT ![w] = task]
        BY <2>1
      <3>2. /\ task.pc = "configure" /\ task.job = Job(w) /\ task.seen = workers[w].seen
            /\ task.ip = workers[w].ip /\ task.ref = workers[w].ref /\ task.slot # NoRef
        BY <1>1, ModelAssumption DEF Tasks, Job
      <3>a. workers'[w] = task /\ \A v \in Workers : v # w => workers'[v] = workers[v]
        BY <1>1, <3>1
      <3> HIDE DEF task
      <3>3. Phase(task, rows[Job(w)])
        BY <1>1, <2>0, <3>2 DEF Phase
      <3>4. QED
        BY <1>2, <2>0, <3>1, <3>2, <3>3, <3>a
    <2>2. QED
      BY <1>3, <1>4, <1>7, <2>0, <2>1 DEF Create
  <1>8. CASE Configure(w)
    BY <1>3, <1>8 DEF Configure, intakeVars
  <1>9. CASE Start(w)
    <2>1. UNCHANGED <<rows, queue, handlers>> /\ workers[w].pc = "start"
      BY <1>9 DEF Start, intakeVars
    <2>2. \/ Goto(w, "compensate")
          \/ workers[w].slot \in Slots /\ workers' = [workers EXCEPT ![w] =
                [@ EXCEPT !.pc = "saveRef", !.ref = workers[w].slot]]
      <3>1. workers[w].slot \in Slots
        BY <1>1, <2>1 DEF Tasks, Phase
      <3>2. QED
        BY <1>9, <3>1 DEF Start
    <2>3. QED
      BY <1>3, <1>4, <2>1, <2>2
  <1>10. CASE SaveRef(w)
    <2> DEFINE row == rows[Job(w)]
               new == [row EXCEPT !.ref = workers[w].ref]
    <2>1. workers[w].seen = row /\ workers[w].pc = "saveRef"
      BY <1>1, <1>10 DEF SaveRef, Phase
    <2>2. Commit(Job(w), row, new) /\ Goto(w, "finalize")
      BY <1>10, <2>1 DEF SaveRef
    <2>3. new \in Rows /\ new.status = row.status /\ new.ip = row.ip /\ new.ref = workers[w].ref
      BY <1>1 DEF Rows, Tasks
    <2> HIDE DEF new
    <2>4. rows'[Job(w)] = new /\ \A u \in Tickets : u # Job(w) => rows'[u] = rows[u]
      BY <1>1, <2>2, <2>3, CommitWhole
    <2>5. Phase([workers[w] EXCEPT !.pc = "finalize"], rows'[Job(w)])
      BY <1>1, <2>1, <2>3, <2>4 DEF Phase, Tasks
    <2>6. QED
      BY <1>0, <1>10, <2>2, <2>4, <2>5, MoveRuns DEF SaveRef, Steps, intakeVars
  <1>11. CASE Finalize(w)
    <2>1. PICK pc \in {"complete", "compensate"} :
             workers' = [workers EXCEPT ![w] = [@ EXCEPT !.pc = pc, !.seen = rows[Job(w)]]]
      BY <1>11 DEF Finalize
    <2> DEFINE task == [workers[w] EXCEPT !.pc = pc, !.seen = rows[Job(w)]]
    <2>2. workers' = [workers EXCEPT ![w] = task] /\ UNCHANGED <<rows, queue, handlers>>
      BY <1>11, <2>1 DEF Finalize, intakeVars
    <2>3. /\ task.pc = pc /\ task.job = Job(w) /\ task.seen = rows[Job(w)]
          /\ task.ip = workers[w].ip /\ task.ref = workers[w].ref
      BY <1>1 DEF Tasks, Job
    <2>a. workers'[w] = task /\ \A v \in Workers : v # w => workers'[v] = workers[v]
      BY <1>1, <2>2
    <2> HIDE DEF task
    <2>4. Phase(task, rows[Job(w)])
      BY <1>1, <1>11, <2>3 DEF Finalize, Phase
    <2>5. QED
      BY <1>2, <2>2, <2>3, <2>4, <2>a
  <1>12. QED
    BY <1>5, <1>6, <1>7, <1>8, <1>9, <1>10, <1>11 DEF Provision

(* The end of the saga: the bearer is gone with the commit of its outcome, *)
(* and what the worker still does concerns neither row nor queue.          *)
LEMMA EpilogueRuns ==
    ASSUME TypeOK, TypeOK', RunInv, RunsOnce, NEW w \in Workers,
           \/ Complete(w) \/ NotifyOk(w) \/ Rollback(w) \/ Ack(w) \/ Crash(w) \/ TimeLimit(w)
    PROVE  RunInv'
  <1> USE DEF At, Reserving, Reserved, Providing, Finishing, Undoing, Holding
  <1>0. workers[w].pc # "idle" /\ workers \in [Workers -> Tasks] /\ Job(w) \in Tickets
    BY BusyType DEF Complete, NotifyOk, Rollback, Compensate, Destroy, MarkFailed, NotifyFailed,
           Raise, Ack, Crash, TimeLimit, TypeOK, OrchestratorTypeOK
  (* A step after which the worker runs no job. *)
  <1>1. ASSUME \A v \in Workers : v # w => workers'[v] = workers[v],
               workers'[w].pc \in {"idle", "notifyOk", "notifyFailed", "raise", "ack"},
               UNCHANGED <<handlers, queue>>,
               \A t \in Tickets : t # Job(w) => rows'[t] = rows[t], Runs(w) \/ rows' = rows
        PROVE  RunInv'
    BY <1>1, WorkerRuns DEF Running
  <1>2. CASE Compensate(w) \/ Destroy(w)
    <2>1. PICK pc \in {"destroy", "markFailed"} :
             Goto(w, pc) /\ (pc = "destroy" => workers[w].ref # NoRef)
      BY <1>2 DEF Compensate, Destroy
    <2>2. /\ Runs(w) /\ Phase(workers[w], rows[Job(w)]) /\ UNCHANGED <<rows, queue, handlers>>
          /\ workers[w].pc \in {"compensate", "destroy"}
      BY <1>2, PhasePending DEF Compensate, Destroy, Runs, intakeVars
    <2>3. Phase([workers[w] EXCEPT !.pc = pc], rows'[Job(w)])
      BY <1>0, <2>1, <2>2 DEF Phase, Tasks
    <2>4. QED
      BY <1>0, <2>1, <2>2, <2>3, MoveRuns DEF Steps
  <1>3. CASE Complete(w)
    <2>1. Runs(w) /\ \A t \in Tickets : t # Job(w) => rows'[t] = rows[t]
      BY <1>0, <1>3 DEF Complete, Runs, Commit, TypeOK, StoreTypeOK
    <2>2. QED
      BY <1>0, <1>1, <1>3, <2>1 DEF Complete, Goto, Tasks, intakeVars
  <1>4. CASE MarkFailed(w)
    <2>1. Runs(w) /\ \A t \in Tickets : t # Job(w) => rows'[t] = rows[t]
      BY <1>0, <1>4 DEF MarkFailed, Runs, Commit, TypeOK, StoreTypeOK
    <2>2. QED
      BY <1>0, <1>1, <1>4, <2>1 DEF MarkFailed, Goto, Tasks, intakeVars
  <1>5. CASE NotifyOk(w) \/ NotifyFailed(w)
    BY <1>0, <1>1, <1>5 DEF NotifyOk, NotifyFailed, Goto, Tasks, intakeVars
  <1>6. CASE Raise(w)
    <2>1. UNCHANGED <<rows, queue, handlers>>
      BY <1>6 DEF Raise, RunsOnce, intakeVars
    <2>2. QED
      BY <1>0, <1>1, <1>6, <2>1 DEF Raise, Goto, Tasks
  <1>7. CASE Ack(w) \/ TimeLimit(w)
    BY <1>0, <1>1, <1>7 DEF Ack, TimeLimit, NoTask, intakeVars
  <1>8. CASE Crash(w)
    BY <1>8 DEF Crash, RunsOnce
  <1>9. QED
    BY <1>2, <1>3, <1>4, <1>5, <1>6, <1>7, <1>8 DEF Rollback

LEMMA StepKeepsRuns ==
    ASSUME RunsOnce
    PROVE  TypeOK /\ TypeOK' /\ RunInv /\ [Next]_vars => RunInv'
  <1> SUFFICES ASSUME TypeOK, TypeOK', RunInv, [Next]_vars PROVE RunInv'
    OBVIOUS
  <1>1. ASSUME NEW h \in Handlers, UNCHANGED backendVars,
               \/ \E t \in Tickets : Receive(h, t)
               \/ InsertJob(h) \/ ResetJob(h) \/ Enqueue(h) \/ Abandon(h)
        PROVE  RunInv'
    BY <1>1, RequestRuns DEF backendVars, orchestratorVars
  <1>2. ASSUME NEW w \in Workers, WorkerStep(w) \/ Crash(w) \/ TimeLimit(w) PROVE RunInv'
    BY <1>2, TakeRuns, PrologueRuns, MiddleRuns, EpilogueRuns DEF WorkerStep
  <1>3. CASE UNCHANGED vars \/ HypervisorStep
    BY <1>3 DEF vars, HypervisorStep, orchestratorVars, intakeVars, RunInv, RequestInv, QueueInv, OneRunPerJob,
                PhaseInv, Waits, Unserved, Serves, Runs, Job
  <1>4. QED
    BY <1>1, <1>2, <1>3 DEF Next, Step

(* A job's saga never runs in two workers at once, although nothing locks  *)
(* the row: the status the endpoint reads keeps a second approval out for  *)
(* as long as a request, a message or a worker bears the job.  Lost        *)
(* answers, kills by the time limit, requests that die before they enqueue *)
(* and every failure of IPAM, hypervisor and OTOBO are allowed.            *)
LEMMA RunInvariant == ASSUME RunsOnce PROVE Spec => [](TypeOK /\ RunInv)
  <1>1. Init => TypeOK /\ RunInv
    BY InitType, InitRuns
  <1>2. TypeOK /\ RunInv /\ [Next]_vars => TypeOK' /\ RunInv'
    BY StepKeepsTypes, StepKeepsRuns
  <1>3. QED
    BY <1>1, <1>2, PTL DEF Spec

THEOREM NoSecondRun == ASSUME RunsOnce PROVE Spec => []OneRunPerJob
  <1>1. RunInv => OneRunPerJob
    BY DEF RunInv
  <1>2. QED
    BY <1>1, RunInvariant, PTL

-----------------------------------------------------------------------------
(* The address of a running and of a completed job                         *)

(* What a step of a worker leaves alone.                                   *)
LEMMA WorkerTouches ==
    ASSUME TypeOK, NEW w \in Workers, WorkerStep(w) \/ Crash(w) \/ TimeLimit(w)
    PROVE  /\ \A v \in Workers : v # w => workers'[v] = workers[v]
           /\ UNCHANGED intakeVars
           /\ \A t \in Tickets : t # Job(w) => rows'[t] = rows[t]
           /\ ~Runs(w) => UNCHANGED <<rows, leases, vms>>
           /\ ~At(w, "reserve") /\ ~At(w, "compensate") /\ ~At(w, "finalize") => UNCHANGED leases
           /\ ~At(w, "create") /\ ~At(w, "configure") /\ ~At(w, "start") /\ ~At(w, "destroy") =>
                 UNCHANGED vms
  <1> USE DEF At, Goto, Commit, TypeOK, OrchestratorTypeOK, StoreTypeOK
  <1>1. CASE \E m \in Messages : Take(w, m)
    BY <1>1 DEF Take, Runs
  <1>2. CASE Load(w) \/ NotifyStarted(w) \/ NotifyOk(w) \/ Find(w)
    BY <1>2 DEF Load, NotifyStarted, NotifyOk, Find, Runs
  <1>3. CASE Reserve(w) \/ CreateVmObj(w) \/ Finalize(w) \/ Compensate(w)
    BY <1>3 DEF Reserve, CreateVmObj, Finalize, Compensate, Runs
  <1>4. CASE SaveIp(w) \/ SaveObj(w) \/ Mark(w) \/ SaveRef(w) \/ Complete(w) \/ MarkFailed(w)
    BY <1>4 DEF SaveIp, SaveObj, Mark, SaveRef, Complete, MarkFailed, Runs
  <1>5. CASE Create(w) \/ Configure(w) \/ Start(w) \/ Destroy(w)
    BY <1>5 DEF Create, Configure, Start, Destroy, Runs
  <1>6. CASE NotifyFailed(w) \/ Raise(w) \/ Ack(w) \/ Crash(w) \/ TimeLimit(w)
    BY <1>6 DEF NotifyFailed, Raise, Ack, Crash, TimeLimit, Runs
  <1>7. QED
    BY <1>1, <1>2, <1>3, <1>4, <1>5, <1>6 DEF WorkerStep, Provision, Rollback

(* How a running worker comes by what it holds: a reservation gives it the *)
(* address, a finalization makes it active, the rest carries it along.     *)
LEMMA HoldingSteps ==
    ASSUME TypeOK, RunInv, NEW w \in Workers, WorkerStep(w) \/ Crash(w) \/ TimeLimit(w),
           workers'[w].pc \in Holding
    PROVE  /\ workers'[w].job = Job(w) /\ Runs(w)
           /\ ~At(w, "reserve") => workers[w].pc \in Holding /\ workers'[w].ip = workers[w].ip
           /\ At(w, "reserve") => /\ workers'[w].pc = "saveIp"
                                  /\ \E a \in Addrs : /\ ReserveIp(Job(w), a)
                                                      /\ workers'[w].ip = NextId(a)
           /\ workers'[w].pc = "complete" <=> At(w, "finalize")
  <1> USE DEF At
  <1>0. workers \in [Workers -> Tasks] /\ \A pc : Goto(w, pc) =>
           workers'[w].pc = pc /\ workers'[w].job = Job(w) /\ workers'[w].ip = workers[w].ip
    BY DEF TypeOK, OrchestratorTypeOK, Goto, Job, Tasks
  <1>a. /\ workers'[w].pc \in {"saveIp", "vmObj", "saveObj", "mark", "find", "create", "configure",
                               "start", "saveRef", "finalize", "complete"}
    BY DEF Holding, Reserved, Providing, Finishing
  <1>1. ASSUME NEW m \in Messages, Take(w, m) PROVE FALSE
    <2>1. workers'[w].pc = "load"
      BY <1>0, <1>1 DEF Take, NoTask
    <2>2. QED
      BY <1>a, <2>1
  <1>2. ~Ack(w) /\ ~Crash(w) /\ ~TimeLimit(w)
    <2>1. Ack(w) \/ Crash(w) \/ TimeLimit(w) => workers'[w].pc = "idle"
      BY <1>0 DEF Ack, Crash, TimeLimit, NoTask
    <2>2. QED
      BY <1>a, <2>1
  <1>3. ~Rollback(w) /\ ~NotifyOk(w) /\ ~Complete(w)
    <2>1. Rollback(w) \/ NotifyOk(w) \/ Complete(w) =>
             \E pc \in {"destroy", "markFailed", "notifyFailed", "raise", "ack", "notifyOk"} : Goto(w, pc)
      BY DEF Rollback, Compensate, Destroy, MarkFailed, NotifyFailed, Raise, NotifyOk, Complete
    <2>2. QED
      BY <1>0, <1>a, <2>1
  <1>4. ~Load(w) /\ ~NotifyStarted(w)
    <2>1. ASSUME Load(w) PROVE workers'[w].pc \in {"started", "ack"}
      <3>1. \/ Goto(w, "ack")
            \/ workers' = [workers EXCEPT ![w] = [@ EXCEPT !.pc = "started", !.seen = rows[Job(w)],
                  !.ip = rows[Job(w)].ip, !.obj = rows[Job(w)].obj, !.ref = rows[Job(w)].ref]]
        BY <2>1 DEF Load
      <3>2. ASSUME NEW row, workers' = [workers EXCEPT ![w] = [@ EXCEPT !.pc = "started",
                      !.seen = row, !.ip = row.ip, !.obj = row.obj, !.ref = row.ref]]
            PROVE  workers'[w].pc = "started"
        BY <1>0, <3>2 DEF Tasks
      <3>3. QED
        BY <1>0, <3>1, <3>2
    <2>2. NotifyStarted(w) => Goto(w, "reserve")
      <3>1. NotifyStarted(w) => workers[w].seen.ip = NoIp
        BY PhasePending DEF NotifyStarted, Runs, Phase, NewRow
      <3>2. QED
        BY <3>1 DEF NotifyStarted
    <2>3. QED
      BY <1>0, <1>a, <2>1, <2>2
  <1>5. CASE Reserve(w)
    <2>1. ~Goto(w, "compensate")
      BY <1>0, <1>a
    <2>2. PICK a \in Addrs :
             /\ ReserveIp(Job(w), a)
             /\ workers' = [workers EXCEPT ![w] = [@ EXCEPT !.pc = "saveIp", !.ip = NextId(a)]]
      BY <1>5, <2>1 DEF Reserve
    <2>3. /\ workers'[w].pc = "saveIp" /\ workers'[w].job = Job(w) /\ workers'[w].ip = NextId(a)
      BY <1>0, <2>2 DEF Tasks, Job
    <2>4. QED
      BY <1>5, <2>2, <2>3 DEF Reserve, Runs
  (* The other steps, by where they start and what they keep. *)
  <1>6. ASSUME workers[w].pc \in Holding, workers'[w].job = Job(w), workers'[w].ip = workers[w].ip,
               workers'[w].pc = "complete" <=> At(w, "finalize")
        PROVE  /\ workers'[w].job = Job(w) /\ Runs(w) /\ ~At(w, "reserve")
               /\ workers[w].pc \in Holding /\ workers'[w].ip = workers[w].ip
               /\ workers'[w].pc = "complete" <=> At(w, "finalize")
    BY <1>6 DEF Runs, Holding, Reserved, Providing, Finishing
  <1>7. CASE SaveIp(w) \/ SaveObj(w) \/ Mark(w) \/ SaveRef(w)
    <2>1. /\ workers[w].pc \in {"saveIp", "saveObj", "mark", "saveRef"}
          /\ (\E pc \in {"vmObj", "mark", "find", "finalize"} : Goto(w, pc))
             \/ workers'[w].pc = "compensate"
      BY <1>0, <1>7 DEF SaveIp, SaveObj, Mark, SaveRef, Tasks
    <2>2. QED
      BY <1>0, <1>6, <1>a, <2>1 DEF Holding, Reserved, Providing, Finishing
  <1>8. CASE CreateVmObj(w)
    <2>1. ASSUME NEW obj,
                 workers' = [workers EXCEPT ![w] = [@ EXCEPT !.pc = "saveObj", !.obj = obj]]
          PROVE  /\ workers'[w].job = Job(w) /\ workers'[w].ip = workers[w].ip
                 /\ workers'[w].pc = "saveObj"
      BY <1>0, <2>1 DEF Tasks, Job
    <2>2. /\ workers[w].pc = "vmObj"
          /\ workers'[w].job = Job(w) /\ workers'[w].ip = workers[w].ip
          /\ workers'[w].pc \in {"saveObj", "mark"}
      BY <1>0, <1>8, <2>1 DEF CreateVmObj
    <2>3. QED
      BY <1>6, <2>2 DEF Holding, Reserved, Providing, Finishing
  <1>f. CASE Find(w)
    <2>0. PICK pc \in {"saveRef", "create", "compensate"} :
             \E ref : workers' = [workers EXCEPT ![w] =
                                   [@ EXCEPT !.pc = pc, !.seen = rows[Job(w)], !.ref = ref]]
      BY <1>f DEF Find
    <2>1. PICK ref : workers' = [workers EXCEPT ![w] =
                                   [@ EXCEPT !.pc = pc, !.seen = rows[Job(w)], !.ref = ref]]
      BY <2>0
    <2>2. /\ workers[w].pc = "find"
          /\ workers'[w].job = Job(w) /\ workers'[w].ip = workers[w].ip
          /\ workers'[w].pc = pc
      BY <1>0, <1>f, <2>1, ZenonT(30) DEF Find, Tasks, Job
    <2>3. QED
      BY <1>6, <2>2 DEF Holding, Reserved, Providing, Finishing
  <1>9. CASE Create(w) \/ Configure(w) \/ Start(w)
    <2>0. \/ \E s : workers' = [workers EXCEPT ![w] = [@ EXCEPT !.pc = "configure", !.slot = s]]
          \/ \E s : workers' = [workers EXCEPT ![w] = [@ EXCEPT !.pc = "saveRef", !.ref = s]]
          \/ \E pc \in {"start", "compensate"} : Goto(w, pc)
      BY <1>9 DEF Create, Configure, Start
    <2>b. ASSUME NEW s, workers' = [workers EXCEPT ![w] = [@ EXCEPT !.pc = "configure", !.slot = s]]
          PROVE  /\ workers'[w].job = Job(w) /\ workers'[w].ip = workers[w].ip
                 /\ workers'[w].pc = "configure"
      BY <1>0, <2>b DEF Tasks, Job
    <2>c. ASSUME NEW s, workers' = [workers EXCEPT ![w] = [@ EXCEPT !.pc = "saveRef", !.ref = s]]
          PROVE  /\ workers'[w].job = Job(w) /\ workers'[w].ip = workers[w].ip
                 /\ workers'[w].pc = "saveRef"
      BY <1>0, <2>c DEF Tasks, Job
    <2>a. workers[w].pc \in {"create", "configure", "start"}
      BY <1>9 DEF Create, Configure, Start
    <2>1. /\ workers'[w].job = Job(w) /\ workers'[w].ip = workers[w].ip
          /\ workers'[w].pc # "complete"
      BY <1>0, <2>0, <2>b, <2>c
    <2>2. QED
      BY <1>6, <2>1, <2>a DEF Holding, Reserved, Providing, Finishing
  <1>10. CASE Finalize(w)
    <2>0. /\ workers[w].pc = "finalize"
          /\ \E pc \in {"complete", "compensate"} : workers' = [workers EXCEPT ![w] =
                [@ EXCEPT !.pc = pc, !.seen = rows[Job(w)]]]
      BY <1>10 DEF Finalize
    <2>1. /\ workers'[w].job = Job(w) /\ workers'[w].ip = workers[w].ip
          /\ workers'[w].pc \in {"complete", "compensate"}
      BY <1>0, <2>0 DEF Tasks, Job
    <2>2. QED
      BY <1>6, <1>a, <2>0, <2>1 DEF Holding, Reserved, Providing, Finishing
  <1>11. QED
    BY <1>1, <1>2, <1>3, <1>4, <1>5, <1>7, <1>8, <1>9, <1>10, <1>f DEF WorkerStep, Provision

(* A worker at a step takes that step, or is killed.                       *)
LEMMA FinalizeOnly ==
    ASSUME TypeOK, NEW w \in Workers, WorkerStep(w) \/ Crash(w) \/ TimeLimit(w),
           At(w, "finalize"), workers'[w].pc = "complete"
    PROVE  Finalize(w)
  <1>1. ~Crash(w) /\ ~TimeLimit(w)
    BY DEF Crash, TimeLimit, NoTask, TypeOK, OrchestratorTypeOK
  <1>2. QED
    BY <1>1 DEF At, WorkerStep, Take, Load, NotifyStarted, Reserve, SaveIp, CreateVmObj, SaveObj,
                Mark, Provision, Find, Create, Configure, Start, SaveRef, Complete, NotifyOk,
                Rollback, Compensate, Destroy, MarkFailed, NotifyFailed, Raise, Ack

(* A finalization that succeeds makes an address that is held active.      *)
LEMMA FinalizeActivates ==
    ASSUME TypeOK, NEW t \in Tickets, NEW id \in IpIds \cup {NoIp}, Holds(t, id),
           leases' = Activated(id)
    PROVE  Holds(t, id)' /\ leases'[id.addr].state = "active"
  BY DEF TypeOK, IpamTypeOK, Leases, IpIds, Holds, Live, Activated

(* An address held for another ticket is not touched.                      *)
LEMMA OthersHold ==
    ASSUME TypeOK, LeasesOwned, NEW w \in Workers, WorkerStep(w) \/ Crash(w) \/ TimeLimit(w),
           NEW t \in Tickets, t # Job(w), NEW id \in IpIds \cup {NoIp}, Holds(t, id)
    PROVE  Holds(t, id)' /\ leases'[id.addr] = leases[id.addr]
  <1>1. id \in IpIds /\ id.addr \in Addrs /\ leases[id.addr].state # "free"
    BY DEF Holds, Live, IpIds
  <1>2. leases'[id.addr] = leases[id.addr]
    BY <1>1, CallsOnOwn DEF Holds
  <1>3. QED
    BY <1>1, <1>2 DEF Holds, Live

(* What moves a job on.                                                    *)
LEMMA StatusSteps ==
    ASSUME TypeOK, NEW w \in Workers, WorkerStep(w) \/ Crash(w) \/ TimeLimit(w),
           NEW t \in Tickets, rows'[t].status # rows[t].status
    PROVE  /\ t = Job(w)
           /\ \/ SaveIp(w) /\ rows'[t].status = "ip_reserved"
              \/ Mark(w) /\ rows'[t].status = "provisioning"
              \/ Complete(w) /\ rows'[t].status = "completed"
              \/ MarkFailed(w) /\ rows'[t].status = "failed"
  <1>0. t = Job(w) /\ rows[t] \in Rows /\ Runs(w) /\ workers[w].seen \in Rows
    <2>1. t = Job(w) /\ Runs(w)
      BY WorkerTouches
    <2>2. QED
      BY <2>1, BusyType DEF Runs
  <1>1. ASSUME NEW seen \in Rows, NEW new \in Rows, Commit(t, seen, new)
        PROVE  new.status # seen.status /\ rows'[t].status = new.status
    BY <1>1 DEF TypeOK, StoreTypeOK, Commit, Flush
  <1>2. CASE SaveIp(w)
    <2> DEFINE new == [workers[w].seen EXCEPT !.status = "ip_reserved", !.ip = workers[w].ip]
    <2>1. new \in Rows /\ new.status = "ip_reserved"
      BY <1>0, <1>2, BusyType DEF SaveIp, At, Rows, Statuses, Pending
    <2>2. QED
      BY <1>0, <1>1, <1>2, <2>1 DEF SaveIp
  <1>3. CASE Mark(w)
    <2> DEFINE row == IF workers[w].seen.ip = NoIp THEN rows[t] ELSE workers[w].seen
               new == [row EXCEPT !.status = "provisioning"]
    <2>0. row \in Rows
      BY <1>0
    <2>1. Commit(t, row, new)
      BY <1>0, <1>3 DEF Mark
    <2> HIDE DEF row
    <2>2. new \in Rows /\ new.status = "provisioning"
      BY <2>0 DEF Rows, Statuses, Pending
    <2> HIDE DEF new
    <2>3. QED
      BY <1>0, <1>1, <1>3, <2>0, <2>1, <2>2
  <1>4. CASE SaveRef(w)
    <2> DEFINE new == [workers[w].seen EXCEPT !.ref = workers[w].ref]
    <2>1. new \in Rows /\ new.status = workers[w].seen.status
      BY <1>0, <1>4, BusyType DEF SaveRef, At, Rows
    <2>2. QED
      BY <1>0, <1>1, <1>4, <2>1 DEF SaveRef
  <1>5. CASE Complete(w)
    <2> DEFINE new == [workers[w].seen EXCEPT !.status = "completed"]
    <2>1. new \in Rows /\ new.status = "completed"
      BY <1>0 DEF Rows, Statuses
    <2>2. QED
      BY <1>0, <1>1, <1>5, <2>1 DEF Complete
  <1>6. CASE MarkFailed(w)
    <2> DEFINE new == [workers[w].seen EXCEPT !.status = "failed", !.ip = NoIp, !.obj = 0]
    <2>1. new \in Rows /\ new.status = "failed"
      BY <1>0 DEF Rows, Statuses
    <2>2. QED
      BY <1>0, <1>1, <1>6, <2>1 DEF MarkFailed
  <1>7. ~SaveObj(w)
    BY <1>0 DEF SaveObj, TypeOK, StoreTypeOK, Rows
  <1>8. CASE UNCHANGED rows
    BY <1>8
  <1>9. QED
    BY <1>0, <1>2, <1>3, <1>4, <1>5, <1>6, <1>7, <1>8
       DEF WorkerStep, Take, Load, NotifyStarted, Reserve, CreateVmObj, Provision, Find, Create,
           Configure, Start, Finalize, NotifyOk, Rollback, Compensate, Destroy, NotifyFailed,
           Raise, Ack, Crash, TimeLimit

LEMMA WorkerHolds ==
    ASSUME TypeOK, TypeOK', LeasesOwned, RunInv, RunInv', LeaseInv,
           NEW w \in Workers, WorkerStep(w) \/ Crash(w) \/ TimeLimit(w)
    PROVE  LeaseInv'
  <1> DEFINE Active(id) == leases[id.addr].state = "active"
  <1>0. /\ \A v \in Workers : v # w => workers'[v] = workers[v]
        /\ \A t \in Tickets : t # Job(w) => rows'[t] = rows[t]
        /\ ~Runs(w) => UNCHANGED <<rows, leases>>
    BY WorkerTouches
  <1>1. \A v \in Workers : workers[v].pc \in Holding => Runs(v)
    BY DEF Holding, Reserved, Providing, Finishing, Runs
  <1>2. /\ \A v \in Workers : workers[v].ip \in IpIds \cup {NoIp}
        /\ \A t \in Tickets : rows[t].ip \in IpIds \cup {NoIp}
    BY DEF TypeOK, OrchestratorTypeOK, Tasks, StoreTypeOK, Rows
  (* The other workers and the other jobs. *)
  <1>3. ASSUME NEW v \in Workers, v # w, workers[v].pc \in Holding
        PROVE  /\ Holds(Job(v), workers[v].ip)'
               /\ leases'[workers[v].ip.addr] = leases[workers[v].ip.addr]
    <2>1. Runs(v) /\ Job(v) \in Tickets /\ Holds(Job(v), workers[v].ip) /\ workers'[v] = workers[v]
      BY <1>0, <1>1, <1>3, PhasePending DEF LeaseInv
    <2>2. CASE ~Runs(w)
      BY <1>0, <2>1, <2>2 DEF Holds, Live, Job
    <2>3. CASE Runs(w)
      <3>1. PICK t \in Tickets, id \in IpIds \cup {NoIp} : t = Job(v) /\ id = workers[v].ip
        BY <1>2, <2>1
      <3>2. t # Job(w)
        BY <1>3, <2>1, <2>3, <3>1 DEF RunInv, OneRunPerJob
      <3>3. Holds(t, id)' /\ leases'[id.addr] = leases[id.addr]
        BY <2>1, <3>1, <3>2, OthersHold
      <3>4. QED
        BY <2>1, <3>1, <3>3 DEF Job, Holds, Live
    <2>4. QED
      BY <2>2, <2>3
  <1>4. ASSUME NEW t \in Tickets, rows[t].status = "completed"
        PROVE  /\ rows'[t] = rows[t] /\ Holds(t, rows[t].ip)'
               /\ leases'[rows[t].ip.addr].state = "active"
    <2>1. Holds(t, rows[t].ip) /\ leases[rows[t].ip.addr].state = "active"
      BY <1>4 DEF LeaseInv
    <2>2. CASE ~Runs(w)
      BY <1>0, <2>1, <2>2 DEF Holds, Live
    <2>3. CASE Runs(w)
      <3>1. t # Job(w)
        BY <1>4, <2>3, PhasePending DEF Pending
      <3>2. PICK id \in IpIds \cup {NoIp} : id = rows[t].ip
        BY <1>2
      <3>3. Holds(t, id)' /\ leases'[id.addr] = leases[id.addr]
        BY <2>1, <3>1, <3>2, OthersHold
      <3>4. QED
        BY <1>0, <2>1, <3>1, <3>2, <3>3 DEF Holds, Live
    <2>4. QED
      BY <2>2, <2>3
  (* The worker itself. *)
  <1>5. ASSUME workers'[w].pc \in Holding
        PROVE  /\ Holds(Job(w), workers[w].ip)'
               /\ workers'[w].pc = "complete" => leases'[workers'[w].ip.addr].state = "active"
    <2>0. /\ Runs(w) /\ Job(w) \in Tickets /\ workers'[w].job = Job(w)
          /\ Phase(workers[w], rows[Job(w)])
      BY <1>5, HoldingSteps, PhasePending
    <2>1. CASE At(w, "reserve")
      <3>1. PICK a, id : /\ a \in Addrs /\ ReserveIp(Job(w), a) /\ id = NextId(a)
                         /\ workers'[w].ip = id /\ workers'[w].pc = "saveIp"
        BY <1>5, <2>1, HoldingSteps
      <3>2. leases \in [Addrs -> Leases] /\ leases[a].gen \in Nat
        BY <3>1 DEF TypeOK, IpamTypeOK, Leases
      <3>3. /\ id # NoIp /\ id.addr = a /\ leases'[a].gen = id.gen
            /\ leases'[a].state # "free" /\ leases'[a].ticket = Job(w)
        BY <3>1, <3>2, ModelAssumption DEF ReserveIp, NextId, NoIp
      <3>4. QED
        BY <2>0, <3>1, <3>3 DEF Holds, Live, Job
    <2>2. CASE ~At(w, "reserve")
      <3>1. PICK t \in Tickets, id \in IpIds \cup {NoIp} :
               t = Job(w) /\ id = workers[w].ip /\ workers'[w].ip = id
        BY <1>2, <1>5, <2>0, <2>2, HoldingSteps
      <3>2. workers[w].pc \in Holding /\ Holds(t, id)
        BY <1>5, <2>2, <3>1, HoldingSteps DEF LeaseInv
      <3>3. CASE workers'[w].pc = "complete"
        <4>1. At(w, "finalize") /\ Finalize(w) /\ rows[t].ip = id /\ id # NoIp
          BY <1>5, <2>0, <3>1, <3>2, <3>3, HoldingSteps, FinalizeOnly
             DEF Phase, At, Holding, Reserved, Providing, Finishing
        <4>2. leases' = Activated(id)
          <5>1. workers'[w].pc = "compensate" \/ FinalizeOk(t, id, rows[t].obj)
            BY <3>1, <4>1 DEF Finalize, TypeOK, OrchestratorTypeOK, Tasks
          <5>2. QED
            BY <3>3, <5>1 DEF FinalizeOk
        <4>3. Holds(t, id)' /\ leases'[id.addr].state = "active"
          BY <3>2, <4>2, FinalizeActivates
        <4>4. QED
          BY <2>0, <3>1, <4>3 DEF Holds, Live, Job
      <3>4. CASE workers'[w].pc # "complete"
        <4>1. leases' = leases
          BY <1>5, <2>2, <3>2, <3>4, HoldingSteps, WorkerTouches
             DEF At, Holding, Reserved, Providing, Finishing
        <4>2. QED
          BY <2>0, <3>1, <3>2, <3>4, <4>1 DEF Holds, Live, Job
      <3>5. QED
        BY <3>3, <3>4
    <2>3. QED
      BY <2>1, <2>2
  <1>6. ASSUME NEW t \in Tickets, rows'[t].status = "completed", rows[t].status # "completed"
        PROVE  Holds(t, rows[t].ip)' /\ leases'[rows'[t].ip.addr].state = "active"
    <2>1. t = Job(w) /\ Complete(w) /\ Runs(w)
      BY <1>0, <1>6, StatusSteps DEF Complete, At, Runs
    <2>2. Phase(workers[w], rows[t]) /\ Holds(t, workers[w].ip)
          /\ leases[workers[w].ip.addr].state = "active" /\ leases' = leases
      BY <2>1, PhasePending, WorkerTouches
         DEF Complete, At, LeaseInv, Holding, Finishing, Job
    <2>3. rows'[t].ip = rows[t].ip /\ rows[t].ip = workers[w].ip
      <3>1. workers[w].seen = rows[t] /\ rows[t].ip = workers[w].ip
        BY <2>1, <2>2 DEF Complete, At, Phase, Holding, Finishing
      <3>2. QED
        BY <2>1, <3>1 DEF Complete, Commit, Flush, TypeOK, StoreTypeOK, Rows
    <2>4. QED
      BY <2>2, <2>3 DEF Holds, Live
  <1>7. QED
    BY <1>0, <1>3, <1>4, <1>5, <1>6 DEF LeaseInv, At, Holding, Finishing

(* A request writes only the row of a job that is not under way, whole.    *)
LEMMA RequestTouches ==
    ASSUME TypeOK, RunInv, NEW h \in Handlers,
           \/ \E t \in Tickets : Receive(h, t)
           \/ InsertJob(h) \/ ResetJob(h) \/ Enqueue(h) \/ Abandon(h),
           NEW t \in Tickets, rows'[t] # rows[t]
    PROVE  /\ rows'[t] = NewRow /\ rows[t].status \in {"absent", "failed"}
           /\ t = handlers[h].job /\ UNCHANGED queue
           /\ handlers' = [handlers EXCEPT ![h].pc = "enqueue"]
           /\ \A u \in Tickets : u # t => rows'[u] = rows[u]
  <1>1. CASE InsertJob(h)
    BY <1>1 DEF InsertJob, TypeOK, StoreTypeOK
  <1>2. CASE ResetJob(h)
    <2>1. /\ handlers[h].job \in Tickets /\ handlers[h].seen = rows[handlers[h].job]
          /\ rows[handlers[h].job].status = "failed"
      BY <1>2 DEF ResetJob, RunInv, RequestInv, TypeOK, IntakeTypeOK
    <2>2. t = handlers[h].job
      BY <1>2, <2>1 DEF ResetJob, Commit, TypeOK, StoreTypeOK
    <2>3. rows'[t] = NewRow /\ \A u \in Tickets : u # t => rows'[u] = rows[u]
      BY <1>2, <2>1, <2>2, CommitWhole, RowConstants DEF ResetJob
    <2>4. QED
      BY <1>2, <2>1, <2>2, <2>3 DEF ResetJob
  <1>3. QED
    BY <1>1, <1>2 DEF Receive, Enqueue, Abandon

LEMMA RequestHolds ==
    ASSUME TypeOK, RunInv, LeaseInv, UNCHANGED backendVars, NEW h \in Handlers,
           \/ \E t \in Tickets : Receive(h, t)
           \/ InsertJob(h) \/ ResetJob(h) \/ Enqueue(h) \/ Abandon(h)
    PROVE  LeaseInv'
  <1>1. UNCHANGED <<workers, leases>>
    BY DEF backendVars, orchestratorVars, ipamVars
  <1>2. \A t \in Tickets : rows'[t].status = "completed" => rows'[t] = rows[t]
    BY RequestTouches DEF NewRow
  <1>3. QED
    BY <1>1, <1>2 DEF LeaseInv, Holds, Live, Job, At

LEMMA StepKeepsHolds ==
    ASSUME RunsOnce
    PROVE  TypeOK /\ TypeOK' /\ LeasesOwned /\ RunInv /\ RunInv' /\ LeaseInv /\ [Next]_vars
              => LeaseInv'
  <1> SUFFICES ASSUME TypeOK, TypeOK', LeasesOwned, RunInv, RunInv', LeaseInv, [Next]_vars
               PROVE  LeaseInv'
    OBVIOUS
  <1>1. CASE UNCHANGED vars \/ HypervisorStep
    BY <1>1 DEF vars, HypervisorStep, orchestratorVars, ipamVars, LeaseInv, Holds, Live, Job, At
  <1>2. QED
    BY <1>1, WorkerHolds, RequestHolds DEF Next, Step

LEMMA LeaseInvariant == ASSUME RunsOnce PROVE Spec => [](RunInv /\ LeaseInv)
  <1>1. Init => LeaseInv
    BY DEF Init, StoreInit, OrchestratorInit, NoRow, NoTask, LeaseInv, At, Holding, Reserved,
           Providing, Finishing
  <1>2. QED
    BY TypeCorrect, LeasesStayOwned, RunInvariant, StepKeepsHolds, <1>1, PTL DEF Spec

(* The address of a completed job stays its ticket's and active, whatever  *)
(* happens to the other jobs: only a run of the same job could give it     *)
(* back, and there is none any more.  Lost answers and failing deletes of  *)
(* the IPAM are allowed.                                                   *)
THEOREM CompletedKeepsLease == ASSUME RunsOnce PROVE Spec => []CompletedHoldsLease
  <1>1. LeaseInv => CompletedHoldsLease
    BY DEF LeaseInv, CompletedHoldsLease, Holds
  <1>2. QED
    BY <1>1, LeaseInvariant, PTL

-----------------------------------------------------------------------------
(* The VM of a running and of a completed job                              *)

(* What one call of the hypervisor does to the VM in its slot.             *)
LEMMA CreateOwn ==
    ASSUME TypeOK, NEW t \in Tickets, NEW s \in Slots, NEW addr, CreateVm(t, s, addr)
    PROVE  /\ vms[s].ticket = NoTicket /\ vms'[s].ticket = t /\ ~vms'[s].leaving
           /\ \A r \in Slots : r # s => vms'[r] = vms[r]
  BY DEF TypeOK, HypervisorTypeOK, CreateVm, NewVm, NoVm

LEMMA CallOwn ==
    ASSUME TypeOK, NEW t \in Tickets, NEW s \in Slots, NEW addr,
           ConfigureVm(t, s, addr) \/ StartVm(s)
    PROVE  /\ vms[s].ticket = t => vms'[s].ticket = t /\ vms'[s].leaving = vms[s].leaving
           /\ \A r \in Slots : r # s => vms'[r] = vms[r]
  BY DEF TypeOK, HypervisorTypeOK, Vms, ConfigureVm, StartVm

LEMMA DestroyOwn ==
    ASSUME TypeOK, NEW s \in Slots, DestroyVm(s)
    PROVE  \A r \in Slots : r # s => vms'[r] = vms[r]
  BY DEF TypeOK, HypervisorTypeOK, DestroyVm

(* The mistakes of searches are kept.                                      *)
LEMMA MistakesKept == ASSUME Watch PROVE mistaken \subseteq mistaken'
  BY DEF Watch

(* A VM that is the ticket's and that nobody is deleting stays so when it  *)
(* is left alone.                                                          *)
LEMMA OwnKept ==
    ASSUME mistaken \subseteq mistaken', NEW t \in Tickets, NEW s \in Slots,
           Own(vms, mistaken, t, s),
           s \notin mistaken /\ vms[s].ticket = t /\ ~vms[s].leaving => vms'[s] = vms[s]
    PROVE  Own(vms', mistaken', t, s)
  BY DEF Own

(* A worker changes only VMs of its ticket and free slots.                 *)
ChangesOwn(w) ==
    \A s \in Slots \ mistaken : vms'[s] # vms[s] =>
        vms[s].ticket \in {NoTicket, Job(w)} /\ workers'[w] # workers[w]

LEMMA ProvisionOwn ==
    ASSUME TypeOK, RunInv, VmInv, Watch, NEW w \in Workers, Provision(w)
    PROVE  ChangesOwn(w) /\ WorksOn(workers'[w], vms', mistaken')
  <1> USE DEF At
  <1>0. /\ workers[w].pc # "idle" /\ Runs(w) /\ workers \in [Workers -> Tasks] /\ Job(w) \in Tickets
        /\ Phase(workers[w], rows[Job(w)])
    <2>1. workers[w].pc # "idle" /\ Runs(w)
      BY DEF Provision, Find, Create, Configure, Start, Runs
    <2>2. QED
      BY <2>1, PhasePending DEF TypeOK, OrchestratorTypeOK
  <1>1. workers[w].pc \in {"find", "create", "configure", "start"} => workers[w].ref = NoRef
    BY <1>0 DEF Phase, Providing
  <1>2. workers[w].pc \in {"configure", "start"} =>
           workers[w].slot \in Slots /\ Own(vms, mistaken, Job(w), workers[w].slot)
    BY <1>0 DEF Phase, VmInv, WorksOn, Job, Tasks
  <1>b. mistaken \subseteq mistaken'
    BY MistakesKept
  (* A step that moves on after a call that failed, or after Configure. *)
  <1>3. ASSUME NEW pc \in {"compensate", "start"}, Goto(w, pc),
               workers[w].pc \in {"create", "configure", "start"},
               pc = "start" => /\ workers[w].pc = "configure"
                               /\ Own(vms', mistaken', Job(w), workers[w].slot)
        PROVE  WorksOn(workers'[w], vms', mistaken') /\ workers'[w].pc = pc
    <2>1. /\ workers'[w].pc = pc /\ workers'[w].ref = workers[w].ref
          /\ workers'[w].slot = workers[w].slot /\ workers'[w].job = Job(w)
      BY <1>0, <1>3 DEF Goto, Tasks, Job
    <2>2. QED
      BY <1>1, <1>3, <2>1 DEF WorksOn, Finishing
  <1>4. ASSUME NEW s \in Slots, Own(vms', mistaken', Job(w), s),
               workers' = [workers EXCEPT ![w] = [@ EXCEPT !.pc = "saveRef", !.ref = s]]
        PROVE  WorksOn(workers'[w], vms', mistaken') /\ workers'[w].pc = "saveRef"
    <2>1. workers'[w].pc = "saveRef" /\ workers'[w].ref = s /\ workers'[w].job = Job(w)
      BY <1>0, <1>4 DEF Tasks, Job
    <2>2. QED
      BY <1>4, <2>1 DEF WorksOn, Finishing
  <1>5. CASE Find(w)
    <2>1. PICK pc \in {"saveRef", "create", "compensate"}, ref \in Slots \cup {NoRef} :
             /\ workers' = [workers EXCEPT ![w] =
                              [@ EXCEPT !.pc = pc, !.seen = rows[Job(w)], !.ref = ref]]
             /\ pc = "saveRef" \/ ref = workers[w].ref
      BY <1>0, <1>5 DEF Find, Hits, Tasks
    <2>2. /\ workers'[w].pc = pc /\ workers'[w].ref = ref /\ workers'[w].job = Job(w)
          /\ vms' = vms /\ workers[w].pc = "find"
      BY <1>0, <1>5, <2>1 DEF Find, Tasks, Job
    <2>3. pc # "saveRef" => ref = NoRef
      BY <1>1, <2>1, <2>2
    <2>4. ref # NoRef => Own(vms', mistaken', Job(w), ref)
      BY <2>1, <2>2, <2>3, <1>0 DEF Own, Watch, Job
    <2>5. QED
      BY <2>2, <2>4 DEF ChangesOwn, WorksOn, Finishing
  <1>6. CASE Create(w)
    <2>0. workers[w].pc = "create"
      BY <1>6 DEF Create
    <2>1. CASE Goto(w, "compensate") /\ UNCHANGED vms
      BY <1>3, <2>0, <2>1 DEF ChangesOwn
    <2>2. ASSUME NEW s \in Slots, CreateVm(Job(w), s, workers[w].seen.ip.addr),
                 \/ workers' = [workers EXCEPT ![w] = [@ EXCEPT !.pc = "configure", !.slot = s]]
                 \/ workers' = [workers EXCEPT ![w] = [@ EXCEPT !.pc = "saveRef", !.ref = s]]
                 \/ Goto(w, "compensate")
          PROVE  ChangesOwn(w) /\ WorksOn(workers'[w], vms', mistaken')
      <3>1. /\ vms[s].ticket = NoTicket /\ Own(vms', mistaken', Job(w), s)
            /\ \A r \in Slots : r # s => vms'[r] = vms[r]
        BY <1>0, <2>2, CreateOwn DEF Own
      <3>2. WorksOn(workers'[w], vms', mistaken') /\ workers'[w].pc # "create"
        <4>1. CASE workers' = [workers EXCEPT ![w] = [@ EXCEPT !.pc = "configure", !.slot = s]]
          <5>1. workers'[w].pc = "configure" /\ workers'[w].slot = s /\ workers'[w].job = Job(w)
            BY <1>0, <4>1 DEF Tasks, Job
          <5>2. QED
            BY <3>1, <5>1 DEF WorksOn, Finishing
        <4>2. QED
          BY <1>3, <1>4, <2>0, <2>2, <3>1, <4>1
      <3>3. QED
        BY <2>0, <3>1, <3>2 DEF ChangesOwn
    <2>3. QED
      BY <1>6, <2>1, <2>2 DEF Create
  (* A call for the VM under the vmid this run created. *)
  <1>c. ASSUME NEW s \in Slots, NEW addr, s = workers[w].slot,
               workers[w].pc \in {"configure", "start"},
               ConfigureVm(Job(w), s, addr) \/ StartVm(s)
        PROVE  /\ Own(vms', mistaken', Job(w), s)
               /\ s \notin mistaken => vms[s].ticket = Job(w)
               /\ \A r \in Slots : r # s => vms'[r] = vms[r]
    <2>1. /\ vms[s].ticket = Job(w) => vms'[s].ticket = Job(w) /\ vms'[s].leaving = vms[s].leaving
          /\ \A r \in Slots : r # s => vms'[r] = vms[r]
      BY <1>0, <1>c, CallOwn
    <2>2. QED
      BY <1>2, <1>b, <1>c, <2>1 DEF Own
  <1>7. CASE Configure(w)
    <2>0. workers[w].pc = "configure"
      BY <1>7 DEF Configure
    <2>1. CASE Goto(w, "compensate") /\ UNCHANGED vms
      BY <1>3, <2>0, <2>1 DEF ChangesOwn
    <2>2. CASE ConfigureVm(Job(w), workers[w].slot, workers[w].seen.ip.addr) /\ Goto(w, "start")
      <3>0. PICK s, addr : s \in Slots /\ s = workers[w].slot /\ addr = workers[w].seen.ip.addr
        BY <1>2, <2>0
      <3>1. /\ Own(vms', mistaken', Job(w), s)
            /\ s \notin mistaken => vms[s].ticket = Job(w)
            /\ \A r \in Slots : r # s => vms'[r] = vms[r]
        BY <1>c, <2>0, <2>2, <3>0
      <3>2. WorksOn(workers'[w], vms', mistaken') /\ workers'[w].pc = "start"
        BY <1>3, <2>0, <2>2, <3>0, <3>1
      <3>3. QED
        BY <2>0, <3>1, <3>2 DEF ChangesOwn
    <2>3. QED
      BY <1>7, <2>1, <2>2 DEF Configure
  <1>8. CASE Start(w)
    <2>0. workers[w].pc = "start"
      BY <1>8 DEF Start
    <2>1. CASE Goto(w, "compensate") /\ UNCHANGED vms
      BY <1>3, <2>0, <2>1 DEF ChangesOwn
    <2>2. ASSUME StartVm(workers[w].slot),
                 \/ workers' = [workers EXCEPT ![w] = [@ EXCEPT !.pc = "saveRef",
                                                                !.ref = workers[w].slot]]
                 \/ Goto(w, "compensate")
          PROVE  ChangesOwn(w) /\ WorksOn(workers'[w], vms', mistaken')
      <3>1. PICK s \in Slots : s = workers[w].slot
        BY <1>2, <2>0
      <3>2. /\ Own(vms', mistaken', Job(w), s)
            /\ s \notin mistaken => vms[s].ticket = Job(w)
            /\ \A r \in Slots : r # s => vms'[r] = vms[r]
        BY <1>c, <2>0, <2>2, <3>1
      <3>3. WorksOn(workers'[w], vms', mistaken') /\ workers'[w].pc # "start"
        BY <1>3, <1>4, <2>0, <2>2, <3>1, <3>2
      <3>4. QED
        BY <2>0, <3>2, <3>3 DEF ChangesOwn
    <2>3. QED
      BY <1>8, <2>1, <2>2 DEF Start
  <1>9. QED
    BY <1>5, <1>6, <1>7, <1>8 DEF Provision

(* The steps outside the provisioner leave the VMs of a task as they are.  *)
LEMMA RefSteps ==
    ASSUME TypeOK, RunInv, NEW w \in Workers, WorkerStep(w) \/ Crash(w) \/ TimeLimit(w),
           ~Provision(w)
    PROVE  /\ ~Destroy(w) => UNCHANGED vms
           /\ workers'[w].pc \notin {"configure", "start"}
           /\ workers'[w].pc \in {"saveRef", "compensate", "destroy"} \cup Finishing =>
                 /\ workers'[w].job = Job(w) /\ workers'[w].ref = workers[w].ref
                 /\ \/ workers[w].ref = NoRef
                    \/ workers[w].pc \in {"saveRef", "compensate", "destroy"} \cup Finishing
  <1> USE DEF At, Finishing
  <1>0. workers \in [Workers -> Tasks] /\ \A pc : Goto(w, pc) =>
           workers'[w].pc = pc /\ workers'[w].job = Job(w) /\ workers'[w].ref = workers[w].ref
    BY DEF TypeOK, OrchestratorTypeOK, Goto, Job, Tasks
  <1>1. ASSUME NEW m \in Messages, Take(w, m)
        PROVE  workers'[w].pc = "load" /\ UNCHANGED vms
    BY <1>0, <1>1 DEF Take, NoTask
  <1>2. Ack(w) \/ Crash(w) \/ TimeLimit(w) => workers'[w].pc = "idle" /\ UNCHANGED vms
    BY <1>0 DEF Ack, Crash, TimeLimit, NoTask
  <1>3. CASE Load(w)
    <2>1. \/ Goto(w, "ack")
          \/ workers' = [workers EXCEPT ![w] = [@ EXCEPT !.pc = "started", !.seen = rows[Job(w)],
                !.ip = rows[Job(w)].ip, !.obj = rows[Job(w)].obj, !.ref = rows[Job(w)].ref]]
      BY <1>3 DEF Load
    <2>2. ASSUME NEW row, workers' = [workers EXCEPT ![w] = [@ EXCEPT !.pc = "started",
                    !.seen = row, !.ip = row.ip, !.obj = row.obj, !.ref = row.ref]]
          PROVE  workers'[w].pc = "started"
      BY <1>0, <2>2 DEF Tasks
    <2>3. UNCHANGED vms /\ workers'[w].pc \in {"ack", "started"}
      BY <1>0, <1>3, <2>1, <2>2 DEF Load
    <2>4. QED
      BY <2>3
  (* The steps before there is a VM. *)
  <1>4. workers[w].pc \in {"reserve", "mark"} => workers[w].ref = NoRef
    BY PhasePending DEF Runs, Phase, Reserving, Reserved
  <1>5. CASE Reserve(w)
    <2>1. ASSUME NEW id, workers' = [workers EXCEPT ![w] = [@ EXCEPT !.pc = "saveIp", !.ip = id]]
          PROVE  workers'[w].pc = "saveIp"
      BY <1>0, <2>1 DEF Tasks
    <2>2. /\ UNCHANGED vms /\ workers[w].pc = "reserve"
          /\ workers'[w].pc = "saveIp" \/ Goto(w, "compensate")
      BY <1>5, <2>1 DEF Reserve
    <2>3. QED
      BY <1>0, <1>4, <2>2
  <1>6. CASE Mark(w)
    <2>1. ASSUME NEW row,
                 workers' = [workers EXCEPT ![w] = [@ EXCEPT !.pc = "compensate", !.seen = row]]
          PROVE  /\ workers'[w].pc = "compensate" /\ workers'[w].job = Job(w)
                 /\ workers'[w].ref = workers[w].ref
      BY <1>0, <2>1 DEF Tasks, Job
    <2>2. UNCHANGED vms /\ workers[w].pc = "mark"
      BY <1>6 DEF Mark
    <2>3. \/ Goto(w, "find")
          \/ \E row :
                workers' = [workers EXCEPT ![w] = [@ EXCEPT !.pc = "compensate", !.seen = row]]
      BY <1>6 DEF Mark
    <2>4. \/ workers'[w].pc = "find"
          \/ /\ workers'[w].pc = "compensate" /\ workers'[w].job = Job(w)
             /\ workers'[w].ref = workers[w].ref
      BY <1>0, <2>1, <2>3
    <2>5. QED
      BY <1>4, <2>2, <2>4
  <1>7. CASE CreateVmObj(w)
    <2>1. ASSUME NEW obj,
                 workers' = [workers EXCEPT ![w] = [@ EXCEPT !.pc = "saveObj", !.obj = obj]]
          PROVE  workers'[w].pc = "saveObj"
      BY <1>0, <2>1 DEF Tasks
    <2>2. UNCHANGED vms /\ (workers'[w].pc = "saveObj" \/ Goto(w, "mark"))
      BY <1>7, <2>1 DEF CreateVmObj
    <2>3. QED
      BY <1>0, <2>2
  <1>8. CASE Finalize(w)
    <2>1. ASSUME NEW pc, NEW row,
                 workers' = [workers EXCEPT ![w] = [@ EXCEPT !.pc = pc, !.seen = row]]
          PROVE  /\ workers'[w].pc = pc /\ workers'[w].job = Job(w)
                 /\ workers'[w].ref = workers[w].ref
      BY <1>0, <2>1 DEF Tasks, Job
    <2>2. \E pc \in {"complete", "compensate"} :
             workers' = [workers EXCEPT ![w] = [@ EXCEPT !.pc = pc, !.seen = rows[Job(w)]]]
      BY <1>8 DEF Finalize
    <2>3. QED
      BY <1>8, <2>1, <2>2, ZenonT(30) DEF Finalize
  <1>9. CASE SaveIp(w) \/ SaveObj(w) \/ NotifyStarted(w)
    <2>1. UNCHANGED vms /\ \E pc \in {"vmObj", "mark", "reserve"} : Goto(w, pc)
      BY <1>9 DEF SaveIp, SaveObj, NotifyStarted
    <2>2. QED
      BY <1>0, <2>1
  <1>10. CASE SaveRef(w) \/ Complete(w) \/ NotifyOk(w) \/ Rollback(w)
    <2>1. /\ ~Destroy(w) => UNCHANGED vms
          /\ \/ SaveRef(w) /\ workers[w].pc = "saveRef" /\ Goto(w, "finalize")
             \/ workers[w].pc = "compensate" /\ Goto(w, "destroy")
             \/ \E pc \in {"notifyOk", "ack", "markFailed", "notifyFailed", "raise"} : Goto(w, pc)
      BY <1>10 DEF SaveRef, Complete, NotifyOk, Rollback, Compensate, Destroy, MarkFailed,
                   NotifyFailed, Raise
    <2>2. QED
      BY <1>0, <2>1
  <1>11. QED
    BY <1>1, <1>2, <1>3, <1>5, <1>6, <1>7, <1>8, <1>9, <1>10 DEF WorkerStep

(* So a worker touches no VM but its ticket's, and what its task names is  *)
(* its ticket's.                                                           *)
LEMMA WorkerOwnVm ==
    ASSUME TypeOK, RunInv, VmInv, Watch, NEW w \in Workers,
           WorkerStep(w) \/ Crash(w) \/ TimeLimit(w)
    PROVE  ChangesOwn(w) /\ WorksOn(workers'[w], vms', mistaken')
  <1>1. CASE Provision(w)
    BY <1>1, ProvisionOwn
  <1>2. CASE Destroy(w)
    <2>1. /\ workers[w].pc = "destroy" /\ workers'[w].pc = "markFailed"
      BY <1>2 DEF Destroy, At, Goto, TypeOK, OrchestratorTypeOK, Tasks
    <2>2. workers[w].ref # NoRef /\ workers[w] \in Tasks
      BY <2>1, PhasePending DEF Runs, Phase, TypeOK, OrchestratorTypeOK
    <2>3. PICK s \in Slots : s = workers[w].ref
      BY <2>2 DEF Tasks
    <2>4. s \notin mistaken => vms[s].ticket = Job(w)
      BY <2>1, <2>2, <2>3 DEF VmInv, WorksOn, Own, Job
    <2>5. \A r \in Slots : r # s => vms'[r] = vms[r]
      BY <1>2, <2>3, DestroyOwn DEF Destroy
    <2>6. QED
      BY <2>1, <2>4, <2>5 DEF ChangesOwn, WorksOn, Finishing
  <1>3. CASE ~Provision(w) /\ ~Destroy(w)
    <2>1. UNCHANGED vms /\ workers'[w].pc \notin {"configure", "start"}
      BY <1>3, RefSteps
    <2>2. ASSUME workers'[w].pc \in {"saveRef", "compensate", "destroy"} \cup Finishing,
                 workers'[w].ref # NoRef
          PROVE  Own(vms', mistaken', workers'[w].job, workers'[w].ref)
      <3>1. /\ workers'[w].job = Job(w) /\ workers'[w].ref = workers[w].ref
            /\ workers[w].pc \in {"saveRef", "compensate", "destroy"} \cup Finishing
        BY <1>3, <2>2, RefSteps
      <3>2. Own(vms, mistaken, workers[w].job, workers[w].ref)
        BY <2>2, <3>1 DEF VmInv, WorksOn
      <3>3. QED
        BY <2>1, <3>1, <3>2, MistakesKept DEF Own, Job
    <2>3. QED
      BY <2>1, <2>2 DEF ChangesOwn, WorksOn
  <1>4. QED
    BY <1>1, <1>2, <1>3

(* What a task names is in the range of its fields.                        *)
LEMMA NamesSlots ==
    ASSUME TypeOK, RunInv, NEW v \in Workers, Runs(v)
    PROVE  /\ workers[v].job \in Tickets
           /\ workers[v].pc \in {"configure", "start"} => workers[v].slot \in Slots
           /\ workers[v].ref # NoRef => workers[v].ref \in Slots
  <1>1. workers[v] \in Tasks /\ Job(v) \in Tickets /\ Phase(workers[v], rows[Job(v)])
    BY PhasePending DEF TypeOK, OrchestratorTypeOK
  <1>2. QED
    BY <1>1 DEF Phase, Tasks, Job

(* A task whose VMs are left alone goes on working on its own.             *)
LEMMA OthersWork ==
    ASSUME TypeOK, RunInv, VmInv, mistaken \subseteq mistaken', NEW v \in Workers, Runs(v),
           \A s \in Slots \ mistaken : vms[s].ticket = Job(v) /\ ~vms[s].leaving => vms'[s] = vms[s]
    PROVE  WorksOn(workers[v], vms', mistaken')
  <1>1. /\ workers[v].job \in Tickets /\ WorksOn(workers[v], vms, mistaken)
        /\ workers[v].pc \in {"configure", "start"} => workers[v].slot \in Slots
        /\ workers[v].ref # NoRef => workers[v].ref \in Slots
    BY NamesSlots DEF VmInv
  <1>2. ASSUME NEW s \in Slots, Own(vms, mistaken, workers[v].job, s)
        PROVE  Own(vms', mistaken', workers[v].job, s)
    BY <1>1, <1>2, OwnKept DEF Job
  <1>3. QED
    BY <1>1, <1>2 DEF WorksOn

LEMMA Resting ==
    ASSUME NEW v \in Workers, ~Runs(v), NEW vm, NEW wrong
    PROVE  WorksOn(workers[v], vm, wrong)
  BY DEF Runs, WorksOn, Finishing

LEMMA WorkerKeepsVms ==
    ASSUME TypeOK, TypeOK', RunInv, RunInv', VmInv, Watch, NEW w \in Workers,
           WorkerStep(w) \/ Crash(w) \/ TimeLimit(w)
    PROVE  VmInv'
  <1>0. /\ \A v \in Workers : v # w => workers'[v] = workers[v]
        /\ \A t \in Tickets : t # Job(w) => rows'[t] = rows[t]
        /\ ~Runs(w) => UNCHANGED <<rows, vms>>
        /\ mistaken \subseteq mistaken'
    BY WorkerTouches, MistakesKept
  <1>1. ChangesOwn(w) /\ WorksOn(workers'[w], vms', mistaken')
    BY WorkerOwnVm
  (* A VM of a job that is not this worker's stays as it is. *)
  <1>2. ASSUME NEW t \in Tickets, t # Job(w) \/ ~Runs(w), NEW s \in Slots \ mistaken,
               vms[s].ticket = t
        PROVE  vms'[s] = vms[s]
    BY <1>0, <1>1, <1>2, ModelAssumption DEF ChangesOwn
  <1>3. ASSUME NEW v \in Workers
        PROVE  WorksOn(workers'[v], vms', mistaken')
    <2>1. CASE v = w
      BY <1>1, <2>1
    <2>2. CASE v # w /\ Runs(v)
      <3>1. Job(v) \in Tickets /\ (Job(v) # Job(w) \/ ~Runs(w))
        BY <2>2, PhasePending DEF RunInv, OneRunPerJob
      <3>2. WorksOn(workers[v], vms', mistaken')
        BY <1>0, <1>2, <2>2, <3>1, OthersWork
      <3>3. QED
        BY <1>0, <2>2, <3>2
    <2>3. CASE v # w /\ ~Runs(v)
      BY <1>0, <2>3, Resting
    <2>4. QED
      BY <2>1, <2>2, <2>3
  <1>4. ASSUME NEW t \in Tickets, rows'[t].status = "completed"
        PROVE  rows'[t].ref # NoRef /\ Own(vms', mistaken', t, rows'[t].ref)
    <2>1. CASE rows[t].status = "completed"
      <3>1. rows[t].ref # NoRef /\ Own(vms, mistaken, t, rows[t].ref) /\ rows[t].ref \in Slots
        BY <2>1 DEF VmInv, CompletedVmStands, Own, TypeOK, StoreTypeOK, Rows
      <3>2. t # Job(w) \/ ~Runs(w)
        BY <2>1, PhasePending DEF Pending
      <3>3. rows'[t] = rows[t]
        BY <1>0, <3>2
      <3>4. Own(vms', mistaken', t, rows[t].ref)
        BY <1>0, <1>2, <3>1, <3>2, OwnKept
      <3>5. QED
        BY <3>1, <3>3, <3>4
    <2>2. CASE rows[t].status # "completed"
      <3>1. t = Job(w) /\ Complete(w) /\ workers[w].pc = "complete" /\ Runs(w)
        BY <1>4, <2>2, StatusSteps DEF Complete, Mark, SaveIp, MarkFailed, At, Runs
      <3>2. /\ workers[w].ref = rows[t].ref /\ workers[w].ref # NoRef
            /\ workers[w].seen = rows[t] /\ rows[t] \in Rows
        BY <3>1, PhasePending DEF Phase, Finishing, TypeOK, StoreTypeOK
      <3>3. vms' = vms /\ Own(vms, mistaken, t, workers[w].ref)
        BY <3>1, <3>2 DEF Complete, VmInv, WorksOn, Job, Finishing
      <3>4. rows'[t].ref = rows[t].ref
        BY <3>1, <3>2 DEF Complete, Commit, Flush, TypeOK, StoreTypeOK, Rows
      <3>5. Own(vms', mistaken', t, workers[w].ref)
        BY <1>0, <3>3 DEF Own
      <3>6. QED
        BY <3>2, <3>4, <3>5
    <2>3. QED
      BY <2>1, <2>2
  <1>5. QED
    BY <1>3, <1>4 DEF VmInv, CompletedVmStands, Own

(* A delete that ends takes no VM from a job that works with it.           *)
LEMMA DeleteKeepsVms ==
    ASSUME TypeOK, RunInv, VmInv, Watch, HypervisorStep
    PROVE  VmInv'
  <1>1. UNCHANGED <<rows, workers>> /\ mistaken \subseteq mistaken'
    BY MistakesKept DEF HypervisorStep, orchestratorVars
  <1>2. \A s \in Slots : ~vms[s].leaving => vms'[s] = vms[s]
    BY DEF HypervisorStep, DeleteEnds, TypeOK, HypervisorTypeOK
  <1>3. ASSUME NEW v \in Workers
        PROVE  WorksOn(workers[v], vms', mistaken')
    BY <1>1, <1>2, OthersWork, Resting
  <1>4. ASSUME NEW t \in Tickets, rows[t].status = "completed"
        PROVE  rows[t].ref # NoRef /\ Own(vms', mistaken', t, rows[t].ref)
    <2>1. rows[t].ref # NoRef /\ Own(vms, mistaken, t, rows[t].ref) /\ rows[t].ref \in Slots
      BY <1>4 DEF VmInv, CompletedVmStands, Own, TypeOK, StoreTypeOK, Rows
    <2>2. QED
      BY <1>1, <1>2, <2>1, OwnKept
  <1>5. QED
    BY <1>1, <1>3, <1>4 DEF VmInv, CompletedVmStands, Own

LEMMA StepKeepsVms ==
    ASSUME RunsOnce
    PROVE  TypeOK /\ TypeOK' /\ RunInv /\ RunInv' /\ VmInv /\ [Next]_vars => VmInv'
  <1> SUFFICES ASSUME TypeOK, TypeOK', RunInv, RunInv', VmInv, [Next]_vars PROVE VmInv'
    OBVIOUS
  <1>1. CASE UNCHANGED vars
    BY <1>1 DEF vars, orchestratorVars, VmInv, CompletedVmStands
  <1>2. ASSUME Watch, UNCHANGED backendVars, NEW h \in Handlers,
               \/ \E t \in Tickets : Receive(h, t)
               \/ InsertJob(h) \/ ResetJob(h) \/ Enqueue(h) \/ Abandon(h)
        PROVE  VmInv'
    <2>1. UNCHANGED <<workers, vms>>
      BY <1>2 DEF backendVars, orchestratorVars
    <2>2. mistaken' = mistaken
      BY <1>2, <2>1 DEF Watch, At
    <2>3. \A t \in Tickets : rows'[t].status = "completed" => rows'[t] = rows[t]
      BY <1>2, RequestTouches DEF NewRow
    <2>4. QED
      BY <2>1, <2>2, <2>3 DEF VmInv, CompletedVmStands
  <1>3. QED
    BY <1>1, <1>2, WorkerKeepsVms, DeleteKeepsVms DEF Next, Step

LEMMA VmInvariant == ASSUME RunsOnce PROVE Spec => [](RunInv /\ VmInv)
  <1>1. Init => VmInv
    BY DEF Init, StoreInit, OrchestratorInit, HypervisorInit, NoRow, NoTask, NoVm, VmInv, WorksOn,
           CompletedVmStands, Finishing
  <1>2. QED
    BY TypeCorrect, RunInvariant, StepKeepsVms, <1>1, PTL DEF Spec

(* A ticket that OTOBO and the console show as completed has its VM: the   *)
(* one its row names was made for it, stands, and no delete is under way   *)
(* that could still take it, although Werft waits for no delete.  Only a   *)
(* search that takes a leaving VM or another ticket's can break this, and  *)
(* only in the slot it took.                                               *)
THEOREM CompletedHasVm == ASSUME RunsOnce PROVE Spec => []CompletedVmStands
  <1>1. VmInv => CompletedVmStands
    BY DEF VmInv
  <1>2. QED
    BY <1>1, VmInvariant, PTL

(* And no compensation, search or reconfiguration of one job reaches the   *)
(* VM of another, with the same exception.                                 *)
THEOREM OnlyOwnVmTouched == ASSUME RunsOnce PROVE Spec => TouchesOnlyOwnVm
  <1> DEFINE Touch ==
        \A s \in Slots \ mistaken :
           vms[s].ticket # NoTicket /\ vms'[s] # vms[s] =>
              \/ vms[s].leaving /\ UNCHANGED workers
              \/ \E w \in Workers : workers'[w] # workers[w] /\ Job(w) = vms[s].ticket
  <1>1. TypeOK /\ RunInv /\ VmInv /\ [Next]_vars => [Touch]_vars
    <2> SUFFICES ASSUME TypeOK, RunInv, VmInv, Next PROVE Touch
      OBVIOUS
    <2>1. ASSUME NEW w \in Workers, WorkerStep(w) \/ Crash(w) \/ TimeLimit(w) PROVE Touch
      <3>1. ChangesOwn(w)
        BY <2>1, WorkerOwnVm DEF Next
      <3>2. QED
        BY <3>1 DEF ChangesOwn
    <2>2. CASE UNCHANGED backendVars
      BY <2>2 DEF backendVars
    <2>3. CASE HypervisorStep
      BY <2>3 DEF HypervisorStep, DeleteEnds, orchestratorVars, TypeOK, HypervisorTypeOK
    <2>4. QED
      BY <2>1, <2>2, <2>3 DEF Next, Step
  <1>2. QED
    BY TypeCorrect, VmInvariant, <1>1, PTL DEF Spec, TouchesOnlyOwnVm

-----------------------------------------------------------------------------
(* Where the address of a ticket is while the IPAM answers                 *)

(* A worker that goes on with its job keeps the address it has until it    *)
(* gives it back or completes.                                             *)
GoesOn(w) ==
    /\ workers'[w].job = Job(w)
    /\ Runs(w)' => Runs(w)
    /\ workers[w].pc \in Holding \cup {"compensate"} =>
          /\ workers'[w].ip = workers[w].ip
          /\ workers'[w].pc \in Holding \cup {"compensate"} \/ Compensate(w) \/ Complete(w)

LEMMA TaskSteps ==
    ASSUME TypeOK, NEW w \in Workers, WorkerStep(w) \/ Crash(w) \/ TimeLimit(w)
    PROVE  \/ \E m \in Messages : /\ Take(w, m)
                                  /\ workers'[w].pc = "load" /\ workers'[w].job = m.job
           \/ (Ack(w) \/ Crash(w) \/ TimeLimit(w)) /\ workers'[w].pc = "idle"
           \/ GoesOn(w)
  <1> USE DEF At, Holding, Reserved, Providing, Finishing
  <1> DEFINE Moved(pc) == /\ workers'[w].pc = pc /\ workers'[w].job = Job(w)
                          /\ workers'[w].ip = workers[w].ip
  <1>0. workers \in [Workers -> Tasks]
    BY DEF TypeOK, OrchestratorTypeOK
  <1>1. \A pc : Goto(w, pc) => Moved(pc)
    BY <1>0 DEF Goto, Job, Tasks
  <1>2. ASSUME NEW m \in Messages, Take(w, m)
        PROVE  workers'[w].pc = "load" /\ workers'[w].job = m.job
    BY <1>0, <1>2 DEF Take, NoTask
  <1>3. Ack(w) \/ Crash(w) \/ TimeLimit(w) => workers'[w].pc = "idle"
    BY <1>0 DEF Ack, Crash, TimeLimit, NoTask
  (* A step while the worker has an address. *)
  <1>4. ASSUME NEW pc \in Holding \cup {"compensate"}, Moved(pc),
               workers[w].pc \in Holding \cup {"compensate"}
        PROVE  GoesOn(w)
    BY <1>4 DEF GoesOn, Runs
  <1>5. CASE SaveIp(w) \/ SaveObj(w) \/ SaveRef(w) \/ Configure(w)
    <2>1. /\ workers[w].pc \in Holding
          /\ \E pc \in {"vmObj", "mark", "finalize", "start", "compensate"} : Goto(w, pc)
      BY <1>5 DEF SaveIp, SaveObj, SaveRef, Configure
    <2>2. QED
      BY <1>1, <1>4, <2>1
  <1>6. CASE CreateVmObj(w)
    <2>1. ASSUME NEW obj,
                 workers' = [workers EXCEPT ![w] = [@ EXCEPT !.pc = "saveObj", !.obj = obj]]
          PROVE  Moved("saveObj")
      BY <1>0, <2>1 DEF Tasks, Job
    <2>2. workers[w].pc = "vmObj" /\ (Moved("saveObj") \/ Goto(w, "mark"))
      BY <1>6, <2>1 DEF CreateVmObj
    <2>3. QED
      BY <1>1, <1>4, <2>2
  <1>7. CASE Mark(w)
    <2>1. ASSUME NEW row,
                 workers' = [workers EXCEPT ![w] = [@ EXCEPT !.pc = "compensate", !.seen = row]]
          PROVE  Moved("compensate")
      BY <1>0, <2>1 DEF Tasks, Job
    <2>2. \/ Goto(w, "find")
          \/ \E row :
                workers' = [workers EXCEPT ![w] = [@ EXCEPT !.pc = "compensate", !.seen = row]]
      BY <1>7 DEF Mark
    <2>3. workers[w].pc = "mark" /\ (Moved("compensate") \/ Moved("find"))
      <3>1. workers[w].pc = "mark"
        BY <1>7 DEF Mark
      <3>2. QED
        BY <1>1, <2>1, <2>2, <3>1
    <2>4. QED
      BY <1>4, <2>3
  <1>8. CASE Find(w)
    <2>1. PICK pc \in {"saveRef", "create", "compensate"} :
             \E ref : workers' = [workers EXCEPT ![w] =
                                   [@ EXCEPT !.pc = pc, !.seen = rows[Job(w)], !.ref = ref]]
      BY <1>8 DEF Find
    <2>2. PICK ref : workers' = [workers EXCEPT ![w] =
                                   [@ EXCEPT !.pc = pc, !.seen = rows[Job(w)], !.ref = ref]]
      BY <2>1
    <2>3. Moved(pc)
      BY <1>0, <2>2 DEF Tasks, Job
    <2>4. workers[w].pc = "find"
      BY <1>8 DEF Find
    <2>5. QED
      BY <1>4, <2>3, <2>4
  <1>9. CASE Create(w) \/ Start(w)
    <2>0. \/ \E s : workers' = [workers EXCEPT ![w] = [@ EXCEPT !.pc = "configure", !.slot = s]]
          \/ \E s : workers' = [workers EXCEPT ![w] = [@ EXCEPT !.pc = "saveRef", !.ref = s]]
          \/ Goto(w, "compensate")
      BY <1>9 DEF Create, Start
    <2>1. ASSUME NEW s, workers' = [workers EXCEPT ![w] = [@ EXCEPT !.pc = "configure", !.slot = s]]
          PROVE  Moved("configure")
      BY <1>0, <2>1 DEF Tasks, Job
    <2>2. ASSUME NEW s, workers' = [workers EXCEPT ![w] = [@ EXCEPT !.pc = "saveRef", !.ref = s]]
          PROVE  Moved("saveRef")
      BY <1>0, <2>2 DEF Tasks, Job
    <2>3. Moved("configure") \/ Moved("saveRef") \/ Moved("compensate")
      BY <1>1, <2>0, <2>1, <2>2
    <2>4. workers[w].pc \in {"create", "start"}
      BY <1>9 DEF Create, Start
    <2>5. QED
      BY <1>4, <2>3, <2>4
  <1>10. CASE Finalize(w)
    <2>1. ASSUME NEW pc, NEW row,
                 workers' = [workers EXCEPT ![w] = [@ EXCEPT !.pc = pc, !.seen = row]]
          PROVE  Moved(pc)
      BY <1>0, <2>1 DEF Tasks, Job
    <2>2. \E pc \in {"complete", "compensate"} :
             workers' = [workers EXCEPT ![w] = [@ EXCEPT !.pc = pc, !.seen = rows[Job(w)]]]
      BY <1>10 DEF Finalize
    <2>3. workers[w].pc = "finalize"
      BY <1>10 DEF Finalize
    <2>4. QED
      BY <1>4, <2>1, <2>2, <2>3
  (* The steps before there is an address, and after it is given back. *)
  <1>11. CASE Complete(w) \/ Compensate(w)
    <2>1. /\ workers[w].pc \in {"complete", "compensate"}
          /\ \E pc : Goto(w, pc)
      BY <1>11 DEF Complete, Compensate
    <2>2. QED
      BY <1>1, <1>11, <2>1 DEF GoesOn, Runs
  <1>12. CASE Load(w) \/ Reserve(w)
    <2>1. workers[w].pc \in {"load", "reserve"}
      BY <1>12 DEF Load, Reserve
    <2>2. workers'[w].job = Job(w)
      <3>1. CASE Load(w)
        BY <1>0, <3>1, ZenonT(30) DEF Load, Goto, Tasks, Job
      <3>2. CASE Reserve(w)
        <4>1. (\E pc : Goto(w, pc)) \/ \E id :
                 workers' = [workers EXCEPT ![w] = [@ EXCEPT !.pc = "saveIp", !.ip = id]]
          BY <3>2 DEF Reserve
        <4>2. QED
          BY <1>0, <1>1, <4>1 DEF Tasks, Job
      <3>3. QED
        BY <1>12, <3>1, <3>2
    <2>3. QED
      BY <2>1, <2>2 DEF GoesOn, Runs
  <1>13. CASE NotifyStarted(w) \/ Destroy(w) \/ MarkFailed(w)
    <2>1. workers[w].pc \in {"started", "destroy", "markFailed"} /\ \E pc : Goto(w, pc)
      BY <1>13 DEF NotifyStarted, Destroy, MarkFailed
    <2>2. QED
      BY <1>1, <2>1 DEF GoesOn, Runs
  <1>14. CASE NotifyOk(w) \/ NotifyFailed(w) \/ Raise(w)
    <2>1. workers[w].pc \in {"notifyOk", "notifyFailed", "raise"} /\ \E pc \in {"ack", "raise"} : Goto(w, pc)
      BY <1>14 DEF NotifyOk, NotifyFailed, Raise
    <2>2. QED
      BY <1>1, <2>1 DEF GoesOn, Runs
  <1>15. QED
    BY <1>2, <1>3, <1>5, <1>6, <1>7, <1>8, <1>9, <1>10, <1>11, <1>12, <1>13, <1>14
       DEF WorkerStep, Provision, Rollback

(* The three calls that change addresses.                                  *)
LEMMA LeasesAlone ==
    ASSUME NEW w \in Workers, WorkerStep(w) \/ Crash(w) \/ TimeLimit(w),
           ~Reserve(w), ~Finalize(w), ~Compensate(w)
    PROVE  UNCHANGED leases
  BY DEF WorkerStep, Take, Load, NotifyStarted, SaveIp, CreateVmObj, SaveObj, Mark, Provision,
         Find, Create, Configure, Start, SaveRef, Complete, NotifyOk, Rollback, Destroy,
         MarkFailed, NotifyFailed, Raise, Ack, Crash, TimeLimit

(* Without redelivery and retries no message comes from a worker.          *)
LEMMA QueueShrinks ==
    ASSUME TypeOK, RunsOnce, NEW w \in Workers, WorkerStep(w) \/ Crash(w) \/ TimeLimit(w),
           NEW m \in Messages, queue'[m] > 0
    PROVE  queue[m] > 0
  <1>1. ASSUME NEW n \in Messages, Take(w, n) PROVE queue[m] > 0
    BY <1>1 DEF Take, TypeOK, StoreTypeOK
  <1>2. UNCHANGED queue \/ \E n \in Messages : Take(w, n)
    BY DEF RunsOnce, WorkerStep, Load, NotifyStarted, Reserve, SaveIp, CreateVmObj, SaveObj,
           Mark, Provision, Find, Create, Configure, Start, SaveRef, Finalize, Complete,
           NotifyOk, Rollback, Compensate, Destroy, MarkFailed, NotifyFailed, Raise, Ack,
           Crash, TimeLimit
  <1>3. QED
    BY <1>1, <1>2

(* What moves the address of a row.                                        *)
LEMMA IpSteps ==
    ASSUME TypeOK, NEW w \in Workers, WorkerStep(w) \/ Crash(w) \/ TimeLimit(w),
           NEW t \in Tickets, rows'[t].ip # rows[t].ip
    PROVE  /\ t = Job(w)
           /\ \/ SaveIp(w) /\ rows'[t].ip = workers[w].ip
              \/ MarkFailed(w)
  <1>0. /\ t = Job(w) /\ rows[t] \in Rows /\ Runs(w)
        /\ workers[w].seen \in Rows /\ workers[w].ip \in IpIds \cup {NoIp}
        /\ workers[w].ref \in Slots \cup {NoRef}
    <2>1. t = Job(w) /\ Runs(w)
      BY WorkerTouches
    <2>2. QED
      BY <2>1, BusyType DEF Runs
  <1>1. ASSUME NEW seen \in Rows, NEW new \in Rows, Commit(t, seen, new)
        PROVE  new.ip # seen.ip /\ rows'[t].ip = new.ip
    BY <1>1, CommitMoves
  <1>2. CASE SaveIp(w)
    <2> DEFINE new == [workers[w].seen EXCEPT !.status = "ip_reserved", !.ip = workers[w].ip]
    <2>1. new \in Rows /\ new.ip = workers[w].ip
      BY <1>0 DEF Rows, Statuses, Pending
    <2>2. QED
      BY <1>0, <1>1, <1>2, <2>1 DEF SaveIp
  <1>3. CASE Mark(w)
    <2> DEFINE row == IF workers[w].seen.ip = NoIp THEN rows[t] ELSE workers[w].seen
               new == [row EXCEPT !.status = "provisioning"]
    <2>0. row \in Rows
      BY <1>0
    <2>1. Commit(t, row, new)
      BY <1>0, <1>3 DEF Mark
    <2> HIDE DEF row
    <2>2. new \in Rows /\ new.ip = row.ip
      BY <2>0 DEF Rows, Statuses, Pending
    <2> HIDE DEF new
    <2>3. QED
      BY <1>0, <1>1, <1>3, <2>0, <2>1, <2>2
  <1>4. CASE SaveRef(w)
    <2> DEFINE new == [workers[w].seen EXCEPT !.ref = workers[w].ref]
    <2>1. new \in Rows /\ new.ip = workers[w].seen.ip
      BY <1>0 DEF Rows
    <2>2. QED
      BY <1>0, <1>1, <1>4, <2>1 DEF SaveRef
  <1>5. CASE Complete(w)
    <2> DEFINE new == [workers[w].seen EXCEPT !.status = "completed"]
    <2>1. new \in Rows /\ new.ip = workers[w].seen.ip
      BY <1>0 DEF Rows, Statuses
    <2>2. QED
      BY <1>0, <1>1, <1>5, <2>1 DEF Complete
  <1>6. ~SaveObj(w)
    BY <1>0 DEF SaveObj, TypeOK, StoreTypeOK, Rows
  <1>7. CASE UNCHANGED rows
    BY <1>7
  <1>8. CASE MarkFailed(w)
    BY <1>0, <1>8
  <1>9. QED
    BY <1>0, <1>2, <1>3, <1>4, <1>5, <1>6, <1>7, <1>8
       DEF WorkerStep, Take, Load, NotifyStarted, Reserve, CreateVmObj, Provision, Find, Create,
           Configure, Start, Finalize, NotifyOk, Rollback, Compensate, Destroy, NotifyFailed,
           Raise, Ack, Crash, TimeLimit

(* A worker's step that does not give the address of t back leaves the job *)
(* of t where it may have one.                                             *)
LEMMA LeasedLasts ==
    ASSUME TypeOK, RunInv, RunsOnce, NEW w \in Workers,
           WorkerStep(w) \/ Crash(w) \/ TimeLimit(w),
           NEW t \in Tickets, NEW id \in [addr : Addrs, gen : Nat],
           NEW state \in {"reserved", "active"},
           Leased(t, id, state), t = Job(w) => ~Compensate(w)
    PROVE  Leased(t, id, state)'
  <1> USE DEF At
  <1>0. /\ \A v \in Workers : v # w => workers'[v] = workers[v]
        /\ UNCHANGED handlers
    BY WorkerTouches DEF intakeVars
  <1>1. /\ rows'[t].status \notin {"absent", "failed"}
        /\ rows'[t].status \in {"queued", "ip_reserved"} => state = "reserved"
    <2>1. CASE rows'[t].status = rows[t].status
      BY <2>1 DEF Leased
    <2>2. CASE rows'[t].status # rows[t].status
      <3>1. t = Job(w)
        BY <2>2, StatusSteps
      <3>2. ~MarkFailed(w)
        BY <3>1 DEF Leased, Serves, MarkFailed, Runs, Holding, Reserved, Providing, Finishing
      <3>3. SaveIp(w) => state = "reserved"
        BY <3>1, PhasePending DEF SaveIp, Runs, Phase, Reserving, NewRow, Leased
      <3>4. QED
        BY <2>2, <3>2, <3>3, StatusSteps
    <2>3. QED
      BY <2>1, <2>2
  <1>2. ~Waits(t)'
    BY QueueShrinks DEF Leased, Waits
  <1>3. ASSUME Serves(w, t)'
        PROVE  workers'[w].pc \in Holding \cup {"compensate"} /\ workers'[w].ip = id
    <2>1. ASSUME NEW m \in Messages, Take(w, m), workers'[w].job = m.job PROVE FALSE
      BY <1>3, <2>1 DEF Take, Serves, Job, Leased, Waits
    <2>2. workers'[w].pc # "idle"
      BY <1>3 DEF Serves, Runs
    <2>3. GoesOn(w)
      BY <2>1, <2>2, TaskSteps
    <2>4. Serves(w, t)
      BY <1>3, <2>3 DEF GoesOn, Serves, Job
    <2>5. workers[w].pc \in Holding \cup {"compensate"} /\ workers[w].ip = id /\ Job(w) = t
      BY <2>4 DEF Leased, Serves
    <2>6. ~Complete(w)
      BY <1>3 DEF Complete, Goto, Serves, Runs, TypeOK, OrchestratorTypeOK, Tasks
    <2>7. QED
      BY <2>3, <2>5, <2>6 DEF GoesOn
  <1>4. ASSUME NEW v \in Workers, Serves(v, t)'
        PROVE  workers'[v].pc \in Holding \cup {"compensate"} /\ workers'[v].ip = id
    <2>1. CASE v = w
      BY <1>3, <1>4, <2>1
    <2>2. CASE v # w
      BY <1>0, <1>4, <2>2 DEF Serves, Runs, Job, Leased
    <2>3. QED
      BY <2>1, <2>2
  <1>5. QED
    BY <1>0, <1>1, <1>2, <1>4 DEF Leased

LEMMA RequestLeased ==
    ASSUME TypeOK, RunInv, NEW h \in Handlers, UNCHANGED workers,
           \/ \E t \in Tickets : Receive(h, t)
           \/ InsertJob(h) \/ ResetJob(h) \/ Enqueue(h) \/ Abandon(h),
           NEW t \in Tickets, NEW id \in [addr : Addrs, gen : Nat],
           NEW state \in {"reserved", "active"},
           Leased(t, id, state)
    PROVE  Leased(t, id, state)'
  <1>0. handlers \in [Handlers -> Requests] /\ queue \in [Messages -> Nat]
    BY DEF TypeOK, IntakeTypeOK, StoreTypeOK
  <1>1. rows'[t] = rows[t]
    BY RequestTouches DEF Leased
  <1>2. ASSUME NEW g \in Handlers, handlers'[g].job = t PROVE handlers'[g].pc # "enqueue"
    <2>1. CASE \E u \in Tickets : Receive(h, u)
      BY <1>0, <1>2, <2>1 DEF Receive, NoRequest, Leased
    <2>2. CASE InsertJob(h)
      BY <1>0, <1>2, <2>2 DEF InsertJob, NoRequest, Requests, Leased
    <2>3. CASE ResetJob(h)
      BY <1>0, <1>2, <2>3 DEF ResetJob, Requests, Leased, RunInv, RequestInv
    <2>4. CASE Enqueue(h) \/ Abandon(h)
      BY <1>0, <1>2, <2>4 DEF Enqueue, Abandon, NoRequest, Leased
    <2>5. QED
      BY <2>1, <2>2, <2>3, <2>4
  <1>3. ~Waits(t)'
    <2>1. CASE Enqueue(h)
      <3>1. handlers[h].job # t
        BY <2>1 DEF Enqueue, Leased
      <3>2. \A m \in Messages : m.job = t => queue'[m] = queue[m]
        BY <1>0, <2>1, <3>1 DEF Enqueue, Send, Messages
      <3>3. QED
        BY <3>2 DEF Leased, Waits
    <2>2. CASE UNCHANGED queue
      BY <2>2 DEF Leased, Waits
    <2>3. QED
      BY <2>1, <2>2 DEF Receive, InsertJob, ResetJob, Abandon
  <1>4. \A w \in Workers : Serves(w, t)' <=> Serves(w, t)
    BY DEF Serves, Runs, Job
  <1>5. QED
    BY <1>1, <1>2, <1>3, <1>4 DEF Leased

(* What each of the three calls does to the addresses of the ticket.       *)
LEMMA ReserveTakes ==
    ASSUME TypeOK, StageInv, IpamAnswers, NEW w \in Workers, Reserve(w),
           leases' # leases
    PROVE  /\ Job(w) \in Tickets /\ Runs(w)
           /\ \A b \in Addrs : leases[b].ticket # Job(w)
           /\ \E a \in Addrs :
                 /\ leases[a].state = "free" /\ leases'[a].state = "reserved"
                 /\ leases'[a].ticket = Job(w)
                 /\ \A b \in Addrs : b # a => leases'[b] = leases[b]
                 /\ workers'[w].pc = "saveIp" /\ workers'[w].job = Job(w)
                 /\ workers'[w].ip = IdOf(a)'
  <1> USE DEF At
  <1>1. /\ workers[w].pc = "reserve" /\ Runs(w) /\ Job(w) \in Tickets
        /\ workers \in [Workers -> Tasks] /\ leases \in [Addrs -> Leases]
    BY BusyType DEF Reserve, Runs, TypeOK, OrchestratorTypeOK, IpamTypeOK
  <1>2. ASSUME NEW b \in Addrs, leases[b].ticket = Job(w) PROVE FALSE
    <2>1. leases[b].state # "free"
      BY <1>1, <1>2, ModelAssumption DEF StageInv
    <2>2. Leased(Job(w), IdOf(b), leases[b].state)
      BY <1>2, <2>1 DEF StageInv
    <2>3. QED
      BY <1>1, <2>2 DEF Leased, Serves, Holding, Reserved, Providing, Finishing
  <1>3. PICK a \in Addrs :
           /\ ReserveIp(Job(w), a)
           /\ workers' = [workers EXCEPT ![w] = [@ EXCEPT !.pc = "saveIp", !.ip = NextId(a)]]
    BY DEF Reserve, IpamAnswers
  <1>4. /\ workers'[w].pc = "saveIp" /\ workers'[w].job = Job(w) /\ workers'[w].ip = NextId(a)
    BY <1>1, <1>3 DEF Tasks, Job
  <1>5. leases' = [leases EXCEPT ![a] = [gen |-> leases[a].gen + 1, state |-> "reserved",
                                         ticket |-> Job(w)]]
    BY <1>3 DEF ReserveIp
  <1>6. leases'[a] = [gen |-> leases[a].gen + 1, state |-> "reserved", ticket |-> Job(w)]
        /\ \A b \in Addrs : b # a => leases'[b] = leases[b]
    BY <1>1, <1>5
  <1>7. NextId(a) = IdOf(a)'
    BY <1>6 DEF NextId, IdOf
  <1>8. QED
    BY <1>1, <1>2, <1>3, <1>4, <1>6, <1>7 DEF ReserveIp

LEMMA FinalizeSets ==
    ASSUME TypeOK, RunInv, LeaseInv, NEW w \in Workers, Finalize(w),
           NEW a \in Addrs, leases'[a] # leases[a]
    PROVE  /\ Job(w) \in Tickets /\ Runs(w) /\ rows[Job(w)].status = "provisioning"
           /\ workers[w].pc = "finalize" /\ a = workers[w].ip.addr
           /\ leases[a].ticket = Job(w) /\ leases[a].state # "free"
           /\ leases'[a].ticket = Job(w) /\ leases'[a].state = "active"
           /\ leases'[a].gen = leases[a].gen
  <1> USE DEF At
  <1>1. /\ workers[w].pc = "finalize" /\ Runs(w) /\ Job(w) \in Tickets
        /\ Phase(workers[w], rows[Job(w)])
    BY PhasePending DEF Finalize, Runs
  <1>2. /\ rows[Job(w)].status = "provisioning" /\ rows[Job(w)].ip = workers[w].ip
        /\ Holds(Job(w), workers[w].ip)
    BY <1>1 DEF Phase, LeaseInv, Holding, Finishing
  <1>3. PICK id \in IpIds : id = workers[w].ip
    <2>1. workers[w].ip \in IpIds \cup {NoIp} /\ workers[w].ip # NoIp
      BY <1>1, <1>2, BusyType DEF Holds, Live
    <2>2. QED
      BY <2>1
  <1>4. leases' \in {leases, Activated(id)}
    BY <1>2, <1>3 DEF Finalize, FinalizeOk, FinalizeError, ipamVars
  <1>5. leases \in [Addrs -> Leases] /\ id.addr \in Addrs /\ Live(id) /\ leases[id.addr].ticket = Job(w)
    BY <1>2, <1>3 DEF TypeOK, IpamTypeOK, IpIds, Holds
  <1>6. leases' = [leases EXCEPT ![id.addr].state = "active"]
    BY <1>4, <1>5 DEF Activated
  <1>7. a = id.addr /\ leases'[a] = [leases[a] EXCEPT !.state = "active"]
    BY <1>5, <1>6
  <1>8. /\ leases'[a].ticket = leases[a].ticket /\ leases'[a].state = "active"
        /\ leases'[a].gen = leases[a].gen
    BY <1>5, <1>7 DEF Leases
  <1>9. QED
    BY <1>1, <1>2, <1>3, <1>5, <1>7, <1>8 DEF Live

LEMMA CompensateFrees ==
    ASSUME TypeOK, LeasesOwned, StageInv, IpamAnswers,
           NEW w \in Workers, Compensate(w), NEW a \in Addrs
    PROVE  /\ leases[a].ticket # Job(w) => leases'[a] = leases[a]
           /\ leases[a].ticket = Job(w) =>
                 leases'[a].state = "free" /\ leases'[a].ticket = NoTicket
  <1>1. /\ workers[w].pc = "compensate" /\ Job(w) \in Tickets /\ Runs(w)
        /\ workers[w].ip \in IpIds \cup {NoIp} /\ leases \in [Addrs -> Leases]
    BY BusyType DEF Compensate, At, Runs, TypeOK, IpamTypeOK
  <1>2. leases' = Released(workers[w].ip)
    BY DEF Compensate, CompensateIpam, IpamAnswers
  <1>3. ASSUME NEW b \in Addrs, leases[b].ticket = Job(w)
        PROVE  workers[w].ip = IdOf(b) /\ leases[b].state # "free"
    <2>1. leases[b].state # "free"
      BY <1>1, <1>3, ModelAssumption DEF StageInv
    <2>2. Leased(Job(w), IdOf(b), leases[b].state)
      BY <1>3, <2>1 DEF StageInv
    <2>3. QED
      BY <1>1, <2>1, <2>2 DEF Leased, Serves
  <1>4. CASE leases[a].ticket = Job(w)
    <2>0. /\ IdOf(a).addr = a /\ IdOf(a).gen = leases[a].gen /\ NoIp.addr # a
          /\ workers[w].ip = IdOf(a) /\ leases[a].state # "free"
      BY <1>3, <1>4, ModelAssumption DEF IdOf, NoIp
    <2>1. workers[w].ip.addr = a /\ Live(workers[w].ip)
      BY <2>0 DEF Live
    <2>2. QED
      BY <1>1, <1>2, <1>4, <2>1 DEF Released
  <1>5. CASE leases[a].ticket # Job(w)
    <2>1. CASE ~Live(workers[w].ip)
      BY <1>2, <1>5, <2>1 DEF Released
    <2>2. CASE Live(workers[w].ip)
      <3>1. workers[w].ip.addr \in Addrs /\ workers[w].ip # NoIp
        BY <1>1, <2>2 DEF Live, IpIds
      <3>2. leases[workers[w].ip.addr].ticket = Job(w)
        BY <1>1, <2>2, <3>1, ModelAssumption DEF LeasesOwned, OwnedBy
      <3>3. QED
        BY <1>1, <1>2, <1>5, <2>2, <3>1, <3>2 DEF Released
    <2>3. QED
      BY <2>1, <2>2
  <1>6. QED
    BY <1>4, <1>5

LEMMA WorkerStage ==
    ASSUME TypeOK, TypeOK', LeasesOwned, RunInv, RunInv', LeaseInv, StageInv,
           RunsOnce, IpamAnswers, NEW w \in Workers, WorkerStep(w) \/ Crash(w) \/ TimeLimit(w)
    PROVE  StageInv'
  <1> USE DEF At
  <1>0. /\ \A v \in Workers : v # w => workers'[v] = workers[v]
        /\ \A v \in Workers : workers[v].pc \in Holding => Runs(v)
        /\ leases \in [Addrs -> Leases] /\ leases' \in [Addrs -> Leases]
    BY WorkerTouches DEF Runs, Holding, Reserved, Providing, Finishing, TypeOK, IpamTypeOK
  (* An address that stays its ticket's. *)
  <1>1. ASSUME NEW a \in Addrs, leases[a].state # "free", leases'[a].state # "free",
               leases'[a].gen = leases[a].gen, leases'[a].ticket = leases[a].ticket,
               \/ leases'[a].state = leases[a].state
               \/ rows[leases[a].ticket].status = "provisioning",
               leases[a].ticket = Job(w) => ~Compensate(w)
        PROVE  Leased(leases[a].ticket, IdOf(a), leases[a].state)'
    <2>1. PICK t \in Tickets, state \in {"reserved", "active"} :
             t = leases[a].ticket /\ state = leases'[a].state
      BY <1>0, <1>1 DEF Leases, StageInv
    <2>2. PICK id \in [addr : Addrs, gen : Nat] : id = IdOf(a)
      BY <1>0 DEF Leases, IdOf
    <2>3. Leased(t, id, state)
      <3>1. Leased(t, id, leases[a].state)
        BY <1>1, <2>1, <2>2 DEF StageInv
      <3>2. QED
        BY <1>1, <2>1, <3>1 DEF Leased
    <2>4. Leased(t, id, state)'
      BY <1>1, <2>1, <2>3, LeasedLasts
    <2>5. IdOf(a)' = id /\ leases'[a].ticket = t /\ leases'[a].state = state
      BY <1>1, <2>1, <2>2 DEF IdOf
    <2>6. QED
      BY <2>4, <2>5 DEF Leased
  (* A worker that holds an address. *)
  <1>2. ASSUME NEW v \in Workers, workers'[v].pc \in Holding \ {"complete"}
        PROVE  leases'[workers'[v].ip.addr].state = "reserved"
    <2>1. CASE v # w
      <3>1. workers'[v] = workers[v] /\ Runs(v)
        BY <1>0, <1>2, <2>1
      <3>2. PICK t \in Tickets, id \in IpIds \cup {NoIp} : t = Job(v) /\ id = workers[v].ip
        BY <3>1, BusyType DEF Runs
      <3>3. Holds(t, id) /\ leases[id.addr].state = "reserved"
        BY <1>2, <3>1, <3>2 DEF LeaseInv, StageInv
      <3>4. CASE Runs(w)
        <4>1. t # Job(w)
          BY <2>1, <3>1, <3>2, <3>4 DEF RunInv, OneRunPerJob
        <4>2. QED
          BY <3>1, <3>2, <3>3, <4>1, OthersHold
      <3>5. CASE ~Runs(w)
        BY <3>1, <3>2, <3>3, <3>5, WorkerTouches
      <3>6. QED
        BY <3>4, <3>5
    <2>2. CASE v = w /\ workers[w].pc = "reserve"
      <3>1. PICK a \in Addrs : ReserveIp(Job(w), a) /\ workers'[w].ip = NextId(a)
        BY <1>2, <2>2, HoldingSteps
      <3>2. QED
        BY <1>0, <2>2, <3>1 DEF ReserveIp, NextId
    <2>3. CASE v = w /\ workers[w].pc # "reserve"
      <3>1. /\ workers[w].pc \in Holding /\ workers'[w].ip = workers[w].ip
            /\ workers[w].pc # "finalize"
        BY <1>2, <2>3, HoldingSteps
      <3>2. workers[w].pc # "complete"
        <4>1. workers[w].pc = "complete" => Complete(w) \/ Crash(w) \/ TimeLimit(w)
          BY DEF WorkerStep, Take, Load, NotifyStarted, Reserve, SaveIp,
             CreateVmObj, SaveObj, Mark, Provision, Find, Create, Configure, Start, SaveRef,
             Finalize, NotifyOk, Rollback, Compensate, Destroy, MarkFailed, NotifyFailed, Raise,
             Ack
        <4>2. Complete(w) \/ Crash(w) \/ TimeLimit(w) => workers'[w].pc \in {"notifyOk", "idle"}
          BY DEF Complete, Crash, TimeLimit, Goto, NoTask, TypeOK, OrchestratorTypeOK, Tasks
        <4>3. QED
          BY <1>2, <2>3, <4>1, <4>2 DEF Holding, Reserved, Providing, Finishing
      <3>3. leases' = leases /\ leases[workers[w].ip.addr].state = "reserved"
        BY <3>1, <3>2, WorkerTouches
           DEF StageInv, Holding, Reserved, Providing, Finishing
      <3>4. QED
        BY <2>3, <3>1, <3>3
    <2>4. QED
      BY <2>1, <2>2, <2>3
  <1>3. CASE leases' = leases /\ ~Compensate(w)
    <2>1. \A a \in Addrs : leases'[a].state # "free" =>
             Leased(leases[a].ticket, IdOf(a), leases[a].state)'
      BY <1>1, <1>3
    <2>2. QED
      BY <1>2, <1>3, <2>1 DEF StageInv
  <1>4. CASE Reserve(w) /\ leases' # leases
    <2>1. PICK a \in Addrs :
             /\ leases[a].state = "free" /\ leases'[a].state = "reserved"
             /\ leases'[a].ticket = Job(w)
             /\ \A b \in Addrs : b # a => leases'[b] = leases[b]
             /\ workers'[w].pc = "saveIp" /\ workers'[w].job = Job(w)
             /\ workers'[w].ip = IdOf(a)'
      BY <1>4, ReserveTakes
    <2>2. /\ Job(w) \in Tickets /\ Runs(w) /\ \A b \in Addrs : leases[b].ticket # Job(w)
          /\ ~Compensate(w)
      BY <1>4, ReserveTakes DEF Reserve, Compensate
    <2>3. Leased(Job(w), workers[w].ip, "reserved")'
      <3>1. PICK t \in Tickets : t = Job(w) /\ t = Job(w)'
        BY <2>1, <2>2 DEF Job
      <3>2. Serves(w, t)' /\ rows'[t] = NewRow
        BY <1>4, <2>1, <2>2, <3>1, PhasePending DEF Serves, Runs, Job, Reserve, Phase, Reserving
      <3>3. ~Waits(t)' /\ \A h \in Handlers : handlers'[h].job = t => handlers'[h].pc # "enqueue"
        BY <3>2 DEF RunInv, QueueInv, RequestInv, Waits, Unserved
      <3>4. \A v \in Workers : Serves(v, t)' => v = w
        BY <3>2 DEF RunInv, OneRunPerJob, Serves
      <3>5. QED
        BY <2>1, <3>1, <3>2, <3>3, <3>4 DEF Leased, NewRow, Holding, Waits
    <2>4. \A b \in Addrs : leases'[b].state # "free" =>
             Leased(leases[b].ticket, IdOf(b), leases[b].state)'
      <3>1. Leased(leases[a].ticket, IdOf(a), leases[a].state)'
        BY <2>1, <2>3 DEF Leased, Job
      <3>2. ASSUME NEW b \in Addrs, b # a, leases'[b].state # "free"
            PROVE  Leased(leases[b].ticket, IdOf(b), leases[b].state)'
        BY <1>1, <2>1, <2>2, <3>2
      <3>3. QED
        BY <3>1, <3>2
    <2>5. /\ \A b \in Addrs : leases'[b].state = "free" <=> leases'[b].ticket = NoTicket
          /\ \A b, c \in Addrs :
                leases'[b].ticket = leases'[c].ticket => b = c \/ leases'[b].state = "free"
      BY <2>1, <2>2, ModelAssumption DEF StageInv
    <2>6. QED
      BY <1>2, <2>4, <2>5 DEF StageInv
  <1>5. CASE Finalize(w)
    <2>1. \A a \in Addrs :
             \/ leases'[a] = leases[a]
             \/ /\ rows[leases[a].ticket].status = "provisioning" /\ leases[a].state # "free"
                /\ leases'[a].ticket = leases[a].ticket /\ leases'[a].state = "active"
                /\ leases'[a].gen = leases[a].gen
      BY <1>5, FinalizeSets
    <2>2. ~Compensate(w)
      BY <1>5 DEF Finalize, Compensate
    <2>3. \A a \in Addrs : leases'[a].state # "free" =>
             Leased(leases[a].ticket, IdOf(a), leases[a].state)'
      BY <1>1, <2>1, <2>2
    <2>4. /\ \A b \in Addrs : leases'[b].state = "free" <=> leases'[b].ticket = NoTicket
          /\ \A b, c \in Addrs :
                leases'[b].ticket = leases'[c].ticket => b = c \/ leases'[b].state = "free"
      BY <2>1 DEF StageInv
    <2>5. QED
      BY <1>2, <2>3, <2>4 DEF StageInv
  <1>6. CASE Compensate(w)
    <2>1. \A a \in Addrs :
             /\ leases[a].ticket # Job(w) => leases'[a] = leases[a]
             /\ leases[a].ticket = Job(w) =>
                   leases'[a].state = "free" /\ leases'[a].ticket = NoTicket
      BY <1>6, CompensateFrees
    <2>2. \A a \in Addrs : leases'[a].state # "free" =>
             Leased(leases[a].ticket, IdOf(a), leases[a].state)'
      BY <1>1, <2>1
    <2>3. /\ \A b \in Addrs : leases'[b].state = "free" <=> leases'[b].ticket = NoTicket
          /\ \A b, c \in Addrs :
                leases'[b].ticket = leases'[c].ticket => b = c \/ leases'[b].state = "free"
      BY <2>1 DEF StageInv
    <2>4. QED
      BY <1>2, <2>2, <2>3 DEF StageInv
  <1>7. QED
    BY <1>3, <1>4, <1>5, <1>6, LeasesAlone DEF Reserve, Compensate

LEMMA StepKeepsStage ==
    ASSUME RunsOnce, IpamAnswers
    PROVE  TypeOK /\ TypeOK' /\ LeasesOwned /\ RunInv /\ RunInv' /\ LeaseInv /\ StageInv
           /\ [Next]_vars => StageInv'
  <1> SUFFICES ASSUME TypeOK, TypeOK', LeasesOwned, RunInv, RunInv', LeaseInv, StageInv,
                      [Next]_vars
               PROVE  StageInv'
    OBVIOUS
  <1>1. CASE UNCHANGED vars \/ HypervisorStep
    BY <1>1 DEF vars, HypervisorStep, intakeVars, orchestratorVars, ipamVars, StageInv, Leased, IdOf, Waits,
                Serves, Runs, Job
  <1>2. ASSUME UNCHANGED backendVars, NEW h \in Handlers,
               \/ \E t \in Tickets : Receive(h, t)
               \/ InsertJob(h) \/ ResetJob(h) \/ Enqueue(h) \/ Abandon(h)
        PROVE  StageInv'
    <2>1. UNCHANGED <<workers, leases>>
      BY <1>2 DEF backendVars, orchestratorVars, ipamVars
    <2>2. ASSUME NEW a \in Addrs, leases[a].state # "free"
          PROVE  Leased(leases[a].ticket, IdOf(a), leases[a].state)'
      <3>1. PICK t \in Tickets, id \in [addr : Addrs, gen : Nat], state \in {"reserved", "active"} :
               t = leases[a].ticket /\ id = IdOf(a) /\ state = leases[a].state
        BY <2>2 DEF StageInv, TypeOK, IpamTypeOK, Leases, IdOf
      <3>2. Leased(t, id, state)
        BY <2>2, <3>1 DEF StageInv
      <3>3. Leased(t, id, state)'
        BY <1>2, <2>1, <3>2, RequestLeased
      <3>4. IdOf(a)' = id /\ leases'[a].ticket = t /\ leases'[a].state = state
        BY <2>1, <3>1 DEF IdOf
      <3>5. QED
        BY <3>3, <3>4 DEF Leased
    <2>3. QED
      BY <2>1, <2>2 DEF StageInv
  <1>3. QED
    BY <1>1, <1>2, WorkerStage DEF Next, Step

LEMMA StageInvariant ==
    ASSUME RunsOnce, IpamAnswers
    PROVE  Spec => [](TypeOK /\ LeasesOwned /\ RunInv /\ LeaseInv /\ StageInv)
  <1>1. Init => StageInv
    BY DEF Init, IpamInit, OrchestratorInit, NoTask, StageInv, Holding, Reserved, Providing,
           Finishing
  <1>2. QED
    BY TypeCorrect, LeasesStayOwned, LeaseInvariant, StepKeepsStage, <1>1, PTL DEF Spec

(* An address that is reserved stays known: to the run that reserved it    *)
(* until that run stores or releases it, to the row from then on.          *)
Held(a) ==
    \/ rows[leases[a].ticket].ip = IdOf(a)
    \/ \E v \in Workers : Serves(v, leases[a].ticket) /\ workers[v].ip = IdOf(a)

LEMMA WorkerKeepsHeld ==
    ASSUME TypeOK, LeasesOwned, RunInv, LeaseInv, StageInv, LeasesHeld,
           RunsOnce, IpamAnswers, "timeLimit" \notin Faults,
           NEW w \in Workers, WorkerStep(w) \/ Crash(w) \/ TimeLimit(w),
           NEW a \in Addrs, leases'[a].state # "free"
    PROVE  Held(a)'
  <1>0. ~Crash(w) /\ ~TimeLimit(w)
    BY DEF Crash, TimeLimit, RunsOnce
  (* An address that was there before. *)
  <1>1. ASSUME leases[a].state # "free", leases'[a].gen = leases[a].gen,
               leases'[a].ticket = leases[a].ticket, leases[a].ticket = Job(w) => ~Compensate(w)
        PROVE  Held(a)'
    <2>1. PICK t \in Tickets, id \in [addr : Addrs, gen : Nat] :
             t = leases[a].ticket /\ id = IdOf(a) /\ t = leases'[a].ticket /\ id = IdOf(a)'
      BY <1>1 DEF StageInv, TypeOK, IpamTypeOK, Leases, IdOf
    <2>2. Leased(t, id, leases[a].state)
      BY <1>1, <2>1 DEF StageInv
    <2>3. Serves(w, t) => ~MarkFailed(w) /\ workers[w].ip = id
                          /\ workers[w].pc \in Holding \cup {"compensate"}
      BY <2>2 DEF Leased, MarkFailed, At, Holding, Reserved, Providing, Finishing
    <2>4. CASE rows[t].ip = id
      <3>1. CASE rows'[t].ip = rows[t].ip
        BY <2>1, <2>4, <3>1 DEF Held
      <3>2. CASE rows'[t].ip # rows[t].ip
        <4>1. t = Job(w) /\ (MarkFailed(w) \/ (SaveIp(w) /\ rows'[t].ip = workers[w].ip))
          BY <3>2, IpSteps
        <4>2. Serves(w, t)
          BY <4>1 DEF Serves, Runs, MarkFailed, SaveIp, At
        <4>3. QED
          BY <2>1, <2>3, <4>1, <4>2 DEF Held
      <3>3. QED
        BY <3>1, <3>2
    <2>5. ASSUME NEW v \in Workers, Serves(v, t), workers[v].ip = id
          PROVE  \/ rows'[t].ip = id
                 \/ Serves(v, t)' /\ workers'[v].ip = id
      <3>1. CASE v # w
        BY <2>5, <3>1, WorkerTouches DEF Serves, Runs, Job
      <3>2. CASE v = w
        <4>1. GoesOn(w)
          <5>1. ~Ack(w) /\ \A m \in Messages : ~Take(w, m)
            BY <2>5, <3>2 DEF Ack, Take, At, Serves, Runs
          <5>2. QED
            BY <1>0, <5>1, TaskSteps
        <4>2. /\ workers'[w].ip = id /\ workers'[w].job = t
              /\ workers'[w].pc \in Holding \cup {"compensate"} \/ Complete(w)
          BY <1>1, <2>1, <2>3, <2>5, <3>2, <4>1 DEF GoesOn, Serves, Job
        <4>3. CASE Complete(w)
          <5>1. workers[w].ip = rows[t].ip
            BY <2>5, <3>2, <4>3, PhasePending
               DEF Complete, At, Serves, Phase, Holding, Finishing
          <5>2. rows'[t].ip = rows[t].ip
            BY <4>3, IpSteps DEF Complete, SaveIp, MarkFailed, At
          <5>3. QED
            BY <2>5, <3>2, <5>1, <5>2
        <4>4. CASE workers'[w].pc \in Holding \cup {"compensate"}
          BY <3>2, <4>2, <4>4 DEF Serves, Runs, Job, Holding, Reserved, Providing, Finishing
        <4>5. QED
          BY <4>2, <4>3, <4>4
      <3>3. QED
        BY <3>1, <3>2
    <2>6. rows[t].ip = id \/ \E v \in Workers : Serves(v, t) /\ workers[v].ip = id
      BY <1>1, <2>1 DEF LeasesHeld, Serves, IdOf
    <2>7. QED
      BY <2>1, <2>4, <2>5, <2>6 DEF Held, Serves, Runs, Job
  <1>2. CASE leases' = leases /\ ~Compensate(w)
    BY <1>1, <1>2
  <1>3. CASE Reserve(w) /\ leases' # leases
    <2>1. PICK b \in Addrs :
             /\ leases[b].state = "free" /\ leases'[b].ticket = Job(w)
             /\ \A c \in Addrs : c # b => leases'[c] = leases[c]
             /\ workers'[w].pc = "saveIp" /\ workers'[w].job = Job(w)
             /\ workers'[w].ip = IdOf(b)'
      BY <1>3, ReserveTakes
    <2>2. CASE a = b
      BY <2>1, <2>2 DEF Held, Serves, Runs, Job
    <2>3. CASE a # b
      BY <1>1, <1>3, <2>1, <2>3 DEF Reserve, Compensate, At
    <2>4. QED
      BY <2>2, <2>3
  <1>4. CASE Finalize(w)
    <2>1. \/ leases'[a] = leases[a]
          \/ /\ leases[a].state # "free" /\ leases'[a].ticket = leases[a].ticket
             /\ leases'[a].gen = leases[a].gen
      BY <1>4, FinalizeSets
    <2>2. QED
      BY <1>1, <1>4, <2>1 DEF Finalize, Compensate, At
  <1>5. CASE Compensate(w)
    BY <1>1, <1>5, CompensateFrees
  <1>6. QED
    BY <1>2, <1>3, <1>4, <1>5, LeasesAlone DEF Reserve, Compensate, At

LEMMA StepKeepsHeld ==
    ASSUME RunsOnce, IpamAnswers, "timeLimit" \notin Faults
    PROVE  TypeOK /\ LeasesOwned /\ RunInv /\ LeaseInv /\ StageInv /\ LeasesHeld /\ [Next]_vars
              => LeasesHeld'
  <1> SUFFICES ASSUME TypeOK, LeasesOwned, RunInv, LeaseInv, StageInv, LeasesHeld, [Next]_vars
               PROVE  LeasesHeld'
    OBVIOUS
  <1>1. CASE UNCHANGED vars \/ HypervisorStep
    BY <1>1 DEF vars, HypervisorStep, orchestratorVars, ipamVars, LeasesHeld, Runs, Job
  <1>2. ASSUME UNCHANGED backendVars, NEW h \in Handlers,
               \/ \E t \in Tickets : Receive(h, t)
               \/ InsertJob(h) \/ ResetJob(h) \/ Enqueue(h) \/ Abandon(h)
        PROVE  LeasesHeld'
    <2>1. UNCHANGED <<workers, leases>>
      BY <1>2 DEF backendVars, orchestratorVars, ipamVars
    <2>2. ASSUME NEW a \in Addrs, leases[a].state # "free"
          PROVE  rows'[leases[a].ticket] = rows[leases[a].ticket]
      <3>1. PICK t \in Tickets : t = leases[a].ticket
        BY <2>2 DEF StageInv, TypeOK, IpamTypeOK, Leases
      <3>2. rows[t].status \notin {"absent", "failed"}
        BY <2>2, <3>1 DEF StageInv, Leased
      <3>3. QED
        BY <1>2, <3>1, <3>2, RequestTouches
    <2>3. QED
      BY <2>1, <2>2 DEF LeasesHeld, Runs, Job
  <1>3. ASSUME NEW w \in Workers, WorkerStep(w) \/ Crash(w) \/ TimeLimit(w)
        PROVE  LeasesHeld'
    <2>1. \A a \in Addrs : leases'[a].state # "free" => Held(a)'
      BY <1>3, WorkerKeepsHeld
    <2>2. QED
      BY <2>1 DEF Held, Serves, IdOf, LeasesHeld
  <1>4. QED
    BY <1>1, <1>2, <1>3 DEF Next, Step

(* No address leaks while the IPAM answers and a run ends by itself: every *)
(* failure of the hypervisor, of the finalization or of OTOBO, a failed    *)
(* start of the saga and a request that dies before it enqueues included.  *)
THEOREM NoAddressLeaks ==
    ASSUME RunsOnce, IpamAnswers, "timeLimit" \notin Faults
    PROVE  Spec => []LeasesHeld
  <1>1. Init => LeasesHeld
    BY DEF Init, IpamInit, LeasesHeld
  <1>2. QED
    BY <1>1, StageInvariant, StepKeepsHeld, PTL DEF Spec

-----------------------------------------------------------------------------
(* The lifecycle of JobLifecycle                                           *)

(* The lease of a ticket is the state of its one address, if it has one.   *)
StateIn(all, t) ==
    IF \E a \in Addrs : all[a].ticket = t
    THEN all[CHOOSE a \in Addrs : all[a].ticket = t].state
    ELSE "none"

LEMMA StateInIs ==
    ASSUME NEW all, NEW t \in Tickets,
           \A a, b \in Addrs : all[a].ticket = t /\ all[b].ticket = t => a = b
    PROVE  /\ \A a \in Addrs : all[a].ticket = t => StateIn(all, t) = all[a].state
           /\ (\A a \in Addrs : all[a].ticket # t) => StateIn(all, t) = "none"
  BY DEF StateIn

LEMMA StateOf ==
    ASSUME StageInv, NEW t \in Tickets
    PROVE  /\ \A a \in Addrs : leases[a].ticket = t => LeaseState(t) = leases[a].state
           /\ (\A a \in Addrs : leases[a].ticket # t) => LeaseState(t) = "none"
  <1>1. \A a, b \in Addrs : leases[a].ticket = t /\ leases[b].ticket = t => a = b
    BY ModelAssumption DEF StageInv
  <1>2. LeaseState(t) = StateIn(leases, t)
    BY DEF LeaseState, StateIn
  <1>3. QED
    BY <1>1, <1>2, StateInIs

LEMMA StateOfNext ==
    ASSUME StageInv', NEW t \in Tickets
    PROVE  /\ \A a \in Addrs : leases'[a].ticket = t => LeaseState(t)' = leases'[a].state
           /\ (\A a \in Addrs : leases'[a].ticket # t) => LeaseState(t)' = "none"
  <1>1. PICK all : all = leases'
    OBVIOUS
  <1>2. \A a, b \in Addrs : all[a].ticket = t /\ all[b].ticket = t => a = b
    BY <1>1, ModelAssumption DEF StageInv
  <1>3. LeaseState(t)' = StateIn(all, t)
    BY <1>1 DEF LeaseState, StateIn
  <1>4. QED
    BY <1>1, <1>2, <1>3, StateInIs

(* A step on the address of one ticket leaves the other tickets' leases.   *)
LEMMA OthersKeepLease ==
    ASSUME StageInv, StageInv', NEW j \in Tickets,
           \A a \in Addrs : \/ leases'[a] = leases[a]
                            \/ /\ leases[a].ticket \in {j, NoTicket}
                               /\ leases'[a].ticket \in {j, NoTicket},
           NEW t \in Tickets, t # j
    PROVE  LeaseState(t)' = LeaseState(t)
  <1>1. CASE \E a \in Addrs : leases[a].ticket = t
    <2>1. PICK a \in Addrs : leases[a].ticket = t
      BY <1>1
    <2>2. leases'[a] = leases[a]
      BY <2>1, ModelAssumption
    <2>3. QED
      BY <2>1, <2>2, StateOf, StateOfNext
  <1>2. CASE \A a \in Addrs : leases[a].ticket # t
    <2>1. \A a \in Addrs : leases'[a].ticket # t
      BY <1>2, ModelAssumption
    <2>2. QED
      BY <1>2, <2>1, StateOf, StateOfNext
  <1>3. QED
    BY <1>1, <1>2

(* What the lifecycle sees of a ticket.                                    *)
StatusOf == [t \in Tickets |-> rows[t].status]
LeaseOf == [t \in Tickets |-> LeaseState(t)]

(* A worker that holds an address: the lease of its ticket.                *)
LEMMA HoldingLease ==
    ASSUME TypeOK, RunInv, LeaseInv, StageInv, NEW w \in Workers, workers[w].pc \in Holding
    PROVE  /\ Job(w) \in Tickets
           /\ LeaseState(Job(w)) = leases[workers[w].ip.addr].state
           /\ workers[w].pc # "complete" => LeaseState(Job(w)) = "reserved"
           /\ workers[w].pc = "complete" => LeaseState(Job(w)) = "active"
  <1>1. Runs(w) /\ Holds(Job(w), workers[w].ip)
    BY DEF Runs, Holding, Reserved, Providing, Finishing, LeaseInv
  <1>2. Job(w) \in Tickets /\ workers[w].ip \in IpIds
    <2>1. workers[w].ip \in IpIds \cup {NoIp} /\ workers[w].ip # NoIp /\ Job(w) \in Tickets
      BY <1>1, BusyType DEF Runs, Holds, Live
    <2>2. QED
      BY <2>1
  <1>3. PICK t \in Tickets, a \in Addrs : t = Job(w) /\ a = workers[w].ip.addr
    BY <1>2 DEF IpIds
  <1>4. LeaseState(t) = leases[a].state
    BY <1>1, <1>3, StateOf DEF Holds
  <1>5. QED
    BY <1>3, <1>4 DEF LeaseInv, StageInv, At

(* The steps that move the status are those of the lifecycle.              *)
LEMMA StatusMoves ==
    ASSUME TypeOK, RunInv, LeaseInv, StageInv, NEW w \in Workers,
           WorkerStep(w) \/ Crash(w) \/ TimeLimit(w), StatusOf' # StatusOf
    PROVE  Lifecycle!Next
  <1> USE DEF At
  <1>1. PICK t \in Tickets : rows'[t].status # rows[t].status
    BY DEF StatusOf
  <1>2. /\ t = Job(w)
        /\ \/ SaveIp(w) /\ rows'[t].status = "ip_reserved"
           \/ Mark(w) /\ rows'[t].status = "provisioning"
           \/ Complete(w) /\ rows'[t].status = "completed"
           \/ MarkFailed(w) /\ rows'[t].status = "failed"
    BY <1>1, StatusSteps
  <1>3. /\ LeaseOf' = LeaseOf
        /\ \A new : rows'[t].status = new => StatusOf' = [StatusOf EXCEPT ![t] = new]
    <2>1. leases' = leases
      BY <1>2 DEF SaveIp, Mark, Complete, MarkFailed
    <2>2. \A u \in Tickets : u # t => rows'[u] = rows[u]
      BY <1>2, WorkerTouches
    <2>3. QED
      BY <2>1, <2>2 DEF LeaseOf, LeaseState, StatusOf
  <1>4. Runs(w) /\ Phase(workers[w], rows[t]) /\ StatusOf[t] = rows[t].status
        /\ LeaseOf[t] = LeaseState(t)
    <2>1. Runs(w)
      BY <1>2 DEF SaveIp, Mark, Complete, MarkFailed, Runs
    <2>2. QED
      BY <1>2, <2>1, PhasePending DEF StatusOf, LeaseOf
  <1>5. CASE SaveIp(w) /\ rows'[t].status = "ip_reserved"
    <2>1. rows[t].status = "queued" /\ LeaseState(t) = "reserved"
      BY <1>2, <1>4, <1>5, HoldingLease DEF SaveIp, Phase, Reserving, NewRow, Holding
    <2>2. Lifecycle!Advance(t)
      BY <1>3, <1>4, <1>5, <2>1 DEF Lifecycle!Advance, Lifecycle!Move, StatusOf, LeaseOf
    <2>3. QED
      BY <2>2 DEF Lifecycle!Next
  <1>6. CASE Mark(w) /\ rows'[t].status = "provisioning"
    <2>1. rows[t].status = "ip_reserved" /\ LeaseState(t) = "reserved"
      BY <1>2, <1>4, <1>6, HoldingLease DEF Mark, Phase, Reserved, Holding
    <2>2. Lifecycle!Advance(t)
      BY <1>3, <1>4, <1>6, <2>1 DEF Lifecycle!Advance, Lifecycle!Move, StatusOf, LeaseOf
    <2>3. QED
      BY <2>2 DEF Lifecycle!Next
  <1>7. CASE Complete(w) /\ rows'[t].status = "completed"
    <2>1. rows[t].status = "provisioning" /\ LeaseState(t) = "active"
      BY <1>2, <1>4, <1>7, HoldingLease DEF Complete, Phase, Finishing, Holding
    <2>2. Lifecycle!Complete(t)
      BY <1>3, <1>4, <1>7, <2>1 DEF Lifecycle!Complete, Lifecycle!Move, StatusOf, LeaseOf
    <2>3. QED
      BY <2>2 DEF Lifecycle!Next
  <1>8. CASE MarkFailed(w) /\ rows'[t].status = "failed"
    <2>1. rows[t].status \in {"queued", "provisioning"} /\ LeaseState(t) = "none"
      <3>1. workers[w].pc = "markFailed" /\ Serves(w, t)
        BY <1>2, <1>4, <1>8 DEF MarkFailed, Serves
      <3>2. ASSUME NEW a \in Addrs, leases[a].ticket = t PROVE FALSE
        <4>1. leases[a].state # "free"
          BY <3>2, ModelAssumption DEF StageInv
        <4>2. QED
          BY <3>1, <3>2, <4>1 DEF StageInv, Leased, Holding, Reserved, Providing, Finishing
      <3>3. QED
        BY <1>4, <3>1, <3>2, StateOf DEF Phase, Undoing
    <2>2. Lifecycle!Fail(t)
      BY <1>3, <1>4, <1>8, <2>1 DEF Lifecycle!Fail, Lifecycle!Move, StatusOf, LeaseOf
    <2>3. QED
      BY <2>2 DEF Lifecycle!Next
  <1>9. QED
    BY <1>2, <1>5, <1>6, <1>7, <1>8

(* The steps that leave the status move a lease as the lifecycle does.     *)
LEMMA LeaseMoves ==
    ASSUME TypeOK, LeasesOwned, RunInv, LeaseInv, StageInv, StageInv', IpamAnswers,
           NEW w \in Workers, WorkerStep(w) \/ Crash(w) \/ TimeLimit(w), StatusOf' = StatusOf
    PROVE  Lifecycle!Next \/ LeaseOf' = LeaseOf
  <1> USE DEF At
  (* One ticket's lease becomes state. *)
  <1>1. ASSUME NEW j \in Tickets, NEW state,
               \A a \in Addrs : \/ leases'[a] = leases[a]
                                \/ /\ leases[a].ticket \in {j, NoTicket}
                                   /\ leases'[a].ticket \in {j, NoTicket},
               LeaseState(j)' = state
        PROVE  LeaseOf' = [LeaseOf EXCEPT ![j] = state] /\ LeaseOf[j] = LeaseState(j)
               /\ StatusOf[j] = rows[j].status
    <2>1. \A t \in Tickets : t # j => LeaseState(t)' = LeaseState(t)
      BY <1>1, OthersKeepLease
    <2>2. QED
      BY <1>1, <2>1 DEF LeaseOf, StatusOf
  <1>2. CASE leases' = leases
    BY <1>2 DEF LeaseOf, LeaseState
  <1>3. CASE Reserve(w) /\ leases' # leases
    <2>1. /\ Job(w) \in Tickets /\ Runs(w) /\ workers[w].pc = "reserve"
          /\ \A b \in Addrs : leases[b].ticket # Job(w)
      BY <1>3, ReserveTakes DEF Reserve
    <2>2. PICK a \in Addrs :
             /\ leases[a].state = "free" /\ leases'[a].state = "reserved"
             /\ leases'[a].ticket = Job(w)
             /\ \A b \in Addrs : b # a => leases'[b] = leases[b]
      BY <1>3, ReserveTakes
    <2>3. PICK j \in Tickets : j = Job(w)
      BY <2>1
    <2>4. LeaseState(j) = "none" /\ LeaseState(j)' = "reserved"
      BY <2>1, <2>2, <2>3, StateOf, StateOfNext
    <2>5. leases[a].ticket = NoTicket
      BY <2>2 DEF StageInv
    <2>6. rows[j].status = "queued"
      BY <2>1, <2>3, PhasePending DEF Phase, Reserving, NewRow
    <2>7. Lifecycle!Acquire(j)
      <3>1. LeaseOf' = [LeaseOf EXCEPT ![j] = "reserved"] /\ LeaseOf[j] = "none"
            /\ StatusOf[j] = "queued"
        BY <1>1, <2>2, <2>3, <2>4, <2>5, <2>6
      <3>2. QED
        BY <3>1 DEF Lifecycle!Acquire, LeaseOf, StatusOf
    <2>8. QED
      BY <2>7 DEF Lifecycle!Next
  <1>4. CASE Finalize(w) /\ leases' # leases
    <2>1. PICK a \in Addrs : leases'[a] # leases[a]
      BY <1>4 DEF Finalize, FinalizeOk, FinalizeError, ipamVars, Activated, TypeOK, IpamTypeOK
    <2>2. /\ Job(w) \in Tickets /\ Runs(w) /\ rows[Job(w)].status = "provisioning"
          /\ workers[w].pc = "finalize"
          /\ leases[a].ticket = Job(w)
          /\ leases'[a].ticket = Job(w) /\ leases'[a].state = "active"
      BY <1>4, <2>1, FinalizeSets
    <2>3. \A b \in Addrs : \/ leases'[b] = leases[b]
                           \/ leases[b].ticket = Job(w) /\ leases'[b].ticket = Job(w)
      BY <1>4, FinalizeSets
    <2>4. PICK j \in Tickets : j = Job(w)
      BY <2>2
    <2>5. LeaseState(j) = "reserved" /\ LeaseState(j)' = "active"
      BY <2>2, <2>4, HoldingLease, StateOfNext DEF Holding, Finishing
    <2>6. Lifecycle!Activate(j)
      <3>1. LeaseOf' = [LeaseOf EXCEPT ![j] = "active"] /\ LeaseOf[j] = "reserved"
            /\ StatusOf[j] = "provisioning"
        BY <1>1, <2>2, <2>3, <2>4, <2>5
      <3>2. QED
        BY <3>1 DEF Lifecycle!Activate, LeaseOf, StatusOf
    <2>7. QED
      BY <2>6 DEF Lifecycle!Next
  <1>5. CASE Compensate(w) /\ leases' # leases
    <2>1. \A a \in Addrs : /\ leases[a].ticket # Job(w) => leases'[a] = leases[a]
                           /\ leases[a].ticket = Job(w) => leases'[a].ticket = NoTicket
      BY <1>5, CompensateFrees
    <2>2. PICK a \in Addrs : leases'[a] # leases[a]
      BY <1>5 DEF Compensate, CompensateIpam, IpamAnswers, Released, TypeOK, IpamTypeOK
    <2>3. PICK j \in Tickets : j = Job(w)
      BY <1>5, BusyType DEF Compensate
    <2>4. workers[w].ip = IdOf(a) /\ Phase(workers[w], rows[j]) /\ workers[w].pc = "compensate"
      <3>1. Serves(w, j) /\ workers[w].pc = "compensate"
        BY <1>5, <2>3 DEF Compensate, Serves, Runs
      <3>2. leases[a].ticket = j /\ leases[a].state # "free"
        BY <2>1, <2>2, <2>3, ModelAssumption DEF StageInv
      <3>3. QED
        BY <2>3, <3>1, <3>2, PhasePending DEF StageInv, Leased, Serves
    <2>5. rows[j].status = "provisioning"
      <3>1. workers[w].ip # NoIp
        <4>1. IdOf(a).addr = a /\ NoIp.addr = NoAddr
          BY DEF IdOf, NoIp
        <4>2. QED
          BY <2>4, <4>1, ModelAssumption
      <3>2. QED
        BY <2>4, <3>1 DEF Phase, Undoing
    <2>6. LeaseState(j)' = "none"
      <3>1. \A b \in Addrs : leases'[b].ticket # j
        BY <2>1, <2>3, ModelAssumption
      <3>2. QED
        BY <3>1, StateOfNext
    <2>7. Lifecycle!Release(j)
      <3>1. LeaseOf' = [LeaseOf EXCEPT ![j] = "none"] /\ StatusOf[j] = "provisioning"
        BY <1>1, <2>1, <2>3, <2>5, <2>6
      <3>2. QED
        BY <3>1 DEF Lifecycle!Release, LeaseOf, StatusOf
    <2>8. QED
      BY <2>7 DEF Lifecycle!Next
  <1>6. QED
    BY <1>2, <1>3, <1>4, <1>5, LeasesAlone

LEMMA RequestMoves ==
    ASSUME TypeOK, RunInv, StageInv, UNCHANGED backendVars, NEW h \in Handlers,
           \/ \E t \in Tickets : Receive(h, t)
           \/ InsertJob(h) \/ ResetJob(h) \/ Enqueue(h) \/ Abandon(h)
    PROVE  Lifecycle!Next \/ (StatusOf' = StatusOf /\ LeaseOf' = LeaseOf)
  <1>1. LeaseOf' = LeaseOf
    BY DEF backendVars, ipamVars, LeaseOf, LeaseState
  <1>2. CASE \A t \in Tickets : rows'[t] = rows[t]
    BY <1>1, <1>2 DEF StatusOf
  <1>3. ASSUME NEW t \in Tickets, rows'[t] # rows[t]
        PROVE  Lifecycle!Approve(t)
    <2>1. /\ rows'[t] = NewRow /\ rows[t].status \in {"absent", "failed"}
          /\ \A u \in Tickets : u # t => rows'[u] = rows[u]
      BY <1>3, RequestTouches
    <2>2. StatusOf[t] \in {"absent", "failed"}
      BY <2>1 DEF StatusOf
    <2>3. StatusOf' = [StatusOf EXCEPT ![t] = "queued"]
      <3>1. rows'[t].status = "queued" /\ \A u \in Tickets : u # t => rows'[u].status = rows[u].status
        BY <2>1 DEF NewRow
      <3>2. QED
        BY <3>1 DEF StatusOf
    <2>4. QED
      BY <1>1, <2>2, <2>3 DEF Lifecycle!Approve, Lifecycle!Move, StatusOf, LeaseOf
  <1>4. QED
    BY <1>2, <1>3 DEF Lifecycle!Next

LEMMA InitLifecycle == Init => Lifecycle!Init
  <1> SUFFICES ASSUME Init PROVE Lifecycle!Init
    OBVIOUS
  <1>1. \A t \in Tickets : rows[t].status = "absent"
    BY DEF Init, StoreInit, NoRow
  <1>2. \A t \in Tickets : LeaseState(t) = "none"
    BY ModelAssumption DEF Init, IpamInit, LeaseState
  <1>3. QED
    BY <1>1, <1>2 DEF Lifecycle!Init

(* Seen from outside, every ticket goes through the lifecycle the          *)
(* documentation promises: one address, reserved before the job advances   *)
(* and active before it is completed, given back before it is failed.      *)
(* Kills by the time limit, requests that die and all failures of the      *)
(* hypervisor, of the finalization and of OTOBO are allowed.               *)
THEOREM SagaFollowsLifecycle ==
    ASSUME RunsOnce, IpamAnswers
    PROVE  Spec => ImplementsLifecycle
  <1> DEFINE IInv == TypeOK /\ LeasesOwned /\ RunInv /\ LeaseInv /\ StageInv
  <1>1. Init => Lifecycle!Init
    BY InitLifecycle
  <1>2. IInv /\ IInv' /\ [Next]_vars => [Lifecycle!Next]_(Lifecycle!vars)
    <2> SUFFICES ASSUME IInv, IInv', [Next]_vars PROVE [Lifecycle!Next]_(Lifecycle!vars)
      OBVIOUS
    <2>1. Lifecycle!Next \/ (StatusOf' = StatusOf /\ LeaseOf' = LeaseOf)
      <3>1. CASE UNCHANGED vars \/ HypervisorStep
        BY <3>1 DEF vars, HypervisorStep, ipamVars, StatusOf, LeaseOf, LeaseState
      <3>2. ASSUME NEW w \in Workers, WorkerStep(w) \/ Crash(w) \/ TimeLimit(w)
            PROVE  Lifecycle!Next \/ (StatusOf' = StatusOf /\ LeaseOf' = LeaseOf)
        BY <3>2, StatusMoves, LeaseMoves
      <3>3. QED
        BY <3>1, <3>2, RequestMoves DEF Next, Step
    <2>2. QED
      BY <2>1 DEF Lifecycle!vars, StatusOf, LeaseOf
  <1>3. Spec => []IInv
    BY StageInvariant
  <1> HIDE DEF IInv
  <1>4. QED
    BY <1>1, <1>2, <1>3, PTL DEF Spec, ImplementsLifecycle, Lifecycle!Spec
=============================================================================
