---------------------------- MODULE LeaseProofs ----------------------------
(***************************************************************************)
(* Address objects never change hands, for every number of tickets,        *)
(* addresses, workers and requests and under all faults.  The argument:    *)
(* an address object gets a generation no reference has yet (Reserve), and *)
(* keeps its ticket until it is deleted; so a reference that was right     *)
(* when it was stored is right or dangling ever after, and every reference *)
(* that moves between the IPAM's answer, the task and the row stays with   *)
(* the ticket it was reserved for.                                         *)
(***************************************************************************)
EXTENDS ProvisioningProofs

(* How an address may change: a new object, or the same one going on.      *)
LeasesEvolve ==
    \A a \in Addrs :
        \/ leases'[a].gen > leases[a].gen
        \/ /\ leases'[a].gen = leases[a].gen
           /\ leases'[a].state # "free" =>
                 leases[a].state # "free" /\ leases'[a].ticket = leases[a].ticket

(* A reference that is right stays right.                                  *)
LEMMA OwnershipLasts ==
    ASSUME TypeOK, TypeOK', LeasesEvolve,
           NEW t \in Tickets, NEW id \in IpIds \cup {NoIp}, OwnedBy(t, id)
    PROVE  OwnedBy(t, id)'
  <1>1. CASE id = NoIp
    BY <1>1 DEF OwnedBy
  <1>2. CASE id # NoIp
    <2>1. id \in IpIds /\ id.addr \in Addrs /\ id.gen \in Nat
      BY <1>2 DEF IpIds
    <2>2. leases[id.addr].gen \in Nat /\ leases'[id.addr].gen \in Nat
      BY <2>1 DEF TypeOK, IpamTypeOK, Leases
    <2>3. id.gen <= leases[id.addr].gen
      BY <1>2 DEF OwnedBy
    <2>4. CASE leases'[id.addr].gen > leases[id.addr].gen
      BY <1>2, <2>2, <2>1, <2>3, <2>4 DEF OwnedBy, Live
    <2>5. CASE /\ leases'[id.addr].gen = leases[id.addr].gen
               /\ leases'[id.addr].state # "free" =>
                     /\ leases[id.addr].state # "free"
                     /\ leases'[id.addr].ticket = leases[id.addr].ticket
      BY <1>2, <2>3, <2>5 DEF OwnedBy, Live
    <2>6. QED
      BY <2>1, <2>4, <2>5 DEF LeasesEvolve
  <1>3. QED
    BY <1>1, <1>2

(* The worker's step on the IPAM: what each call may do to the addresses.  *)
LEMMA ReserveEvolves ==
    ASSUME TypeOK, NEW t \in Tickets, NEW a \in Addrs, ReserveIp(t, a),
           NEW id, id = NextId(a)
    PROVE  LeasesEvolve /\ id \in IpIds /\ OwnedBy(t, id)'
  <1>1. leases \in [Addrs -> Leases] /\ leases[a].gen \in Nat
    BY DEF TypeOK, IpamTypeOK, Leases
  <1>2. leases' = [leases EXCEPT ![a] =
                     [gen |-> leases[a].gen + 1, state |-> "reserved", ticket |-> t]]
    BY DEF ReserveIp
  <1>3. LeasesEvolve
    BY <1>1, <1>2 DEF LeasesEvolve
  <1>4. id \in IpIds /\ id.addr = a /\ id.gen = leases[a].gen + 1
    BY <1>1 DEF NextId, IpIds
  <1>5. leases'[a].gen = leases[a].gen + 1 /\ leases'[a].ticket = t
    BY <1>1, <1>2
  <1>6. QED
    BY <1>1, <1>3, <1>4, <1>5 DEF OwnedBy, Live

(* Deleting or activating an address object: only that object changes.     *)
LEMMA CallEvolves ==
    ASSUME TypeOK, NEW id \in IpIds \cup {NoIp},
           leases' \in {leases, Released(id), Activated(id)}
    PROVE  /\ LeasesEvolve
           /\ \A a \in Addrs : leases'[a] # leases[a] => a = id.addr /\ Live(id)
  <1>1. leases \in [Addrs -> Leases]
    BY DEF TypeOK, IpamTypeOK
  <1>2. CASE leases' = leases
    BY <1>2 DEF LeasesEvolve
  <1>3. CASE leases' = Released(id)
    BY <1>1, <1>3 DEF LeasesEvolve, Released, Leases
  <1>4. CASE leases' = Activated(id)
    BY <1>1, <1>4 DEF LeasesEvolve, Activated, Live, Leases
  <1>5. QED
    BY <1>2, <1>3, <1>4

(* What a step that does not touch the references of others leaves intact. *)
LEMMA WorkerOwns ==
    ASSUME TypeOK, TypeOK', LeasesOwned, LeasesEvolve,
           NEW w \in Workers, NEW task \in Tasks,
           workers' = [workers EXCEPT ![w] = task],
           task.job # NoTicket => OwnedBy(task.job, task.ip)',
           \A t \in Tickets : rows'[t].ip = rows[t].ip \/ OwnedBy(t, rows[t].ip)'
    PROVE  LeasesOwned'
  <1>1. ASSUME NEW t \in Tickets PROVE OwnedBy(t, rows[t].ip)'
    <2>1. CASE rows'[t].ip = rows[t].ip
      <3>1. PICK id \in IpIds \cup {NoIp} : id = rows[t].ip
        BY DEF TypeOK, StoreTypeOK, Rows
      <3>2. OwnedBy(t, id)
        BY <3>1 DEF LeasesOwned
      <3>3. OwnedBy(t, id)'
        BY <3>2, OwnershipLasts
      <3>4. QED
        BY <2>1, <3>1, <3>3
    <2>2. QED
      BY <2>1
  <1>2. ASSUME NEW v \in Workers, Job(v)' # NoTicket PROVE OwnedBy(Job(v), workers[v].ip)'
    <2>1. CASE v = w
      BY <1>2, <2>1 DEF Job, TypeOK, OrchestratorTypeOK
    <2>2. CASE v # w
      <3>1. PICK task1 \in Tasks : task1 = workers[v] /\ task1 = workers'[v]
        BY <2>2 DEF TypeOK, OrchestratorTypeOK
      <3>2. task1.job \in Tickets /\ task1.ip \in IpIds \cup {NoIp}
        BY <1>2, <3>1 DEF Job, Tasks
      <3>3. OwnedBy(task1.job, task1.ip)
        BY <3>1, <3>2, ModelAssumption DEF LeasesOwned, Job
      <3>4. OwnedBy(task1.job, task1.ip)'
        BY <3>2, <3>3, OwnershipLasts
      <3>5. QED
        BY <3>1, <3>4 DEF Job
    <2>3. QED
      BY <2>1, <2>2
  <1>3. QED
    BY <1>1, <1>2 DEF LeasesOwned

(* What most steps of a worker do to the references: those of the other    *)
(* workers stay, its task drops its own, keeps it or takes it from the     *)
(* row, and a row drops its own, keeps it or takes it from the task.       *)
RefsMove(w) ==
    /\ \A v \in Workers : v # w => workers'[v] = workers[v]
    /\ \/ workers'[w].ip = NoIp
       \/ /\ workers'[w].job = Job(w) /\ Job(w) \in Tickets
          /\ workers'[w].ip \in {workers[w].ip, rows[Job(w)].ip}
    /\ \A t \in Tickets :
          \/ rows'[t].ip \in {rows[t].ip, NoIp}
          \/ t = Job(w) /\ rows'[t].ip = workers[w].ip

LEMMA MovesOwned ==
    ASSUME TypeOK, TypeOK', LeasesOwned, LeasesEvolve, NEW w \in Workers, RefsMove(w)
    PROVE  LeasesOwned'
  <1>1. PICK task \in Tasks : task = workers'[w]
    BY DEF TypeOK, OrchestratorTypeOK
  <1>2. workers' = [workers EXCEPT ![w] = task]
    BY <1>1 DEF RefsMove, TypeOK, OrchestratorTypeOK
  <1>3. ASSUME NEW t \in Tickets, NEW id \in IpIds \cup {NoIp},
               id = NoIp \/ id = rows[t].ip \/ (t = Job(w) /\ id = workers[w].ip)
        PROVE  OwnedBy(t, id)'
    <2>1. OwnedBy(t, id)
      BY <1>3, ModelAssumption DEF LeasesOwned, OwnedBy
    <2>2. QED
      BY <2>1, OwnershipLasts
  <1>4. task.job # NoTicket => OwnedBy(task.job, task.ip)'
    <2>1. task.ip \in IpIds \cup {NoIp} /\ task.job \in Tickets \cup {NoTicket}
      BY DEF Tasks
    <2>2. CASE task.ip = NoIp
      BY <1>3, <2>1, <2>2
    <2>3. CASE task.job = Job(w) /\ task.ip \in {workers[w].ip, rows[Job(w)].ip}
      BY <1>3, <2>1, <2>3
    <2>4. QED
      BY <1>1, <2>2, <2>3 DEF RefsMove
  <1>5. ASSUME NEW t \in Tickets PROVE OwnedBy(t, rows[t].ip)'
    <2>1. PICK id \in IpIds \cup {NoIp} : id = rows'[t].ip
      BY DEF TypeOK, StoreTypeOK, Rows
    <2>2. OwnedBy(t, id)'
      BY <1>3, <2>1 DEF RefsMove
    <2>3. QED
      BY <2>1, <2>2
  <1>6. QED
    BY <1>2, <1>4, <1>5, WorkerOwns

(* A commit touches one row, and there the address only if the session     *)
(* changed it.                                                             *)
LEMMA CommitMoves ==
    ASSUME TypeOK, NEW u \in Tickets, NEW seen \in Rows, NEW new \in Rows,
           Commit(u, seen, new), NEW t \in Tickets
    PROVE  \/ rows'[t].ip = rows[t].ip
           \/ t = u /\ new.ip # seen.ip /\ rows'[t].ip = new.ip
  BY DEF TypeOK, StoreTypeOK, Commit, Flush, Rows

LEMMA IntakeOwns ==
    ASSUME TypeOK, TypeOK', LeasesOwned, UNCHANGED backendVars, NEW h \in Handlers,
           \/ \E t \in Tickets : Receive(h, t)
           \/ InsertJob(h) \/ ResetJob(h) \/ Enqueue(h) \/ Abandon(h)
    PROVE  LeasesOwned'
  <1>1. leases' = leases /\ workers' = workers
    BY DEF backendVars, ipamVars, orchestratorVars
  <1>2. ASSUME NEW t \in Tickets PROVE rows'[t].ip \in {rows[t].ip, NoIp}
    <2>1. CASE InsertJob(h)
      BY <2>1 DEF InsertJob, TypeOK, StoreTypeOK, NewRow
    <2>2. CASE ResetJob(h)
      <3>1. /\ handlers[h].job \in Tickets /\ handlers[h].seen \in Rows
            /\ Commit(handlers[h].job, handlers[h].seen, NewRow)
        BY <2>2 DEF ResetJob, TypeOK, IntakeTypeOK, Requests
      <3>2. QED
        BY <3>1, RowConstants, CommitMoves DEF NewRow
    <2>3. CASE UNCHANGED rows
      BY <2>3
    <2>4. QED
      BY <2>1, <2>2, <2>3 DEF Receive, Enqueue, Abandon
  <1>3. ASSUME NEW t \in Tickets PROVE OwnedBy(t, rows[t].ip)'
    BY <1>1, <1>2 DEF LeasesOwned, OwnedBy, Live
  <1>4. ASSUME NEW w \in Workers, Job(w)' # NoTicket PROVE OwnedBy(Job(w), workers[w].ip)'
    BY <1>1, <1>4 DEF LeasesOwned, OwnedBy, Live, Job
  <1>5. QED
    BY <1>3, <1>4 DEF LeasesOwned

(* The worker's steps on the references, all but a successful reservation. *)
LEMMA TaskMoves ==
    ASSUME TypeOK, NEW w \in Workers,
           \/ Load(w) \/ NotifyStarted(w) \/ CreateVmObj(w) \/ Provision(w) \/ Finalize(w)
           \/ NotifyOk(w) \/ Compensate(w) \/ Destroy(w) \/ NotifyFailed(w) \/ Raise(w)
           \/ Ack(w) \/ Crash(w) \/ TimeLimit(w)
    PROVE  RefsMove(w)
  <1> USE DEF At, Goto, Job
  <1>0. workers[w].pc # "idle"
    BY DEF Load, NotifyStarted, CreateVmObj, Provision, Find, Create, Configure, Start,
           Finalize, NotifyOk, Compensate, Destroy, NotifyFailed, Raise, Ack, Crash, TimeLimit
  <1>1. workers \in [Workers -> Tasks] /\ workers[w].job \in Tickets
    BY <1>0 DEF TypeOK, OrchestratorTypeOK
  <1>2. rows' = rows
    BY DEF Load, NotifyStarted, CreateVmObj, Provision, Find, Create, Configure, Start,
           Finalize, NotifyOk, Compensate, Destroy, NotifyFailed, Raise, Ack, Crash, TimeLimit
  <1>3. CASE Load(w)
    BY <1>1, <1>2, <1>3, ZenonT(30) DEF Load, RefsMove, Tasks
  <1>4. CASE CreateVmObj(w) \/ Provision(w) \/ Finalize(w)
    <2>1. CASE CreateVmObj(w)
      BY <1>1, <1>2, <2>1, ZenonT(30) DEF CreateVmObj, RefsMove, Tasks
    <2>2. CASE Find(w)
      <3>1. PICK pc, ref : workers' = [workers EXCEPT ![w] =
                              [@ EXCEPT !.pc = pc, !.seen = rows[Job(w)], !.ref = ref]]
        BY <2>2 DEF Find
      <3>2. QED
        BY <1>1, <1>2, <3>1 DEF RefsMove, Tasks
    <2>3. CASE Create(w)
      <3>1. \/ \E s : workers' = [workers EXCEPT ![w] = [@ EXCEPT !.pc = "configure", !.slot = s]]
            \/ \E s : workers' = [workers EXCEPT ![w] = [@ EXCEPT !.pc = "saveRef", !.ref = s]]
            \/ workers' = [workers EXCEPT ![w].pc = "compensate"]
        BY <2>3 DEF Create
      <3>2. /\ \A v \in Workers : v # w => workers'[v] = workers[v]
            /\ workers'[w].job = Job(w) /\ workers'[w].ip = workers[w].ip
        BY <1>1, <3>1, ZenonT(30) DEF Tasks
      <3>3. QED
        BY <1>1, <1>2, <3>2 DEF RefsMove
    <2>4. CASE Configure(w) \/ Start(w)
      <3>1. \/ \E pc : workers' = [workers EXCEPT ![w].pc = pc]
            \/ \E s : workers' = [workers EXCEPT ![w] = [@ EXCEPT !.pc = "saveRef", !.ref = s]]
        BY <2>4 DEF Configure, Start
      <3>2. QED
        BY <1>1, <1>2, <3>1, ZenonT(30) DEF RefsMove, Tasks
    <2>5. CASE Finalize(w)
      <3>1. PICK pc : workers' = [workers EXCEPT ![w] = [@ EXCEPT !.pc = pc, !.seen = rows[Job(w)]]]
        BY <2>5 DEF Finalize
      <3>2. QED
        BY <1>1, <1>2, <3>1 DEF RefsMove, Tasks
    <2>6. QED
      BY <1>4, <2>1, <2>2, <2>3, <2>4, <2>5 DEF Provision
  <1>5. CASE NotifyStarted(w) \/ NotifyOk(w) \/ Compensate(w) \/ Destroy(w) \/ NotifyFailed(w)
             \/ Raise(w)
    BY <1>1, <1>2, <1>5 DEF NotifyStarted, NotifyOk, Compensate, Destroy, NotifyFailed, Raise,
                            RefsMove, Tasks
  <1>6. CASE Ack(w) \/ Crash(w) \/ TimeLimit(w)
    BY <1>1, <1>2, <1>6 DEF Ack, Crash, TimeLimit, RefsMove, NoTask
  <1>7. QED
    BY <1>3, <1>4, <1>5, <1>6

LEMMA CommitRefs ==
    ASSUME TypeOK, NEW w \in Workers,
           SaveIp(w) \/ SaveObj(w) \/ Mark(w) \/ SaveRef(w) \/ Complete(w) \/ MarkFailed(w)
    PROVE  RefsMove(w)
  <1> USE DEF At, Goto
  <1> DEFINE t == workers[w]
             row == IF t.seen.ip = NoIp THEN rows[Job(w)] ELSE t.seen
  <1>0. t.pc # "idle"
    BY DEF SaveIp, SaveObj, Mark, SaveRef, Complete, MarkFailed
  <1>1. Job(w) \in Tickets /\ t.seen \in Rows /\ row \in Rows /\ t.ip \in IpIds \cup {NoIp}
        /\ t.ref \in Slots \cup {NoRef}
    BY <1>0, BusyType
  <1>2. workers \in [Workers -> Tasks] /\ rows \in [Tickets -> Rows]
    BY DEF TypeOK, OrchestratorTypeOK, StoreTypeOK
  <1>3. /\ \A v \in Workers : v # w => workers'[v] = workers[v]
        /\ workers'[w].job = Job(w) /\ workers'[w].ip = workers[w].ip
    <2>1. CASE Mark(w)
      BY <1>0, <1>2, <2>1, ZenonT(30) DEF Mark, Job, Tasks
    <2>2. CASE SaveIp(w) \/ SaveObj(w) \/ SaveRef(w) \/ Complete(w) \/ MarkFailed(w)
      BY <1>0, <1>2, <2>2 DEF SaveIp, SaveObj, SaveRef, Complete, MarkFailed, Job, Tasks
    <2>3. QED
      BY <2>1, <2>2
  <1>4. ASSUME NEW seen \in Rows, NEW new \in Rows, Commit(Job(w), seen, new),
               new.ip \in {seen.ip, NoIp, t.ip}
        PROVE  RefsMove(w)
    <2>1. ASSUME NEW u \in Tickets
          PROVE  \/ rows'[u].ip \in {rows[u].ip, NoIp}
                 \/ u = Job(w) /\ rows'[u].ip = t.ip
      BY <1>1, <1>4, CommitMoves
    <2>2. QED
      BY <1>1, <1>3, <2>1 DEF RefsMove
  <1>5. CASE SaveIp(w)
    <2> DEFINE new == [t.seen EXCEPT !.status = "ip_reserved", !.ip = t.ip]
    <2>1. new \in Rows /\ new.ip = t.ip
      BY <1>1 DEF Rows, Statuses, Pending
    <2>2. QED
      BY <1>1, <1>4, <1>5, <2>1 DEF SaveIp
  <1>6. CASE SaveObj(w)
    BY <1>1, <1>2, <1>3, <1>6 DEF SaveObj, RefsMove, Rows
  <1>7. CASE Mark(w)
    <2> DEFINE new == [row EXCEPT !.status = "provisioning"]
    <2>0. new \in Rows /\ new.ip = row.ip
      <3> HIDE DEF row
      <3>1. QED
        BY <1>1 DEF Rows, Statuses, Pending
    <2>1. Commit(Job(w), row, new) \/ UNCHANGED rows
      BY <1>7 DEF Mark
    <2> HIDE DEF row, new
    <2>2. QED
      BY <1>1, <1>2, <1>3, <1>4, <2>0, <2>1 DEF RefsMove
  <1>8. CASE SaveRef(w)
    <2> DEFINE new == [t.seen EXCEPT !.ref = t.ref]
    <2>1. new \in Rows /\ new.ip = t.seen.ip
      BY <1>1 DEF Rows
    <2>2. QED
      BY <1>1, <1>4, <1>8, <2>1 DEF SaveRef
  <1>9. CASE Complete(w)
    <2> DEFINE new == [t.seen EXCEPT !.status = "completed"]
    <2>1. new \in Rows /\ new.ip = t.seen.ip
      BY <1>1 DEF Rows, Statuses
    <2>2. QED
      BY <1>1, <1>4, <1>9, <2>1 DEF Complete
  <1>10. CASE MarkFailed(w)
    <2> DEFINE new == [t.seen EXCEPT !.status = "failed", !.ip = NoIp, !.obj = 0]
    <2>1. new \in Rows /\ new.ip = NoIp
      BY <1>1 DEF Rows, Statuses
    <2>2. QED
      BY <1>1, <1>4, <1>10, <2>1 DEF MarkFailed
  <1>11. QED
    BY <1>5, <1>6, <1>7, <1>8, <1>9, <1>10

(* What a worker may do to an address object of the IPAM.                  *)
LEMMA CallsOnOwn ==
    ASSUME TypeOK, LeasesOwned, NEW w \in Workers, WorkerStep(w) \/ Crash(w) \/ TimeLimit(w)
    PROVE  /\ LeasesEvolve
           /\ \A a \in Addrs :
                 leases[a].state # "free" /\ leases'[a] # leases[a] =>
                    workers'[w] # workers[w] /\ Job(w) = leases[a].ticket
  <1>1. CASE UNCHANGED leases
    BY <1>1 DEF LeasesEvolve
  <1>2. CASE Reserve(w)
    <2>1. CASE UNCHANGED leases
      BY <2>1, <1>1
    <2>2. ASSUME NEW a \in Addrs, ReserveIp(Job(w), a)
          PROVE  LeasesEvolve /\ leases[a].state = "free"
                 /\ \A b \in Addrs : b # a => leases'[b] = leases[b]
      <3>1. Job(w) \in Tickets
        BY <1>2, BusyType DEF Reserve, At
      <3>2. LeasesEvolve
        <4>1. PICK id : id = NextId(a)
          OBVIOUS
        <4>2. QED
          BY <2>2, <3>1, <4>1, ReserveEvolves
      <3>3. QED
        BY <2>2, <3>2 DEF ReserveIp, TypeOK, IpamTypeOK
    <2>3. QED
      BY <1>2, <2>1, <2>2 DEF Reserve
  <1>3. CASE Compensate(w)
    <2>1. Job(w) \in Tickets /\ workers[w].ip \in IpIds \cup {NoIp} /\ workers[w].pc = "compensate"
      BY <1>3, BusyType DEF Compensate, At
    <2>2. leases' \in {leases, Released(workers[w].ip)}
      BY <1>3 DEF Compensate, CompensateIpam
    <2>3. OwnedBy(Job(w), workers[w].ip)
      BY <2>1, ModelAssumption DEF LeasesOwned
    <2>4. workers'[w] # workers[w]
      BY <1>3, <2>1 DEF Compensate, Goto, TypeOK, OrchestratorTypeOK, Tasks
    <2>5. QED
      BY <2>1, <2>2, <2>3, <2>4, CallEvolves DEF OwnedBy, Live
  <1>4. CASE Finalize(w)
    <2>1. Job(w) \in Tickets /\ workers[w].pc = "finalize"
      BY <1>4, BusyType DEF Finalize, At
    <2>2. rows[Job(w)].ip \in IpIds \cup {NoIp}
      BY <2>1 DEF TypeOK, StoreTypeOK, Rows
    <2>3. leases' \in {leases, Activated(rows[Job(w)].ip)}
      BY <1>4 DEF Finalize, FinalizeOk, FinalizeError, ipamVars
    <2>4. OwnedBy(Job(w), rows[Job(w)].ip)
      BY <2>1 DEF LeasesOwned
    <2>5. workers'[w] # workers[w]
      <3>1. workers'[w].pc \in {"complete", "compensate"}
        BY <1>4 DEF Finalize, TypeOK, OrchestratorTypeOK, Tasks
      <3>2. QED
        BY <2>1, <3>1
    <2>6. QED
      BY <2>1, <2>2, <2>3, <2>4, <2>5, CallEvolves DEF OwnedBy, Live
  <1>5. QED
    BY <1>1, <1>2, <1>3, <1>4
       DEF WorkerStep, Take, Load, NotifyStarted, SaveIp, CreateVmObj, SaveObj, Mark, Provision,
           Find, Create, Configure, Start, SaveRef, Complete, NotifyOk, Rollback, Destroy,
           MarkFailed, NotifyFailed, Raise, Ack, Crash, TimeLimit

LEMMA ReserveOwns ==
    ASSUME TypeOK, TypeOK', LeasesOwned, NEW w \in Workers, Reserve(w)
    PROVE  LeasesOwned'
  <1>0. LeasesEvolve
    BY CallsOnOwn DEF WorkerStep
  <1>1. Job(w) \in Tickets /\ workers \in [Workers -> Tasks] /\ rows' = rows
    BY BusyType DEF Reserve, At, TypeOK, OrchestratorTypeOK
  <1>2. ASSUME Goto(w, "compensate") PROVE LeasesOwned'
    <2>1. RefsMove(w)
      BY <1>1, <1>2 DEF RefsMove, Goto, Job, Tasks
    <2>2. QED
      BY <1>0, <2>1, MovesOwned
  <1>3. ASSUME NEW a \in Addrs, ReserveIp(Job(w), a),
               workers' = [workers EXCEPT ![w] = [@ EXCEPT !.pc = "saveIp", !.ip = NextId(a)]]
        PROVE  LeasesOwned'
    <2>1. PICK id : id = NextId(a)
      OBVIOUS
    <2>2. id \in IpIds /\ OwnedBy(Job(w), id)'
      <3>1. PICK t \in Tickets : t = Job(w)
        BY <1>1
      <3>2. OwnedBy(t, id)'
        BY <1>3, <2>1, <3>1, ReserveEvolves
      <3>3. Job(w)' = t
        BY <1>1, <1>3, <3>1 DEF Job, Tasks
      <3>4. QED
        BY <1>1, <1>3, <2>1, <3>2, <3>3, ReserveEvolves
    <2>3. PICK task \in Tasks : /\ workers' = [workers EXCEPT ![w] = task]
                                /\ task.job = workers[w].job /\ task.ip = id
      <3> DEFINE new == [workers[w] EXCEPT !.pc = "saveIp", !.ip = id]
      <3>1. new \in Tasks /\ new.job = workers[w].job /\ new.ip = id
        BY <1>1, <2>2, ZenonT(30) DEF Tasks, Steps
      <3>2. workers' = [workers EXCEPT ![w] = new]
        BY <1>3, <2>1
      <3> HIDE DEF new
      <3>3. QED
        BY <3>1, <3>2
    <2>4. Job(w)' = task.job
      BY <1>1, <2>3 DEF Job
    <2>5. OwnedBy(task.job, task.ip)'
      BY <2>2, <2>3, <2>4 DEF OwnedBy
    <2>6. QED
      BY <1>0, <1>1, <2>3, <2>5, WorkerOwns
  <1>4. QED
    BY <1>2, <1>3 DEF Reserve

LEMMA StepKeepsOwned == TypeOK /\ TypeOK' /\ LeasesOwned /\ [Next]_vars => LeasesOwned'
  <1> SUFFICES ASSUME TypeOK, TypeOK', LeasesOwned, [Next]_vars PROVE LeasesOwned'
    OBVIOUS
  <1>1. ASSUME NEW h \in Handlers, UNCHANGED backendVars,
               \/ \E t \in Tickets : Receive(h, t)
               \/ InsertJob(h) \/ ResetJob(h) \/ Enqueue(h) \/ Abandon(h)
        PROVE  LeasesOwned'
    BY <1>1, IntakeOwns
  <1>2. ASSUME NEW w \in Workers, WorkerStep(w) \/ Crash(w) \/ TimeLimit(w) PROVE LeasesOwned'
    <2>1. LeasesEvolve
      BY <1>2, CallsOnOwn
    <2>2. ASSUME NEW m \in Messages, Take(w, m) PROVE LeasesOwned'
      <3>1. RefsMove(w)
        BY <2>2 DEF Take, RefsMove, NoTask, TypeOK, OrchestratorTypeOK
      <3>2. QED
        BY <2>1, <3>1, MovesOwned
    <2>3. CASE Reserve(w)
      BY <2>3, ReserveOwns
    <2>4. CASE RefsMove(w)
      BY <2>1, <2>4, MovesOwned
    <2>5. QED
      BY <1>2, <2>2, <2>3, <2>4, TaskMoves, CommitRefs DEF WorkerStep, Rollback
  <1>3. CASE UNCHANGED vars \/ HypervisorStep
    BY <1>3 DEF vars, HypervisorStep, orchestratorVars, ipamVars, LeasesOwned, OwnedBy, Live, Job
  <1>4. QED
    BY <1>1, <1>2, <1>3 DEF Next, Step

LEMMA InitOwned == Init => LeasesOwned
  BY DEF Init, StoreInit, OrchestratorInit, NoRow, NoTask, LeasesOwned, OwnedBy, Job

(* A stored reference never comes to name another ticket's address object, *)
(* under all faults: lost replies, refused deletes, crashes, kills, double *)
(* runs of one job.                                                        *)
THEOREM LeasesStayOwned == Spec => []LeasesOwned
  <1>1. TypeOK /\ LeasesOwned /\ [Next]_vars => TypeOK' /\ LeasesOwned'
    BY StepKeepsTypes, StepKeepsOwned
  <1>2. QED
    BY InitType, InitOwned, <1>1, PTL DEF Spec

(* So no worker finalizes or deletes the address of another ticket: a      *)
(* compensation that runs late, twice or after a restart is harmless to    *)
(* the other jobs.                                                         *)
THEOREM OnlyOwnLeaseTouched == Spec => TouchesOnlyOwnLease
  <1> DEFINE Touch ==
        \A a \in Addrs :
           leases[a].state # "free" /\ leases'[a] # leases[a] =>
              \E w \in Workers : workers'[w] # workers[w] /\ Job(w) = leases[a].ticket
  <1>1. TypeOK /\ LeasesOwned /\ [Next]_vars => [Touch]_vars
    <2> SUFFICES ASSUME TypeOK, LeasesOwned, Next PROVE Touch
      OBVIOUS
    <2>1. CASE \E w \in Workers : WorkerStep(w) \/ Crash(w) \/ TimeLimit(w)
      BY <2>1, CallsOnOwn
    <2>2. CASE UNCHANGED backendVars \/ HypervisorStep
      BY <2>2 DEF backendVars, HypervisorStep, ipamVars
    <2>3. QED
      BY <2>1, <2>2 DEF Next, Step
  <1>2. QED
    BY TypeCorrect, LeasesStayOwned, <1>1, PTL DEF Spec, TouchesOnlyOwnLease
=============================================================================
