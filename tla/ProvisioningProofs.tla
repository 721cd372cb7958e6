------------------------- MODULE ProvisioningProofs -------------------------
(***************************************************************************)
(* Proofs about Provisioning, for every value of its constants: types, and *)
(* that no accepted job is forgotten.                                      *)
(***************************************************************************)
EXTENDS Provisioning, TLAPS

(* A commit writes a well-formed row.                                      *)
LEMMA FlushType ==
    ASSUME NEW row \in Rows, NEW seen \in Rows, NEW new \in Rows
    PROVE  Flush(row, seen, new) \in Rows
  BY DEF Flush, Rows

LEMMA RowConstants == NoRow \in Rows /\ NewRow \in Rows
  BY DEF NoRow, NewRow, Rows, Statuses, Pending

LEMMA NoTaskType == NoTask \in Tasks /\ NoTask.pc = "idle"
  BY RowConstants, RetriesAssumption DEF NoTask, Tasks, Steps

LEMMA InitType == Init => TypeOK
  <1> SUFFICES ASSUME Init PROVE TypeOK
    OBVIOUS
  <1>1. StoreTypeOK
    BY RowConstants DEF Init, StoreInit, StoreTypeOK
  <1>2. IntakeTypeOK
    BY RowConstants, IntakeAssumption DEF Init, IntakeInit, IntakeTypeOK, NoRequest, Requests
  <1>3. IpamTypeOK
    BY DEF Init, IpamInit, IpamTypeOK, Leases, VmObjs
  <1>4. HypervisorTypeOK
    BY DEF Init, HypervisorInit, HypervisorTypeOK, NoVm, Vms
  <1>5. OrchestratorTypeOK
    BY NoTaskType, OrchestratorAssumption DEF Init, OrchestratorInit, OrchestratorTypeOK
  <1>6. QED
    BY <1>1, <1>2, <1>3, <1>4, <1>5 DEF Init, TypeOK

(* The requests of the API keep the types of all they touch.               *)
LEMMA IntakeType ==
    ASSUME TypeOK, NEW h \in Handlers,
           \/ \E t \in Tickets : Receive(h, t)
           \/ InsertJob(h) \/ ResetJob(h) \/ Enqueue(h) \/ Abandon(h)
    PROVE  StoreTypeOK' /\ IntakeTypeOK'
  <1> USE DEF StoreTypeOK, IntakeTypeOK, TypeOK
  <1>0. NoRequest \in Requests /\ NoRequest.pc = "idle"
    BY RowConstants DEF NoRequest, Requests
  <1>1. ASSUME NEW t \in Tickets, Receive(h, t) PROVE StoreTypeOK' /\ IntakeTypeOK'
    <2>1. webhooks' \in 0 .. MaxWebhooks
      BY <1>1, IntakeAssumption DEF Receive
    <2> DEFINE request ==
          CASE rows[t].status = "absent" -> [pc |-> "insert", job |-> t, seen |-> NoRow]
            [] rows[t].status = "failed" -> [pc |-> "reset", job |-> t, seen |-> rows[t]]
            [] OTHER -> NoRequest
    <2>2. request \in Requests /\ (request.pc # "idle" => request.job \in Tickets)
      BY <1>0, RowConstants DEF Requests
    <2>3. handlers' = [handlers EXCEPT ![h] = request]
      BY <1>1 DEF Receive
    <2> HIDE DEF request
    <2>4. QED
      BY <1>1, <2>1, <2>2, <2>3 DEF Receive
  <1>2. CASE InsertJob(h)
    BY <1>0, <1>2, RowConstants, SMTT(30) DEF InsertJob, Requests
  <1>3. CASE ResetJob(h)
    <2>1. handlers[h].seen \in Rows /\ handlers[h].job \in Tickets
      BY <1>3 DEF ResetJob, Requests
    <2>2. rows' \in [Tickets -> Rows]
      BY <1>3, <2>1, FlushType, RowConstants DEF ResetJob, Commit
    <2>3. QED
      BY <1>3, <2>2 DEF ResetJob, Requests
  <1>4. CASE Enqueue(h)
    <2>1. [job |-> handlers[h].job, try |-> 0] \in Messages
      BY <1>4, RetriesAssumption DEF Enqueue, Messages, Requests
    <2>2. QED
      BY <1>0, <1>4, <2>1 DEF Enqueue, Send
  <1>5. CASE Abandon(h)
    BY <1>0, <1>5 DEF Abandon
  <1>6. QED
    BY <1>1, <1>2, <1>3, <1>4, <1>5

(* What a worker's task may become in one step.                            *)
LEMMA TaskType ==
    ASSUME OrchestratorTypeOK, NEW w \in Workers, NEW task \in Tasks,
           task.pc # "idle" => task.job \in Tickets,
           workers' = [workers EXCEPT ![w] = task],
           UNCHANGED <<notices, crashes>>
    PROVE  OrchestratorTypeOK'
  BY DEF OrchestratorTypeOK

LEMMA GotoType ==
    ASSUME OrchestratorTypeOK, NEW w \in Workers, NEW pc \in Steps,
           workers[w].pc # "idle", Goto(w, pc)
    PROVE  /\ workers' \in [Workers -> Tasks]
           /\ \A v \in Workers : workers'[v].pc # "idle" => workers'[v].job \in Tickets
  BY DEF OrchestratorTypeOK, Goto, Tasks

(* The task of a worker that is not idle.                                  *)
LEMMA BusyType ==
    ASSUME TypeOK, NEW w \in Workers, workers[w].pc # "idle"
    PROVE  /\ Job(w) \in Tickets
           /\ rows[Job(w)] \in Rows
           /\ workers[w].seen \in Rows
           /\ workers[w].ip \in IpIds \cup {NoIp}
           /\ workers[w].obj \in Nat
           /\ workers[w].ref \in Slots \cup {NoRef}
           /\ workers[w].seen.ip.addr \in Addrs \cup {NoAddr}
           /\ Message(w) \in Messages
  <1>1. workers[w] \in Tasks /\ workers[w].job \in Tickets
    BY DEF TypeOK, OrchestratorTypeOK
  <1>2. workers[w].seen \in Rows
    BY <1>1 DEF Tasks
  <1>3. workers[w].seen.ip \in IpIds \cup {NoIp}
    BY <1>2 DEF Rows
  <1>4. workers[w].seen.ip.addr \in Addrs \cup {NoAddr}
    BY <1>3 DEF IpIds, NoIp
  <1>5. QED
    BY <1>1, <1>2, <1>4 DEF Job, Message, Messages, Tasks, TypeOK, StoreTypeOK

LEMMA CommitType ==
    ASSUME StoreTypeOK, NEW t \in Tickets, NEW seen \in Rows, NEW new \in Rows,
           Commit(t, seen, new), UNCHANGED queue
    PROVE  StoreTypeOK'
  BY FlushType DEF StoreTypeOK, Commit

LEMMA SendType ==
    ASSUME StoreTypeOK, NEW m \in Messages, Send(m), UNCHANGED rows
    PROVE  StoreTypeOK'
  BY DEF StoreTypeOK, Send

LEMMA ReserveType ==
    ASSUME IpamTypeOK, NEW t \in Tickets, NEW a \in Addrs, ReserveIp(t, a), UNCHANGED vmObjs
    PROVE  IpamTypeOK' /\ NextId(a) \in IpIds
  BY DEF IpamTypeOK, ReserveIp, NextId, Leases, IpIds

LEMMA ReleaseType ==
    ASSUME IpamTypeOK, NEW t \in Tickets, NEW id \in IpIds \cup {NoIp}, NEW obj \in Nat,
           CompensateIpam(t, id, obj)
    PROVE  IpamTypeOK'
  <1>1. Released(id) \in [Addrs -> Leases]
    BY DEF IpamTypeOK, Released, Live, Leases, IpIds
  <1>2. Deleted(t, obj) \in [Tickets -> VmObjs]
    BY DEF IpamTypeOK, Deleted, LiveObj, VmObjs
  <1>3. QED
    BY <1>1, <1>2 DEF IpamTypeOK, CompensateIpam

LEMMA FinalizeType ==
    ASSUME IpamTypeOK, NEW t \in Tickets, NEW id \in IpIds \cup {NoIp}, NEW obj \in Nat,
           FinalizeOk(t, id, obj) \/ FinalizeError(id)
    PROVE  IpamTypeOK'
  <1>1. Activated(id) \in [Addrs -> Leases]
    BY DEF IpamTypeOK, Activated, Live, Leases, IpIds
  <1>2. ObjActivated(t, obj) \in [Tickets -> VmObjs]
    BY DEF IpamTypeOK, ObjActivated, LiveObj, VmObjs
  <1>3. QED
    BY <1>1, <1>2 DEF IpamTypeOK, FinalizeOk, FinalizeError, ipamVars

LEMMA VmType ==
    ASSUME HypervisorTypeOK, NEW t \in Tickets, NEW s, NEW addr \in Addrs \cup {NoAddr},
           CreateVm(t, s, addr) \/ ConfigureVm(t, s, addr) \/ StartVm(s) \/ DestroyVm(s)
    PROVE  HypervisorTypeOK'
  <1> USE DEF HypervisorTypeOK, Vms
  <1>1. CASE CreateVm(t, s, addr)
    <2>1. PICK a \in Addrs \cup {NoAddr}, power \in {"off", "on"} :
             vms' = [vms EXCEPT ![s] = NewVm(t, a, power)]
      BY <1>1 DEF CreateVm
    <2>2. NewVm(t, a, power) \in Vms
      BY DEF NewVm
    <2>3. QED
      BY <2>1, <2>2
  <1>2. CASE ConfigureVm(t, s, addr)
    BY <1>2 DEF ConfigureVm
  <1>3. CASE StartVm(s)
    BY <1>3 DEF StartVm
  <1>4. CASE DestroyVm(s)
    <2>1. CASE vms' = [vms EXCEPT ![s].leaving = vms[s].ticket # NoTicket]
      BY <2>1
    <2>2. CASE vms' = [vms EXCEPT ![s] = NoVm]
      BY <2>2 DEF NoVm
    <2>3. CASE vms' \in {vms, [vms EXCEPT ![s].power = "off"]}
      BY <2>3
    <2>4. QED
      BY <1>4, <2>1, <2>2, <2>3 DEF DestroyVm
  <1>5. QED
    BY <1>1, <1>2, <1>3, <1>4

LEMMA DeleteType ==
    ASSUME HypervisorTypeOK, NEW s \in Slots, DeleteEnds(s)
    PROVE  HypervisorTypeOK'
  <1> USE DEF HypervisorTypeOK, Vms
  <1>1. CASE vms' = [vms EXCEPT ![s] = NoVm]
    BY <1>1 DEF NoVm
  <1>2. ASSUME NEW power \in {"off", "on"},
               vms' = [vms EXCEPT ![s] = [@ EXCEPT !.leaving = FALSE, !.power = power]]
        PROVE  HypervisorTypeOK'
    BY <1>2
  <1>3. vms[s].power \in {"off", "on"}
    OBVIOUS
  <1>4. QED
    BY <1>1, <1>2, <1>3 DEF DeleteEnds

(* Every step of a worker keeps every type.                                *)
TypesKept ==
    /\ StoreTypeOK' /\ IpamTypeOK' /\ HypervisorTypeOK' /\ OrchestratorTypeOK'
    /\ UNCHANGED intakeVars

LEMMA TakeType ==
    ASSUME TypeOK, NEW w \in Workers, NEW m \in Messages, Take(w, m)
    PROVE  TypesKept
  <1>1. queue' \in [Messages -> Nat]
    BY DEF Take, TypeOK, StoreTypeOK
  <1> DEFINE task == [NoTask EXCEPT !.pc = "load", !.job = m.job, !.try = m.try]
  <1>2. task \in Tasks /\ task.job \in Tickets
    BY RowConstants DEF NoTask, Tasks, Steps, Messages
  <1>3. workers' = [workers EXCEPT ![w] = task]
    BY DEF Take
  <1> HIDE DEF task
  <1>4. OrchestratorTypeOK'
    BY <1>2, <1>3, TaskType DEF Take, TypeOK
  <1>5. QED
    BY <1>1, <1>4 DEF Take, TypesKept, TypeOK, StoreTypeOK, IpamTypeOK, HypervisorTypeOK

(* A step that changes only the worker and the other variables it names.   *)
LEMMA StepType ==
    ASSUME TypeOK, NEW w \in Workers, workers[w].pc # "idle",
           NEW pc \in Steps, Goto(w, pc), UNCHANGED crashes,
           notices' \in [Tickets -> {"none", "started", "completed", "failed"}]
    PROVE  OrchestratorTypeOK'
  BY GotoType DEF TypeOK, OrchestratorTypeOK

LEMMA NotifyType ==
    ASSUME TypeOK, NEW w \in Workers, NEW state \in {"started", "completed", "failed"},
           Notify(w, state)
    PROVE  notices' \in [Tickets -> {"none", "started", "completed", "failed"}]
  BY DEF TypeOK, OrchestratorTypeOK, Notify

LEMMA PrologueType ==
    ASSUME TypeOK, NEW w \in Workers,
           Load(w) \/ NotifyStarted(w) \/ Reserve(w) \/ SaveIp(w)
    PROVE  TypesKept
  <1> USE DEF At
  <1>0. workers[w].pc # "idle"
    BY DEF Load, NotifyStarted, Reserve, SaveIp
  <1>a. workers[w] \in Tasks /\ Job(w) \in Tickets /\ workers[w].job = Job(w)
    BY <1>0, BusyType DEF TypeOK, OrchestratorTypeOK, Job
  <1>1. CASE Load(w)
    <2> DEFINE row == rows[Job(w)]
    <2>1. row \in Rows
      BY <1>0, BusyType
    <2> HIDE DEF row
    <2>2. CASE workers' = [workers EXCEPT ![w] =
               [@ EXCEPT !.pc = "started", !.seen = row,
                         !.ip = row.ip, !.obj = row.obj, !.ref = row.ref]]
      <3> DEFINE task == [workers[w] EXCEPT !.pc = "started", !.seen = row,
                            !.ip = row.ip, !.obj = row.obj, !.ref = row.ref]
      <3>1. task \in Tasks /\ task.job \in Tickets
        BY <1>a, <2>1, ZenonT(30) DEF Tasks, Steps, Rows
      <3>2. workers' = [workers EXCEPT ![w] = task]
        BY <2>2
      <3> HIDE DEF task
      <3>a. UNCHANGED <<notices, crashes>>
        BY <1>1 DEF Load
      <3>3. OrchestratorTypeOK'
        BY <3>1, <3>2, <3>a, TaskType DEF TypeOK
      <3>4. QED
        BY <1>1, <3>3 DEF Load, TypesKept, TypeOK, StoreTypeOK, IpamTypeOK, HypervisorTypeOK
    <2>3. CASE Goto(w, "ack")
      <3>0. notices' = notices /\ crashes' = crashes /\ "ack" \in Steps
        BY <1>1 DEF Load, Steps
      <3>1. OrchestratorTypeOK'
        BY <1>0, <2>3, <3>0, StepType DEF TypeOK, OrchestratorTypeOK
      <3>2. QED
        BY <1>1, <3>1 DEF Load, TypesKept, TypeOK, StoreTypeOK, IpamTypeOK, HypervisorTypeOK
    <2>4. QED
      BY <1>1, <2>2, <2>3 DEF Load, row
  <1>2. CASE NotifyStarted(w)
    <2>1. OrchestratorTypeOK'
      BY <1>0, <1>2, StepType, NotifyType DEF NotifyStarted, Steps
    <2>2. QED
      BY <1>2, <2>1 DEF NotifyStarted, TypesKept, TypeOK, StoreTypeOK, IpamTypeOK,
                        HypervisorTypeOK
  <1>3. CASE Reserve(w)
    <2>1. ASSUME NEW a \in Addrs, ReserveIp(Job(w), a) PROVE IpamTypeOK' /\ NextId(a) \in IpIds
      BY <1>3, <1>a, <2>1, ReserveType DEF Reserve, TypeOK
    <2>2. IpamTypeOK'
      BY <1>3, <2>1 DEF Reserve, TypeOK, IpamTypeOK
    <2>3. ASSUME NEW a \in Addrs, ReserveIp(Job(w), a),
                 workers' = [workers EXCEPT ![w] =
                                [@ EXCEPT !.pc = "saveIp", !.ip = NextId(a)]]
          PROVE  OrchestratorTypeOK'
      <3> DEFINE task == [workers[w] EXCEPT !.pc = "saveIp", !.ip = NextId(a)]
      <3>1. task \in Tasks /\ task.job \in Tickets
        BY <1>a, <2>1, <2>3 DEF Tasks, Steps
      <3>2. workers' = [workers EXCEPT ![w] = task]
        BY <2>3
      <3> HIDE DEF task
      <3>3. QED
        BY <1>3, <3>1, <3>2, TaskType DEF Reserve, TypeOK
    <2>4. ASSUME Goto(w, "compensate") PROVE OrchestratorTypeOK'
      <3>1. notices' = notices /\ crashes' = crashes /\ "compensate" \in Steps
        BY <1>3 DEF Reserve, Steps
      <3>2. QED
        BY <1>0, <2>4, <3>1, StepType DEF TypeOK, OrchestratorTypeOK
    <2>5. OrchestratorTypeOK'
      BY <1>3, <2>3, <2>4 DEF Reserve
    <2>6. QED
      BY <1>3, <2>2, <2>5 DEF Reserve, TypesKept, TypeOK, StoreTypeOK, HypervisorTypeOK
  <1>4. CASE SaveIp(w)
    <2> DEFINE new == [workers[w].seen EXCEPT !.status = "ip_reserved", !.ip = workers[w].ip]
    <2>1. workers[w].seen \in Rows /\ new \in Rows
      BY <1>0, BusyType DEF Rows, Statuses, Pending
    <2>2. StoreTypeOK'
      BY <1>4, <1>a, <2>1, CommitType DEF SaveIp, TypeOK
    <2>3. OrchestratorTypeOK'
      BY <1>0, <1>4, StepType DEF SaveIp, Steps, TypeOK, OrchestratorTypeOK
    <2>4. QED
      BY <1>4, <2>2, <2>3 DEF SaveIp, TypesKept, TypeOK, IpamTypeOK, HypervisorTypeOK
  <1>5. QED
    BY <1>1, <1>2, <1>3, <1>4

(* A step that only moves the worker on.                                   *)
LEMMA MoveType ==
    ASSUME TypeOK, NEW w \in Workers, workers[w].pc # "idle",
           NEW pc \in Steps, Goto(w, pc), UNCHANGED <<notices, crashes>>
    PROVE  OrchestratorTypeOK'
  BY GotoType DEF TypeOK, OrchestratorTypeOK

LEMMA MiddleType ==
    ASSUME TypeOK, NEW w \in Workers,
           CreateVmObj(w) \/ SaveObj(w) \/ Mark(w) \/ SaveRef(w) \/ Complete(w) \/ NotifyOk(w)
    PROVE  TypesKept
  <1> USE DEF At
  <1>0. workers[w].pc # "idle"
    BY DEF CreateVmObj, SaveObj, Mark, SaveRef, Complete, NotifyOk
  <1>a. workers[w] \in Tasks /\ Job(w) \in Tickets /\ workers[w].job = Job(w)
    BY <1>0, BusyType DEF TypeOK, OrchestratorTypeOK, Job
  <1>b. rows[Job(w)] \in Rows /\ workers[w].seen \in Rows
    BY <1>0, BusyType
  <1>1. CASE CreateVmObj(w)
    <2>1. IpamTypeOK'
      BY <1>1, <1>a DEF CreateVmObj, CreateObj, TypeOK, IpamTypeOK, VmObjs
    <2>2. ASSUME Goto(w, "mark") PROVE OrchestratorTypeOK'
      BY <1>0, <1>1, <2>2, MoveType DEF CreateVmObj, Steps
    <2>3. ASSUME workers' = [workers EXCEPT ![w] =
                              [@ EXCEPT !.pc = "saveObj", !.obj = vmObjs[Job(w)].gen + 1]]
          PROVE  OrchestratorTypeOK'
      <3>0. vmObjs[Job(w)] \in VmObjs
        BY <1>a DEF TypeOK, IpamTypeOK
      <3>1. PICK obj \in Nat : obj = vmObjs[Job(w)].gen + 1
        BY <3>0 DEF VmObjs
      <3> DEFINE task == [workers[w] EXCEPT !.pc = "saveObj", !.obj = obj]
      <3>2. task \in Tasks /\ task.job \in Tickets
        BY <1>a DEF Tasks, Steps
      <3>3. workers' = [workers EXCEPT ![w] = task] /\ UNCHANGED <<notices, crashes>>
        BY <1>1, <2>3, <3>1 DEF CreateVmObj
      <3> HIDE DEF task
      <3>4. QED
        BY <3>2, <3>3, TaskType DEF TypeOK
    <2>4. OrchestratorTypeOK'
      BY <1>1, <2>2, <2>3 DEF CreateVmObj
    <2>5. QED
      BY <1>1, <2>1, <2>4 DEF CreateVmObj, TypesKept, TypeOK, StoreTypeOK, HypervisorTypeOK
  <1>2. CASE SaveObj(w)
    <2>1. StoreTypeOK'
      BY <1>2, <1>a, <1>b DEF SaveObj, TypeOK, StoreTypeOK, Rows, Tasks
    <2>2. OrchestratorTypeOK'
      BY <1>0, <1>2, MoveType DEF SaveObj, Steps
    <2>3. QED
      BY <1>2, <2>1, <2>2 DEF SaveObj, TypesKept, TypeOK, IpamTypeOK, HypervisorTypeOK
  <1>3. CASE Mark(w)
    <2> DEFINE row == IF workers[w].seen.ip = NoIp THEN rows[Job(w)] ELSE workers[w].seen
               new == [row EXCEPT !.status = "provisioning"]
    <2>0. row \in Rows /\ new \in Rows
      BY <1>b DEF Rows, Statuses, Pending
    <2> HIDE DEF row
    <2>1. StoreTypeOK'
      <3>1. Commit(Job(w), row, new) \/ UNCHANGED rows
        BY <1>3 DEF Mark, row
      <3>2. UNCHANGED queue
        BY <1>3 DEF Mark
      <3> HIDE DEF new
      <3>3. QED
        BY <1>a, <2>0, <3>1, <3>2, CommitType DEF TypeOK, StoreTypeOK
    <2>2. ASSUME Goto(w, "find") PROVE OrchestratorTypeOK'
      BY <1>0, <1>3, <2>2, MoveType DEF Mark, Steps
    <2>3. ASSUME workers' = [workers EXCEPT ![w] = [@ EXCEPT !.pc = "compensate", !.seen = row]]
          PROVE  OrchestratorTypeOK'
      <3> DEFINE task == [workers[w] EXCEPT !.pc = "compensate", !.seen = row]
      <3>1. task \in Tasks /\ task.job \in Tickets
        BY <1>a, <2>0 DEF Tasks, Steps
      <3>2. workers' = [workers EXCEPT ![w] = task] /\ UNCHANGED <<notices, crashes>>
        BY <1>3, <2>3 DEF Mark
      <3> HIDE DEF task
      <3>3. QED
        BY <3>1, <3>2, TaskType DEF TypeOK
    <2>4. OrchestratorTypeOK'
      BY <1>3, <2>2, <2>3 DEF Mark, row
    <2>5. QED
      BY <1>3, <2>1, <2>4 DEF Mark, TypesKept, TypeOK, IpamTypeOK, HypervisorTypeOK
  <1>4. CASE SaveRef(w)
    <2> DEFINE new == [workers[w].seen EXCEPT !.ref = workers[w].ref]
    <2>1. new \in Rows
      BY <1>a, <1>b DEF Rows, Tasks
    <2>2. StoreTypeOK'
      BY <1>4, <1>a, <1>b, <2>1, CommitType DEF SaveRef, TypeOK
    <2>3. OrchestratorTypeOK'
      BY <1>0, <1>4, MoveType DEF SaveRef, Steps
    <2>4. QED
      BY <1>4, <2>2, <2>3 DEF SaveRef, TypesKept, TypeOK, IpamTypeOK, HypervisorTypeOK
  <1>5. CASE Complete(w)
    <2> DEFINE new == [workers[w].seen EXCEPT !.status = "completed"]
    <2>1. new \in Rows
      BY <1>b DEF Rows, Statuses
    <2>2. StoreTypeOK'
      BY <1>5, <1>a, <1>b, <2>1, CommitType DEF Complete, TypeOK
    <2>3. OrchestratorTypeOK'
      BY <1>0, <1>5, MoveType DEF Complete, Steps
    <2>4. QED
      BY <1>5, <2>2, <2>3 DEF Complete, TypesKept, TypeOK, IpamTypeOK, HypervisorTypeOK
  <1>6. CASE NotifyOk(w)
    <2>1. OrchestratorTypeOK'
      BY <1>0, <1>6, StepType, NotifyType DEF NotifyOk, Steps
    <2>2. QED
      BY <1>6, <2>1 DEF NotifyOk, TypesKept, TypeOK, StoreTypeOK, IpamTypeOK, HypervisorTypeOK
  <1>7. QED
    BY <1>1, <1>2, <1>3, <1>4, <1>5, <1>6

LEMMA ProvisionType ==
    ASSUME TypeOK, NEW w \in Workers, Provision(w)
    PROVE  TypesKept
  <1> USE DEF At
  <1>0. workers[w].pc # "idle"
    BY DEF Provision, Find, Create, Configure, Start
  <1>a. workers[w] \in Tasks /\ Job(w) \in Tickets /\ workers[w].job = Job(w)
    BY <1>0, BusyType DEF TypeOK, OrchestratorTypeOK, Job
  <1>b. rows[Job(w)] \in Rows /\ workers[w].seen.ip.addr \in Addrs \cup {NoAddr}
    BY <1>0, BusyType
  <1>1. CASE Find(w)
    <2>1. PICK pc \in Steps, ref \in Slots \cup {NoRef} :
             workers' = [workers EXCEPT ![w] =
                           [@ EXCEPT !.pc = pc, !.seen = rows[Job(w)], !.ref = ref]]
      BY <1>1, <1>a DEF Find, Steps, Hits, Tasks
    <2> DEFINE task == [workers[w] EXCEPT !.pc = pc, !.seen = rows[Job(w)], !.ref = ref]
    <2>2. task \in Tasks /\ task.job \in Tickets
      BY <1>a, <1>b DEF Tasks
    <2>3. workers' = [workers EXCEPT ![w] = task] /\ UNCHANGED <<notices, crashes>>
      BY <1>1, <2>1 DEF Find
    <2> HIDE DEF task
    <2>4. OrchestratorTypeOK'
      BY <2>2, <2>3, TaskType DEF TypeOK
    <2>5. QED
      BY <1>1, <2>4 DEF Find, TypesKept, TypeOK, StoreTypeOK, IpamTypeOK, HypervisorTypeOK
  <1>2. ASSUME Create(w) \/ Configure(w) \/ Start(w) PROVE HypervisorTypeOK'
    BY <1>2, <1>a, <1>b, VmType DEF Create, Configure, Start, TypeOK, HypervisorTypeOK
  <1>3. ASSUME NEW s \in Slots \cup {NoRef}, UNCHANGED <<notices, crashes>>,
               \/ workers' = [workers EXCEPT ![w] = [@ EXCEPT !.pc = "configure", !.slot = s]]
               \/ workers' = [workers EXCEPT ![w] = [@ EXCEPT !.pc = "saveRef", !.ref = s]]
        PROVE  OrchestratorTypeOK'
    <2>1. PICK task \in Tasks : /\ task.job \in Tickets
                                /\ workers' = [workers EXCEPT ![w] = task]
      <3> DEFINE created == [workers[w] EXCEPT !.pc = "configure", !.slot = s]
                 provided == [workers[w] EXCEPT !.pc = "saveRef", !.ref = s]
      <3>1. created \in Tasks /\ created.job \in Tickets
        BY <1>a DEF Tasks, Steps
      <3>2. provided \in Tasks /\ provided.job \in Tickets
        BY <1>a DEF Tasks, Steps
      <3>3. \/ workers' = [workers EXCEPT ![w] = created]
            \/ workers' = [workers EXCEPT ![w] = provided]
        BY <1>3
      <3> HIDE DEF created, provided
      <3>4. QED
        BY <3>1, <3>2, <3>3
    <2>2. QED
      BY <1>3, <2>1, TaskType DEF TypeOK
  <1>4. ASSUME NEW pc \in Steps, Goto(w, pc), UNCHANGED <<notices, crashes>>
        PROVE  OrchestratorTypeOK'
    BY <1>0, <1>4, MoveType
  <1>5. {"compensate", "start"} \subseteq Steps
    BY DEF Steps
  <1>6. CASE Create(w)
    <2>1. OrchestratorTypeOK'
      BY <1>3, <1>4, <1>5, <1>6 DEF Create
    <2>2. QED
      BY <1>2, <1>6, <2>1 DEF Create, TypesKept, TypeOK, StoreTypeOK, IpamTypeOK
  <1>7. CASE Configure(w)
    <2>1. OrchestratorTypeOK'
      BY <1>4, <1>5, <1>7 DEF Configure
    <2>2. QED
      BY <1>2, <1>7, <2>1 DEF Configure, TypesKept, TypeOK, StoreTypeOK, IpamTypeOK
  <1>8. CASE Start(w)
    <2>1. workers[w].slot \in Slots \cup {NoRef}
      BY <1>a DEF Tasks
    <2>2. OrchestratorTypeOK'
      BY <1>3, <1>4, <1>5, <1>8, <2>1 DEF Start
    <2>3. QED
      BY <1>2, <1>8, <2>2 DEF Start, TypesKept, TypeOK, StoreTypeOK, IpamTypeOK
  <1>9. QED
    BY <1>1, <1>6, <1>7, <1>8 DEF Provision

LEMMA EpilogueType ==
    ASSUME TypeOK, NEW w \in Workers,
           Finalize(w) \/ Rollback(w) \/ Ack(w) \/ Crash(w) \/ TimeLimit(w)
    PROVE  TypesKept
  <1> USE DEF At
  <1>0. workers[w].pc # "idle"
    BY DEF Finalize, Rollback, Compensate, Destroy, MarkFailed, NotifyFailed, Raise, Ack,
           Crash, TimeLimit
  <1>a. workers[w] \in Tasks /\ Job(w) \in Tickets /\ workers[w].job = Job(w)
    BY <1>0, BusyType DEF TypeOK, OrchestratorTypeOK, Job
  <1>b. rows[Job(w)] \in Rows /\ workers[w].seen \in Rows /\ Message(w) \in Messages
    BY <1>0, BusyType
  <1>c. ASSUME NEW pc \in Steps, Goto(w, pc), UNCHANGED <<notices, crashes>>
        PROVE  OrchestratorTypeOK'
    BY <1>0, <1>c, MoveType
  <1>1. CASE Finalize(w)
    <2>1. rows[Job(w)].ip \in IpIds \cup {NoIp} /\ rows[Job(w)].obj \in Nat
      BY <1>b DEF Rows
    <2>2. IpamTypeOK'
      BY <1>1, <1>a, <2>1, FinalizeType DEF Finalize, ipamVars, TypeOK, IpamTypeOK
    <2>3. PICK pc \in Steps : workers' = [workers EXCEPT ![w] =
                                            [@ EXCEPT !.pc = pc, !.seen = rows[Job(w)]]]
      BY <1>1 DEF Finalize, Steps
    <2> DEFINE task == [workers[w] EXCEPT !.pc = pc, !.seen = rows[Job(w)]]
    <2>4. task \in Tasks /\ task.job \in Tickets
      BY <1>a, <1>b DEF Tasks
    <2>5. workers' = [workers EXCEPT ![w] = task] /\ UNCHANGED <<notices, crashes>>
      BY <1>1, <2>3 DEF Finalize
    <2> HIDE DEF task
    <2>6. OrchestratorTypeOK'
      BY <2>4, <2>5, TaskType DEF TypeOK
    <2>7. QED
      BY <1>1, <2>2, <2>6 DEF Finalize, TypesKept, TypeOK, StoreTypeOK, HypervisorTypeOK
  <1>2. CASE Compensate(w)
    <2>1. workers[w].ip \in IpIds \cup {NoIp} /\ workers[w].obj \in Nat
      BY <1>a DEF Tasks
    <2>2. IpamTypeOK'
      BY <1>2, <1>a, <2>1, ReleaseType DEF Compensate, TypeOK
    <2>3. OrchestratorTypeOK'
      BY <1>2, <1>c DEF Compensate, Steps
    <2>4. QED
      BY <1>2, <2>2, <2>3 DEF Compensate, TypesKept, TypeOK, StoreTypeOK, HypervisorTypeOK
  <1>3. CASE Destroy(w)
    <2>1. HypervisorTypeOK'
      BY <1>3, <1>a, VmType DEF Destroy, TypeOK
    <2>2. OrchestratorTypeOK'
      BY <1>3, <1>c DEF Destroy, Steps
    <2>3. QED
      BY <1>3, <2>1, <2>2 DEF Destroy, TypesKept, TypeOK, StoreTypeOK, IpamTypeOK
  <1>4. CASE MarkFailed(w)
    <2> DEFINE new == [workers[w].seen EXCEPT !.status = "failed", !.ip = NoIp, !.obj = 0]
    <2>1. new \in Rows
      BY <1>b DEF Rows, Statuses
    <2>2. StoreTypeOK'
      BY <1>4, <1>a, <1>b, <2>1, CommitType DEF MarkFailed, TypeOK
    <2>3. OrchestratorTypeOK'
      BY <1>4, <1>c DEF MarkFailed, Steps
    <2>4. QED
      BY <1>4, <2>2, <2>3 DEF MarkFailed, TypesKept, TypeOK, IpamTypeOK, HypervisorTypeOK
  <1>5. CASE NotifyFailed(w)
    <2>1. OrchestratorTypeOK'
      BY <1>0, <1>5, StepType, NotifyType DEF NotifyFailed, Steps
    <2>2. QED
      BY <1>5, <2>1 DEF NotifyFailed, TypesKept, TypeOK, StoreTypeOK, IpamTypeOK,
                        HypervisorTypeOK
  <1>6. CASE Raise(w)
    <2>1. workers[w].try < MaxRetries => [Message(w) EXCEPT !.try = @ + 1] \in Messages
      BY <1>a, RetriesAssumption DEF Message, Messages, Tasks
    <2>2. StoreTypeOK'
      BY <1>6, <2>1, SendType DEF Raise, TypeOK, StoreTypeOK
    <2>3. OrchestratorTypeOK'
      BY <1>6, <1>c DEF Raise, Steps
    <2>4. QED
      BY <1>6, <2>2, <2>3 DEF Raise, TypesKept, TypeOK, IpamTypeOK, HypervisorTypeOK
  <1>7. CASE Ack(w)
    <2>1. OrchestratorTypeOK'
      BY <1>7, NoTaskType, TaskType DEF Ack, TypeOK
    <2>2. QED
      BY <1>7, <2>1 DEF Ack, TypesKept, TypeOK, StoreTypeOK, IpamTypeOK, HypervisorTypeOK
  <1>8. CASE Crash(w)
    <2>1. StoreTypeOK'
      BY <1>8, <1>b, SendType DEF Crash, TypeOK
    <2>2. crashes' \in 0 .. MaxCrashes
      BY <1>8, OrchestratorAssumption DEF Crash, TypeOK, OrchestratorTypeOK
    <2>3. OrchestratorTypeOK'
      BY <1>8, <2>2, NoTaskType DEF Crash, TypeOK, OrchestratorTypeOK
    <2>4. QED
      BY <1>8, <2>1, <2>3 DEF Crash, TypesKept, TypeOK, IpamTypeOK, HypervisorTypeOK
  <1>9. CASE TimeLimit(w)
    <2>1. OrchestratorTypeOK'
      BY <1>9, NoTaskType, TaskType DEF TimeLimit, TypeOK
    <2>2. QED
      BY <1>9, <2>1 DEF TimeLimit, TypesKept, TypeOK, StoreTypeOK, IpamTypeOK,
                        HypervisorTypeOK
  <1>10. QED
    BY <1>1, <1>2, <1>3, <1>4, <1>5, <1>6, <1>7, <1>8, <1>9 DEF Rollback

(* Every step of the system keeps the types.                               *)
LEMMA StepKeepsTypes == TypeOK /\ [Next]_vars => TypeOK'
  <1> SUFFICES ASSUME TypeOK, [Next]_vars PROVE TypeOK'
    OBVIOUS
  <1>0. mistaken' \subseteq Slots
    BY DEF vars, Next, Watch, TypeOK
  <1>1. ASSUME NEW h \in Handlers, UNCHANGED backendVars,
               \/ \E t \in Tickets : Receive(h, t)
               \/ InsertJob(h) \/ ResetJob(h) \/ Enqueue(h) \/ Abandon(h)
        PROVE  TypeOK'
    <2>1. StoreTypeOK' /\ IntakeTypeOK'
      BY <1>1, IntakeType
    <2>2. QED
      BY <1>0, <1>1, <2>1 DEF backendVars, orchestratorVars, ipamVars, TypeOK, IpamTypeOK,
                        HypervisorTypeOK, OrchestratorTypeOK
  <1>2. ASSUME NEW w \in Workers, WorkerStep(w) \/ Crash(w) \/ TimeLimit(w) PROVE TypeOK'
    <2>1. TypesKept
      BY <1>2, TakeType, PrologueType, MiddleType, ProvisionType, EpilogueType DEF WorkerStep
    <2>2. QED
      BY <1>0, <2>1 DEF TypesKept, TypeOK, IntakeTypeOK, intakeVars
  <1>3. CASE UNCHANGED vars
    BY <1>3 DEF vars, orchestratorVars, ipamVars, intakeVars, TypeOK, StoreTypeOK,
                IntakeTypeOK, IpamTypeOK, HypervisorTypeOK, OrchestratorTypeOK
  <1>4. CASE HypervisorStep
    <2>1. HypervisorTypeOK'
      BY <1>4, DeleteType DEF HypervisorStep, TypeOK
    <2>2. QED
      BY <1>0, <1>4, <2>1 DEF HypervisorStep, orchestratorVars, ipamVars, intakeVars, TypeOK,
                 StoreTypeOK, IntakeTypeOK, IpamTypeOK, OrchestratorTypeOK
  <1>5. QED
    BY <1>1, <1>2, <1>3, <1>4 DEF Next, Step

(* Every variable stays in its type, whatever happens: in particular a     *)
(* worker with a task has a ticket whose row it may read, and a message    *)
(* names an existing ticket and a retry within the task's limit.           *)
THEOREM TypeCorrect == Spec => []TypeOK
  BY InitType, StepKeepsTypes, PTL DEF Spec

-----------------------------------------------------------------------------
(* No accepted job is forgotten.  Requests that die before they enqueue,   *)
(* sagas that fail before their try block and kills by the time limit are  *)
(* excluded: each of these does forget one.                                *)
NothingForgets == Faults \cap {"abandon", "setupError", "timeLimit"} = {}

(* The task will write an outcome: it saw a status that its last commit    *)
(* replaces, or is still going to look.  That another task does run the    *)
(* job is not enough, for a session only writes the columns it changed.    *)
Settles(task) ==
    \/ task.pc \in {"load", "vmObj", "saveObj", "find", "finalize"}
    \/ task.pc = "mark" /\ task.seen.ip = NoIp
    \/ /\ task.pc \notin {"idle", "notifyOk", "notifyFailed", "raise", "ack"}
       /\ task.seen.status \in Pending

Enqueues(h, t) == handlers[h].job = t /\ handlers[h].pc = "enqueue"
Queued(t) == \E m \in Messages : m.job = t /\ queue[m] > 0

Carried(t) ==
    \/ \E h \in Handlers : Enqueues(h, t)
    \/ Queued(t)
    \/ \E w \in Workers : Job(w) = t /\ Settles(workers[w])

SawNoIp(task) == task.pc \in {"reserve", "saveIp", "vmObj", "saveObj"} => task.seen.ip = NoIp

CarryInv ==
    /\ \A w \in Workers : SawNoIp(workers[w])
    /\ \A t \in Tickets : rows[t].status \in Pending => Carried(t)

LEMMA InitCarries == Init => CarryInv
  BY DEF Init, StoreInit, OrchestratorInit, CarryInv, SawNoIp, NoTask, NoRow, Pending

(* A task carries its job on, hands it over, or was not the one to carry   *)
(* it.                                                                     *)
GoesOnCarrying(w) ==
    /\ SawNoIp(workers'[w])
    /\ rows'[Job(w)].status \in Pending =>
          \/ workers'[w].job = Job(w) /\ Settles(workers'[w])
          \/ \E m \in Messages : m.job = Job(w) /\ queue'[m] > 0
          \/ rows[Job(w)].status \in Pending /\ ~Settles(workers[w])

LEMMA TaskCarries ==
    ASSUME CarryInv, NEW w \in Workers, Job(w) \in Tickets, GoesOnCarrying(w),
           UNCHANGED handlers,
           \A v \in Workers : v # w => workers'[v] = workers[v],
           \A m \in Messages : queue[m] > 0 => queue'[m] > 0,
           \A t \in Tickets : t # Job(w) => rows'[t] = rows[t]
    PROVE  CarryInv'
  <1>1. ASSUME NEW v \in Workers PROVE SawNoIp(workers'[v])
    BY DEF CarryInv, GoesOnCarrying
  <1>2. ASSUME NEW t \in Tickets, rows'[t].status \in Pending PROVE Carried(t)'
    <2>1. CASE t = Job(w)
      <3>1. CASE workers'[w].job = Job(w) /\ Settles(workers'[w])
        BY <2>1, <3>1 DEF Carried, Job
      <3>2. CASE \E m \in Messages : m.job = Job(w) /\ queue'[m] > 0
        BY <2>1, <3>2 DEF Carried, Queued
      <3>3. CASE rows[Job(w)].status \in Pending /\ ~Settles(workers[w])
        BY <2>1, <3>3 DEF CarryInv, Carried, Enqueues, Queued, Job
      <3>4. QED
        BY <1>2, <2>1, <3>1, <3>2, <3>3 DEF GoesOnCarrying
    <2>2. CASE t # Job(w)
      BY <1>2, <2>2 DEF CarryInv, Carried, Enqueues, Queued, Job
    <2>3. QED
      BY <2>1, <2>2
  <1>3. QED
    BY <1>1, <1>2 DEF CarryInv

(* The steps of a task, one by one.                                        *)
LEMMA BusySteps ==
    ASSUME TypeOK, NEW w \in Workers, workers[w].pc # "idle",
           WorkerStep(w) \/ Crash(w)
    PROVE  /\ Job(w) \in Tickets
           /\ UNCHANGED handlers
           /\ \A v \in Workers : v # w => workers'[v] = workers[v]
           /\ \A m \in Messages : queue[m] > 0 => queue'[m] > 0
           /\ \A t \in Tickets : t # Job(w) => rows'[t] = rows[t]
  <1>1. Job(w) \in Tickets /\ Message(w) \in Messages
    BY BusyType
  <1>2. workers \in [Workers -> Tasks] /\ rows \in [Tickets -> Rows] /\ queue \in [Messages -> Nat]
    BY DEF TypeOK, OrchestratorTypeOK, StoreTypeOK
  <1>3. UNCHANGED handlers /\ \A v \in Workers : v # w => workers'[v] = workers[v]
    BY <1>2 DEF WorkerStep, Take, At, Load, NotifyStarted, Reserve, SaveIp, CreateVmObj, SaveObj,
                Mark, Provision, Find, Create, Configure, Start, SaveRef, Finalize, Complete,
                NotifyOk, Rollback, Compensate, Destroy, MarkFailed, NotifyFailed, Raise, Ack,
                Crash, Goto, intakeVars
  <1>4. \A m \in Messages : queue[m] > 0 => queue'[m] > 0
    <2>1. UNCHANGED queue \/ \E m : Send(m)
      BY DEF WorkerStep, Take, At, Load, NotifyStarted, Reserve, SaveIp, CreateVmObj, SaveObj,
             Mark, Provision, Find, Create, Configure, Start, SaveRef, Finalize, Complete,
             NotifyOk, Rollback, Compensate, Destroy, MarkFailed, NotifyFailed, Raise, Ack, Crash
    <2>2. ASSUME NEW m, Send(m), NEW n \in Messages, queue[n] > 0 PROVE queue'[n] > 0
      <3>1. queue'[n] = IF n = m THEN queue[n] + 1 ELSE queue[n]
        BY <1>2, <2>2 DEF Send
      <3>2. queue[n] \in Nat
        BY <1>2
      <3>3. QED
        BY <2>2, <3>1, <3>2
    <2>3. QED
      BY <2>1, <2>2
  <1>5. \A t \in Tickets : t # Job(w) => rows'[t] = rows[t]
    BY <1>2 DEF WorkerStep, Take, At, Load, NotifyStarted, Reserve, SaveIp, CreateVmObj, SaveObj,
                Mark, Provision, Find, Create, Configure, Start, SaveRef, Finalize, Complete,
                NotifyOk, Rollback, Compensate, Destroy, MarkFailed, NotifyFailed, Raise, Ack,
                Crash, Commit
  <1>6. QED
    BY <1>1, <1>3, <1>4, <1>5

LEMMA CommitStatus ==
    ASSUME TypeOK, NEW t \in Tickets, NEW seen, NEW new, Commit(t, seen, new)
    PROVE  rows'[t].status = IF new.status = seen.status THEN rows[t].status ELSE new.status
  BY DEF TypeOK, StoreTypeOK, Commit, Flush

(* What becomes of a task that only moves on.                              *)
LEMMA GotoIs ==
    ASSUME TypeOK, NEW w \in Workers, NEW pc, Goto(w, pc)
    PROVE  /\ workers'[w].pc = pc
           /\ workers'[w].seen = workers[w].seen
           /\ workers'[w].job = Job(w)
  BY DEF TypeOK, OrchestratorTypeOK, Tasks, Goto, Job

LEMMA PrologueCarries ==
    ASSUME NothingForgets, TypeOK, CarryInv, NEW w \in Workers,
           \/ Load(w) \/ NotifyStarted(w) \/ Reserve(w) \/ SaveIp(w) \/ CreateVmObj(w)
           \/ SaveObj(w) \/ Mark(w)
    PROVE  GoesOnCarrying(w)
  <1> USE DEF At, GoesOnCarrying, SawNoIp, Settles
  <1>0. workers \in [Workers -> Tasks]
    BY DEF TypeOK, OrchestratorTypeOK
  <1>1. SawNoIp(workers[w])
    BY DEF CarryInv
  <1>2. CASE Load(w)
    <2>1. CASE rows[Job(w)].status \in Pending
      <3>1. workers' = [workers EXCEPT ![w] =
               [@ EXCEPT !.pc = "started", !.seen = rows[Job(w)], !.ip = rows[Job(w)].ip,
                         !.obj = rows[Job(w)].obj, !.ref = rows[Job(w)].ref]]
        BY <1>2, <2>1 DEF Load, NothingForgets, Pending
      <3>2. /\ workers'[w].pc = "started" /\ workers'[w].job = Job(w)
            /\ workers'[w].seen = rows[Job(w)]
        BY <1>0, <3>1 DEF Tasks, Job
      <3>3. QED
        BY <2>1, <3>2
    <2>2. CASE rows[Job(w)].status \notin Pending
      <3>1. workers'[w].pc \in {"started", "ack"}
        <4>1. ASSUME NEW row,
                     workers' = [workers EXCEPT ![w] =
                       [@ EXCEPT !.pc = "started", !.seen = row,
                                 !.ip = row.ip, !.obj = row.obj, !.ref = row.ref]]
              PROVE  workers'[w].pc = "started"
          BY <1>0, <4>1 DEF Tasks
        <4>2. Goto(w, "ack") \/ \E row : workers' = [workers EXCEPT ![w] =
                       [@ EXCEPT !.pc = "started", !.seen = row,
                                 !.ip = row.ip, !.obj = row.obj, !.ref = row.ref]]
          BY <1>2 DEF Load
        <4>3. QED
          BY <4>1, <4>2, GotoIs
      <3>2. rows' = rows
        BY <1>2 DEF Load
      <3>3. QED
        BY <2>2, <3>1, <3>2
    <2>3. QED
      BY <2>1, <2>2
  <1>3. CASE NotifyStarted(w)
    BY <1>3, GotoIs DEF NotifyStarted
  <1>4. CASE Reserve(w)
    <2>1. /\ workers'[w].pc \in {"saveIp", "compensate"} /\ workers'[w].job = Job(w)
          /\ workers'[w].seen = workers[w].seen
      <3>1. ASSUME NEW id,
                   workers' = [workers EXCEPT ![w] = [@ EXCEPT !.pc = "saveIp", !.ip = id]]
            PROVE  /\ workers'[w].pc = "saveIp" /\ workers'[w].job = Job(w)
                   /\ workers'[w].seen = workers[w].seen
        BY <1>0, <3>1 DEF Tasks, Job
      <3>2. \/ \E id : workers' = [workers EXCEPT ![w] = [@ EXCEPT !.pc = "saveIp", !.ip = id]]
            \/ Goto(w, "compensate")
        BY <1>4 DEF Reserve
      <3>3. QED
        BY <3>1, <3>2, GotoIs
    <2>2. QED
      BY <1>1, <1>4, <2>1 DEF Reserve
  <1>5. CASE SaveIp(w)
    BY <1>1, <1>5, GotoIs DEF SaveIp
  <1>6. CASE CreateVmObj(w)
    <2>1. /\ workers'[w].pc \in {"saveObj", "mark"} /\ workers'[w].job = Job(w)
          /\ workers'[w].seen = workers[w].seen
      <3>1. ASSUME NEW obj,
                   workers' = [workers EXCEPT ![w] = [@ EXCEPT !.pc = "saveObj", !.obj = obj]]
            PROVE  /\ workers'[w].pc = "saveObj" /\ workers'[w].job = Job(w)
                   /\ workers'[w].seen = workers[w].seen
        BY <1>0, <3>1 DEF Tasks, Job
      <3>2. \/ \E obj : workers' = [workers EXCEPT ![w] = [@ EXCEPT !.pc = "saveObj", !.obj = obj]]
            \/ Goto(w, "mark")
        BY <1>6 DEF CreateVmObj
      <3>3. QED
        BY <3>1, <3>2, GotoIs
    <2>2. QED
      BY <1>1, <1>6, <2>1 DEF CreateVmObj
  <1>7. CASE SaveObj(w)
    BY <1>1, <1>7, GotoIs DEF SaveObj
  <1>8. CASE Mark(w)
    <2>1. CASE Goto(w, "find")
      BY <2>1, GotoIs
    <2>2. CASE ~Goto(w, "find")
      <3>1. /\ workers[w].seen.ip = NoIp
            /\ workers' = [workers EXCEPT ![w] =
                             [@ EXCEPT !.pc = "compensate", !.seen = rows[Job(w)]]]
        BY <1>8, <2>2 DEF Mark
      <3>2. /\ workers'[w].pc = "compensate" /\ workers'[w].job = Job(w)
            /\ workers'[w].seen = rows[Job(w)]
        BY <1>0, <3>1 DEF Tasks, Job
      <3>3. rows' = rows
        BY <1>8, <2>2 DEF Mark
      <3>4. QED
        BY <3>2, <3>3
    <2>3. QED
      BY <2>1, <2>2
  <1>9. QED
    BY <1>2, <1>3, <1>4, <1>5, <1>6, <1>7, <1>8

LEMMA ProvisionCarries ==
    ASSUME TypeOK, CarryInv, NEW w \in Workers,
           Provision(w) \/ SaveRef(w) \/ Finalize(w)
    PROVE  GoesOnCarrying(w)
  <1> USE DEF At, GoesOnCarrying, SawNoIp, Settles
  <1>0. workers \in [Workers -> Tasks]
    BY DEF TypeOK, OrchestratorTypeOK
  <1>2. CASE Find(w) \/ Finalize(w)
    <2>1. /\ workers'[w].pc \in {"saveRef", "create", "complete", "compensate"}
          /\ workers'[w].job = Job(w) /\ workers'[w].seen = rows[Job(w)]
      <3>1. ASSUME NEW pc, NEW ref,
                   workers' = [workers EXCEPT ![w] =
                                 [@ EXCEPT !.pc = pc, !.seen = rows[Job(w)], !.ref = ref]]
            PROVE  /\ workers'[w].pc = pc /\ workers'[w].job = Job(w)
                   /\ workers'[w].seen = rows[Job(w)]
        BY <1>0, <3>1 DEF Tasks, Job
      <3>2. ASSUME NEW pc,
                   workers' = [workers EXCEPT ![w] = [@ EXCEPT !.pc = pc, !.seen = rows[Job(w)]]]
            PROVE  /\ workers'[w].pc = pc /\ workers'[w].job = Job(w)
                   /\ workers'[w].seen = rows[Job(w)]
        BY <1>0, <3>2 DEF Tasks, Job
      <3>3. \E pc \in {"saveRef", "create", "complete", "compensate"} :
              \/ workers' = [workers EXCEPT ![w] = [@ EXCEPT !.pc = pc, !.seen = rows[Job(w)]]]
              \/ \E ref : workers' = [workers EXCEPT ![w] =
                                        [@ EXCEPT !.pc = pc, !.seen = rows[Job(w)], !.ref = ref]]
        <4>1. CASE Find(w)
          BY <4>1 DEF Find
        <4>2. CASE Finalize(w)
          BY <4>2 DEF Finalize
        <4>3. QED
          BY <1>2, <4>1, <4>2
      <3>4. QED
        BY <3>1, <3>2, <3>3
    <2>2. rows' = rows
      BY <1>2 DEF Find, Finalize
    <2>3. QED
      BY <2>1, <2>2
  <1>3. CASE Create(w) \/ Configure(w) \/ Start(w)
    <2>1. /\ workers'[w].pc \in {"configure", "start", "saveRef", "compensate"}
          /\ workers'[w].job = Job(w) /\ workers'[w].seen = workers[w].seen
      <3>0. ASSUME NEW s,
                   workers' = [workers EXCEPT ![w] = [@ EXCEPT !.pc = "configure", !.slot = s]]
            PROVE  /\ workers'[w].pc = "configure" /\ workers'[w].job = Job(w)
                   /\ workers'[w].seen = workers[w].seen
        BY <1>0, <3>0 DEF Tasks, Job
      <3>1. ASSUME NEW s,
                   workers' = [workers EXCEPT ![w] = [@ EXCEPT !.pc = "saveRef", !.ref = s]]
            PROVE  /\ workers'[w].pc = "saveRef" /\ workers'[w].job = Job(w)
                   /\ workers'[w].seen = workers[w].seen
        BY <1>0, <3>1 DEF Tasks, Job
      <3>2. \/ \E s : workers' = [workers EXCEPT ![w] = [@ EXCEPT !.pc = "configure", !.slot = s]]
            \/ \E s : workers' = [workers EXCEPT ![w] = [@ EXCEPT !.pc = "saveRef", !.ref = s]]
            \/ Goto(w, "compensate") \/ Goto(w, "start")
        BY <1>3 DEF Create, Configure, Start
      <3>3. QED
        BY <3>0, <3>1, <3>2, GotoIs
    <2>2. rows' = rows /\ workers[w].pc \in {"create", "configure", "start"}
      BY <1>3 DEF Create, Configure, Start
    <2>3. QED
      BY <2>1, <2>2
  <1>4. CASE SaveRef(w)
    BY <1>4, GotoIs DEF SaveRef
  <1>5. QED
    BY <1>2, <1>3, <1>4 DEF Provision

LEMMA EpilogueCarries ==
    ASSUME TypeOK, CarryInv, NEW w \in Workers, Job(w) \in Tickets,
           \/ Complete(w) \/ NotifyOk(w) \/ Rollback(w) \/ Ack(w)
    PROVE  GoesOnCarrying(w)
  <1> USE DEF At, GoesOnCarrying, SawNoIp, Settles
  <1>1. CASE Complete(w) \/ MarkFailed(w)
    <2>1. PICK status \in {"completed", "failed"} :
            rows'[Job(w)].status = IF status = workers[w].seen.status
                                   THEN rows[Job(w)].status ELSE status
      <3>1. CASE Complete(w)
        <4> DEFINE new == [workers[w].seen EXCEPT !.status = "completed"]
        <4>1. Commit(Job(w), workers[w].seen, new) /\ new.status = "completed"
          BY <3>1 DEF Complete, TypeOK, OrchestratorTypeOK, Tasks, Rows
        <4> HIDE DEF new
        <4>2. QED
          BY <4>1, CommitStatus
      <3>2. CASE MarkFailed(w)
        <4> DEFINE new == [workers[w].seen EXCEPT !.status = "failed", !.ip = NoIp, !.obj = 0]
        <4>1. Commit(Job(w), workers[w].seen, new) /\ new.status = "failed"
          BY <3>2 DEF MarkFailed, TypeOK, OrchestratorTypeOK, Tasks, Rows
        <4> HIDE DEF new
        <4>2. QED
          BY <4>1, CommitStatus
      <3>3. QED
        BY <1>1, <3>1, <3>2
    <2>2. workers'[w].pc \in {"notifyOk", "notifyFailed"}
      BY <1>1, GotoIs DEF Complete, MarkFailed
    <2>3. workers[w].pc \in {"complete", "markFailed"}
      BY <1>1 DEF Complete, MarkFailed
    <2>4. QED
      BY <2>1, <2>2, <2>3 DEF Pending
  <1>2. CASE Compensate(w) \/ Destroy(w)
    <2>1. /\ workers'[w].pc \in {"destroy", "markFailed"} /\ workers'[w].job = Job(w)
          /\ workers'[w].seen = workers[w].seen
      BY <1>2, GotoIs DEF Compensate, Destroy
    <2>2. rows' = rows /\ workers[w].pc \in {"compensate", "destroy"}
      BY <1>2 DEF Compensate, Destroy
    <2>3. QED
      BY <2>1, <2>2
  <1>3. CASE NotifyOk(w) \/ NotifyFailed(w) \/ Raise(w) \/ Ack(w)
    <2>1. rows' = rows /\ workers[w].pc \in {"notifyOk", "notifyFailed", "raise", "ack"}
      BY <1>3 DEF NotifyOk, NotifyFailed, Raise, Ack
    <2>2. workers'[w].pc \in {"raise", "ack", "idle"}
      <3>1. CASE Ack(w)
        BY <3>1 DEF Ack, NoTask, TypeOK, OrchestratorTypeOK
      <3>2. QED
        BY <1>3, <3>1, GotoIs DEF NotifyOk, NotifyFailed, Raise
    <2>3. QED
      BY <2>1, <2>2
  <1>4. QED
    BY <1>1, <1>2, <1>3 DEF Rollback

(* A lost worker's message waits again, whatever it was doing.             *)
LEMMA CrashCarries ==
    ASSUME TypeOK, NEW w \in Workers, Crash(w)
    PROVE  GoesOnCarrying(w)
  <1>1. Message(w) \in Messages /\ Message(w).job = Job(w)
    BY BusyType DEF Crash, At, Message, Job
  <1>2. queue'[Message(w)] > 0
    <2>1. queue'[Message(w)] = queue[Message(w)] + 1 /\ queue[Message(w)] \in Nat
      BY <1>1 DEF Crash, Send, TypeOK, StoreTypeOK
    <2>2. QED
      BY <2>1
  <1>3. workers'[w].pc = "idle"
    BY DEF Crash, NoTask, TypeOK, OrchestratorTypeOK
  <1>4. QED
    BY <1>1, <1>2, <1>3 DEF GoesOnCarrying, SawNoIp

(* A worker takes over what a message carried.                             *)
LEMMA TakeCarries ==
    ASSUME TypeOK, CarryInv, NEW w \in Workers, NEW m \in Messages, Take(w, m)
    PROVE  CarryInv'
  <1>1. /\ workers'[w].pc = "load" /\ workers'[w].job = m.job
        /\ workers[w].pc = "idle" /\ \A v \in Workers : v # w => workers'[v] = workers[v]
    BY DEF Take, At, NoTask, TypeOK, OrchestratorTypeOK
  <1>2. \A n \in Messages : n # m => queue'[n] = queue[n]
    BY DEF Take, TypeOK, StoreTypeOK
  <1>3. rows' = rows /\ handlers' = handlers
    BY DEF Take, intakeVars
  <1>4. ASSUME NEW t \in Tickets, rows[t].status \in Pending PROVE Carried(t)'
    <2>1. CASE t = m.job
      BY <1>1, <2>1 DEF Carried, Job, Settles
    <2>2. CASE t # m.job
      BY <1>1, <1>2, <1>3, <1>4, <2>2 DEF CarryInv, Carried, Enqueues, Queued, Job, Settles
    <2>3. QED
      BY <2>1, <2>2
  <1>5. QED
    BY <1>1, <1>3, <1>4 DEF CarryInv, SawNoIp

(* A request commits the job, and then carries it to the queue.            *)
LEMMA RequestCarries ==
    ASSUME TypeOK, CarryInv, NEW h \in Handlers, UNCHANGED backendVars,
           \/ \E t \in Tickets : Receive(h, t)
           \/ InsertJob(h) \/ ResetJob(h) \/ Enqueue(h)
    PROVE  CarryInv'
  <1> DEFINE j == handlers[h].job
  <1>1. /\ handlers \in [Handlers -> Requests] /\ rows \in [Tickets -> Rows]
        /\ queue \in [Messages -> Nat] /\ workers' = workers
    BY DEF TypeOK, IntakeTypeOK, StoreTypeOK, backendVars, orchestratorVars
  <1>2. \A g \in Handlers : g # h => handlers'[g] = handlers[g]
    BY <1>1 DEF Receive, InsertJob, ResetJob, Enqueue
  <1>3. CASE Enqueue(h)
    <2> DEFINE m == [job |-> j, try |-> 0]
    <2>1. m \in Messages /\ m.job = j
      BY <1>3, RetriesAssumption DEF Enqueue, Messages, TypeOK, IntakeTypeOK, Requests
    <2>2. queue' = [queue EXCEPT ![m] = @ + 1] /\ rows' = rows
      BY <1>3 DEF Enqueue, Send
    <2> HIDE DEF m
    <2>3. queue'[m] > 0 /\ \A n \in Messages : queue[n] > 0 => queue'[n] > 0
      <3>1. queue[m] \in Nat /\ \A n \in Messages : queue[n] \in Nat
        BY <1>1, <2>1
      <3>2. QED
        BY <1>1, <2>1, <2>2, <3>1
    <2>4. QED
      BY <1>1, <1>2, <2>1, <2>2, <2>3 DEF CarryInv, Carried, Enqueues, Queued, Job
  <1>4. ASSUME UNCHANGED queue, ~(handlers[h].pc = "enqueue"),
               \A t \in Tickets : t # j => rows'[t] = rows[t],
               rows' = rows \/ (handlers'[h].job = j /\ handlers'[h].pc = "enqueue")
        PROVE  CarryInv'
    <2>1. ASSUME NEW t \in Tickets, rows'[t].status \in Pending PROVE Carried(t)'
      <3>1. CASE handlers'[h].job = t /\ handlers'[h].pc = "enqueue"
        BY <3>1 DEF Carried, Enqueues
      <3>2. CASE ~(handlers'[h].job = t /\ handlers'[h].pc = "enqueue")
        <4>1. rows'[t] = rows[t]
          BY <1>4, <3>2
        <4>2. Carried(t)
          BY <2>1, <4>1 DEF CarryInv
        <4>3. CASE \E g \in Handlers : Enqueues(g, t)
          BY <1>2, <1>4, <4>3 DEF Carried, Enqueues
        <4>4. CASE Queued(t)
          BY <1>4, <4>4 DEF Carried, Queued
        <4>5. CASE \E w \in Workers : Job(w) = t /\ Settles(workers[w])
          BY <1>1, <4>5 DEF Carried, Job
        <4>6. QED
          BY <4>2, <4>3, <4>4, <4>5 DEF Carried
      <3>3. QED
        BY <3>1, <3>2
    <2>2. QED
      BY <1>1, <2>1 DEF CarryInv
  <1>5. CASE \E t \in Tickets : Receive(h, t)
    BY <1>4, <1>5 DEF Receive
  <1>6. CASE InsertJob(h)
    <2>1. rows' = rows \/ (handlers'[h].job = j /\ handlers'[h].pc = "enqueue")
      BY <1>1, <1>6 DEF InsertJob, Requests
    <2>2. \A t \in Tickets : t # j => rows'[t] = rows[t]
      BY <1>1, <1>6 DEF InsertJob
    <2>3. QED
      BY <1>4, <1>6, <2>1, <2>2 DEF InsertJob
  <1>7. CASE ResetJob(h)
    <2>1. handlers'[h].job = j /\ handlers'[h].pc = "enqueue"
      BY <1>1, <1>7 DEF ResetJob, Requests
    <2>2. \A t \in Tickets : t # j => rows'[t] = rows[t]
      BY <1>1, <1>7 DEF ResetJob, Commit
    <2>3. QED
      BY <1>4, <1>7, <2>1, <2>2 DEF ResetJob
  <1>8. QED
    BY <1>3, <1>5, <1>6, <1>7

LEMMA StepCarries ==
    ASSUME NothingForgets PROVE TypeOK /\ CarryInv /\ [Next]_vars => CarryInv'
  <1> SUFFICES ASSUME TypeOK, CarryInv, [Next]_vars PROVE CarryInv'
    OBVIOUS
  <1>1. ASSUME NEW w \in Workers, WorkerStep(w) \/ Crash(w) PROVE CarryInv'
    <2>1. CASE workers[w].pc = "idle"
      <3>1. PICK m \in Messages : Take(w, m)
        BY <1>1, <2>1 DEF WorkerStep, Crash, At, Load, NotifyStarted, Reserve, SaveIp,
               CreateVmObj, SaveObj, Mark, Provision, Find, Create, Configure, Start, SaveRef,
               Finalize, Complete, NotifyOk, Rollback, Compensate, Destroy, MarkFailed,
               NotifyFailed, Raise, Ack
      <3>2. QED
        BY <3>1, TakeCarries
    <2>2. CASE workers[w].pc # "idle"
      <3>1. Job(w) \in Tickets
        BY <2>2, BusyType
      <3>2. GoesOnCarrying(w)
        BY <1>1, <2>2, <3>1, PrologueCarries, ProvisionCarries, EpilogueCarries, CrashCarries
           DEF WorkerStep, Take, At
      <3>3. QED
        BY <1>1, <2>2, <3>1, <3>2, BusySteps, TaskCarries
    <2>3. QED
      BY <2>1, <2>2
  <1>2. ASSUME NEW h \in Handlers, UNCHANGED backendVars,
               \/ \E t \in Tickets : Receive(h, t)
               \/ InsertJob(h) \/ ResetJob(h) \/ Enqueue(h)
        PROVE  CarryInv'
    BY <1>2, RequestCarries
  <1>3. CASE UNCHANGED vars \/ HypervisorStep
    BY <1>3 DEF vars, HypervisorStep, intakeVars, orchestratorVars, CarryInv, Carried, Enqueues, Queued, Job
  <1>4. ~(\E h \in Handlers : Abandon(h)) /\ ~(\E w \in Workers : TimeLimit(w))
    BY DEF NothingForgets, Abandon, TimeLimit
  <1>5. QED
    BY <1>1, <1>2, <1>3, <1>4 DEF Next, Step

(* An accepted job is under way somewhere: a request is about to enqueue   *)
(* it, a message of it waits, or a worker runs it.  Overlapping webhooks,  *)
(* lost workers, retries and every failing call are allowed.               *)
THEOREM AcceptedJobsCarried == ASSUME NothingForgets PROVE Spec => []JobsCarried
  <1>1. CarryInv => JobsCarried
    BY DEF CarryInv, Carried, Enqueues, Queued, JobsCarried, Settles, Runs
  <1>2. QED
    BY <1>1, InitType, StepKeepsTypes, InitCarries, StepCarries, PTL DEF Spec
=============================================================================
