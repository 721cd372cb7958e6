--------------------------- MODULE WebhookIntake ----------------------------
(***************************************************************************)
(* POST /api/v1/provision-vm.  The endpoint is a plain def, so each        *)
(* request runs on a thread of its own: it reads the ticket's job, decides *)
(* on what it read, commits, and only then sends the task to the broker.   *)
(***************************************************************************)
EXTENDS JobStore

CONSTANTS
    Handlers,     \* request threads of the API
    MaxWebhooks   \* bound: webhooks received in a behaviour

VARIABLES
    handlers,     \* request thread -> its request
    webhooks      \* webhooks received so far

ASSUME IntakeAssumption == MaxWebhooks \in Nat

intakeVars == <<handlers, webhooks>>

NoRequest == [pc |-> "idle", job |-> NoTicket, seen |-> NoRow]

Requests == [pc   : {"idle", "insert", "reset", "enqueue"},
             job  : Tickets \cup {NoTicket},
             seen : Rows]

IntakeTypeOK ==
    /\ handlers \in [Handlers -> Requests]
    /\ \A h \in Handlers : handlers[h].pc # "idle" => handlers[h].job \in Tickets
    /\ webhooks \in 0 .. MaxWebhooks

IntakeInit ==
    /\ handlers = [h \in Handlers |-> NoRequest]
    /\ webhooks = 0

(* Mutant of Receive: a job under way is started over like a failed one.   *)
ReceiveAgain(h, t) ==
    /\ handlers[h].pc = "idle"
    /\ webhooks < MaxWebhooks
    /\ "overlap" \in Faults \/ \A g \in Handlers : handlers[g].job # t
    /\ webhooks' = webhooks + 1
    /\ handlers' = [handlers EXCEPT ![h] =
         CASE rows[t].status = "absent" -> [pc |-> "insert", job |-> t, seen |-> NoRow]
           [] rows[t].status = "completed" -> NoRequest
           [] OTHER -> [pc |-> "reset", job |-> t, seen |-> rows[t]]]
    /\ UNCHANGED <<rows, queue>>

(* db.query(...).one_or_none(), and the answer without any change for a    *)
(* job that is under way or completed.                                     *)
Receive(h, t) ==
    /\ handlers[h].pc = "idle"
    /\ webhooks < MaxWebhooks
    /\ "overlap" \in Faults \/ \A g \in Handlers : handlers[g].job # t
    /\ webhooks' = webhooks + 1
    /\ handlers' = [handlers EXCEPT ![h] =
         CASE rows[t].status = "absent" -> [pc |-> "insert", job |-> t, seen |-> NoRow]
           [] rows[t].status = "failed" -> [pc |-> "reset", job |-> t, seen |-> rows[t]]
           [] OTHER -> NoRequest]
    /\ UNCHANGED <<rows, queue>>

(* A new row, unless another request inserted the ticket first: the unique *)
(* index refuses the second and the request ends with an error.            *)
InsertJob(h) ==
    LET t == handlers[h].job IN
    /\ handlers[h].pc = "insert"
    /\ \/ /\ rows[t].status = "absent"
          /\ rows' = [rows EXCEPT ![t] = NewRow]
          /\ handlers' = [handlers EXCEPT ![h].pc = "enqueue"]
       \/ /\ rows[t].status # "absent"
          /\ handlers' = [handlers EXCEPT ![h] = NoRequest]
          /\ UNCHANGED rows
    /\ UNCHANGED <<queue, webhooks>>

(* Mutant of ResetJob: hypervisor_ref is not cleared.                      *)
ResetKeepsRef(h) ==
    LET seen == handlers[h].seen IN
    /\ handlers[h].pc = "reset"
    /\ Commit(handlers[h].job, seen, [NewRow EXCEPT !.ref = seen.ref])
    /\ handlers' = [handlers EXCEPT ![h].pc = "enqueue"]
    /\ UNCHANGED <<queue, webhooks>>

(* FAILED: the job starts over, its resources forgotten.                   *)
ResetJob(h) ==
    LET t == handlers[h].job IN
    /\ handlers[h].pc = "reset"
    /\ Commit(t, handlers[h].seen, NewRow)
    /\ handlers' = [handlers EXCEPT ![h].pc = "enqueue"]
    /\ UNCHANGED <<queue, webhooks>>

Enqueue(h) ==
    /\ handlers[h].pc = "enqueue"
    /\ Send([job |-> handlers[h].job, try |-> 0])
    /\ handlers' = [handlers EXCEPT ![h] = NoRequest]
    /\ UNCHANGED <<rows, webhooks>>

(* The API process ends, or delay() raises because the broker is away:     *)
(* nothing remembers that the committed job was never enqueued.            *)
Abandon(h) ==
    /\ "abandon" \in Faults
    /\ handlers[h].pc # "idle"
    /\ handlers' = [handlers EXCEPT ![h] = NoRequest]
    /\ UNCHANGED <<rows, queue, webhooks>>

(* What a request does once it has been received.                          *)
IntakeStep(h) == InsertJob(h) \/ ResetJob(h) \/ Enqueue(h)
=============================================================================
