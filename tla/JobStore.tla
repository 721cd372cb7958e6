------------------------------ MODULE JobStore ------------------------------
(***************************************************************************)
(* What the API and the Celery workers share: the provisioning_jobs table  *)
(* in Postgres and the Celery queue in Redis.  Both are taken to be        *)
(* available: no commit fails, and a message is lost only where an action  *)
(* says so.                                                                *)
(***************************************************************************)
EXTENDS JobModel

CONSTANT MaxRetries   \* of the provision_vm task

ASSUME RetriesAssumption == MaxRetries \in Nat

VARIABLES
    rows,    \* ticket -> its row of provisioning_jobs
    queue    \* message -> how many of it wait in the broker

(* A provision_vm task: its job and how often it was retried.  The broker  *)
(* gives no order that redelivery and countdowns do not upset.             *)
Messages == [job : Tickets, try : 0 .. MaxRetries]

StoreTypeOK ==
    /\ rows \in [Tickets -> Rows]
    /\ queue \in [Messages -> Nat]

StoreInit ==
    /\ rows = [t \in Tickets |-> NoRow]
    /\ queue = [m \in Messages |-> 0]

(* db.commit() of a row loaded as seen and changed into new: the UPDATE    *)
(* names only the columns the session changed, so what another session     *)
(* wrote meanwhile to any other column survives.                           *)
Flush(row, seen, new) ==
    [status |-> IF new.status = seen.status THEN row.status ELSE new.status,
     ip     |-> IF new.ip = seen.ip THEN row.ip ELSE new.ip,
     obj    |-> IF new.obj = seen.obj THEN row.obj ELSE new.obj,
     ref    |-> IF new.ref = seen.ref THEN row.ref ELSE new.ref]

Commit(t, seen, new) == rows' = [rows EXCEPT ![t] = Flush(@, seen, new)]

(* provision_vm.delay, a retry, or a redelivery.                           *)
Send(m) == queue' = [queue EXCEPT ![m] = @ + 1]
=============================================================================
