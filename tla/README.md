# Werft in TLA+

Werft is a self-service gateway: an approved OTOBO ticket calls its webhook, a
Celery worker reserves an address in NetBox or Nautobot, provides a VM on
Proxmox VE or vSphere, finalizes the address and reports back to the ticket.
This directory holds TLA+ models of it, TLC configurations that check them on
small instances, and proofs that TLAPS checks for every size.

Every definition is translated from the code under `src/`; `PROJECT.json`
("map") names the lines each one stands for. Paths below are relative to `src/`.

## 1. The system

| Component | Source | State it keeps | Operations |
|---|---|---|---|
| Webhook endpoint | `app/api/v1/routes/provision.py` | the request thread's copy of the job | `POST /provision-vm`: read, insert or reset, commit, enqueue; `GET /jobs` reads |
| Job table | `app/models/job.py`, `app/db.py` | `provisioning_jobs`: status, address, IPAM object ids, `hypervisor_ref`; `ticket_id` unique | commits of the API and of the workers |
| Celery task, broker, worker pool | `app/workers/`, `docker-compose.yml` | the queue; two worker processes | delivery, late acknowledgement, redelivery, time limit, automatic retry |
| Provisioning saga | `app/services/orchestrator.py` | the task's locals and its session | `Orchestrator.run`, its `except` block included |
| IPAM adapters | `app/services/ipam/`, `app/services/netbox.py` | none; objects in NetBox/Nautobot | `reserve_ip`, `create_vm_if_possible`, `finalize`, `compensate` |
| Hypervisor provisioners | `app/provisioners/` | none; VMs in Proxmox/vSphere | `provision`, `destroy`, inventory listings |
| OTOBO client | `app/services/otobo.py` | none; the ticket's state in OTOBO | `notify_started/success/failure`, `TicketGet` |
| Ticket mapper, request schema | `app/services/ticket_mapper.py`, `app/schemas/otobo.py` | none | webhook or ticket to request |
| Webhook authentication | `app/core/security.py` | none | API key, HMAC |
| Settings vault | `app/core/runtime_settings.py`, `app/core/config.py`, `app/api/v1/routes/settings.py` | one encrypted row; a five-second cache in every process | load, merge and save, invalidate |
| Endpoint lists | `app/core/endpoints.py` | part of the vault | merge with stored secrets, connection references |
| Master key | `app/core/crypto.py` | one file shared by all containers | create on first start, read |
| Bootstrap | `app/core/bootstrap.py`, `app/main.py` | first ops user, imported `.env` | at every start |
| Ops accounts and sessions | `app/core/auth.py`, `app/api/v1/routes/auth.py` | users with `session_version`; login attempts in memory | login, logout, change password |
| Ops status and setup | `app/api/v1/routes/ops.py` | a lock in memory, a subprocess | status, run setup (streamed) |
| OTOBO daemon control | `app/services/otobo_daemon.py` | none | status, restart |
| Catalog and its sync | `app/services/catalog.py`, `scripts/sync_otobo_catalog.py`, `scripts/catalog_sync_loop.py` | files on the OTOBO host | list, push, loop |
| OTOBO installation scripts | `scripts/install_otobo_setup.py`, `scripts/deploy_otobo_vm_process.py` | inside OTOBO | run once |
| User interface | `frontend/` | the page: connections as edited | edits and saves settings, runs setups, polls the API |

How they meet: the endpoint and the workers share the job table and the Celery
queue, and nothing locks a row. A worker calls IPAM, hypervisor and OTOBO over
HTTP, so any call may fail before or after it took effect. Every process has
its own cache of the settings. The endpoint is a plain `def`, so requests run
on threads side by side.

What is hard, and what would make each part correct:

* **Saga, queue and endpoint.** Steps of two workers and two requests on one
  row; a worker lost between an external effect and the commit that records it,
  and the redelivered task that finds half of it; retries that meet a new
  approval; a reference kept after its VM is gone. Correct means: an approved
  ticket comes to an end; a completed job has its own VM and its own address,
  active in the IPAM; a failed job has given its address back; nothing of
  another ticket is touched.
* **IPAM allocation.** Two workers list and then create; a fallback after a
  POST that may have taken effect. Correct: one address, one ticket.
* **Hypervisor calls.** A vmid read and used later; a task of the hypervisor
  that outlives the wait for it; requests handed from connection to connection;
  a reference that does not name the connection. Correct: a VM is made where it
  was asked for, and changed by its own ticket only.
* **Settings vault.** Lost updates, a stale cache after a save, defaults saved
  over a vault that could not be read. Correct: what was saved is what every
  process reads within the cache's lifetime.
* **Master key.** Several containers start together; a lost process leaves an
  empty file. Correct: all processes use one key, and it never changes.
* **Ops accounts.** Session versions counted without a lock, logins under way
  while the password changes, a start that is interrupted. Correct: a password
  change ends every other session; the start password never comes back.
* **Connection lists.** Pages hold no secrets, so a save has to find them again
  by address; the whole list is saved, next to the fields from before there was
  one. Correct: a secret left blank is kept, and all readers see one list.
* **Setup lock and catalog sync.** Check and acquire apart, a lock that belongs
  to a response stream, shared file names, endpoints that do not answer.
  Correct: one setup at a time, dry runs write nothing, OTOBO and the vault end
  with one webhook key, and OTOBO's catalog comes to show the inventory.

`PROJECT.json` ("hazards") lists each of these at its line, with the property
that would catch it or the reason why none does yet.

## 2. Modules

| Module | Models |
|---|---|
| `JobModel` | tickets, addresses, slots, faults, the columns of a job |
| `JobStore` | the job table with SQLAlchemy's column-wise flush, and the Celery queue |
| `WebhookIntake` | `POST /provision-vm` on several threads |
| `Ipam` | NetBox/Nautobot behind the adapter calls |
| `Hypervisor` | Proxmox/vSphere behind the provisioners' calls |
| `Orchestrator` | the task and the saga: one action per external call and per commit; loss, time limit and retry of a task |
| `Provisioning` | the composition, its fairness and its properties |
| `JobLifecycle` | the abstract specification: what the path promises of one ticket |
| `MCProvisioning` | instances for TLC |
| `ProvisioningProofs` | type correctness, and that no accepted job is forgotten, proved |
| `LeaseProofs` | ownership of addresses, proved |
| `SagaProofs` | one run per job, the address and the VM of a completed job, no leaked address, and that the saga implements `JobLifecycle`, proved |
| `MasterKey` | the key file on the shared volume and each process's copy of it |
| `SettingsVault` | `load_settings`, `save_vault`, `invalidate_cache` by threads of several processes |
| `MCVault` | instances for TLC |
| `VaultProofs` | types, the single key and the age of cache entries, proved |
| `CatalogSync` | the sync script, in the loop of its container or started by a setup |
| `OtoboSetup` | `POST /ops/setup`, its lock and its stream; the script it starts; key rotation |
| `OtoboHost` | the composition of these two, its fairness and its properties |
| `MCHost` | instances for TLC |
| `OtoboHostProofs` | types, the queue for the lock, setups that take turns, proved |
| `AddressPool` | the abstract specification of reserving and releasing addresses |
| `IpamCalls` | `reserve_ip` and `release_ip`, one action per request to NetBox or Nautobot |
| `HypervisorCalls` | `provision` and `destroy`, one action per request to Proxmox or vSphere, over several connections |
| `AdapterCalls` | the saga around these two, with their fairness and properties |
| `MCAdapters` | instances for TLC |
| `AdapterProofs` | its types, safety and action properties, and that the requests implement `AddressPool`, proved |
| `OpsSessions` | start of the API, login, session checks, password changes, logout |
| `MCSessions` | an instance for TLC |
| `OpsSessionProofs` | all its properties, proved |
| `ConnectionSettings` | the connection list: settings page, merge with stored secrets, lookup |
| `MCConnections` | instances for TLC |
| `ConnectionProofs` | its default connection and the secrets that are kept, proved |

### How state and actions correspond to the code

* `rows[t]` is the row of ticket `t`. `reserved_ip` and `netbox_ip_id` are set
  and cleared together, so `ip` stands for both: an address and the generation
  of the IPAM object created for it, since ids of deleted objects are not used
  again. `obj` is `netbox_vm_id`, `ref` is `hypervisor_ref`.
* `handlers[h]` is a request thread: `Receive` is the query and the early
  answer, `InsertJob`/`ResetJob` the commit, `Enqueue` the `delay()` after it.
* `workers[w]` is a worker process: `pc` is the next call or commit of `run`,
  `seen` the job object of its session, `ip`, `obj`, `ref` the locals
  `reserved_ip_id`, `reserved_vm_id`, `hypervisor_ref`. A session expires its
  objects at a commit, so an attribute read after a commit is the row's current
  value and one read before is the old one; `Commit(t, seen, new)` writes only
  the columns the session changed. That is what lets two runs mix their results
  in one row, and it is modelled column by column.
* `Take` hands a message to an idle process, `Ack` ends it. `Crash` loses the
  process and requeues the message (`task_acks_late`,
  `task_reject_on_worker_lost`); `TimeLimit` kills the task and acknowledges.
  `Raise` publishes a retry where `autoretry_for` applies: the builtin
  `ConnectionError` and `TimeoutError`, which only pyVmomi's calls raise, after
  the PROVISIONING commit.
* `leases[a]` and `vmObjs[t]` are the IPAM's current objects; `vms[s]` the VM
  in a slot, which is what `hypervisor_ref` names: the next free vmid on
  Proxmox, used again when its VM is gone, and the hostname on vSphere.
  `destroy` on Proxmox posts a stop and a delete and waits for neither
  (`proxmox.py:278-283`): the VM is `leaving`, a search still finds it, and
  `DeleteEnds` takes it away at any later time, or leaves it where the delete was
  refused. On vSphere `destroy` waits for both tasks.
* A search takes every VM in `Hits(t)`: those whose notes contain the ticket's
  number (`Mentions`, in which 1 is contained in 12), on vSphere also the VM that
  has the requested hostname. `mistaken` is a history variable, set by `Watch` and
  read by no action: the slots in which a search took a VM that was another
  ticket's or was leaving. Nothing in the code prevents that, so what follows in
  such a slot is excepted from `TouchesOnlyOwnVm` and `CompletedVmStands`
  (section 5 says what follows); in all others they hold.

The settings form a model of their own (`SettingsVault` on top of `MasterKey`):
the saga reads them once at the start of a task, and a failure there is the
fault `setupError`.

* `row` is the one row of `app_settings`, named by the key it was encrypted
  with and, for every field, the save that last wrote it. `keyFile` and
  `keys[p]` are `master.key` and the process's `_cached_key`.
* `caches[p]` is `_cache` of a process, shared by its threads and by nothing
  else. `threads[th]` is a call of `load_settings` or `save_vault` between two
  of its shared accesses: the check of the cache, the second read of the global
  for the answer (`Hit`), the read of the row, each step of the key file, the
  store, the query and the commit of the save, `invalidate_cache`.
* Scripts that clear the cache first (`Refresh`) run in their own process.
  `Restart` ends a process anywhere, also between creating and writing the key.
* `version` and `committed` are ghosts: how many commits preceded the content,
  and when each happened. They say which content was in force when.

What changes OTOBO's own configuration is a third model (`OtoboHost`).

* `requests[s]` is a request to `/ops/setup`: `Post` is the test of the lock,
  `Enter` and `Wake` the start of `events()`, which takes the lock or waits for
  it, `Close` its end, `Disconnect` its cancellation. `holder` and `waiters` are
  `_setup_lock`, whose waiters are served in order. `runs[s]` is the process it
  starts, which no cancellation ends.
* `local` and `remote` are `/tmp/otobo_bootstrap.json` (the key in it) and
  `/tmp/otobo_bootstrap.pl` (does it write?) in the API container and on the
  OTOBO host: one name each for all runs, each written and copied in a step of
  its own. `RunPerl` executes what is there. `webservice` is OTOBO's, `vaultKey`
  the vault's `webhook_api_key`, which `RotateKey` replaces at any time.
* `syncs[x]` is a run of `sync_otobo_catalog.py`: in the loop, or in a setup.
  `List` reads one list from every endpoint, each of which may not answer;
  `Push` copies the values to the one file on the OTOBO host, `Fields` and `Acl`
  are the Perl script that reads it. `inventory` counts the changes of what the
  hypervisors offer; a list has, per endpoint, the version it was read at.

The adapters are a fourth model (`AdapterCalls`), which takes apart what
`Provisioning` has as one step per call.

* `pc[t]` is the request the task of ticket `t` makes next. `book` is the IPAM:
  address to the ticket its object is for; `picked[t]` the head of the list the
  task read, `held[t]` what `reserve_ip` returned. NetBox starts with `List`,
  Nautobot with `Allocate`, whose HTTP error leads to `List`, too.
* `req[t]` is `request.node` and `request.hostname`: the connection named
  (`api`), if any, the node, if any, and the `name`, which only vSphere uses.
  `at[t]` is the connection the task talks to, `hops[t]` how often it was
  handed to another. `RouteProxmox` decides anew on every connection, as
  `provision` does; `MaxHops` is Python's recursion limit, which ends a request
  that two connections hand to each other. `RouteVmware` hands over once, and
  keeps a request that names no place (`Unplaced`) on the default connection.
* `vms[<<c, s>>]` is the VM with vmid or name `s` behind connection `c`, `slot[t]`
  the vmid or name the task works with. `Make` starts a task of the hypervisor,
  which ends in `MakeEnds`, before or after `Await` gave up, or never. A VM that
  is being made is locked and has no notes. `ref[t]` is `hypervisor_ref`.
* `Destroy` runs on `Default`, the connection `get_provisioner` makes. On Proxmox
  it leaves the VM `deleting` until `DeleteEnds`. `Hits` and `mistaken` are as in
  `Provisioning`, per connection.
* `Again` is a later approval of a failed ticket.

The operator accounts are a fifth (`OpsSessions`). `boot` is where `lifespan` and
`bootstrap` are, `Stop` an end of the process at any point. `user` is the row of
the one account, `cookie[b]` the signed version a browser holds, `request[b]` a
request between two of its database reads: the middleware (`Guard`), the
dependency (`Require`), the handler. `Change` decides and counts on the row as
`Require` loaded it. `settingsBy` is who wrote the settings row last: looking for
it (`CheckImported`) and importing (`ImportEnv`) are two steps, between which
nobody saves, since the one process of the API does not serve yet. `era` and `overlapped` are ghosts.

The connection lists are a sixth (`ConnectionSettings`), for either hypervisor.
`vault.rows` is `proxmox_endpoints`, `vault.hosts` `proxmox_host` followed by
`proxmox_hosts`, `vault.secret` `proxmox_token_value` (and their vSphere
counterparts). `Imported` are the settings a `.env` file may leave: a list, the
older fields, or both, which then need not agree. `page[o].rows` is `proxmoxConns` of a browser; `Add`, `Edit`,
`Drop` are its form, `Load` is `loadSettings`. `Send` is the PUT up to its read
of the settings, `Commit` the merge and the save, `Fail` an error. `loaded`,
`from` and `changed` are ghosts that say where a row came from.

A call that leaves the process has every outcome the code tells apart: done,
failed, and, under the faults below, done although it raised. `Faults` chooses
which misfortunes an instance meets; each is named in `JobModel!FaultKinds`:
`overlap`, `abandon`, `crash`, `timeLimit`, `retry`, `setupError`, `lostReply`,
`releaseError`, `finalizeError`, `partialVm`, `destroyError`, `listError`,
`notifyError`. A call that simply fails needs no fault: every call may do so.

### Abstractions

* In `Provisioning`, `ReserveIp` and `CreateVm` are one step each. `AdapterCalls`
  shows what the requests behind them keep of that: an address goes to one
  ticket (`ImplementsPool`), a VM is changed by its own ticket only
  (`OwnVmOnly`).
* `AdapterCalls` in turn leaves out lost and repeated tasks, the job row and the
  IPAM's VM object. That the IPAM refuses a second object for an address is an
  assumption on its uniqueness setting; that vSphere and Proxmox refuse a name or
  vmid in use, one on their API.
* `OpsSessions` has one account, as the code does. Expiry of a cookie is
  `Forget`; signatures cannot be forged; the login rate is left out.
* `ConnectionSettings` has one secret per connection and none of the user names,
  token names and labels, which are merged in the same way. Addresses are
  compared as given. Every read of the settings is current; how stale it may be
  is the subject of `SettingsVault`.
* A commit is atomic and does not fail. In `Provisioning` a call that timed out
  has no effect afterwards, except that a delete on Proxmox ends when it ends.
* Which ticket numbers contain one another and which hostnames are shared are
  parameters (`Mentions`, `SlotsFor`; `Mentions`, `Requests` in the adapters).
  `saga_orderly` and `adapter_calls` have two tickets of which one number contains
  the other, `saga_hostile` two that ask for one hostname on vSphere,
  `adapter_calls` both of these; the proofs hold for any. `saga_settles` has one
  ticket.
* In `Orchestrator`, the retry of a failed task needs pyVmomi's errors, which
  only `provision` raises; the model tells this by the status the task has last
  seen. Errors of `get_provisioner` are among those of the step after it.
* `row.version < MaxSaves` in `Put` is implied by the bound on saves and only
  there so that types can be proved without counting them. Reading the clock
  and comparing it with the cache (lines 87 and 88) is one step, and the
  processes' clocks are the same. A restarted process loses its threads' calls
  but may begin new ones at once.
* All setups are for one webservice name, and at most one setup is started per
  member of `Streams`. The webservice template, which is the same in every run,
  is left out of the copied files, and so are the parts of the plan other than
  the key. Datastores, listed last, are listed as images are. An endpoint that
  answers in part counts as one that does not answer. Writing the catalog values
  to the local file and copying it is one step: two syncs in the API container
  exist only if setups overlap. The skipped process deployment is a failure
  point of `RunFails` only.
* Contents of comments, error texts and VM sizes are left out.

## 3. Runs

| Run | Instance | Checks |
|---|---|---|
| `saga_orderly` | Proxmox, NetBox; 2 tickets, one number within the other, 2 addresses, 2 vmids, 2 workers, 2 request threads, 3 webhooks; failing hypervisor and IPAM calls, deletes that end late or never | `TypeOK`, `OneRunPerJob`, `LeasesHeld`, `CompletedHoldsLease`, `CompletedVmStands`, `TouchesOnlyOwnVm`, `ImplementsLifecycle` |
| `saga_hostile` | vSphere, NetBox; 2 tickets with one hostname, 1 address, 2 workers, 3 webhooks, 1 lost worker; abandoned requests, time limits, lost replies, refused deletes and updates | `LeasesOwned`, `TouchesOnlyOwnLease` |
| `saga_settles` | vSphere, Nautobot; 1 ticket, 2 workers, 2 overlapping requests, 1 lost worker, 1 retry; failing calls | `JobsCarried`, `JobsSettle` |
| `vault_shared` | 2 API threads (one saves), 1 setup script, 1 field, 2 saves, 1 restart, failing reads, `TTL` 1 | `VaultTypeOK`, `VaultReadable`, `HitsAtMostTTLOld` |
| `otobo_host` | 2 setups, the loop, 1 VMware endpoint, 1 inventory change, 1 failing command or endpoint; clients stay while their script runs | `TypeOK`, `OneSetup`, `DryRunsWriteNothing`, `KeysAgree`, `CatalogConverges` |
| `adapter_calls` | 2 tickets at once, one of them approved twice; NetBox with Proxmox, Nautobot with vSphere; 2 addresses, 2 vmids or names; a cluster and a standalone host that share a node name; requests with a node, a connection, both or neither; one ticket number within the other, one hostname for both tickets or not; deletes that end late or never; lost replies, refused deletes | `TypeOK`, `HeldByOne`, `StraysBounded`, `PlacedAsRequested`, `CompletedVmReady`, `ImplementsPool`, `OwnVmOnly`, `RunsEnd` |
| `ops_sessions` | 3 browsers, 3 passwords, 3 changes, any number of restarts | `TypeOK`, `SessionsEnd`, `StartPasswordGone` |
| `ops_settings` | 2 pages, 3 addresses, 2 secrets, lists of up to 2 connections, 2 changes, 3 saves; `.env` files without hosts, with two, with a list that the older fields contradict | `TypeOK`, `DefaultIsFirst`, `KeepsSecret` |
| `bug_...` (four) | the smallest instance that shows it | one property each, violated, section 5 |

**What they show.** `saga_orderly`: as long as no process is lost, replies
arrive and a ticket has one webhook in flight, the code keeps every promise,
with calls that fail partly or wholly at any point: no job runs twice, no
address leaks, a completed job has its active address, each ticket follows
`JobLifecycle`, and a completed job's VM stands and is touched by nobody else,
except in a slot where a search was mistaken, whose harm does not
spread. `saga_hostile`: with processes lost at any
step those promises fail (section 5), but one thing still holds: a reference to
an address, however stale, never comes to name another ticket's address, so
late or repeated compensation only ever releases the ticket's own.
`saga_settles`: an accepted job ends even with overlapping requests, a
redelivery and a retry, and until then a request, a message or a worker carries it. `vault_shared`: processes that start together on an
empty volume, one of which may be lost, agree on one key, under which the row is
stored; and a cache never accepts an entry for longer than its lifetime, counted
from when its content was in force, however long the load took. `otobo_host`:
requests that pass the test together still take turns, since the lock is taken
again behind it; a dry run never executes a script that writes, even after a
setup that failed half-way left one; a successful setup leaves both sides with
one key, whatever was rotated in between; and failed or partial syncs, and syncs
that take each other's values, are healed by the loop. `adapter_calls`: lists, vmids and connections may be old
when they are used, replies get lost and VMs appear after their job has failed;
still an address a job holds is registered for it and for nobody else, a run
loses at most one address (two with Nautobot's fallback), a VM is made only
where its request means, and only its own ticket's task changes it, unless a
search was mistaken in its vmid or name, or `destroy`, on the default connection,
cannot tell it from another connection's VM (section 5). `ops_sessions`: a
password change ends every session opened before it, those included whose login
was under way, unless two changes overlap; neither a start nor a change brings
the start password back. `ops_settings`: whatever a `.env` file says and whatever saves overlap, after
every save the fields from before the list name its first connection and its secret; a secret left blank
survives one change of address.

**Bounds.** `MaxWebhooks` 3 with two tickets lets one ticket fail, be approved
again and meet another ticket in between, which is the shortest history in which
a reused address or vmid can be confused. `MaxGen` 2 lets an address object be
released and created anew for someone else. Two workers are the deployed
concurrency. One address and one slot in `saga_hostile` force the tickets to
compete for them. One crash is enough to bring about a redelivery; a retry is
one level deep. `LeasesOwned`, `TouchesOnlyOwnLease` and `TypeOK` are proved
for all bounds (section 4), and so are the properties of `saga_orderly`, under the absence of
the faults it leaves out. Symmetry is used for workers, request threads,
addresses and vmids in runs without liveness. `CHECK_DEADLOCK FALSE`: with the bounded
number of webhooks handled, the system rests. In the vault, two saves and three
threads in two processes are the least that lets a commit pass between another
thread's read and its store; one restart reaches the empty key file; a clock of
0 and 1 with `TTL` 1 tells fresh from expired. The three properties are proved
for all bounds.
For OTOBO, two setups are the least
that can share a file, one of them may have failed, and one inventory change and
one fault during any of the syncs leave old or partial values behind for another
to take. Clients that leave a running setup are excluded there
(`Abandons`; section 5 says what they do). For the adapters, two tasks are the
least that can pick one address or one vmid, a second approval is what meets a
VM that appears late, and two connections with a common node name are the least
that can be confused; `MaxHops` 2 lets a request come back once. Three browsers
are one that changes the password, one whose session it ends and one that logs
in meanwhile; two changes can overlap and a third can follow. Two changes on two
pages with three saves let one page save over the other twice, and three
addresses leave one that no connection had; the properties are proved for all
bounds. Two tickets are few for one property of the adapters: an earlier form of
`Await` let a Proxmox VM be taken as done when it was found powered on, which
`CompletedVmReady` only refutes with three tickets and three vmids. The proof
did not go through, `Await` now follows `proxmox.py:168-171`, and the proof
covers every number of tickets.

**Fairness.** Weak fairness of a request thread that has received its webhook
and of a worker that has a task or an idle worker with a message waiting: each
call of the code has a timeout or fails, and Celery hands messages to idle
processes. Nothing is assumed of OTOBO to send another webhook, of lost
processes to occur or not, or of which outcome a call has. In `OtoboHost` only
the loop is fair: its container has `restart: unless-stopped`, it goes on
whatever a sync returns, and its commands are taken to end (ssh is given no
timeout, so this is an assumption on the network). Setups may stop anywhere.
The number of faults is bounded, so they cease; so do changes. In
`AdapterCalls` a task's own steps are fair: each request is answered or times
out, and the waits have deadlines (`proxmox.py:328`, `vmware.py:633`). Nothing is
assumed of the hypervisor's tasks.

## 4. Proofs

* `ProvisioningProofs!TypeCorrect` — `Spec => []TypeOK`. It is inductive as it
  stands: each action is one step of the proof.
* `ProvisioningProofs!AcceptedJobsCarried` — `Spec => []JobsCarried`, assuming
  `NothingForgets`: no request dies before it enqueues, no saga fails before its
  `try`, no time limit. Crashes, overlapping webhooks, retries and failing calls
  are all allowed. That somebody runs the job is not inductive: a session writes
  the status only if it differs from the one it read, so a worker that read
  FAILED before a reset would leave a pending row as it is. `Settles` names the
  tasks whose last commit does replace a pending status, or which will still
  read the row again; whoever makes a row pending is such a task, or hands over
  to one. This is the safety half of `JobsSettle`; fairness is the other.
* `LeaseProofs!LeasesStayOwned` — `Spec => []LeasesOwned`. For every number of
  tickets, addresses, workers and requests and under all faults at once, an
  address reference in a row or in a running task either names an object that is
  gone or one that is its own ticket's. The invariant is inductive together with
  `TypeOK` once it speaks of generations too: `OwnedBy` says that a reference's
  generation is at most the address's current one, so a new reservation, which
  raises the generation, makes all earlier references dead, and it is this that
  keeps them from naming the next owner's object. The argument has two halves:
  `LeasesEvolve` (every step leaves a lease, frees it, activates it or creates
  the next generation, and each of these keeps `OwnedBy`) and `RefsMove` (a new
  value of a reference in a row or task was already held by the same ticket, or
  names the object just created for it). A column-wise flush mixes two sessions'
  columns, but always of one job.
* `LeaseProofs!OnlyOwnLeaseTouched` — `Spec => TouchesOnlyOwnLease`, from the
  invariant: only `Finalize` and `Compensate` change an address that is not
  free, and both go through a reference that `LeasesOwned` covers.
* `SagaProofs` — what `saga_orderly` checks, for any number of tickets,
  addresses, VMs, workers and requests. The hypothesis `RunsOnce` says that
  `overlap`, `crash` and `retry` are not among the faults. The argument goes in
  layers, each an invariant that uses those before it:
  * `RunInv`: an accepted job has one bearer at a time, the request that enqueues
    it, then its message, then the worker that runs it. So nobody else writes the
    row meanwhile, a column-wise flush is a plain write, and `Phase` can say what
    the row, the session's copy and the locals are at each step of the saga.
    Hence `NoSecondRun` (`OneRunPerJob`).
  * `LeaseInv`: the address a run holds, or a completed row names, exists and is
    the ticket's; ownership of generations (`LeasesOwned`) keeps the releases of
    other jobs off it. Hence `CompletedKeepsLease` (`CompletedHoldsLease`), lost
    replies and refused deletes included.
  * `VmInv`: the slot a run works with, or a completed row names, holds the
    ticket's VM. Hence `CompletedHasVm` (`CompletedVmStands`) and
    `OnlyOwnVmTouched` (`TouchesOnlyOwnVm`), for any notes, any hostnames and
    deletes that end at any time. `VmInv` speaks of slots outside `mistaken` only,
    and is inductive since only a search can bring a slot into it: a run that holds
    a slot outside found or made the ticket's own VM there, and no delete of it is
    under way, because whoever asked for one had the slot and gave it up.
  * `StageInv`, assuming `IpamAnswers` (no `lostReply`, no `releaseError`): a
    ticket has at most one address, in the state its run's step says, none before
    it reserves and none after it gave it back. Hence `NoAddressLeaks`
    (`LeasesHeld`), which also excludes `timeLimit`, and `SagaFollowsLifecycle`
    (`ImplementsLifecycle`), the refinement: a step of the saga moves the status
    and the lease of one ticket as `JobLifecycle` allows, or neither.

  None of these hypotheses can be dropped: with `overlap` alone, `crash` alone, or
  `retry` and `partialVm`, TLC finds two runs of a job; `CompletedHoldsLease` and
  `CompletedVmStands` fail with `overlap` or `crash` next to `partialVm`;
  `LeasesHeld` fails with any one of `timeLimit`, `lostReply` and `releaseError`,
  `ImplementsLifecycle` with either of the last two; `JobsCarried` with any one of
  `abandon`, `setupError` and `timeLimit`. All other faults stay allowed.

* `VaultProofs!StoredSettingsReadable` — `Spec => []VaultReadable`. The
  inductive invariant `OneKey` adds who is writing the key file: a file without
  a key has at most one writer, so `O_EXCL` gives the file one key in its life,
  and every copy in a process or a call is that key.
* `VaultProofs!CacheTellsItsAge` — `Spec => HitsAtMostTTLOld`. The invariant
  `HonestStamps` follows the content from the row to the cache: whatever a call
  has read, and whatever a cache holds, was in force at its stamp or later
  (`CurrentAt`). It holds because the clock is read before the row, and would
  not if the entry were stamped when stored. A commit ends the validity of the
  old version now, which is not before any stamp.
* `VaultProofs!VaultTyped` — `Spec => []VaultTypeOK`.
* `OtoboHostProofs!OneSetupAtATime`, `DryRunsAreDry`, `SetupsLeaveOneKey` —
  `OneSetup`, `DryRunsWriteNothing` and `KeysAgree`, for any number of requests,
  endpoints and faults, assuming `~Abandons`: no client leaves while its script
  runs. `HostInv` is inductive: `Owned` ties a running script to the holder of
  the lock, so that every other run stands still, and `InPlace` says of each
  step of a script which of the files are its own by then. Without the
  assumption the first conjunct fails, and with it the rest (section 5).
* `OtoboHostProofs!HostTypesHold` — `Spec => []TypeOK`, without that assumption.
  `QueueInv` is the part that is not local: the queue for the lock holds exactly
  the waiting requests, each once, also when one leaves from the middle.

* `AdapterProofs!AdaptersArePool` — `Spec => ImplementsPool`, by step
  simulation: `Create` and `Allocate` are `Take` or `Lose`, the release in
  `Compensate` is `Return`, all else stutters. It needs what
  `AdapterProofs!OneHolder` (`[]HeldByOne`) is about: an address that is held is
  registered, so no one else can register it, and a release frees only one's
  own. `AdapterTypes` is the type invariant, whose last conjunct says that a
  task past `reserve_ip` holds an address.
* `AdapterProofs!PlacementHonoured` — `Spec => []PlacedAsRequested`. Inductive
  once it follows the task: from `find` to `start` the connection it talks to
  `Serves` the request, and each node in `NodesFor(t)` is then one the request
  means (`ServedIsMeant`).
* `AdapterProofs!OwnVmsTouched` (`OwnVmOnly`) and `CompletedVmsReady`
  (`CompletedVmReady`), from `VmInv`: while the hypervisor's task of a job runs,
  the VM under its vmid is being made and is its own (`BeingMade`); once it is
  done, and until the job is over, the VM stands on a node the request may use
  (`Made`, `Ready`); and `hypervisor_ref` leads to it on whichever connection its
  node is looked for, provided only one has a node of that name, or on vSphere
  that only one ticket asks for that hostname (`Unmistakable`, `RefersToOwn`).
  As in `SagaProofs`, slots where a search was `mistaken` are excepted, and only
  those: nothing is assumed of notes, hostnames and deletes.
  A vmid that another task took in between was refused, so the loser never got
  that far.
* `AdapterProofs!FewStrays` — `Spec => []StraysBounded`. `SpentInv` counts the
  addresses registered for a ticket against the runs it has had and what the
  present run may still register; lists that are old and replies that are lost
  do not enter into it.
* `OpsSessionProofs` proves all three properties of `OpsSessions`. The invariant
  relates versions and eras: while no changes have overlapped, the version of
  the account is one more than the number of changes, and every cookie and every
  row a request has read carries the version of the era it was read in.
  `StartPasswordStaysGone` needs that a request which loaded the row before the
  first change can still change the password, but not to the start password.
* `ConnectionProofs!DefaultConnection`, `BlankSecretKept` and `ConnectionTypes`,
  for lists of any length. `Mirrored` says that the old fields repeat the list,
  which every save brings about whatever it had read and found; `KnowsHome`, that a row
  changed once has the address it was loaded with as `previous_host`. That is
  what the second edit destroys (section 5).

The assumptions are the named `ASSUME`s of the modules: the markers are not
tickets, addresses or slots, faults are of the listed kinds, bounds are natural
numbers. TLC evaluates them in every run.

Only model-checked: `JobsSettle`, `CatalogConverges` and `RunsEnd`. They are
liveness under fairness, which needs ENABLED and is out of this prover's reach.
Every invariant, action property and refinement that a run checks is proved.

## 5. Where the code and its documentation disagree

Each of these has a run whose counterexample is the scenario.

* `bug_never_enqueued` — the job is committed before it is enqueued; if the
  process or the broker fails in between, it stays QUEUED and later webhooks
  are answered as under way (`provision.py:55,79`).
* `bug_wrong_connection` — the rollback makes a new provisioner, which talks to
  the first connection, but `hypervisor_ref` says only node and vmid. With two
  standalone hosts whose node is called `pve`, a job that fails on the second
  deletes the VM of that vmid on the first, another ticket's
  (`orchestrator.py:112`, `proxmox.py:46,118,173,270`). Where node names differ
  the VM is merely left behind.
* `bug_reader_reverts_save` — `load_settings` stores what it read although a
  save committed and cleared the cache meanwhile; the next save starts from that
  cache and writes the other settings back to what they were before the first
  save, secrets left empty included (`runtime_settings.py:90-92,100,122`;
  `frontend/index.html:108`). The same read-merge-write without a lock loses one
  of two concurrent saves, and writes the defaults over the vault after a failed
  read (`runtime_settings.py:78`); the run excludes both (`Savers` has one
  thread, `ReadFails` is false) to show that one administrator is enough.
* `bug_second_edit_loses_secret` — every use of the connection form replaces
  `previous_host` by the address shown, saved or not. A connection that gets a
  new address and is then edited once more is looked up by an address that was
  never stored, and its blank secret becomes the first connection's
  (`app.js:416`, `endpoints.py:186-192`, against `index.html:276`).

The models reach these as well, if the named constant is given to a run:

* A worker lost between the release of the address and the FAILED commit: the
  redelivered task takes the recorded, released address for its own and
  completes (`Faults` with `crash`, `CompletedHoldsLease`;
  `orchestrator.py:52,106,116`).
* A run that fails after the clone returns no reference, so nothing destroys the
  VM; the next approval reserves another address, finds the VM and completes
  without configuring it (`partialVm`; `proxmox.py:125`, `orchestrator.py:110`).
* FAILED keeps `hypervisor_ref`; a redelivered task of the failed job destroys
  the VM that has that vmid now (`crash`, `finalizeError`, `TouchesOnlyOwnVm`;
  `orchestrator.py:37,44,116`).
* A failed run is still published again; an approval in between makes two runs
  of one job, which reserve an address each (`retry`, `LeasesHeld`;
  `tasks.py:13-15`, `provision.py:68`).
* A client that leaves its stream frees `_setup_lock` while the script goes on;
  the next setup uses the same files, and a dry run may execute the script that
  writes (`Abandons`, `DryRunsWriteNothing`; `ops.py:440,464`).
* A ticket whose number is contained in another's, or on vSphere one with the
  same hostname, takes the VM of that ticket for its own, completes with it, or
  destroys it when it fails (`mistaken`; `proxmox.py:304`, `vmware.py:458-471`).
  Two hostnames need only differ per hypervisor (`docs/otobo-workflow.md:50`),
  while `destroy` looks on the default connection for any VM of that name
  (`Unmistakable`).
* `destroy` on Proxmox does not wait. The next approval finds the VM that is
  being deleted, completes with it, and then loses it (`mistaken`;
  `proxmox.py:278-283`, `orchestrator.py:112`). That takes one `finalizeError`
  and two webhooks.
* An exception before the `try` of the task leaves the job QUEUED or
  PROVISIONING for good (`setupError`, `JobsSettle`; `tasks.py:21`).

## 6. Not modelled, and the plan

Not modelled, and staying so: what the installation scripts set up in OTOBO
beyond the webservice, the daemon control (its effect lies in OTOBO, outside
this repository), device specifications and the choice of storage and network,
the ticket mapper and the webhook authentication (conversions and decisions over
one request, without state), the login rate, and everything that only reads
(status page, `GET /jobs`, inventory listings).

Planned, the most important first:

1. Proofs: the safety halves of `CatalogConverges` and `RunsEnd`, as
   `JobsCarried` is that of `JobsSettle`; what `saga_hostile` leaves of
   `CompletedHoldsLease` when workers are lost.
2. `Provisioning` and `AdapterCalls` composed: lost and repeated tasks in the
   middle of the adapters' requests.
3. Catalog ids and filters as operators checked against a reference definition.

## 7. Running the checks

    tlc -config saga_orderly.cfg MCProvisioning.tla
    tlapm ProvisioningProofs.tla
    tlapm LeaseProofs.tla
    tlapm SagaProofs.tla
    tlapm VaultProofs.tla
    tlapm OtoboHostProofs.tla
    tlapm AdapterProofs.tla
    tlapm OpsSessionProofs.tla
    tlapm ConnectionProofs.tla

Each passing run takes one to three minutes. Definitions whose comment begins
with "Mutant of" are used by no specification: they are plausible mistakes in
the code, one for each checked property, listed in `PROJECT.json` ("mutants");
put in place of the definition they vary, each makes its property fail.
