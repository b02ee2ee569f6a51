# A formal model of the agent GPU task scheduler

This directory holds TLA+ modules for the program under `src/` (a master that
queues signed GPU Tasks, leases GPUs and containers of Worker machines for them,
and runs them through Docker), the TLC configurations that check the modules on
small instances, and TLAPS proofs for every instance.

## 1. The system

| Part | Source (`src/agent_scheduler/`) | State it keeps | Operations |
|---|---|---|---|
| Scheduler | `scheduler/core.py`, `domain/state.py` | queue, Task statuses, holds, leases, epochs, plans, cancel requests | `register_worker`, `enqueue`, `tick`/`_dispatch`, `cancel_task`, `reconcile_execution`, `_load` |
| Proposal workflow | `proposal/service.py` | Proposals, revisions, Facts, Reviews, idempotency records | `create`, `reply`, `confirm`, `resume`, `retry_compilation`, `cancel` |
| Worker transport | `worker/protocol.py`, `worker/client.py` | sequence numbers of both directions, pending calls, recorded responses | `request`, `serve`, `_session`, `_handle` |
| Worker driver | `worker/driver.py`, `worker/docker.py` | prepared manifests, plans, epoch high water, resource owner, the container | `prepare`, `acknowledge_plan`, `execute`, `query_status`, `cancel`, `reconcile` |
| GPU sampler | `worker/gpu.py` | state and low streak per GPU | `sample` |
| Event store | `storage/events.py` | immutable objects, event streams, snapshots | `write_immutable`, `append`, `write_snapshot`, iteration |
| Evidence | `worker/driver.py` `_audit`, `worker/protocol.py` `_ingest_worker_evidence` | the inbox of an execution, `worker-evidence` | append a line, copy the lines |
| Harness adapters | `adapters/harness.py` | the record of each attempt | `_invoke` and its retries |
| Qualification | `qualification.py` | none but the files it reads | `run_submitter_agent`, `reconstruct_qualification_result`, `verify_qualification` |
| REST API and loops | `api/app.py`, `runtime.py` | the drain flag | endpoints, `_scheduler_loop` |
| Compiler, signing | `domain/compiler.py`, `integrity/` | none | pure functions |
| Onboarding, CLI, client kit, scripts | rest of the tree | none that others depend on | I/O and formatting |

A client's Proposal becomes a signed Task (`confirm`), the Task is enqueued
(`enqueue`), the background loop dispatches it (`tick`), the dispatch drives the
Worker through PREPARE, PLAN and EXECUTE calls over a web socket, and the Worker's
driver starts and stops the container. Heartbeats of the Worker carry GPU samples
back to the Scheduler. Files under one root are the only memory that survives. A
qualification run has an agent do all of this for Tasks of several card counts, and
judges from the files alone what came of it.

What is hard: `_dispatch` runs for hours outside the scheduler lock while cancels,
samples, administrators and further ticks go on; every call to a Worker may be
refused, be lost, or be carried out after the caller has given up; a gang of units
must start and be released as one; and the master may stop between any two writes.

### What makes each part correct

- **Scheduler**: no GPU and no container is leased twice; the leases of a gang are
  taken, kept and released together; nothing is started before every unit has
  acknowledged its plan; leases cover whatever a Worker may still be doing; an
  outcome is announced after the leases are gone and never changes; epochs never
  repeat; every `tick` returns and no queued Task starves.
- **Proposal workflow**: limits on rounds and reviews hold through restarts; one
  Task leaves, compiled from the revision that was approved; a confirm can be
  repeated; a closed Proposal stays closed.
- **Worker transport**: messages are taken once and in order; an answer is kept
  until the master has stored it.
- **Worker driver**: the container runs only for the assignment that has the
  lease, can always be stopped, and a superseded assignment does nothing.
- **GPU sampler and presence**: a GPU is given away only if the Worker saw it low in
  the last 30 seconds and had no high reading among its last three, in whatever order
  samples are registered; a Worker that is gone is not given Tasks for ever, and one
  that runs is admitted as long as no sequence number was lost.
- **Event store**: a restart reads back what was written last, with or without
  snapshots; no start succeeds while an event stream ends in half a line, and whatever
  starts have left half done, one that finds the streams whole succeeds.
- **Evidence, harness, qualification**: a Task is COMPLETED only when its evidence is
  with the master; a verdict of COMPLETED is true of what happened, although it is
  read from files of different moments; a run in which nothing goes wrong passes,
  unless its agent ends in the moment between the memory and the files of an outcome.

## 2. The modules

| Module | Models | Lines of code it stands for |
|---|---|---|
| `TaskStates` | `TaskState` and the edge tables `_TASK_EDGES`, `_allowed_targets` | `domain/models.py`, `domain/state.py`, `core.py` 778-781 |
| `Ownership` | the abstract promise: Tasks own resources, take them only while PREPARING, give them back before their outcome | specification only |
| `Scheduler` | the whole of `scheduler/core.py`, every step of `_dispatch` interleaved with everything else | `core.py` 84-760, `app.py`'s tick |
| `SchedulerInv`, `SchedulerProofs`, `GangProofs` | the inductive invariants of Scheduler, and their proofs | |
| `MCScheduler` | instances: a gang over two Workers, two Tasks on the GPUs of one | |
| `Proposal`, `ProposalProofs` | every call of `ProposalService`, cut at its writes; the proofs | `proposal/service.py` 77-730 |
| `WorkerLink`, `WorkerLinkProofs` | the web socket between `WorkerHub` and `WorkerClient`; the proofs | `worker/protocol.py`, `worker/client.py` 52-150, 212-279, 388-408 |
| `StateStore`, `MCStateStore`, `StateStoreProofs` | the files of one execution, write by write, and `_load` | `storage/events.py`, `core.py` 633-760 |
| `WorkerDriver`, `MCWorkerDriver`, `WorkerDriverProofs` | `DockerWorkerDriver`, `DockerCLI`, and the master as its caller; the proofs | `worker/driver.py`, `worker/docker.py` |
| `WorkerPresence`, `WorkerPresenceProofs` | which GPUs of a Worker the scheduler may give away, from the reading of hy-smi to `_select_gpus`; the proofs | `worker/gpu.py`, `worker/protocol.py` 32-128, `worker/client.py` 71-210, `core.py` 121-133, 328-347 |
| `Harness` | one invocation of an agent, attempt by attempt | `adapters/harness.py` 134-366 |
| `Evidence` | the audit lines of an execution, and the threads that copy them | `worker/driver.py` 494-517, `worker/protocol.py` 329-347 |
| `Qualification`, `QualificationProofs` | the runner, composed with the two above, the service, the dispatcher and the Worker; the proofs | `qualification.py`, and the lines of the others that write what it reads |

`Scheduler` extends `TaskStates`; it implements `Ownership` by the mapping `Owned`
(a Task owns the resources its leases name). Scheduler's last variables, `wrk` and
`inflight`, are the Workers as the scheduler can tell their states apart;
`WorkerDriver` opens the same Worker up and in turn abstracts the master to the
lease of one Worker's resources. `WorkerLink` is the channel between the two: it is
where the assumption of both that calls reach a Worker once and in order is
established. `StateStore` cuts the writes that are one step in `Scheduler` and
justifies what its `Crash` assumes: that a restart finds what was written last.
`WorkerPresence` is what changes Scheduler's `usable`. `Qualification` extends
`Harness` and `TaskStates` and instantiates `Evidence`: their actions are steps of it.

### Scheduler

| Variable | In `core.py` |
|---|---|
| `status`, `underlying` | `_statuses` and `underlying_outcome` |
| `queue`, `enq`, `age`, `arrivals` | `_queue`; the order of `enqueued_at`; how long a Task has waited |
| `usable` | what `_select_gpus` accepts of the latest sample of each Worker |
| `lock` | `_lock`, by the operations that hold it for several writes |
| `ticker`, `pc`, `cur`, `sel`, `verdict`, `unclean` | the threads inside `tick`, the line of `_dispatch` each has reached, its loop variable and its locals |
| `holds`, `epochs`, `logged` | `_holds`, `_epochs`, the epochs that are on disk |
| `lease`, `epoch`, `plans` | `_leases`, `lease_epoch`, `_plans` |
| `cancelReq`, `calling` | `_cancel_requested`, the plans a `cancel_task` is calling about |
| `wrk`, `inflight` | the Worker's view of a unit; a call carried out late |

`Dispatch(t)` is one line of `_dispatch` at a time, in the order of the code:
`CheckQueued`, `WritePreparing` (the two halves of an unlocked `_transition`),
`HoldCheck`, `Grab`, `Register`, `Prepare...`, `Query`, `Commit`, `Reserve`,
`WritePlan`, `PlanAck`, `StartCheck`, `Execute...`, `EndCheck`, `Finalize`,
`Release`, `Settle`, the error path `Force...`, and the `finally` clause.

`reconcile_execution` keeps the lock and asks one unit after the other (`Asking`), so
that a dispatch under way goes on between two questions.

What is abstracted: a clock is `usable` and `age`; `enqueue` is one step; a Task is
cancelled by one call at a time; an epoch is read and raised in one step; a file and the
memory it mirrors change together, and what is only in memory is lost by `Crash`.
`FaultKinds` lists the disturbances a configuration may switch on; a run that leaves one
out says what holds while it does not happen.

### Proposal

The service's lock is held for a whole call, so calls do not interleave. A call is cut
at each of its writes (`stage`) and `Crash` may come at any cut. Proposals share only
the lock and the idempotency keys of `create`, so the module is about one. The answers
of Processor, Reviewer and compiler and the passing of deadlines are choices.

What the module numbers the code orders by the clock: a restart takes the last Task in
the order of file names, which begin with a time (`service.py` 643-646), and the state
with the latest `updated_at` (618-622), and a retry the context with the latest
`created_at` (523). The module, and what is checked and proved about it, assume that
the clock does not step back: one that does may bring back an older state of the
Proposal, or compile an older context.

### WorkerLink

Both sides are event loops: what lies between two awaits is one step. A web socket
delivers in order and loses a tail when it breaks. An answer is numbered in the
thread that computed it (`Number`) and recorded and sent by the loop later
(`Record`). `upLog`, `downLog`, `hubLog`, `workerLog` and `recorded` are history
variables. Counters and answers are on disk before they are used, so that a restart
keeps them. The branch of `_session` that finds a message with an old number
(`client.py` 103-107) is unreachable, because the hub never sends a number twice.

### WorkerDriver

| Variable | In the code |
|---|---|
| `mem`, `saved` | `_epoch_high_water`/`_resource_owner`, `_prepared`, `_plans`; `driver-state.json` |
| `box`, `inside` | the container, and whose commands run in it |
| `thread`, `attached` | the thread of each EXECUTE, and whether it waits for a `docker exec` |
| `loop`, `mail` | the call the receive loop handles; calls on their way |
| `lease`, `stage`, `written`, `asked` | the master: the lease of this Worker's resources, what its dispatch waits for, plans written, the cancel or reconcile under way |

`_validate_container` accepts one container name, so every manifest of a Worker
names it, its epochs grow with every lease, and an epoch identifies an assignment:
`epoch_high_water` and `resource_owner` become one number per resource. Each docker
command is a step, with the fault `docker` it may fail with or without effect; two
inspects in a row are one. An answer reaches the master when it is given or not at
all. A RECONCILE may come before the dispatch is over and the Worker is done, which the code
permits and the documents do not ask for; `early` counts these. Its answer deletes the
lease and nothing else: the dispatch, which looks at no lease, goes on to its EXECUTE,
while the Worker may be leased to the next assignment. The lease of an assignment
and the `stage` of its dispatch are therefore two variables, and only the lease is what
`Reconciled` changes.

### StateStore

| Variable | In the code |
|---|---|
| `statusFiles`, `leaseFiles`, `taskFiles` | `immutable/task-status-history`, `lease-history`, `tasks`, in the order `_load` reads them |
| `statusSnap`, `leaseSnap` | `snapshots/task-status`, `snapshots/leases` |
| `lines`, `torn` | whole lines of a Task's event stream; streams that end in half a line |
| `mode`, `statuses`, `queue`, `leases` | the master: down, in `create_app` or up; its memory |
| `thread`, `op` | the call that works on a Task, and the write it is at |

A write is atomic (`os.replace`), a line may be torn. A file's name and a status's
`updated_at` are clock times: a new entry sorts last, or, `MaxSkew` times, anywhere.
Entries carry the number of their write (`nth`) so that properties can speak of "written
last". Calls begin a write when the one before is done, in the order of the code; when a
line cannot be appended, the call fails as the code does: in `_load` the start fails, in
the `try` of `_dispatch` the except clause follows, elsewhere the call ends. A start is
`_load` of the Scheduler (`Mark`, `Rebuilds`) and then the ProposalService of
`create_app`, whose `validate_all_events` ends it on a torn line of any stream
(`Refused`), after the marks of `_load` were written. Only the removal of the half line
by hand (`Repair`) helps, and nothing says that anybody does it. Events that are not a
status (PREPARED, PLAN_ACK, CANCEL_REQUESTED and the like), plans, manifests and samples
are left out: nothing is rebuilt from the first, and the epochs that are rebuilt from
the others are `Scheduler`'s.

### WorkerPresence

| Variable | In the code |
|---|---|
| `busy` | the GPUs that are in use, whatever anybody knows of it |
| `process`, `state`, `streak` | the Worker's process; `_states` and `_low_streak` of its sampler |
| `conn`, `due`, `drawn` | the Worker's web socket; its heartbeat loop: not asleep, and what it has sampled |
| `gap` | the directions in which a sequence number was taken and lost |
| `entry`, `serving`, `last` | `_connections` has the Worker, the web socket `serve` works on, `_last_snapshot` |
| `threads`, `known` | the calls of `register_worker` under way; `_workers` of the scheduler |
| `calm`, `lowAge` | history: readings since a high one; the age of the last low one |

Each heartbeat and each offline snapshot is registered in a thread of its own
(`asyncio.to_thread`), so `Register` takes any of them first. Times are ages in units
of the ten seconds between heartbeats, and `Tick` makes everything older; what is
older than 30 seconds is not told apart. A sample that raises has read some rows, in
any order, and has changed the streaks of those. Several GPUs are independent rows but
for a sample that is cut short.

Every heartbeat takes a number that is on disk before it is sent, and so does every
request and every ACK of the hub; none is sent twice. One that is lost, with a broken or
refused web socket or a restart, is a `gap` for ever: the hub ends each later session at
its first heartbeat (`EndsAtGap`), and at a message to the Worker after a gap the
Worker's process exits (`WorkerExits`). `Break`, `Stops` and `MasterRestarts` choose
what was lost (`Lose`).

### Harness, Evidence and Qualification

| Variable | In the code |
|---|---|
| `invoked`, `exitZero`, `answer` | the attempt an invocation is at; the records with exit code 0; what the invocation did |
| `lines`, `torn`, `evidence`, `ingest` | the inbox, a line in it that was cut off, `worker-evidence`, and what each copying thread has read |
| `phase`, `agent`, `compiled`, `seen`, `verified` | the runner: where it is, its agent, what it has found, read and verified |
| `late`, `early` | history: the agent was stopped by its timeout; it ended while an outcome it was shown was not in the files |
| `card`, `proposal` | the card count of a Proposal, and its state |
| `status`, `lease`, `call` | the last entries of `task-status-history` and `lease-history`; what the dispatcher is doing |
| `cancel`, `flagged` | the thread of a cancel; `_cancel_requested` |
| `work`, `owner`, `container`, `ran` | the Worker: its call, `_resource_owner`, the container, what the frozen command did |

The modules keep of a Proposal and a dispatch the order of what a verdict reads, with
the calls in which evidence is copied; `Proposal` and `Scheduler` have them whole.
The outcome is written as `_transition` writes it: memory (`Settle`), history (`Record`),
event (`Note`), any of the last two of which may raise (`OutcomeFails`). `get_status`, which
takes no lock, shows the first (`Shown`) to the agent and to a cancel; the runner reads
the second (`status`) and the third (`Streamed`). The snapshot is left out, since the
runner reads none.
Everything out of the ordinary is counted in `faults`: an attempt that fails, a review
that asks for changes, a refused or lost call, an audit line that cannot be written, a
start that fails, a cancel, an agent that exits early or submits a card count twice.
`_verify_item` reads all records of an item in one step; the items are read one after
the other while the master goes on. The line DOCKER_INSPECT_PRE stands for itself and
for TASK_VERIFIED_PRE_DOCKER, which is written next. What is bound together by
identifiers, hashes and signatures belongs to one Task here. Left out are restarts of
the master and expiry and cancellation of Proposals. What a verdict also demands, and
`ItemHolds` leaves out, may fail at any time as one of the `faults` (`OtherCheckFails`):
`validate_all_events`, signatures, plan and manifest, how fresh the samples are
(`qualification.py` 389-416), the protocol events before the start (417-432) and the
artifacts. A run that is read while a line is being appended is taken to find the
line whole or not at all.

## 3. The runs

| Run | Question | Shows |
|---|---|---|
| `gang_restart` | a gang and a single Task compete for a container; cancels, refusals, lost calls, unclean stops and restarts at every line | `BarrierBeforeStart`, `RunningCovered`, `OutcomeReleasesAll`, `EpochsGrow`, `NoReexecution`, `ImplementsOwnership` |
| `gang_served` | the same gang under fairness with an administrator | `LeasesGoTogether`, `DispatchEnds`, `QueuedTasksServed` |
| `gpu` | two Tasks compete for the GPUs of one Worker under the qualification profile: time, cancels at any line, lost replies, reconciliation at any moment, unit after unit | `ExclusiveLeases`, `HoldsAreTheDispatchers`, `NoTaskForgotten` |
| `proposal` | two keys, three rounds, two reviews, deadlines, a restart between any two writes | `ReviewsWithinLimit`, `OneTask`, `ApprovedOnly`, `TaskMeansCompiled`, `ClosedForGood` |
| `link` | two calls (one EXECUTE), two heartbeats, two web sockets, breaks, timeouts, restarts | `InOrder`, `AnswerKept` |
| `driver` | two assignments on one Worker; cancels at any moment, failing docker commands, calls given up, Worker restarts, a reconciliation that comes too early and a dispatch that goes on without its lease | `RunsUnderLease`, `ThreadsUnderLease`, `Stoppable`, `OnlyNewestActs` |
| `store` | one gang of two units, two crashes between any two writes, torn lines and starts that fail on them, deleted snapshots, one entry that sorts before older ones | `SnapshotsAreRedundant`, `RebuiltAsWritten`, `ReleasedBeforeOutcome`, `ComesUp` |
| `presence` | a GPU that is used and freed, samples cut short, heartbeats registered late and out of order, web sockets that break or are refused, sequence numbers lost with them, restarts of either side | `AdmittedWasLow`, `ServedIsReachable`, `AdmissionFollowsTheWorker` |
| `qualification` | a run of one card count with a Task too many; two things out of the ordinary, of any kind and at any step; an outcome that is shown before it is written | `VerdictIsTrue`, `OutcomeHasEvidence`, `QualificationConcludes` |

All but `gang_served` and `gpu` also check the type invariant of their module, which in
`presence` includes that a GPU is DRIFTED only while it lacks low readings.

Three runs state what a document promises and find the code doing something else:

| Run | The document | What the code does |
|---|---|---|
| `two_leases` | a GPU belongs to at most one resource set (spec 259) | the admin tick and the loop both select a GPU before either has leased it, and both look for holds before either has written its own |
| `cancel_overwritten` | terminal states have no outgoing edge (spec 273) | a cancel between the unlocked read and write of PREPARING is overwritten |
| `link_gap` | the Worker reports by sequence after a disconnect (spec 281) | a heartbeat sent between the numbering and the sending of an answer makes a gap that no later session fills |

### Bounds

The interesting cases of a gang need two Workers, one unit on each and a second Task
that wants one of the containers; those of GPU selection need one Task that wants all
GPUs of a Worker and one that wants some of them. Two Tasks are enough for competition,
for overtaking and for one waiting behind the other; faults are not counted but may
happen at every step. `gang_restart` and `gang_served` split the faults between them,
because liveness is checked on a much larger graph. In `proposal` two keys are one
repeated and one new confirm, three rounds and two reviews reach every limit from both
sides. In `link` one call is handled in line and one in the background, and a second web
socket is what replay needs; the link's theorems hold for any number. In `driver` two
assignments are a stale and a new one, two calls under way are a stale cancel beside the
next prepare, and one early RECONCILE is one dispatch that goes on without a lease,
which is what the next can meet. In `store` the files of two Tasks are disjoint, so one
is enough; nine statuses are the longest life of a Task (to CLEANUP_FAILED and its
reconciliation), two crashes are one in a dispatch and one in the start after it, and
one early entry is a clock that steps back once. In `presence` the rows of two GPUs meet
only in samples that are cut short, which one GPU has too; two snapshots under way are
what overtaking needs; two failures are a break and the restart after it; the limit of
30 seconds is one unit of time there, so that a snapshot that is registered a slow unit
late is too old one unit after that; DRIFTED ends after two low readings where the code
wants three, so that one is still too few. The theorems hold for any such numbers. In
`qualification` one card count and two Tasks are a run that submits one too many, and
two faults are a cancel and a second thing that goes wrong; the limit on attempts is met
from both sides with two. `CHECK_DEADLOCK FALSE` is set where an instance runs out of
Tasks, web sockets or assignments, and where a qualification run ends.

### Fairness

`gang_served`, `store`, `presence` and `qualification` use fairness. In `gang_served`
the threads of a dispatch go on (`Dispatch`): they wait for nothing but the lock and
calls that time out. Whoever holds the lock goes on (`LockHolder`). `_scheduler_loop` of
`api/app.py` keeps ticking (`TickClaim`). Workers report every ten seconds
(`RegisterWorker` with all GPUs) and carry out what they were sent (`WorkerStep`);
commands in a container have deadlines. Nothing is assumed of arrivals, cancels,
administrators or lost calls. In `store` somebody starts the master when it is down, and
what a start does, which waits for nothing, goes on (`Starting`); that anybody repairs a
torn stream is not assumed, and `ComesUp` asks nothing while one is torn. In `presence`
the event loops of both sides and the thread pool go on and time passes (`Sample`,
`Connect`, `Serve`, `Beat`, `WorkerNotices`, `HubNotices`, `Register`, `Tick`); nothing
is assumed of a stopped Worker, nor of lost numbers. In `qualification` the runner goes
on, and an agent that sits still is stopped by the timeout of `subprocess.run`
(`RunnerStep \/ AgentTimesOut`); nothing is asked of the agent, the master or the
Worker, any of which may stop for good. All of it is weak fairness.

## 4. The proofs

TLAPS proves, for every value of the constants that satisfies the modules'
assumptions:

- **`SchedulerProofs`**: `TypeCorrect`; `QueueCorrect` (`NoTaskForgotten`) from
  `QueueInv`, for any number of threads inside `tick`; `LeasesExclusive`
  (`ExclusiveLeases`) and `EpochsNeverReused` (`EpochsGrow`) for one such thread
  (`OneTicker`). `ExclusiveLeases` is not inductive: a dispatch takes leases on what was
  selected long before. `LeaseInv` adds that a Task is dispatched exactly while its
  program counter is inside `_dispatch` (`DispatchesMatch`), that leases exist only from
  the first hold on (`LeasesMatch`), and that no other Task has come to lease what is
  selected (`ClaimsAreFree`); the last is where `OneTicker` is needed, and `two_leases`
  shows what happens without it. `EpochInv` adds that the counters in memory are never
  behind the disk and that an epoch taken but not yet persisted is above all persisted
  ones.
- **`GangProofs`**: the properties of a gang, by following one dispatch from stage to
  stage (`GangStage`: how far its loop is, which leases, plans and states of the Worker
  go with each line of `_dispatch`; `AskStage`: that a
  reconciliation asks with all plans written, and that no unit it has found safe is only
  prepared), and showing that every other thread, the Workers and a restart leave it where it is.
  `BarrierHolds` (`BarrierBeforeStart`) and `AtMostOnce` (`NoReexecution`) follow from
  `GangInv` with nothing assumed of faults or threads. The others need more, and without
  its assumption each of them fails, as said in the last column:

  | Theorem | Property | Beyond `GangInv` | Assumes, because otherwise |
  |---|---|---|---|
  | `RunsAreCovered` | `RunningCovered` | `RunInv`: what runs, or was told to, has a committed lease | nobody reconciles (`NoReconcile`): a unit about to start answers RECONCILE as a stopped one does (section 5) |
  | `OutcomesReleaseAll` | `OutcomeReleasesAll` | `OutcomesInv`: the status at each stage; a verdict is fixed when the dispatch starts the gang | no cancel between the read and the write of PREPARING (`NoRace`): `cancel_overwritten` |
  | `NoPartialRelease` | `LeasesGoTogether` | `TogetherInv`: a dispatch that is over has released all or nothing | no restart between two releases (`NoCrash`), no reconciliation of a dispatch under way (`NotEarly`; section 5) |
  | `HoldsAreExact` | `HoldsAreTheDispatchers` | `HoldsInv`: what a dispatch leases it has held before | one thread inside tick (`OneTicker`): `two_leases` |
  | `OwnershipImplemented` | `ImplementsOwnership` | `LeaseInv`, `OutcomesInv`, `UnderlyingInv` | `OneTicker`, `NoRace` and `NotEarly`, for the same reasons |

  Each assumption is a fact about the constants `Faults` and `Ticker`, and holds in the
  run that checks the property.
- **`ProposalProofs`**: `TypeCorrect`, `ReviewsBounded`, `OneTaskLeaves`,
  `OnlyApprovedLeaves`, `TaskOnlyIfCompiled`, `ClosedStaysClosed`, all from
  `CallInv`: what a call has established when it reaches each of its writes, so that a
  restart at the cut leaves a Proposal from which no second Task can leave.
- **`WorkerLinkProofs`**: `TypeCorrect`, `TakenInOrder`, `AnswersKept`,
  `LinkCorrect`. The induction is that a number belongs to one message for ever
  (`UpNumbered`, `DownNumbered`): whatever is on a wire, kept or about to be
  recorded is what its sender's log says of its number; and that numbers rise along
  each web socket towards the Worker.
- **`WorkerDriverProofs`**: `TypeCorrect`, `RunsCovered` (`RunsUnderLease`),
  `ThreadsCovered` (`ThreadsUnderLease`), `AlwaysStoppable` (`Stoppable`) and
  `OnlyNewest` (`OnlyNewestActs`), from `DriverCorrect`. None of the four is
  inductive: whether a late call does harm depends on what is still on its way. `MailInv`
  says that PREPARE and EXECUTE are sent once and that a query stands behind its PREPARE,
  so that the answer to the query speaks for it; `ProtocolInv`, that a thread or an EXECUTE
  has a plan on the disk and a dispatch that waits for it or is over; `MemoryInv`, that file and
  memory differ by the call being saved and that no prepared assignment is above the
  container's epoch; `LeaseInv`, that what is under way has the lease and no RECONCILE
  about it. Only `LeaseInv` needs RECONCILE to come in time (`early = 0`); `OnlyNewest`
  does without it, and holds of a dispatch that goes on after its leases were deleted.
- **`WorkerPresenceProofs`**: `TypeCorrect`, `AdmissionSafe` (`AdmittedWasLow`),
  `ServedCorrect` (`ServedIsReachable`), from `PresenceCorrect`. The induction adds that a
  streak counts exactly the readings since the last high one (`SamplerInv`) and that
  every sample, being drawn, in a thread or known, is sound: what it calls available was
  calm, and what it saw low was low no longer ago than it is old (`SamplesSound`). The
  latter is what lets samples be registered in any order.
- **`StateStoreProofs`**: `TypeCorrect` and `SnapshotsMayGo` (`SnapshotsAreRedundant`),
  from `StoreCorrect`. That a start reads the same without the snapshots is not
  inductive: it is true because a snapshot is a copy of a file that is there
  (`SnapInv`), and that because a write of a snapshot follows the file of the same
  change, whatever crash comes between (`WriteInv`). `Inserted` shows that a file
  whose name sorts before older ones, after a step of the clock, hides none of them.
  `RestartsAreTrue` (`RebuiltAsWritten`) and `OutcomesFindNoLease`
  (`ReleasedBeforeOutcome`), from `NewestCorrect`, say what a start makes of the files.
  A file is sorted by its clock and numbered by its write, and the two orders differ once
  the clock steps back; `NewestInv` therefore speaks of the entry written last.
  `LeaseInv` and `StatusInv` say that memory follows it, unless a thread is between the
  two; `ThreadInv` and `PendingInv`, which write a thread is at, and that a lease is
  released only if it was written and its Task is no longer PREPARING; `OrderInv`, that
  with a clock that goes forward a lease once released is never written again, and that
  the leases fit the newest status, also the one about to be written: none before
  PREPARING, all released at an outcome. That is the order of releases and outcome
  which a crash at any write must not turn around. Nothing is assumed of the number of
  crashes, failed lines or steps of the clock; the properties themselves say which
  entries they speak of after such a step.
- **`QualificationProofs`**: `TypeCorrect`, `VerdictsAreTrue` (`VerdictIsTrue`),
  `OutcomesHaveEvidence` (`OutcomeHasEvidence`) and `BlockedOnlyForAReason`
  (`BlockedForAReason`, the second half of `QualificationConcludes`). The runner reads
  records, one item after the other, long after they were written. `QInv` says what each
  record implies about its writer: `AgentsInv`, which invocations stand behind the state
  of a Proposal; `AnsweredInv` and `RanInv`, which lines the Worker has written when it
  answers; `CopiedInv`, that the dispatch has those lines in the evidence or in hand
  when it goes on, whatever a cancel copies at the same time; `TornInv`, that a torn
  line ends the story of its Task, since nothing after it is answered; and `RunnerInv`,
  that what the runner has read is still so. One Task of each card count follows by
  counting: `verify_qualification` compares numbers of Tasks and of card counts, and the
  proof turns equal cardinalities into a correspondence (`ExactlyOne`), for which `Task`
  and `Card` are assumed finite. `CInv` is the converse, what a run in which nothing
  goes wrong has written by the time it is read: one record with exit code 0 for each
  role, no card count twice, no cancel, the container up only between start and cleanup;
  with it, an outcome that the agent was shown is in the files unless `early` says
  otherwise. Besides `early`, only `faults` and `late` excuse a BLOCKED.

TLC checked the inductive invariants on the instances of the runs before they were proved.

Every safety property of the passing runs is stated by a theorem. Only model-checked are
the liveness properties, since the prover knows neither fairness nor ENABLED:
`DispatchEnds`, `QueuedTasksServed`, `ComesUp`, `AdmissionFollowsTheWorker`, and that a
qualification run comes to a verdict (the first half of `QualificationConcludes`). The
three runs that expect a violation exhibit behaviours, which only TLC can find.

## 5. What else is known

Seen while modelling and covered by no run of its own:

- A restart between the deletions of two leases of one Task leaves part of a gang
  leased under RECONCILIATION_REQUIRED, so `LeasesGoTogether` is checked without restarts.
- `reconcile_execution` demands one plan per unit (`core.py` 269), and leases are kept
  from the first PREPARE whose reply was lost on: such an execution can never be
  reconciled, and its leases stay until the files are edited.
- RECONCILE is answered safe when the container is stopped, which it also is while an
  EXECUTE of the same plan is still before `docker start`: the resources go to the next
  Task and the old container starts on them. Spec 231 wants no local assignment on a
  GPU that is admitted. `RunsUnderLease` and `ThreadsUnderLease` except this case (`early`).
- A clock that steps back by more than the time between two writes: a released lease
  comes back at the next start (and needs a reconcile), and a Task that has run may be
  QUEUED again. `RebuiltAsWritten` says when neither happens.
- A torn line of the PREPARING event leaves a Task PREPARING that no dispatch works on;
  the next start marks it, and is then refused, like every start, until the half line is
  cut off by hand. No command of the program does that. A torn line at COMPLETED
  makes the Task RECONCILIATION_REQUIRED, although its leases are gone.
- `reconcile_execution` deletes the leases before it settles CLEANUP_FAILED: after a
  crash in between it finds no lease, returns True, and the status stays.
- `reconcile_execution` looks at no state. Called between PLAN_ACK and EXECUTE it
  releases the leases of a dispatch that goes on, sends its EXECUTE and runs without any:
  next to whatever else is leased its GPUs, unless that has been prepared on the same
  Worker first, in which case the Worker refuses the EXECUTE (`OnlyNewestActs`).
- A confirmed Task is enqueued after the lock is released; a restart in between
  leaves a COMPILED Proposal whose Task is in no queue until the confirm is repeated with
  its key (a start queues only what has the status QUEUED). A restart between the state
  COMPILED (`service.py` 453) and the saved idempotency record (470) leaves a Task that
  is never queued: the repeated confirm finds no record and is refused, because the
  Proposal no longer awaits confirmation, and `retry_compilation` wants COMPILE_FAILED.
- `_check_lifetime` turns a Proposal that is CANCELLED or REJECTED into EXPIRED when a late
  reply or confirm arrives, where spec 178 gives the three states no outgoing edge;
  `ClosedForGood` allows for it.
- A Proposal that was COMPILING or IN_REVIEW at a restart stays so until it is
  cancelled or expires.
- An answer whose caller has given up is never stored by the hub and is replayed in
  every session. A message to the Worker that is lost makes a gap, and the Worker's
  process exits at every later message.
- A heartbeat that is lost with its number, which a broken connection is enough for, makes a
  gap in the other direction: the hub ends every later session of that Worker at its
  first heartbeat, and its GPUs are not admitted again until the counters are edited.
  `AdmissionFollowsTheWorker` promises admission only while nothing was lost.
- A cancel that stops the container makes the run command fail, and the execution
  then attempts the teardown, which spec 310 says a cancel must skip. A cancel that
  finds the container not started yet is confirmed, and the execution runs to its end.
- Ageing never changes the order of the queue: a Task that arrived earlier also
  ages earlier.
- A confirm that is repeated after a restart finds its Task by reading all Tasks of the
  Proposal and keeping the last in file order, which `OneTask` makes harmless.
- A restart of the Worker forgets DRIFTED and the streaks: the first low reading admits
  the GPU, where usage 449 asks for three. `AdmittedWasLow` speaks of one process.
- An older sample may be registered after a newer one, and an offline snapshot after
  the first sample of the next session or before the last one of its own: a lost
  Worker is then admitted for up to 30 seconds more, a connected one not until its next
  heartbeat.
- A controller that exits with 0 and prints something invalid is retried, and then two
  records have exit code 0 where `_verify_item` demands one: a good run is BLOCKED. The
  retries (four times 600 seconds) may also outlast the master's patience with EXECUTE.
- When the record of a valid answer cannot be written, `_invoke` takes the OSError
  for a failed launch and writes the record again; if that raises too (FileExistsError),
  the service, which catches HarnessError only, leaves the Proposal IN_REVIEW.
- An audit line that cannot be written after `docker start` leaves a running container,
  and an EXECUTE that is never answered.
- A cancel that copies the evidence at the same moment as the dispatch makes the
  dispatch fail with FileExistsError: the Task is RECONCILIATION_REQUIRED although every
  call was answered.
- A run in which everything goes well may be BLOCKED: `_transition` sets the status in
  memory before it writes it (`core.py` 577-587), and an agent that is told COMPLETED by
  `get_status` may exit, and the runner read the files, in between ("Tasks did not reach
  COMPLETED", "barrier evidence incomplete"). `QualificationConcludes` counts it as a
  reason (`early`).
- A Task that is compiled after the agent has exited is not seen by the verdict, which
  may be COMPLETED with a Task too many on its way.

Not modelled, and why:

- the compiler and signatures, which are pure functions;
- request parsing, authentication, drain and observation pages, onboarding, the client
  package and kit, configuration, provisioning and retention code, which keep no state
  other parts depend on;
- the text of prompts and answers, the environments of agents, and what makes a
  container differ from its baseline, which properties about order cannot tell apart.

The hazards without a property are listed with their reason in `PROJECT.json`.

## 6. Plan

In this order:

1. What ties the modules together: that what `StateStore` rebuilds is what `Crash` of
   `Scheduler` leaves, and that the lease of `WorkerDriver` is one unit of `Scheduler`.
2. The REST layer around the scheduler: drain, the confirm that enqueues, and the
   scheduler loop, composed with `Proposal` at the level of one Task.

The set of configurations is kept small: a new component gets one passing run, and
a run that found one of the divergences of section 3 makes room when a later module
shows the same disagreement closer to its cause.
