------------------------------ MODULE Scheduler ------------------------------
(***************************************************************************)
(* The master's Scheduler (scheduler/core.py): the queue, the resource     *)
(* holds and leases, the PREPARE / PLAN_ACK / EXECUTE barriers of one      *)
(* dispatch, cancellation, administrative reconciliation and restart.      *)
(*                                                                         *)
(* A dispatch runs in the thread that called tick and WITHOUT the          *)
(* scheduler lock; pc[t] is the line of _dispatch that thread has reached, *)
(* so every other entry point interleaves with it there.  A Task is        *)
(* dispatched at most once, which is why the local variables of _dispatch  *)
(* are indexed by Task.                                                    *)
(*                                                                         *)
(* Clocks are abstracted: "online, heartbeat and sample at most 30 s old,  *)
(* GPU authorised, AVAILABLE and below the VRAM threshold" is membership   *)
(* of usable[w], and the time a Task has waited is age[t].  The memory of  *)
(* the master and its files change in one step where the code writes the   *)
(* file under the assignment; what only lives in memory is lost by Crash.  *)
(***************************************************************************)
EXTENDS Naturals, FiniteSets, TaskStates

CONSTANTS
    Task,          \* Tasks that may be enqueued
    Worker,        \* Worker ids
    Gpu,           \* GPU ids of a Worker, a set of numbers
    Container,     \* container names
    MaxUnits,      \* the largest number of units of a Task
    UnitCount,     \* [Task -> 1..MaxUnits], len(task.units)
    WorkerOf,      \* [Task -> [1..MaxUnits -> Worker]], unit.worker_id
    ContainerOf,   \* [Task -> [1..MaxUnits -> Container]], unit.container_name
    GpuCount,      \* [Task -> [1..MaxUnits -> Nat]], unit.required_gpu_count
    Ticker,        \* threads that may be inside tick() at the same time
    Faults,        \* which disturbances of the environment may happen
    Qualification, \* qualification_profile
    NoTask         \* what a Ticker outside tick() is working on

Unit     == 1 .. MaxUnits
Units(t) == 1 .. UnitCount[t]
Resource == Worker \X (Gpu \cup Container)

(* The disturbances a configuration may switch on.  A run that leaves one  *)
(* out says what holds when it does not happen.                            *)
FaultKinds ==
    { "cancel",          \* submitters call cancel_task
      "cancel_race",     \* ... even between the claim of a Task and PREPARING
      "crash",           \* the master process stops and starts again
      "lost_reply",      \* a driver call raises instead of answering
      "reject",          \* a Worker refuses a PREPARE or a plan
      "unclean",         \* a container is not confirmed stopped after a run
      "gpu_loss",        \* samples show GPUs busy, drifted, stale or offline
      "time",            \* Tasks wait 30 minutes and an hour
      "reconcile",       \* an administrator reconciles what the docs name
      "early_reconcile"  \* ... or any execution, which the code permits
    }

ASSUME ConstantAssumption ==
    /\ Gpu \subseteq Nat
    /\ Gpu \cap Container = {}
    /\ MaxUnits \in Nat \ {0}
    /\ UnitCount \in [Task -> Unit]
    /\ WorkerOf \in [Task -> [Unit -> Worker]]
    /\ ContainerOf \in [Task -> [Unit -> Container]]
    /\ GpuCount \in [Task -> [Unit -> Nat \ {0}]]
    /\ \A t \in Task : \A u, v \in Units(t) : u # v => WorkerOf[t][u] # WorkerOf[t][v]
    /\ NoTask \notin Task
    /\ Faults \subseteq FaultKinds
    /\ Qualification \in BOOLEAN

VARIABLES
    status,     \* _statuses: the state of each Task ("CREATED": not enqueued)
    underlying, \* underlying_outcome of that status
    queue,      \* _queue: the Tasks waiting
    enq,        \* enqueued_at, as a position in the order of arrival
    arrivals,   \* how many Tasks have been enqueued
    age,        \* 1: has waited 30 minutes, 2: an hour
    usable,     \* per Worker, the GPUs the latest sample admits
    lock,       \* what holds _lock across several steps
    ticker,     \* the Task each Ticker is dispatching
    pc,         \* the line of _dispatch that dispatch has reached
    cur,        \* the unit its loop is at
    sel,        \* the GPUs selected for each unit
    verdict,    \* the outcome _dispatch has computed so far
    unclean,    \* some result had cleanup_ok = False
    holds,      \* _holds
    epochs,     \* _epochs
    logged,     \* the largest epoch the lease and plan files name, per resource
    lease,      \* last lease-history action of the unit's lease
    epoch,      \* lease_epoch of the unit's manifest, lease and plan
    plans,      \* _plans: units whose signed plan is on disk
    cancelReq,  \* _cancel_requested
    calling,    \* plans a cancel_task call is asking the Worker to stop
    wrk,        \* what the Worker has done with the unit
    inflight    \* a call to the Worker that no reply was received for

queueVars  == <<queue, enq, arrivals, age>>
statusVars == <<status, underlying>>
dispVars   == <<ticker, pc, cur, sel, verdict, unclean>>
resVars    == <<holds, epochs, logged>>
leaseVars  == <<lease, epoch, plans>>
cancelVars == <<cancelReq, calling>>
workerVars == <<wrk, inflight>>
vars == <<statusVars, queueVars, usable, lock, dispVars, resVars, leaseVars,
          cancelVars, workerVars>>

Stage ==
    { "idle", "claimed", "checked", "hold", "grab", "register", "prepare",
      "commit", "reserve", "plan", "ack", "startcheck", "dispatch", "starting",
      "running", "execute", "await", "endcheck", "finalize", "release",
      "settle", "cleanup_failed", "query", "fail_release", "fail_settle",
      "finally", "done" }

Free == lock = [op |-> "free", task |-> NoTask]

(* The resources a unit needs: the GPUs selected for it and its container. *)
Container1(t, u) == <<WorkerOf[t][u], ContainerOf[t][u]>>
GpuResources(t, u, S) == { <<WorkerOf[t][u], g>> : g \in S }
Needs(t, u) == GpuResources(t, u, sel[t][u]) \cup { Container1(t, u) }

Leased(t, u) == lease[t][u] \in { "held", "committed" }
LeasedEver ==   \* mutant: a deleted lease stays in memory
    { r \in Resource : \E t \in Task, u \in Unit : lease[t][u] # "none" /\ r \in Needs(t, u) }
LeasedResources ==
    { r \in Resource : \E t \in Task, u \in Unit : Leased(t, u) /\ r \in Needs(t, u) }

Init ==
    /\ status = [t \in Task |-> "CREATED"]
    /\ underlying = [t \in Task |-> "NONE"]
    /\ queue = {} /\ arrivals = 0
    /\ enq = [t \in Task |-> 0]
    /\ age = [t \in Task |-> 0]
    /\ usable = [w \in Worker |-> {}]
    /\ lock = [op |-> "free", task |-> NoTask]
    /\ ticker = [k \in Ticker |-> NoTask]
    /\ pc = [t \in Task |-> "idle"]
    /\ cur = [t \in Task |-> 1]
    /\ sel = [t \in Task |-> [u \in Unit |-> {}]]
    /\ verdict = [t \in Task |-> "NONE"]
    /\ unclean = [t \in Task |-> FALSE]
    /\ holds = {}
    /\ epochs = [r \in Resource |-> 0]
    /\ logged = [r \in Resource |-> 0]
    /\ lease = [t \in Task |-> [u \in Unit |-> "none"]]
    /\ epoch = [t \in Task |-> [u \in Unit |-> 0]]
    /\ plans = [t \in Task |-> {}]
    /\ cancelReq = {}
    /\ calling = [t \in Task |-> {}]
    /\ wrk = [t \in Task |-> [u \in Unit |-> "none"]]
    /\ inflight = [t \in Task |-> [u \in Unit |-> "none"]]
-----------------------------------------------------------------------------
(* Samples, the queue and selection.                                       *)

(* register_worker: a snapshot replaces what was known of the Worker.      *)
RegisterWorker(w, S) ==
    /\ Free
    /\ S = Gpu \/ "gpu_loss" \in Faults
    /\ usable' = [usable EXCEPT ![w] = S]
    /\ UNCHANGED <<statusVars, queueVars, lock, dispVars, resVars, leaseVars,
                   cancelVars, workerVars>>

(* enqueue: a Task already known is returned as it is.                     *)
RetryFailed(t) == status[t] \in { "CREATED", "FAILED" }   \* mutant: a FAILED Task is tried again
Unknown(t) == status[t] = "CREATED"
Enqueue(t) ==
    /\ Free
    /\ Unknown(t)
    /\ status' = [status EXCEPT ![t] = "QUEUED"]
    /\ queue' = queue \cup {t}
    /\ arrivals' = arrivals + 1
    /\ enq' = [enq EXCEPT ![t] = arrivals + 1]
    /\ UNCHANGED <<underlying, age, usable, lock, dispVars, resVars, leaseVars,
                   cancelVars, workerVars>>

(* Time passes for t; those that arrived before it have waited as long.    *)
Wait(t) ==
    /\ "time" \in Faults
    /\ status[t] = "QUEUED" /\ age[t] < 2
    /\ \A s \in Task : status[s] = "QUEUED" /\ enq[s] < enq[t] => age[s] > age[t]
    /\ age' = [age EXCEPT ![t] = @ + 1]
    /\ UNCHANGED <<statusVars, queue, enq, arrivals, usable, lock, dispVars,
                   resVars, leaseVars, cancelVars, workerVars>>

(* _queue_key: AGED Tasks first, then by enqueued_at.                      *)
Before(s, t) ==
    \/ age[s] = 2 /\ age[t] # 2
    \/ (age[s] = 2 <=> age[t] = 2) /\ enq[s] < enq[t]

(* _select_gpus: the GPUs of the unit's Worker that are admitted, neither  *)
(* leased nor held; the lowest ids are taken.                              *)
AvailableIgnoringLeases(t, u) ==   \* mutant: looks at the holds only
    { g \in usable[WorkerOf[t][u]] : <<WorkerOf[t][u], g>> \notin holds }
Available(t, u) ==
    { g \in usable[WorkerOf[t][u]] :
        <<WorkerOf[t][u], g>> \notin LeasedResources \cup holds }

Selects(t, u, S) ==
    /\ Container1(t, u) \notin LeasedResources
    /\ S \subseteq Available(t, u)
    /\ Cardinality(S) = GpuCount[t][u]
    /\ \A g \in S, h \in Available(t, u) \ S : g < h

(* _select_for_task: one selection per unit, or none.                      *)
Selection(t, pick) ==
    \A u \in Unit : IF u \in Units(t) THEN Selects(t, u, pick[u]) ELSE pick[u] = {}
Selectable(t) == \E pick \in [Unit -> SUBSET Gpu] : Selection(t, pick)

(* Qualification profile: what has waited 30 minutes is taken off the      *)
(* queue and BLOCKED while it cannot be placed.                            *)
Expire(E) ==
    /\ status' = [t \in Task |-> IF t \in E /\ status[t] = "QUEUED" THEN "BLOCKED"
                                                                   ELSE status[t]]
    /\ underlying' = [t \in Task |-> IF t \in E /\ status[t] = "QUEUED" THEN "NONE"
                                                                       ELSE underlying[t]]
Overdue(S) == IF Qualification THEN { s \in S : age[s] >= 1 } ELSE {}

(* tick, the part under the lock: the first Task that can be placed is     *)
(* claimed; the overdue ones found on the way expire.                      *)
TickClaim(k, t) ==
    /\ Free
    /\ ticker[k] = NoTask
    /\ t \in queue
    /\ LET ahead == { s \in queue : Before(s, t) }
       IN  /\ \A s \in ahead : ~Selectable(s)
           /\ Expire(Overdue(ahead))
           /\ queue' = (queue \ Overdue(ahead)) \ {t}
    /\ \E pick \in [Unit -> SUBSET Gpu] :
          /\ Selection(t, pick)
          /\ sel' = [sel EXCEPT ![t] = pick]
    /\ ticker' = [ticker EXCEPT ![k] = t]
    /\ pc' = [pc EXCEPT ![t] = "claimed"]
    /\ UNCHANGED <<enq, arrivals, age, usable, lock, cur, verdict, unclean, resVars,
                   leaseVars, cancelVars, workerVars>>

TickIdle(k) ==
    /\ Free
    /\ ticker[k] = NoTask
    /\ Overdue(queue) # {}
    /\ \A s \in queue : ~Selectable(s)
    /\ Expire(Overdue(queue))
    /\ queue' = queue \ Overdue(queue)
    /\ UNCHANGED <<enq, arrivals, age, usable, lock, dispVars, resVars, leaseVars,
                   cancelVars, workerVars>>
-----------------------------------------------------------------------------
(* _dispatch.  Every step below belongs to one dispatching thread.         *)

Goto(t, from, to) ==
    /\ pc[t] = from
    /\ pc' = [pc EXCEPT ![t] = to]

SetStatus(t, s, under) ==
    /\ status' = [status EXCEPT ![t] = s]
    /\ underlying' = [underlying EXCEPT ![t] = under]

(* An exception after the leases were committed, or one that leaves the    *)
(* Worker's state unknown: the leases stay.                                *)
FailKeepAsFailed(t, from) ==   \* mutant: announces FAILED all the same
    /\ Goto(t, from, "fail_settle")
    /\ verdict' = [verdict EXCEPT ![t] = "FAILED"]
FailKeep(t, from) ==
    /\ Goto(t, from, "fail_settle")
    /\ verdict' = [verdict EXCEPT ![t] = "RECONCILIATION_REQUIRED"]

(* An exception that provably left nothing behind: the leases go.          *)
FailRelease(t, from) ==
    /\ Goto(t, from, "fail_release")
    /\ cur' = [cur EXCEPT ![t] = 1]

(* _transition inside the try block: an edge the table does not have       *)
(* raises InvalidTransition, which the except clause catches.              *)
Advance(t, from, target, under, to) ==
    /\ \/ /\ target \in TaskTargets(status[t])
          /\ Goto(t, from, to)
          /\ SetStatus(t, target, under)
          /\ UNCHANGED verdict
       \/ /\ target \notin TaskTargets(status[t])
          /\ FailKeep(t, from)
          /\ UNCHANGED statusVars
    /\ UNCHANGED <<queueVars, usable, lock, ticker, cur, sel, unclean, resVars,
                   leaseVars, cancelVars, workerVars>>

(* The loops over units: after the last one control moves on.              *)
NextUnitNoReset(t, from, again, after) ==   \* mutant: the next loop starts past the end
    /\ Goto(t, from, IF cur[t] = UnitCount[t] THEN after ELSE again)
    /\ cur' = [cur EXCEPT ![t] = @ + 1]
OneUnitOnly(t, from, again, after) ==       \* mutant: the loop ends after the first unit
    /\ Goto(t, from, after)
    /\ cur' = [cur EXCEPT ![t] = 1]
NextUnit(t, from, again, after) ==
    /\ Goto(t, from, IF cur[t] = UnitCount[t] THEN after ELSE again)
    /\ cur' = [cur EXCEPT ![t] = IF @ = UnitCount[t] THEN 1 ELSE @ + 1]

(* The first _transition of _dispatch is outside the try block and not     *)
(* under the lock: it reads the status in one step ...                     *)
CheckQueued(t) ==
    /\ \/ /\ "PREPARING" \in TaskTargets(status[t])
          /\ Goto(t, "claimed", "checked")
          /\ UNCHANGED ticker
       \/ /\ "PREPARING" \notin TaskTargets(status[t])
          /\ Goto(t, "claimed", "done")
          /\ ticker' = [k \in Ticker |-> IF ticker[k] = t THEN NoTask ELSE ticker[k]]
    /\ UNCHANGED <<statusVars, queueVars, usable, lock, cur, sel, verdict, unclean,
                   resVars, leaseVars, cancelVars, workerVars>>

(* ... and writes PREPARING in another.                                    *)
WritePreparing(t) ==
    /\ Goto(t, "checked", "hold")
    /\ SetStatus(t, "PREPARING", "NONE")
    /\ UNCHANGED <<queueVars, usable, lock, ticker, cur, sel, verdict, unclean,
                   resVars, leaseVars, cancelVars, workerVars>>

(* A unit's resources are held by someone else: SchedulingError.           *)
HoldCheck(t) ==
    /\ IF Needs(t, cur[t]) \cap holds # {}
         THEN FailRelease(t, "hold")
         ELSE Goto(t, "hold", "grab") /\ UNCHANGED cur
    /\ UNCHANGED <<statusVars, queueVars, usable, lock, ticker, sel, verdict, unclean,
                   resVars, leaseVars, cancelVars, workerVars>>

(* They are held and get a lease_epoch above any they have had.            *)
Grab(t) ==
    /\ Goto(t, "grab", "register")
    /\ holds' = holds \cup Needs(t, cur[t])
    /\ \E q \in Needs(t, cur[t]) :
          /\ \A r \in Needs(t, cur[t]) : epochs[r] <= epochs[q]
          /\ epochs' = [r \in Resource |-> IF r \in Needs(t, cur[t]) THEN epochs[q] + 1
                                                                     ELSE epochs[r]]
          /\ epoch' = [epoch EXCEPT ![t][cur[t]] = epochs[q] + 1]
    /\ UNCHANGED <<statusVars, queueVars, usable, lock, ticker, cur, sel, verdict,
                   unclean, logged, lease, plans, cancelVars, workerVars>>

(* The manifest is signed and the provisional lease persisted.             *)
Register(t) ==
    /\ Goto(t, "register", "prepare")
    /\ lease' = [lease EXCEPT ![t][cur[t]] = "held"]
    /\ logged' = [r \in Resource |->
                    IF r \in Needs(t, cur[t]) /\ logged[r] < epoch[t][cur[t]]
                      THEN epoch[t][cur[t]] ELSE logged[r]]
    /\ UNCHANGED <<statusVars, queueVars, usable, lock, ticker, cur, sel, verdict,
                   unclean, holds, epochs, epoch, plans, cancelVars, workerVars>>

SameContainerRunning(t, u) ==
    \E s \in Task, v \in Unit :
        Container1(s, v) = Container1(t, u) /\ wrk[s][v] = "running"

(* A driver call that raises may have been carried out, may still be, or   *)
(* may never be.                                                           *)
LostCall(t, call, effect) ==
    /\ "lost_reply" \in Faults
    /\ \/ /\ wrk' = [wrk EXCEPT ![t][cur[t]] = effect]
          /\ UNCHANGED inflight
       \/ /\ inflight' = [inflight EXCEPT ![t][cur[t]] = call]
          /\ UNCHANGED wrk
       \/ UNCHANGED <<wrk, inflight>>

(* driver.prepare answers yes, answers no, or raises.                      *)
PrepareOk(t) ==
    /\ ~SameContainerRunning(t, cur[t])
    /\ wrk' = [wrk EXCEPT ![t][cur[t]] = "prepared"]
    /\ NextUnit(t, "prepare", "hold", "commit")
    /\ UNCHANGED <<statusVars, queueVars, usable, lock, ticker, sel, verdict, unclean,
                   resVars, leaseVars, cancelVars, inflight>>

PrepareRejected(t) ==
    /\ "reject" \in Faults \/ SameContainerRunning(t, cur[t])
    /\ FailRelease(t, "prepare")
    /\ UNCHANGED <<statusVars, queueVars, usable, lock, ticker, sel, verdict, unclean,
                   resVars, leaseVars, cancelVars, workerVars>>

PrepareRaised(t) ==
    /\ Goto(t, "prepare", "query")
    /\ LostCall(t, "PREPARE", "prepared")
    /\ UNCHANGED <<statusVars, queueVars, usable, lock, ticker, cur, sel, verdict,
                   unclean, resVars, leaseVars, cancelVars>>

(* query_status of every manifest sent so far.  Calls to a Worker are      *)
(* answered in the order they were sent, so NOT_REGISTERED also means that *)
(* nothing is on its way.  Any other answer, or none, is uncertainty.      *)
QueryUntilCertain(t) ==   \* mutant: any other answer is asked for again
    /\ \A v \in 1 .. cur[t] : wrk[t][v] = "none"
    /\ FailRelease(t, "query")
    /\ UNCHANGED <<statusVars, queueVars, usable, lock, ticker, sel, verdict, unclean,
                   resVars, leaseVars, cancelVars, workerVars>>
Query(t) ==
    /\ \/ /\ \A v \in 1 .. cur[t] : wrk[t][v] = "none"
          /\ inflight' = [inflight EXCEPT ![t] =
                            [v \in Unit |-> IF v <= cur[t] THEN "none" ELSE @[v]]]
          /\ FailRelease(t, "query")
          /\ UNCHANGED verdict
       \/ /\ FailKeep(t, "query")
          /\ UNCHANGED <<cur, inflight>>
    /\ UNCHANGED <<statusVars, queueVars, usable, lock, ticker, sel, unclean, resVars,
                   leaseVars, cancelVars, wrk>>

(* Every unit is PREPARED: the leases are persisted again as committed.    *)
CommitNotPersisted(t) ==   \* mutant: only the copies in memory are committed
    /\ NextUnit(t, "commit", "commit", "reserve")
    /\ UNCHANGED <<statusVars, queueVars, usable, lock, ticker, sel, verdict, unclean,
                   resVars, leaseVars, cancelVars, workerVars>>
Commit(t) ==
    /\ NextUnit(t, "commit", "commit", "reserve")
    /\ lease' = [lease EXCEPT ![t][cur[t]] = "committed"]
    /\ UNCHANGED <<statusVars, queueVars, usable, lock, ticker, sel, verdict, unclean,
                   resVars, epoch, plans, cancelVars, workerVars>>

Reserve(t) == Advance(t, "reserve", "RESERVED", "NONE", "plan")

(* One signed plan per unit is written and recorded ...                    *)
WritePlan(t) ==
    /\ Goto(t, "plan", "ack")
    /\ plans' = [plans EXCEPT ![t] = @ \cup {cur[t]}]
    /\ UNCHANGED <<statusVars, queueVars, usable, lock, ticker, cur, sel, verdict,
                   unclean, resVars, lease, epoch, cancelVars, workerVars>>

(* ... and acknowledged by the Worker, refused, or not answered.           *)
PlanAck(t) ==
    /\ NextUnit(t, "ack", "plan", "startcheck")
    /\ wrk[t][cur[t]] = "prepared"
    /\ wrk' = [wrk EXCEPT ![t][cur[t]] = "planned"]
    /\ UNCHANGED <<statusVars, queueVars, usable, lock, ticker, sel, verdict, unclean,
                   resVars, leaseVars, cancelVars, inflight>>

PlanFailed(t) ==
    /\ \/ "reject" \in Faults /\ UNCHANGED <<wrk, inflight>>
       \/ LostCall(t, "PLAN", "planned")
    /\ FailKeep(t, "ack")
    /\ UNCHANGED <<statusVars, queueVars, usable, lock, ticker, cur, sel, unclean,
                   resVars, leaseVars, cancelVars>>

(* Under the lock: a cancel that has arrived by now ends the dispatch      *)
(* before the start.                                                       *)
StartCheck(t) ==
    /\ Free
    /\ Goto(t, "startcheck", IF t \in cancelReq THEN "finalize" ELSE "dispatch")
    /\ verdict' = [verdict EXCEPT ![t] = IF t \in cancelReq THEN "CANCELLED" ELSE "COMPLETED"]
    /\ cancelReq' = cancelReq \ {t}
    /\ UNCHANGED <<statusVars, queueVars, usable, lock, ticker, cur, sel, unclean,
                   resVars, leaseVars, calling, workerVars>>

Dispatched(t) == Advance(t, "dispatch", "DISPATCHED", "NONE", "starting")
Starting(t)   == Advance(t, "starting", "STARTING", "NONE", "running")
Running(t)    == Advance(t, "running", "RUNNING", "NONE", "execute")

(* driver.execute, one unit after the other: the call ...                  *)
ExecuteCall(t) ==
    /\ Goto(t, "execute", "await")
    /\ inflight' = [inflight EXCEPT ![t][cur[t]] = "EXECUTE"]
    /\ UNCHANGED <<statusVars, queueVars, usable, lock, ticker, cur, sel, verdict,
                   unclean, resVars, leaseVars, cancelVars, wrk>>

(* ... its result, good or bad, with the container confirmed stopped or    *)
(* not ...                                                                 *)
ExecuteResult(t) ==
    /\ NextUnit(t, "await", "execute", "endcheck")
    /\ \/ /\ wrk[t][cur[t]] = "exited"
          /\ UNCHANGED unclean
       \/ /\ "unclean" \in Faults
          /\ wrk[t][cur[t]] \in { "running", "exited" }
          /\ unclean' = [unclean EXCEPT ![t] = TRUE]
    /\ \/ UNCHANGED verdict
       \/ verdict' = [verdict EXCEPT ![t] = "FAILED"]
    /\ UNCHANGED <<statusVars, queueVars, usable, lock, ticker, sel, resVars, leaseVars,
                   cancelVars, workerVars>>

(* ... or no result at all.                                                *)
ExecuteRaised(t) ==
    /\ "lost_reply" \in Faults
    /\ FailKeep(t, "await")
    /\ UNCHANGED <<statusVars, queueVars, usable, lock, ticker, cur, sel, unclean,
                   resVars, leaseVars, cancelVars, workerVars>>

(* Under the lock: a cancel that arrived during the run decides the        *)
(* outcome, whatever the results say.                                      *)
EndCheck(t) ==
    /\ Free
    /\ Goto(t, "endcheck", "finalize")
    /\ verdict' = [verdict EXCEPT ![t] = IF t \in cancelReq THEN "CANCELLED" ELSE @]
    /\ cancelReq' = cancelReq \ {t}
    /\ UNCHANGED <<statusVars, queueVars, usable, lock, ticker, cur, sel, unclean,
                   resVars, leaseVars, calling, workerVars>>

FinalizeAndRelease(t) == Advance(t, "finalize", "FINALIZING", "NONE", "release")   \* mutant
Finalize(t) ==
    Advance(t, "finalize", "FINALIZING", "NONE",
            IF unclean[t] THEN "cleanup_failed" ELSE "release")

(* A container that was not confirmed stopped keeps every lease.           *)
CleanupFailed(t) ==
    Advance(t, "cleanup_failed", "CLEANUP_FAILED", verdict[t], "finally")

(* _delete_lease; the lease of a unit not reached yet does not exist.      *)
KeepLast(t, u) == IF u = UnitCount[t] THEN lease[t][u] ELSE "released"   \* mutant
Deleted(t, u)  == IF lease[t][u] = "none" THEN "none" ELSE "released"
Release(t) ==
    /\ \/ NextUnit(t, "release", "release", "settle")
       \/ NextUnit(t, "fail_release", "fail_release", "fail_settle")
    /\ lease' = [lease EXCEPT ![t][cur[t]] = Deleted(t, cur[t])]
    /\ verdict' = IF pc[t] = "fail_release" THEN [verdict EXCEPT ![t] = "FAILED"] ELSE verdict
    /\ UNCHANGED <<statusVars, queueVars, usable, lock, ticker, sel, unclean, resVars,
                   epoch, plans, cancelVars, workerVars>>

Settle(t) == Advance(t, "settle", verdict[t], "NONE", "finally")

(* _force_failure: by way of FINALIZING where the table allows it, else    *)
(* the status is overwritten whatever it is.                               *)
ForceFinalizing(t) ==
    /\ status[t] # "FINALIZING" /\ "FINALIZING" \in TaskTargets(status[t])
    /\ Goto(t, "fail_settle", "fail_settle")
    /\ SetStatus(t, "FINALIZING", "NONE")
    /\ UNCHANGED <<queueVars, usable, lock, ticker, cur, sel, verdict, unclean, resVars,
                   leaseVars, cancelVars, workerVars>>

ForceTarget(t) ==
    /\ status[t] = "FINALIZING" \/ "FINALIZING" \notin TaskTargets(status[t])
    /\ Goto(t, "fail_settle", "finally")
    /\ SetStatus(t, verdict[t], IF status[t] = "FINALIZING" THEN "FAILED" ELSE underlying[t])
    /\ UNCHANGED <<queueVars, usable, lock, ticker, cur, sel, verdict, unclean, resVars,
                   leaseVars, cancelVars, workerVars>>

(* The finally clause drops the holds of every selection, whoever put      *)
(* them there, and tick returns.                                           *)
DroppedGpus(t) == UNION { GpuResources(t, u, sel[t][u]) : u \in Units(t) }   \* mutant
Dropped(t)     == UNION { Needs(t, u) : u \in Units(t) }
Finally(t) ==
    /\ Goto(t, "finally", "done")
    /\ holds' = holds \ Dropped(t)
    /\ ticker' = [k \in Ticker |-> IF ticker[k] = t THEN NoTask ELSE ticker[k]]
    /\ UNCHANGED <<statusVars, queueVars, usable, lock, cur, sel, verdict, unclean,
                   epochs, logged, leaseVars, cancelVars, workerVars>>

Dispatch(t) ==
    \/ CheckQueued(t) \/ WritePreparing(t)
    \/ HoldCheck(t) \/ Grab(t) \/ Register(t)
    \/ PrepareOk(t) \/ PrepareRejected(t) \/ PrepareRaised(t) \/ Query(t)
    \/ Commit(t) \/ Reserve(t)
    \/ WritePlan(t) \/ PlanAck(t) \/ PlanFailed(t)
    \/ StartCheck(t) \/ Dispatched(t) \/ Starting(t) \/ Running(t)
    \/ ExecuteCall(t) \/ ExecuteResult(t) \/ ExecuteRaised(t) \/ EndCheck(t)
    \/ Finalize(t) \/ CleanupFailed(t) \/ Release(t) \/ Settle(t)
    \/ ForceFinalizing(t) \/ ForceTarget(t) \/ Finally(t)
-----------------------------------------------------------------------------
(* cancel_task.                                                            *)

Cancellable(t) == status[t] \in { "QUEUED", "BLOCKED" }
StillQueued(t) == queue   \* mutant
Dequeued(t)    == queue \ {t}

(* A Task not dispatched yet leaves the queue; _transition has read its    *)
(* status and holds the lock, which _dispatch does not take ...            *)
CancelQueued(t) ==
    /\ "cancel" \in Faults
    /\ Free
    /\ Cancellable(t)
    /\ pc[t] \notin { "claimed", "checked" } \/ "cancel_race" \in Faults
    /\ queue' = Dequeued(t)
    /\ lock' = [op |-> "cancel", task |-> t]
    /\ UNCHANGED <<statusVars, enq, arrivals, age, usable, dispVars, resVars, leaseVars,
                   cancelVars, workerVars>>

(* ... before it writes CANCELLED.                                         *)
CancelWrite(t) ==
    /\ lock = [op |-> "cancel", task |-> t]
    /\ SetStatus(t, "CANCELLED", "NONE")
    /\ lock' = [op |-> "free", task |-> NoTask]
    /\ UNCHANGED <<queueVars, usable, dispVars, resVars, leaseVars, cancelVars, workerVars>>

(* When _dispatch wrote in between, _transition may also have read that    *)
(* and raised: the Task is off the queue and nothing else happens.         *)
CancelAbort(t) ==
    /\ lock = [op |-> "cancel", task |-> t]
    /\ status[t] \notin { "QUEUED", "BLOCKED" }
    /\ lock' = [op |-> "free", task |-> NoTask]
    /\ UNCHANGED <<statusVars, queueVars, usable, dispVars, resVars, leaseVars,
                   cancelVars, workerVars>>

(* A Task being dispatched, or whose leases are in doubt: the request is   *)
(* recorded, and its plans are what the Worker will be asked to stop.      *)
CancelRequest(t) ==
    /\ "cancel" \in Faults
    /\ Free
    /\ status[t] \in ActiveStates \cup { "RECONCILIATION_REQUIRED" }
    /\ calling[t] = {}
    /\ cancelReq' = cancelReq \cup {t}
    /\ calling' = [calling EXCEPT ![t] = plans[t]]
    /\ UNCHANGED <<statusVars, queueVars, usable, lock, dispVars, resVars, leaseVars,
                   workerVars>>

(* driver.cancel, outside the lock: all containers are confirmed stopped,  *)
(* or one is not and the request is withdrawn, or the call raises and the  *)
(* request stays.  S are the containers it stopped.                        *)
CancelReply(t) ==
    /\ calling[t] # {}
    /\ \E S \in SUBSET { u \in calling[t] : wrk[t][u] = "running" } :
          /\ wrk' = [wrk EXCEPT ![t] =
                       [u \in Unit |-> IF u \in S THEN "exited" ELSE @[u]]]
          /\ \/ /\ \A u \in calling[t] \ S :
                         wrk[t][u] \in { "planned", "launching", "exited" }
                /\ UNCHANGED cancelReq
             \/ cancelReq' = cancelReq \ {t}
             \/ /\ "lost_reply" \in Faults
                /\ UNCHANGED cancelReq
    /\ calling' = [calling EXCEPT ![t] = {}]
    /\ UNCHANGED <<statusVars, queueVars, usable, lock, dispVars, resVars, leaseVars,
                   inflight>>
-----------------------------------------------------------------------------
(* reconcile_execution, under the lock from beginning to end.              *)

HoldsLease(t) == \E u \in Units(t) : Leased(t, u)

(* The documents name the two states whose leases an administrator         *)
(* reconciles; the code looks at no state.                                 *)
MayReconcile(t) ==
    \/ "early_reconcile" \in Faults
    \/ /\ "reconcile" \in Faults
       /\ status[t] \in { "CLEANUP_FAILED", "RECONCILIATION_REQUIRED" }

(* Every unit has to have a plan.  The units asked about so far are kept   *)
(* with the lock.                                                          *)
Asking(t, S) == [op |-> "ask", task |-> t, asked |-> S]
ReconcileBegins(t) ==
    /\ Free
    /\ MayReconcile(t)
    /\ HoldsLease(t)
    /\ plans[t] = Units(t)
    /\ lock' = Asking(t, {})

(* One Worker after the other is asked, and finds the plan current and its *)
(* container stopped: so it does when the execution has yet to start it.   *)
(* What was found of a unit is not looked at again.                        *)
Safe(t, u) == wrk[t][u] \in { "planned", "launching", "exited" }
ReconcileSafe(t) ==
    \E S \in SUBSET Units(t) : \E u \in Units(t) \ S :
        /\ lock = Asking(t, S)
        /\ Safe(t, u)
        /\ lock' = IF S \cup {u} = Units(t) THEN [op |-> "reconcile", task |-> t]
                                           ELSE Asking(t, S \cup {u})

(* The first that does not, or whose call raises, ends it; nothing else    *)
(* has changed.                                                            *)
ReconcileRefused(t) ==
    \E S \in SUBSET Units(t) : \E u \in Units(t) \ S :
        /\ lock = Asking(t, S)
        /\ ~Safe(t, u) \/ "lost_reply" \in Faults
        /\ lock' = [op |-> "free", task |-> NoTask]

ReconcileAsk(t) ==
    /\ ReconcileBegins(t) \/ ReconcileSafe(t) \/ ReconcileRefused(t)
    /\ UNCHANGED <<statusVars, queueVars, usable, dispVars, resVars, leaseVars,
                   cancelVars, workerVars>>

(* The leases go one after the other ...                                   *)
ReconcileRelease(t) ==
    /\ lock = [op |-> "reconcile", task |-> t]
    /\ \E u \in Units(t) :
          /\ Leased(t, u) /\ \A v \in Units(t) : v < u => ~Leased(t, v)
          /\ lease' = [lease EXCEPT ![t][u] = "released"]
    /\ UNCHANGED <<statusVars, queueVars, usable, lock, dispVars, resVars, epoch, plans,
                   cancelVars, workerVars>>

(* ... and a CLEANUP_FAILED Task gets the outcome it had before.           *)
Reconciled(t) ==
    IF status[t] # "CLEANUP_FAILED" THEN status[t]
    ELSE IF underlying[t] = "NONE" THEN "FAILED" ELSE underlying[t]
ReconcileResolve(t) ==
    /\ lock = [op |-> "reconcile", task |-> t]
    /\ ~HoldsLease(t)
    /\ status' = [status EXCEPT ![t] = Reconciled(t)]
    /\ lock' = [op |-> "free", task |-> NoTask]
    /\ UNCHANGED <<underlying, queueVars, usable, dispVars, resVars, leaseVars,
                   cancelVars, workerVars>>
-----------------------------------------------------------------------------
(* The Worker, as far as the scheduler can tell its states apart.          *)

(* A call whose reply was lost is carried out after all.                   *)
Deliver(t, u) ==
    /\ \/ /\ inflight[t][u] = "PREPARE" /\ wrk[t][u] = "none"
          /\ ~SameContainerRunning(t, u)
          /\ wrk' = [wrk EXCEPT ![t][u] = "prepared"]
       \/ /\ inflight[t][u] = "PLAN" /\ wrk[t][u] = "prepared"
          /\ wrk' = [wrk EXCEPT ![t][u] = "planned"]
       \/ /\ inflight[t][u] = "EXECUTE" /\ wrk[t][u] = "planned"
          /\ wrk' = [wrk EXCEPT ![t][u] = "launching"]
    /\ inflight' = [inflight EXCEPT ![t][u] = "none"]
    /\ UNCHANGED <<statusVars, queueVars, usable, lock, dispVars, resVars, leaseVars,
                   cancelVars>>

(* The execution thread starts the container, or declines to.              *)
Launch(t, u) ==
    /\ wrk[t][u] = "launching"
    /\ \/ /\ ~SameContainerRunning(t, u)
          /\ wrk' = [wrk EXCEPT ![t][u] = "running"]
       \/ /\ "reject" \in Faults \/ SameContainerRunning(t, u)
          /\ wrk' = [wrk EXCEPT ![t][u] = "exited"]
    /\ UNCHANGED <<statusVars, queueVars, usable, lock, dispVars, resVars, leaseVars,
                   cancelVars, inflight>>

Exit(t, u) ==
    /\ wrk[t][u] = "running"
    /\ wrk' = [wrk EXCEPT ![t][u] = "exited"]
    /\ UNCHANGED <<statusVars, queueVars, usable, lock, dispVars, resVars, leaseVars,
                   cancelVars, inflight>>

WorkerStep(t, u) == Deliver(t, u) \/ Launch(t, u) \/ Exit(t, u)
-----------------------------------------------------------------------------
(* The process stops anywhere and _load rebuilds the state from the files: *)
(* what was active needs reconciliation, what was QUEUED is queued again   *)
(* at its old place, leases and epochs come back, everything else is gone. *)
RestartStatus(s) == IF s \in ActiveStates THEN "RECONCILIATION_REQUIRED" ELSE s
EpochsFromZero == [r \in Resource |-> 0]   \* mutant: the files are not read
RestartEpochs  == logged

Crash ==
    /\ "crash" \in Faults
    /\ status' = [t \in Task |-> RestartStatus(status[t])]
    /\ queue' = { t \in Task : status[t] = "QUEUED" }
    /\ usable' = [w \in Worker |-> {}]
    /\ lock' = [op |-> "free", task |-> NoTask]
    /\ ticker' = [k \in Ticker |-> NoTask]
    /\ pc' = [t \in Task |-> IF status[t] \in { "CREATED", "QUEUED" } THEN "idle" ELSE "done"]
    /\ cur' = [t \in Task |-> 1]
    /\ sel' = [t \in Task |-> IF HoldsLease(t) THEN sel[t] ELSE [u \in Unit |-> {}]]
    /\ verdict' = [t \in Task |-> "NONE"]
    /\ unclean' = [t \in Task |-> FALSE]
    /\ holds' = {}
    /\ epochs' = RestartEpochs
    /\ cancelReq' = {}
    /\ calling' = [t \in Task |-> {}]
    /\ UNCHANGED <<underlying, enq, arrivals, age, logged, leaseVars, workerVars>>

Next ==
    \/ \E w \in Worker, S \in SUBSET Gpu : RegisterWorker(w, S)
    \/ \E k \in Ticker : TickIdle(k) \/ \E t \in Task : TickClaim(k, t)
    \/ \E t \in Task :
          \/ Enqueue(t) \/ Wait(t) \/ Dispatch(t)
          \/ CancelQueued(t) \/ CancelWrite(t) \/ CancelAbort(t) \/ CancelRequest(t) \/ CancelReply(t)
          \/ ReconcileAsk(t) \/ ReconcileRelease(t) \/ ReconcileResolve(t)
          \/ \E u \in Units(t) : WorkerStep(t, u)
    \/ Crash

Spec == Init /\ [][Next]_vars
-----------------------------------------------------------------------------
(* What the scheduler must get right.                                      *)

Dispatching(t) == \E k \in Ticker : ticker[k] = t
AtRest(t) == ~Dispatching(t) /\ lock # [op |-> "reconcile", task |-> t]

Verdict == OutcomeStates \cup { "RECONCILIATION_REQUIRED", "NONE" }

(* Type invariant, by group of variables; every loop over units stays      *)
(* within the Task's units, and an error path has decided how it ends.     *)
StatusOK ==
    /\ status \in [Task -> TaskState]
    /\ underlying \in [Task -> Verdict]
QueueOK ==
    /\ queue \subseteq Task
    /\ arrivals \in Nat
    /\ enq \in [Task -> Nat]
    /\ age \in [Task -> 0 .. 2]
LockOK ==
    \/ lock \in [op : { "free", "cancel", "reconcile" }, task : Task \cup { NoTask }]
    \/ \E t \in Task, S \in SUBSET Unit : lock = Asking(t, S)
DispatchOK ==
    /\ ticker \in [Ticker -> Task \cup { NoTask }]
    /\ pc \in [Task -> Stage]
    /\ cur \in [Task -> Unit]
    /\ \A t \in Task : cur[t] \in Units(t)
    /\ sel \in [Task -> [Unit -> SUBSET Gpu]]
    /\ verdict \in [Task -> Verdict]
    /\ \A t \in Task : pc[t] = "fail_settle" =>
                        verdict[t] \in { "FAILED", "RECONCILIATION_REQUIRED" }
    /\ unclean \in [Task -> BOOLEAN]
ResourcesOK ==
    /\ holds \subseteq Resource
    /\ epochs \in [Resource -> Nat]
    /\ logged \in [Resource -> Nat]
LeasesOK ==
    /\ lease \in [Task -> [Unit -> { "none", "held", "committed", "released" }]]
    /\ epoch \in [Task -> [Unit -> Nat]]
    /\ plans \in [Task -> SUBSET Unit]
CancelOK ==
    /\ cancelReq \subseteq Task
    /\ calling \in [Task -> SUBSET Unit]
WorkerOK ==
    /\ wrk \in [Task -> [Unit -> { "none", "prepared", "planned", "launching",
                                   "running", "exited" }]]
    /\ inflight \in [Task -> [Unit -> { "none", "PREPARE", "PLAN", "EXECUTE" }]]

TypeOK ==
    /\ StatusOK /\ QueueOK /\ LockOK /\ DispatchOK
    /\ usable \in [Worker -> SUBSET Gpu]
    /\ ResourcesOK /\ LeasesOK /\ CancelOK /\ WorkerOK

(* Spec section 12: a GPU or a container belongs to at most one lease, at  *)
(* any time, across dispatches, failures, reconciliation and restarts.     *)
ExclusiveLeases ==
    \A s, t \in Task, u, v \in Unit :
        /\ Leased(s, u) /\ Leased(t, v)
        /\ Needs(s, u) \cap Needs(t, v) # {}
        => s = t /\ u = v

(* While a container of a Task runs, the Task's lease on its resources is  *)
(* committed: no error path of _dispatch, no cancel and no restart gives   *)
(* them back under it.                                                     *)
RunningCovered ==
    \A t \in Task, u \in Unit : wrk[t][u] = "running" => lease[t][u] = "committed"

(* The barrier of spec section 12: no unit of a Task is started before     *)
(* every unit of it has acknowledged its plan under a committed lease.     *)
BarrierBeforeStart ==
    \A t \in Task : \A u, v \in Units(t) :
        wrk[t][u] \in { "launching", "running" } =>
            /\ lease[t][v] # "held"
            /\ v \in plans[t]
            /\ wrk[t][v] \notin { "none", "prepared" }

(* Whatever ends a Task as COMPLETED, FAILED or CANCELLED has released its *)
(* leases before it says so, and COMPLETED (spec section 15) means that    *)
(* every unit had a lease, has run and has stopped.                        *)
OutcomeReleasesAll ==
    \A t \in Task :
        /\ status[t] \in OutcomeStates => ~HoldsLease(t)
        /\ status[t] = "COMPLETED" =>
              \A u \in Units(t) : wrk[t][u] = "exited" /\ lease[t][u] = "released"

(* Spec section 12, "no partial release": once nothing works on a Task,    *)
(* none of its leases has been released or all of them, and those of       *)
(* CLEANUP_FAILED stay, committed, until an administrator reconciles it.   *)
LeasesGoTogether ==
    \A t \in Task : AtRest(t) =>
        /\ ~ \E u, v \in Units(t) : lease[t][u] = "released" /\ Leased(t, v)
        /\ status[t] = "CLEANUP_FAILED" => \A u \in Units(t) : lease[t][u] = "committed"

(* _holds belongs to the dispatches under way: no path through _dispatch,  *)
(* however it ends, leaves a hold behind, and none of them loses a hold    *)
(* its own provisional or committed lease still relies on.                 *)
HoldsAreTheDispatchers ==
    /\ \A r \in holds : \E t \in Task, u \in Unit : Dispatching(t) /\ r \in Needs(t, u)
    /\ \A t \in Task, u \in Unit : Dispatching(t) /\ Leased(t, u) => Needs(t, u) \subseteq holds

(* No Task is forgotten: one that is QUEUED waits in _queue unless a tick  *)
(* has claimed it or a cancel is taking it out, and only such Tasks wait.  *)
NoTaskForgotten ==
    \A t \in Task :
        /\ status[t] = "QUEUED" => \/ t \in queue
                                   \/ Dispatching(t)
                                   \/ lock = [op |-> "cancel", task |-> t]
        /\ t \in queue => status[t] = "QUEUED"

(* Lease epochs are never reused: each provisional lease names an epoch    *)
(* above every epoch ever persisted for any of its resources, also after   *)
(* a restart has rebuilt the counters.                                     *)
EpochsGrow ==
    [][\A t \in Task, u \in Unit :
          lease[t][u] = "none" /\ lease'[t][u] = "held" =>
              \A r \in Needs(t, u) : logged[r] < epoch[t][u]]_vars

(* A unit is executed at most once: the Worker never takes a step back     *)
(* with it, whatever is cancelled, repeated or restarted.                  *)
Progress(x) ==
    CASE x = "none" -> 0 [] x = "prepared" -> 1 [] x = "planned" -> 2
      [] x = "launching" -> 3 [] x = "running" -> 4 [] x = "exited" -> 5
NoReexecution ==
    [][\A t \in Task, u \in Unit : Progress(wrk'[t][u]) >= Progress(wrk[t][u])]_vars

(* Spec section 12: the outcomes COMPLETED, FAILED and CANCELLED are final. *)
OutcomesAreFinal ==
    [][\A t \in Task : status[t] \in OutcomeStates => status'[t] = status[t]]_vars

-----------------------------------------------------------------------------
(* The abstract specification this one implements: a Task owns a resource  *)
(* when one of its leases names it.                                        *)
Owned == [t \in Task |-> UNION { Needs(t, u) : u \in { v \in Unit : Leased(t, v) } }]
Own == INSTANCE Ownership WITH owns <- Owned

(* Every behaviour of the scheduler is one of Ownership: leases are taken  *)
(* only from the free resources and only while PREPARING, nothing runs     *)
(* without them, and they are gone before the outcome is announced.        *)
ImplementsOwnership == Own!Spec
-----------------------------------------------------------------------------
(* Liveness.  The threads of the master make progress, the loop keeps      *)
(* ticking, Workers keep reporting and answering; nothing is assumed about *)
(* arrivals, cancels, administrators or lost calls.                        *)
LockHolder(t) ==
    \/ CancelWrite(t) \/ CancelAbort(t)
    \/ (~Free /\ ReconcileAsk(t)) \/ ReconcileRelease(t) \/ ReconcileResolve(t)
Fairness ==
    /\ \A t \in Task : WF_vars(Dispatch(t))
    /\ WF_vars(\E t \in Task : LockHolder(t))
    /\ \A t \in Task, u \in Unit : WF_vars(u \in Units(t) /\ WorkerStep(t, u))
    /\ \A w \in Worker : WF_vars(RegisterWorker(w, Gpu))
    /\ \A k \in Ticker : WF_vars(\E t \in Task : TickClaim(k, t))

FairSpec == Spec /\ Fairness

(* Every dispatch ends: tick returns, whatever the Worker and the users do. *)
DispatchEnds == \A t \in Task : Dispatching(t) ~> ~Dispatching(t)

(* A queued Task does not starve: it ends, or a lease that waits for an    *)
(* administrator keeps its resources from everyone.                        *)
Settled(t) == status[t] \in OutcomeStates \cup { "CLEANUP_FAILED", "RECONCILIATION_REQUIRED" }
QueuedTasksServed ==
    \A t \in Task :
        status[t] = "QUEUED" ~> Settled(t) \/ \E s \in Task : AtRest(s) /\ HoldsLease(s)
=============================================================================
