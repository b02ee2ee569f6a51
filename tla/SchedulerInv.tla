---------------------------- MODULE SchedulerInv ----------------------------
(***************************************************************************)
(* The inductive invariants behind the safety properties of Scheduler:     *)
(* what is true between any two steps of the dispatching threads, the      *)
(* other entry points, the Workers and a restart.  TLC checks them on the  *)
(* instances of MCScheduler, SchedulerProofs proves them inductive.        *)
(***************************************************************************)
EXTENDS Scheduler

(* No two threads are inside tick at once: the background loop is the only *)
(* caller, and it waits for one tick before it starts the next.            *)
OneTicker == \A j, k \in Ticker : j = k

Waiting == { "CREATED", "QUEUED" }      \* the states before any dispatch
Unleased == { "idle", "claimed", "checked" } \* the stages before any lease

(* Which thread works on what: a Task is being dispatched exactly while    *)
(* its program counter is inside _dispatch, a Task in the queue is not,    *)
(* and its status is CREATED or QUEUED only before it writes PREPARING.    *)
DispatchesMatch ==
    \A t \in Task :
        /\ Dispatching(t) <=> pc[t] \notin { "idle", "done" }
        /\ t \in queue => pc[t] = "idle" /\ status[t] = "QUEUED"
        /\ status[t] = "CREATED" => pc[t] = "idle"
        /\ status[t] \in Waiting => pc[t] \in Unleased
        /\ lock = [op |-> "cancel", task |-> t] => t \notin queue

(* The induction behind NoTaskForgotten.                                   *)
QueueInv == TypeOK /\ DispatchesMatch /\ NoTaskForgotten

(* Leases belong to units of the Task, and there are none before its       *)
(* dispatch has taken the first.                                           *)
LeasesMatch ==
    \A t \in Task, u \in Unit :
        Leased(t, u) => u \in Units(t) /\ pc[t] \notin Unleased

(* What is being dispatched was selected from the free resources, and no   *)
(* other Task has a lease on them since.                                   *)
ClaimsAreFree ==
    \A s, t \in Task : Dispatching(t) /\ s # t =>
        \A u \in Units(t), v \in Unit : Leased(s, v) => Needs(t, u) \cap Needs(s, v) = {}

(* The induction behind ExclusiveLeases.                                   *)
LeaseInv == QueueInv /\ LeasesMatch /\ ClaimsAreFree /\ ExclusiveLeases

(* The counters in memory are never behind the files, and an epoch that a  *)
(* dispatch has taken but not persisted yet is above all persisted ones.   *)
EpochInv ==
    /\ \A r \in Resource : logged[r] <= epochs[r]
    /\ \A t \in Task : pc[t] = "register" =>
          \A r \in Needs(t, cur[t]) :
              logged[r] < epoch[t][cur[t]] /\ epoch[t][cur[t]] <= epochs[r]
-----------------------------------------------------------------------------
(* What a gang of units has come to at each stage of its dispatch.         *)

Taking    == { "hold", "grab", "register", "prepare", "query" } \* the loop up to PREPARE
Underway  == { "startcheck", "dispatch", "starting", "running", "execute", "await" }
Concluded == { "finalize", "cleanup_failed", "release", "settle" }
Late      == Underway \cup Concluded \cup { "endcheck", "fail_settle", "finally", "done" }

(* A lease that is committed stays so while the dispatch is under way,     *)
(* unless an administrator may reconcile what is still running.            *)
Kept == IF "early_reconcile" \in Faults THEN { "committed", "released" } ELSE { "committed" }

(* Outside its loops over units the dispatch is back at the first unit.    *)
InLoop == { "hold", "grab", "register", "prepare", "query", "commit", "plan", "ack",
            "execute", "await", "release", "fail_release" }
LoopStage(t) == pc[t] \notin InLoop \cup { "fail_settle", "finally", "done" } => cur[t] = 1

(* The leases: taken one by one, committed one by one, and released one by *)
(* one, each loop finishing before the next stage begins.                  *)
LeaseStage(t) ==
    /\ \A u \in Unit \ Units(t) : lease[t][u] = "none"
    /\ pc[t] \in Unleased => \A u \in Units(t) : lease[t][u] = "none"
    /\ pc[t] \in Taking => \A u \in Units(t) :
          lease[t][u] = IF u < cur[t] \/ (u = cur[t] /\ pc[t] \in { "prepare", "query" })
                          THEN "held" ELSE "none"
    /\ pc[t] = "commit" => \A u \in Units(t) :
          lease[t][u] = IF u < cur[t] THEN "committed" ELSE "held"
    /\ pc[t] \in { "reserve", "plan", "ack" } => \A u \in Units(t) : lease[t][u] = "committed"
    /\ pc[t] \in Underway \cup { "endcheck", "finalize", "cleanup_failed" } =>
          \A u \in Units(t) : lease[t][u] \in Kept
    /\ pc[t] = "release" => \A u \in Units(t) :
          lease[t][u] \in IF u < cur[t] THEN { "released" } ELSE Kept
    /\ pc[t] = "settle" => \A u \in Units(t) : lease[t][u] = "released"
    /\ pc[t] = "fail_release" => \A u \in Units(t) :
          lease[t][u] \in IF u < cur[t] THEN { "none", "released" } ELSE { "none", "held" }
    /\ pc[t] = "fail_settle" /\ verdict[t] = "FAILED" => ~HoldsLease(t)

(* The plans: none before the first is written, all from the start on.     *)
PlanStage(t) ==
    /\ pc[t] \in Unleased \cup Taking \cup { "commit", "reserve", "fail_release" } => plans[t] = {}
    /\ pc[t] = "plan" => \A u \in Units(t) : u \in plans[t] <=> u < cur[t]
    /\ pc[t] = "ack"  => \A u \in Units(t) : u \in plans[t] <=> u <= cur[t]
    /\ pc[t] \in Underway \cup Concluded \cup { "endcheck" } => Units(t) \subseteq plans[t]

(* The Worker's view: no call is on its way but the one the dispatch waits *)
(* for, or one that it gave up on.                                         *)
Silent(t, u, w) == wrk[t][u] = w /\ inflight[t][u] = "none"
Ran(t, u) == wrk[t][u] \in { "running", "exited" } /\ inflight[t][u] = "none"
Stopped(t, u) == Ran(t, u) /\ (~unclean[t] => wrk[t][u] = "exited")
Waits(t, u) ==
    \/ wrk[t][u] = "planned" /\ inflight[t][u] = "EXECUTE"
    \/ wrk[t][u] \in { "launching", "running", "exited" } /\ inflight[t][u] = "none"
WorkStage(t) ==
    /\ \A u \in Unit \ Units(t) : Silent(t, u, "none")
    /\ pc[t] \in Unleased => \A u \in Units(t) : Silent(t, u, "none")
    /\ pc[t] \in Taking \ { "query" } => \A u \in Units(t) :
          Silent(t, u, IF u < cur[t] THEN "prepared" ELSE "none")
    /\ pc[t] = "query" => \A u \in Units(t) :
          IF u = cur[t] THEN \/ inflight[t][u] = "PREPARE" /\ wrk[t][u] = "none"
                             \/ inflight[t][u] = "none" /\ wrk[t][u] \in { "none", "prepared" }
          ELSE Silent(t, u, IF u < cur[t] THEN "prepared" ELSE "none")
    /\ pc[t] = "fail_release" => \A u \in Units(t) :
          wrk[t][u] \in { "none", "prepared" } /\ inflight[t][u] = "none"
    /\ pc[t] \in { "commit", "reserve" } => \A u \in Units(t) : Silent(t, u, "prepared")
    /\ pc[t] \in { "plan", "ack" } => \A u \in Units(t) :
          Silent(t, u, IF u < cur[t] THEN "planned" ELSE "prepared")
    /\ pc[t] \in Underway \ { "execute", "await" } => \A u \in Units(t) : Silent(t, u, "planned")
    /\ pc[t] \in { "execute", "await" } => \A u \in Units(t) :
          IF u < cur[t] THEN Stopped(t, u)
          ELSE IF u = cur[t] /\ pc[t] = "await" THEN Waits(t, u) ELSE Silent(t, u, "planned")
    /\ pc[t] = "endcheck" => \A u \in Units(t) : Stopped(t, u)
    /\ pc[t] \in Concluded =>
          \/ \A u \in Units(t) : Stopped(t, u)
          \/ verdict[t] # "COMPLETED" /\ \A u \in Units(t) : Silent(t, u, "planned")
    /\ pc[t] \in { "release", "settle" } => ~unclean[t]

(* Whatever became of the dispatch: a unit that has been started, or may   *)
(* still be, finds all units of its Task planned under committed leases.   *)
Started(t, u) ==
    wrk[t][u] \in { "launching", "running", "exited" } \/ inflight[t][u] = "EXECUTE"
Planned(t, v) ==
    /\ lease[t][v] \in { "committed", "released" } /\ v \in plans[t]
    /\ wrk[t][v] \notin { "none", "prepared" }
BarrierInv(t) == \A u, v \in Units(t) : Started(t, u) => Planned(t, v)

(* A reconciliation, which demands all plans and, asking one unit after    *)
(* the other, finds none that is only prepared, releases nothing under a   *)
(* dispatch that is still taking leases.  If the administrator keeps to    *)
(* the documents (NotEarly), it meets no dispatch at all.                  *)
NotEarly == "early_reconcile" \notin Faults
Unresolved == { "CLEANUP_FAILED", "RECONCILIATION_REQUIRED" }
AskStage(t) ==
    \A S \in SUBSET Unit : lock = Asking(t, S) =>
        /\ plans[t] = Units(t) /\ (NotEarly => status[t] \in Unresolved)
        /\ \A u \in S : wrk[t][u] \notin { "none", "prepared" }
ReconcileStage(t) ==
    /\ lock = [op |-> "reconcile", task |-> t] =>
          pc[t] \in Late /\ (NotEarly => status[t] \in Unresolved)
    /\ NotEarly /\ status[t] \in Unresolved => pc[t] \in { "finally", "done" }

(* The induction behind BarrierBeforeStart and NoReexecution.              *)
GangStage(t) ==
    /\ LoopStage(t) /\ LeaseStage(t) /\ PlanStage(t) /\ WorkStage(t)
    /\ BarrierInv(t) /\ AskStage(t) /\ ReconcileStage(t)
GangInv == QueueInv /\ \A t \in Task : GangStage(t)

(* What ends a run as good or bad is decided when the dispatch starts it.  *)
VerdictStage(t) ==
    pc[t] \in (Underway \ { "startcheck" }) \cup { "endcheck" } \cup Concluded =>
        verdict[t] \in OutcomeStates

(* Nothing runs, or may come to run, without its lease: before a release   *)
(* the dispatch has seen every unit stopped, or never started one.  A      *)
(* RECONCILE, which a unit about to start answers like a stopped one,      *)
(* would break it (NoReconcile).                                           *)
NoReconcile == "reconcile" \notin Faults /\ "early_reconcile" \notin Faults
RunInv(t) ==
    /\ lock # [op |-> "reconcile", task |-> t]
    /\ \A S \in SUBSET Unit : lock # Asking(t, S)
    /\ \A u \in Units(t) :
          wrk[t][u] \in { "launching", "running" } \/ inflight[t][u] = "EXECUTE" =>
              lease[t][u] = "committed"

(* The status at each stage, as long as no cancel comes between the read   *)
(* and the write of PREPARING (NoRace).                                    *)
NoRace == "cancel_race" \notin Faults
StatusStage(t) ==
    /\ pc[t] = "idle" => status[t] \in { "CREATED", "QUEUED", "BLOCKED", "CANCELLED" }
    /\ pc[t] \in { "claimed", "checked" } => status[t] = "QUEUED"
    /\ pc[t] \in Taking \cup { "commit", "reserve", "fail_release" } => status[t] = "PREPARING"
    /\ pc[t] \in { "plan", "ack", "startcheck", "dispatch" } => status[t] = "RESERVED"
    /\ pc[t] = "starting" => status[t] = "DISPATCHED"
    /\ pc[t] = "running" => status[t] = "STARTING"
    /\ pc[t] \in { "execute", "await", "endcheck" } => status[t] = "RUNNING"
    /\ pc[t] = "finalize" => status[t] \in { "RESERVED", "RUNNING" }
    /\ pc[t] \in Concluded \ { "finalize" } => status[t] = "FINALIZING"
    /\ pc[t] = "fail_settle" => status[t] \in ActiveStates
    /\ pc[t] = "finally" => status[t] \in OutcomeStates \cup Unresolved
    /\ pc[t] = "done" => status[t] \notin ActiveStates \cup Waiting
    /\ lock = [op |-> "cancel", task |-> t] =>
          pc[t] \in { "idle", "done" } /\ status[t] \in { "QUEUED", "BLOCKED" }

(* A run that came to a good end has stopped everywhere, also when it is   *)
(* an administrator who says so.                                           *)
GoodEnd(t) ==
    \/ underlying[t] = "COMPLETED"
    \/ pc[t] \in { "finalize", "cleanup_failed" } /\ verdict[t] = "COMPLETED"
OutcomeInv(t) ==
    /\ status[t] \in OutcomeStates \cup { "BLOCKED" } => ~HoldsLease(t)
    /\ status[t] = "COMPLETED" =>
          \A u \in Units(t) : wrk[t][u] = "exited" /\ lease[t][u] = "released"
    /\ underlying[t] = "COMPLETED" =>
          \A u \in Units(t) : Ran(t, u) /\ lease[t][u] \in { "committed", "released" }
    /\ lock = [op |-> "reconcile", task |-> t] /\ GoodEnd(t) =>
          \A u \in Units(t) : wrk[t][u] = "exited"
AskedEnd(t) ==
    \A S \in SUBSET Unit : lock = Asking(t, S) /\ GoodEnd(t) =>
        \A u \in S : wrk[t][u] = "exited"

(* The induction behind OutcomeReleasesAll and the refinement of Ownership. *)
OutcomesInv ==
    GangInv /\ \A t \in Task :
        VerdictStage(t) /\ StatusStage(t) /\ OutcomeInv(t) /\ AskedEnd(t)

(* An underlying outcome is one of the three, or none: it is what a        *)
(* reconciled CLEANUP_FAILED Task gets.                                    *)
UnderlyingInv == \A t \in Task : underlying[t] \in OutcomeStates \cup { "NONE" }

(* Without a restart and without an early reconciliation, a dispatch that  *)
(* has come to its end has released everything or nothing.                 *)
NoCrash == "crash" \notin Faults
Together(t) == ~ \E u, v \in Units(t) : lease[t][u] = "released" /\ Leased(t, v)
TogetherInv(t) ==
    lock # [op |-> "reconcile", task |-> t] =>
        /\ pc[t] \in { "fail_settle", "finally", "done" } => Together(t)
        /\ status[t] = "CLEANUP_FAILED" => \A u \in Units(t) : lease[t][u] = "committed"

(* The holds are those of the one dispatch under way, and what it leases   *)
(* it has held before.                                                     *)
Relies(t, u) == Leased(t, u) \/ (u = cur[t] /\ pc[t] = "register")
HoldsInv ==
    /\ \A r \in holds : \E t \in Task : Dispatching(t) /\ \E u \in Units(t) : r \in Needs(t, u)
    /\ \A t \in Task : Dispatching(t) =>
          \A u \in Units(t) : Relies(t, u) => Needs(t, u) \subseteq holds
    /\ \A t \in Task : pc[t] \in { "claimed", "checked" } => holds = {}
=============================================================================
