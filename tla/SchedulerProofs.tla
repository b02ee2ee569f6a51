--------------------------- MODULE SchedulerProofs ---------------------------
EXTENDS SchedulerInv, TLAPS

(* The part of the type invariant that a step leaving a group of variables *)
(* alone preserves.                                                        *)
LEMMA Frame ==
    ASSUME TypeOK
    PROVE  /\ UNCHANGED statusVars => StatusOK'
           /\ UNCHANGED queueVars  => QueueOK'
           /\ UNCHANGED lock       => LockOK'
           /\ UNCHANGED dispVars   => DispatchOK'
           /\ UNCHANGED usable     => (usable \in [Worker -> SUBSET Gpu])'
           /\ UNCHANGED resVars    => ResourcesOK'
           /\ UNCHANGED leaseVars  => LeasesOK'
           /\ UNCHANGED cancelVars => CancelOK'
           /\ UNCHANGED workerVars => WorkerOK'
  BY DEF TypeOK, StatusOK, QueueOK, LockOK, DispatchOK, ResourcesOK, LeasesOK, CancelOK,
     WorkerOK, statusVars, queueVars, dispVars,  resVars, leaseVars, cancelVars, workerVars, Units

(* Every label the program counter is set to is a stage.                   *)
LEMMA Stages ==
    /\ { "idle", "claimed", "checked", "hold", "grab", "register", "prepare" } \subseteq Stage
    /\ { "commit", "reserve", "plan", "ack", "startcheck", "dispatch", "starting" } \subseteq Stage
    /\ { "running", "execute", "await", "endcheck", "finalize", "release" } \subseteq Stage
    /\ { "settle", "cleanup_failed", "query", "fail_release", "fail_settle" } \subseteq Stage
    /\ { "finally", "done" } \subseteq Stage
  BY DEF Stage

LEMMA GotoType ==
    ASSUME TypeOK, NEW t \in Task, NEW from, NEW to \in Stage, Goto(t, from, to)
    PROVE  pc' \in [Task -> Stage]
  BY DEF TypeOK, DispatchOK, Goto

LEMMA FirstUnit ==
    ASSUME NEW t \in Task
    PROVE  1 \in Unit /\ 1 \in Units(t)
<1>1. MaxUnits \in Nat \ {0} /\ UnitCount[t] \in 1 .. MaxUnits
  BY ConstantAssumption DEF Unit
<1> QED BY <1>1 DEF Unit, Units

LEMMA UnitsAreUnits ==
    ASSUME NEW t \in Task
    PROVE  Units(t) \subseteq Unit
<1>1. MaxUnits \in Nat \ {0} /\ UnitCount[t] \in 1 .. MaxUnits
  BY ConstantAssumption DEF Unit
<1> QED BY <1>1 DEF Unit, Units

LEMMA TargetsAreStates ==
    ASSUME NEW s \in TaskState
    PROVE  TaskTargets(s) \subseteq TaskState
  BY DEF TaskTargets, TaskState

LEMMA NeedsType ==
    ASSUME TypeOK, NEW t \in Task, NEW u \in Unit
    PROVE  Needs(t, u) \subseteq Resource
  BY ConstantAssumption DEF TypeOK, DispatchOK, Needs, GpuResources, Container1, Resource

LEMMA NextUnitType ==
    ASSUME TypeOK, NEW t \in Task, NEW from, NEW again \in Stage, NEW after \in Stage,
           NextUnit(t, from, again, after)
    PROVE  /\ pc' \in [Task -> Stage]
           /\ cur' \in [Task -> Unit]
           /\ \A s \in Task : cur'[s] \in Units(s)
<1>1. pc' \in [Task -> Stage]
  BY GotoType DEF NextUnit
<1>2. /\ cur' \in [Task -> Unit]
      /\ \A s \in Task : cur'[s] \in Units(s)
  <2> DEFINE n == IF cur[t] = UnitCount[t] THEN 1 ELSE cur[t] + 1
  <2>1. MaxUnits \in Nat /\ UnitCount[t] \in 1 .. MaxUnits /\ cur[t] \in 1 .. UnitCount[t]
    BY ConstantAssumption DEF TypeOK, DispatchOK, Unit, Units
  <2>2. n \in Unit /\ n \in Units(t)
    BY <2>1 DEF Unit, Units
  <2>3. cur' = [cur EXCEPT ![t] = n]
    BY DEF NextUnit
  <2> QED BY <2>2, <2>3 DEF TypeOK, DispatchOK, Units
<1> QED BY <1>1, <1>2

LEMMA LostCallType ==
    ASSUME TypeOK, NEW t \in Task,
           NEW call \in { "PREPARE", "PLAN" }, NEW effect \in { "prepared", "planned" },
           LostCall(t, call, effect)
    PROVE  WorkerOK'
<1>1. cur[t] \in Unit
  BY DEF TypeOK, DispatchOK
<1>2. CASE wrk' = [wrk EXCEPT ![t][cur[t]] = effect] /\ UNCHANGED inflight
  BY <1>1, <1>2 DEF TypeOK, WorkerOK
<1>3. CASE inflight' = [inflight EXCEPT ![t][cur[t]] = call] /\ UNCHANGED wrk
  BY <1>1, <1>3 DEF TypeOK, WorkerOK
<1>4. CASE UNCHANGED <<wrk, inflight>>
  BY <1>4 DEF TypeOK, WorkerOK
<1> QED BY <1>2, <1>3, <1>4 DEF LostCall

LEMMA AdvanceType ==
    ASSUME TypeOK, NEW t \in Task, NEW from, NEW target,
           NEW under \in Verdict, NEW to \in Stage \ { "fail_settle" },
           Advance(t, from, target, under, to)
    PROVE  TypeOK'
<1>1. StatusOK'
  BY Frame, TargetsAreStates DEF Advance, SetStatus, TypeOK, StatusOK
<1>2. pc' \in [Task -> Stage]
  BY Stages, GotoType DEF Advance, FailKeep
<1>3. DispatchOK'
  BY <1>2 DEF Advance, FailKeep, Goto, TypeOK, DispatchOK, Units, Verdict
<1> QED BY <1>1, <1>3, Frame DEF Advance, TypeOK

LEMMA GrabType ==
    ASSUME TypeOK, NEW t \in Task, Grab(t)
    PROVE  TypeOK'
<1> USE DEF TypeOK
<1>1. DispatchOK'
  <2>1. pc' \in [Task -> Stage] BY Stages, GotoType DEF Grab
  <2> QED BY <2>1 DEF Grab, Goto, DispatchOK, Units
<1>2. cur[t] \in Unit /\ Needs(t, cur[t]) \subseteq Resource BY NeedsType DEF DispatchOK
<1>3. ResourcesOK' /\ LeasesOK' BY <1>2 DEF Grab, ResourcesOK, LeasesOK
<1> QED BY <1>1, <1>3, Frame DEF Grab

(* Each step of _dispatch.                                                 *)
LEMMA DispatchType ==
    ASSUME TypeOK, NEW t \in Task, Dispatch(t)
    PROVE  TypeOK'
<1> USE DEF TypeOK
<1>1. CASE CheckQueued(t)
  <2>1. DispatchOK'
    BY <1>1, Stages DEF CheckQueued, DispatchOK, Goto, Units, Verdict, OutcomeStates
  <2> QED BY <1>1, <2>1, Frame DEF CheckQueued
<1>2. CASE WritePreparing(t)
  <2>1. DispatchOK'
    BY <1>2, Stages DEF WritePreparing, DispatchOK, Goto, Units, Verdict, OutcomeStates
  <2>2. StatusOK'
    BY <1>2 DEF WritePreparing, SetStatus, StatusOK, TaskState, Verdict
  <2> QED BY <1>2, <2>1, <2>2, Frame DEF WritePreparing
<1>3. CASE HoldCheck(t)
  <2>1. DispatchOK'
    BY <1>3, Stages, FirstUnit DEF HoldCheck, DispatchOK, FailRelease, Goto, Verdict, OutcomeStates
  <2> QED BY <1>3, <2>1, Frame DEF HoldCheck
<1>4. CASE Grab(t)
  BY <1>4, GrabType
<1>5. CASE Register(t)
  <2>1. DispatchOK'
    BY <1>5, Stages DEF Register, DispatchOK, Goto, Units, Verdict, OutcomeStates
  <2>2. LeasesOK'
    BY <1>5 DEF Register, LeasesOK, DispatchOK
  <2>3. ResourcesOK'
    BY <1>5 DEF Register, ResourcesOK, LeasesOK, DispatchOK
  <2> QED BY <1>5, <2>1, <2>2, <2>3, Frame DEF Register
<1>6. CASE PrepareOk(t)
  <2>1. /\ pc' \in [Task -> Stage]
        /\ cur' \in [Task -> Unit]
        /\ \A s \in Task : cur'[s] \in Units(s)
    BY <1>6, NextUnitType, Stages DEF PrepareOk
  <2>2. DispatchOK'
    BY <1>6, <2>1 DEF PrepareOk, DispatchOK, NextUnit, Goto, Verdict, OutcomeStates
  <2>3. WorkerOK'
    BY <1>6 DEF PrepareOk, WorkerOK, DispatchOK
  <2> QED BY <1>6, <2>2, <2>3, Frame DEF PrepareOk
<1>7. CASE PrepareRejected(t)
  <2>1. DispatchOK'
    BY <1>7, Stages, FirstUnit DEF PrepareRejected, DispatchOK, FailRelease, Goto, Verdict, OutcomeStates
  <2> QED BY <1>7, <2>1, Frame DEF PrepareRejected
<1>8. CASE PrepareRaised(t)
  <2>1. DispatchOK'
    BY <1>8, Stages DEF PrepareRaised, DispatchOK, Goto, Units, Verdict, OutcomeStates
  <2>2. WorkerOK'
    BY <1>8, LostCallType DEF PrepareRaised
  <2> QED BY <1>8, <2>1, <2>2, Frame DEF PrepareRaised
<1>9. CASE Query(t)
  <2>1. DispatchOK'
    BY <1>9, Stages, FirstUnit, ZenonT(40) DEF Query, DispatchOK, FailRelease, Goto, Verdict, OutcomeStates, FailKeep
  <2>2. WorkerOK'
    BY <1>9 DEF Query, WorkerOK
  <2> QED BY <1>9, <2>1, <2>2, Frame DEF Query
<1>10. CASE Commit(t)
  <2>1. /\ pc' \in [Task -> Stage]
        /\ cur' \in [Task -> Unit]
        /\ \A s \in Task : cur'[s] \in Units(s)
    BY <1>10, NextUnitType, Stages DEF Commit
  <2>2. DispatchOK'
    BY <1>10, <2>1 DEF Commit, DispatchOK, NextUnit, Goto, Verdict, OutcomeStates
  <2>3. LeasesOK'
    BY <1>10 DEF Commit, LeasesOK, DispatchOK
  <2> QED BY <1>10, <2>2, <2>3, Frame DEF Commit
<1>11. CASE Reserve(t)
  <2>1. "NONE" \in Verdict /\ "plan" \in Stage \ { "fail_settle" }
    BY Stages DEF Verdict
  <2> QED BY <1>11, <2>1, AdvanceType DEF Reserve
<1>12. CASE WritePlan(t)
  <2>1. DispatchOK'
    BY <1>12, Stages DEF WritePlan, DispatchOK, Goto, Units, Verdict, OutcomeStates
  <2>2. LeasesOK'
    BY <1>12 DEF WritePlan, LeasesOK, DispatchOK
  <2> QED BY <1>12, <2>1, <2>2, Frame DEF WritePlan
<1>13. CASE PlanAck(t)
  <2>1. /\ pc' \in [Task -> Stage]
        /\ cur' \in [Task -> Unit]
        /\ \A s \in Task : cur'[s] \in Units(s)
    BY <1>13, NextUnitType, Stages DEF PlanAck
  <2>2. DispatchOK'
    BY <1>13, <2>1 DEF PlanAck, DispatchOK, NextUnit, Goto, Verdict, OutcomeStates
  <2>3. WorkerOK'
    BY <1>13 DEF PlanAck, WorkerOK, DispatchOK
  <2> QED BY <1>13, <2>2, <2>3, Frame DEF PlanAck
<1>14. CASE PlanFailed(t)
  <2>1. DispatchOK'
    BY <1>14, Stages DEF PlanFailed, DispatchOK, Goto, Units, Verdict, OutcomeStates, FailKeep
  <2>2. WorkerOK'
    BY <1>14, LostCallType DEF PlanFailed, WorkerOK
  <2> QED BY <1>14, <2>1, <2>2, Frame DEF PlanFailed
<1>15. CASE StartCheck(t)
  <2>1. DispatchOK'
    BY <1>15, Stages DEF StartCheck, DispatchOK, Goto, Units, Verdict, OutcomeStates
  <2>2. CancelOK'
    BY <1>15 DEF StartCheck, CancelOK
  <2> QED BY <1>15, <2>1, <2>2, Frame DEF StartCheck
<1>16. CASE Dispatched(t)
  <2>1. "NONE" \in Verdict /\ "starting" \in Stage \ { "fail_settle" }
    BY Stages DEF Verdict
  <2> QED BY <1>16, <2>1, AdvanceType DEF Dispatched
<1>17. CASE Starting(t)
  <2>1. "NONE" \in Verdict /\ "running" \in Stage \ { "fail_settle" }
    BY Stages DEF Verdict
  <2> QED BY <1>17, <2>1, AdvanceType DEF Starting
<1>18. CASE Running(t)
  <2>1. "NONE" \in Verdict /\ "execute" \in Stage \ { "fail_settle" }
    BY Stages DEF Verdict
  <2> QED BY <1>18, <2>1, AdvanceType DEF Running
<1>19. CASE ExecuteCall(t)
  <2>1. DispatchOK'
    BY <1>19, Stages DEF ExecuteCall, DispatchOK, Goto, Units, Verdict, OutcomeStates
  <2>2. WorkerOK'
    BY <1>19 DEF ExecuteCall, WorkerOK, DispatchOK
  <2> QED BY <1>19, <2>1, <2>2, Frame DEF ExecuteCall
<1>20. CASE ExecuteResult(t)
  <2>1. /\ pc' \in [Task -> Stage]
        /\ cur' \in [Task -> Unit]
        /\ \A s \in Task : cur'[s] \in Units(s)
    BY <1>20, NextUnitType, Stages DEF ExecuteResult
  <2>2. DispatchOK'
    BY <1>20, <2>1 DEF ExecuteResult, DispatchOK, NextUnit, Goto, Verdict, OutcomeStates
  <2> QED BY <1>20, <2>2, Frame DEF ExecuteResult
<1>21. CASE ExecuteRaised(t)
  <2>1. DispatchOK'
    BY <1>21, Stages DEF ExecuteRaised, DispatchOK, Goto, Units, Verdict, OutcomeStates, FailKeep
  <2> QED BY <1>21, <2>1, Frame DEF ExecuteRaised
<1>22. CASE EndCheck(t)
  <2>1. DispatchOK'
    BY <1>22, Stages DEF EndCheck, DispatchOK, Goto, Units, Verdict, OutcomeStates
  <2>2. CancelOK'
    BY <1>22 DEF EndCheck, CancelOK
  <2> QED BY <1>22, <2>1, <2>2, Frame DEF EndCheck
<1>23. CASE Finalize(t)
  <2>1. "NONE" \in Verdict /\ (IF unclean[t] THEN "cleanup_failed" ELSE "release") \in Stage \ { "fail_settle" }
    BY Stages DEF Verdict
  <2> QED BY <1>23, <2>1, AdvanceType DEF Finalize
<1>24. CASE CleanupFailed(t)
  <2>1. verdict[t] \in Verdict /\ "finally" \in Stage \ { "fail_settle" }
    BY Stages DEF Verdict, DispatchOK
  <2> QED BY <1>24, <2>1, AdvanceType DEF CleanupFailed
<1>25. CASE Release(t)
  <2>1. /\ pc' \in [Task -> Stage]
        /\ cur' \in [Task -> Unit]
        /\ \A s \in Task : cur'[s] \in Units(s)
    BY <1>25, NextUnitType, Stages DEF Release
  <2>2. DispatchOK'
    BY <1>25, <2>1 DEF Release, DispatchOK, NextUnit, Goto, Verdict, OutcomeStates
  <2>3. LeasesOK'
    BY <1>25 DEF Release, Deleted, LeasesOK, DispatchOK
  <2> QED BY <1>25, <2>2, <2>3, Frame DEF Release
<1>26. CASE Settle(t)
  <2>1. "NONE" \in Verdict /\ "finally" \in Stage \ { "fail_settle" }
    BY Stages DEF Verdict
  <2> QED BY <1>26, <2>1, AdvanceType DEF Settle
<1>27. CASE ForceFinalizing(t)
  <2>1. DispatchOK'
    BY <1>27, Stages DEF ForceFinalizing, DispatchOK, Goto, Units, Verdict, OutcomeStates
  <2>2. StatusOK'
    BY <1>27 DEF ForceFinalizing, SetStatus, StatusOK, TaskState, Verdict
  <2> QED BY <1>27, <2>1, <2>2, Frame DEF ForceFinalizing
<1>28. CASE ForceTarget(t)
  <2>1. DispatchOK'
    BY <1>28, Stages DEF ForceTarget, DispatchOK, Goto, Units, Verdict, OutcomeStates
  <2>2. StatusOK'
    BY <1>28 DEF ForceTarget, SetStatus, StatusOK, TaskState, DispatchOK, Verdict, OutcomeStates, Goto
  <2> QED BY <1>28, <2>1, <2>2, Frame DEF ForceTarget
<1>29. CASE Finally(t)
  <2>1. DispatchOK'
    BY <1>29, Stages DEF Finally, DispatchOK, Goto, Units, Verdict, OutcomeStates
  <2>2. ResourcesOK'
    BY <1>29 DEF Finally, Dropped, ResourcesOK
  <2> QED BY <1>29, <2>1, <2>2, Frame DEF Finally
<1> QED
  BY <1>1, <1>2, <1>3, <1>4, <1>5, <1>6, <1>7, <1>8, <1>9, <1>10, <1>11, <1>12, <1>13, <1>14, <1>15, <1>16, <1>17, <1>18, <1>19, <1>20, <1>21, <1>22, <1>23, <1>24, <1>25, <1>26, <1>27, <1>28, <1>29 DEF Dispatch

(* Each step of the other entry points, the Workers and the environment.   *)
LEMMA TickType ==
    ASSUME TypeOK, NEW k \in Ticker, TickIdle(k) \/ \E t \in Task : TickClaim(k, t)
    PROVE  TypeOK'
<1> USE DEF TypeOK
<1>1. ASSUME NEW E, Expire(E)
      PROVE  StatusOK'
  BY <1>1 DEF Expire, StatusOK, TaskState, Verdict
<1>2. CASE TickIdle(k)
  <2>1. QueueOK'
    BY <1>2 DEF TickIdle, QueueOK
  <2> QED BY <1>1, <1>2, <2>1, Frame DEF TickIdle
<1>3. ASSUME NEW t \in Task, TickClaim(k, t)
      PROVE  TypeOK'
  <2>1. StatusOK'
    BY <1>1, <1>3 DEF TickClaim
  <2>2. QueueOK'
    BY <1>3 DEF TickClaim, QueueOK
  <2>3. DispatchOK'
    BY <1>3, Stages DEF TickClaim, DispatchOK, Units
  <2> QED BY <1>3, <2>1, <2>2, <2>3, Frame DEF TickClaim
<1> QED BY <1>2, <1>3

LEMMA CancelType ==
    ASSUME TypeOK, NEW t \in Task,
           CancelQueued(t) \/ CancelWrite(t) \/ CancelAbort(t) \/ CancelRequest(t) \/ CancelReply(t)
    PROVE  TypeOK'
<1> USE DEF TypeOK
<1>1. CASE CancelQueued(t)
  <2>1. QueueOK' /\ LockOK'
    BY <1>1 DEF CancelQueued, Dequeued, QueueOK, LockOK
  <2> QED BY <1>1, <2>1, Frame DEF CancelQueued
<1>2. CASE CancelWrite(t)
  <2>1. StatusOK' /\ LockOK'
    BY <1>2 DEF CancelWrite, SetStatus, StatusOK, LockOK, TaskState, Verdict
  <2> QED BY <1>2, <2>1, Frame DEF CancelWrite
<1>3. CASE CancelAbort(t)
  <2>1. LockOK'
    BY <1>3 DEF CancelAbort, LockOK
  <2> QED BY <1>3, <2>1, Frame DEF CancelAbort
<1>4. CASE CancelRequest(t)
  <2>1. CancelOK'
    BY <1>4 DEF CancelRequest, CancelOK, LeasesOK
  <2> QED BY <1>4, <2>1, Frame DEF CancelRequest
<1>5. CASE CancelReply(t)
  <2>1. CancelOK'
    BY <1>5 DEF CancelReply, CancelOK
  <2>2. WorkerOK'
    BY <1>5 DEF CancelReply, WorkerOK
  <2> QED BY <1>5, <2>1, <2>2, Frame DEF CancelReply
<1> QED BY <1>1, <1>2, <1>3, <1>4, <1>5

LEMMA ReconcileType ==
    ASSUME TypeOK, NEW t \in Task,
           ReconcileAsk(t) \/ ReconcileRelease(t) \/ ReconcileResolve(t)
    PROVE  TypeOK'
<1> USE DEF TypeOK
<1>1. CASE ReconcileAsk(t)
  <2>1. ASSUME ReconcileBegins(t)
        PROVE  LockOK'
    BY <2>1 DEF ReconcileBegins, LockOK
  <2>2. ASSUME NEW S \in SUBSET Units(t), NEW u \in Units(t),
               lock' = IF S \cup {u} = Units(t) THEN [op |-> "reconcile", task |-> t]
                                              ELSE Asking(t, S \cup {u})
        PROVE  LockOK'
    <3>1. S \cup {u} \in SUBSET Unit
      BY UnitsAreUnits
    <3> QED BY <2>2, <3>1 DEF LockOK
  <2>3. ASSUME ReconcileRefused(t)
        PROVE  LockOK'
    BY <2>3 DEF ReconcileRefused, LockOK
  <2>4. LockOK'
    BY <1>1, <2>1, <2>2, <2>3 DEF ReconcileAsk, ReconcileSafe
  <2> QED BY <1>1, <2>4, Frame DEF ReconcileAsk
<1>2. CASE ReconcileRelease(t)
  <2>1. LeasesOK'
    <3>1. PICK u \in Units(t) : lease' = [lease EXCEPT ![t][u] = "released"]
      BY <1>2 DEF ReconcileRelease
    <3>2. UNCHANGED <<epoch, plans>>
      BY <1>2 DEF ReconcileRelease
    <3> QED BY <3>1, <3>2, UnitsAreUnits DEF LeasesOK
  <2> QED BY <1>2, <2>1, Frame DEF ReconcileRelease
<1>3. CASE ReconcileResolve(t)
  <2>1. LockOK'
    BY <1>3 DEF ReconcileResolve, LockOK
  <2>2. StatusOK'
    <3> DEFINE s == IF status[t] # "CLEANUP_FAILED" THEN status[t]
                    ELSE IF underlying[t] = "NONE" THEN "FAILED" ELSE underlying[t]
    <3>1. s \in TaskState
      BY DEF StatusOK, TaskState, Verdict, OutcomeStates
    <3>2. status' = [status EXCEPT ![t] = s]
      BY <1>3 DEF ReconcileResolve, Reconciled
    <3>3. UNCHANGED underlying
      BY <1>3 DEF ReconcileResolve
    <3> HIDE DEF s
    <3> QED BY <3>1, <3>2, <3>3 DEF StatusOK
  <2> QED BY <1>3, <2>1, <2>2, Frame DEF ReconcileResolve
<1> QED BY <1>1, <1>2, <1>3

LEMMA WorkerType ==
    ASSUME TypeOK, NEW t \in Task, NEW u \in Units(t), WorkerStep(t, u)
    PROVE  TypeOK'
<1> USE DEF TypeOK
<1>1. WorkerOK'
  <2>0. u \in Unit
    BY UnitsAreUnits
  <2>1. CASE Deliver(t, u)
    <3>1. \E x \in { "prepared", "planned", "launching" } : wrk' = [wrk EXCEPT ![t][u] = x]
      BY <2>1 DEF Deliver
    <3>2. inflight' = [inflight EXCEPT ![t][u] = "none"]
      BY <2>1 DEF Deliver
    <3> QED BY <2>0, <3>1, <3>2 DEF WorkerOK
  <2>2. CASE Launch(t, u)
    <3>1. \E x \in { "running", "exited" } : wrk' = [wrk EXCEPT ![t][u] = x]
      BY <2>2 DEF Launch
    <3> QED BY <2>0, <2>2, <3>1 DEF Launch, WorkerOK
  <2>3. CASE Exit(t, u)
    BY <2>0, <2>3 DEF Exit, WorkerOK
  <2> QED BY <2>1, <2>2, <2>3 DEF WorkerStep
<1> QED BY <1>1, Frame DEF WorkerStep, Deliver, Launch, Exit

LEMMA CrashType ==
    ASSUME TypeOK, Crash
    PROVE  TypeOK'
<1> USE DEF TypeOK
<1>1. StatusOK'
  BY DEF Crash, RestartStatus, StatusOK, TaskState
<1>2. QueueOK' /\ LockOK' /\ CancelOK'
  BY DEF Crash, QueueOK, LockOK, CancelOK
<1>3. DispatchOK'
  BY FirstUnit, Stages DEF Crash, DispatchOK, Verdict, Units
<1>4. ResourcesOK'
  BY DEF Crash, RestartEpochs, ResourcesOK
<1> QED BY <1>1, <1>2, <1>3, <1>4, Frame DEF Crash

LEMMA InitType == Init => TypeOK
<1> SUFFICES ASSUME Init PROVE TypeOK
  OBVIOUS
<1>1. StatusOK /\ QueueOK /\ LockOK
  BY DEF Init, StatusOK, QueueOK, LockOK, TaskState, Verdict
<1>2. DispatchOK
  BY FirstUnit, Stages DEF Init, DispatchOK, Verdict
<1>3. ResourcesOK /\ LeasesOK /\ CancelOK /\ WorkerOK
  BY DEF Init, ResourcesOK, LeasesOK, CancelOK, WorkerOK
<1> QED BY <1>1, <1>2, <1>3 DEF Init, TypeOK

LEMMA NextType == TypeOK /\ [Next]_vars => TypeOK'
<1> SUFFICES ASSUME TypeOK, [Next]_vars PROVE TypeOK'
  OBVIOUS
<1>1. CASE UNCHANGED vars
  BY <1>1, Frame DEF vars, TypeOK
<1>2. ASSUME NEW w \in Worker, NEW S \in SUBSET Gpu, RegisterWorker(w, S)
      PROVE  TypeOK'
  <2>1. (usable \in [Worker -> SUBSET Gpu])'
    BY <1>2 DEF RegisterWorker, TypeOK
  <2> QED BY <1>2, <2>1, Frame DEF RegisterWorker, TypeOK
<1>3. ASSUME NEW t \in Task, Enqueue(t) \/ Wait(t)
      PROVE  TypeOK'
  <2>1. StatusOK'
    BY <1>3, Frame DEF Enqueue, Wait, StatusOK, TaskState, TypeOK
  <2>2. QueueOK'
    BY <1>3 DEF Enqueue, Wait, QueueOK, TypeOK
  <2> QED BY <1>3, <2>1, <2>2, Frame DEF Enqueue, Wait, TypeOK
<1> QED BY <1>1, <1>2, <1>3, TickType, DispatchType, CancelType, ReconcileType, WorkerType,
           CrashType DEF Next

(* Every reachable state is well typed, for every fleet, every set of      *)
(* Tasks and every combination of faults.                                  *)
THEOREM TypeCorrect == Spec => []TypeOK
  BY InitType, NextType, PTL DEF Spec
-----------------------------------------------------------------------------
(* What any step of _dispatch does to the queue, the program counters and  *)
(* the leases.                                                             *)
DispatchEffect(t) ==
    /\ pc[t] \notin { "idle", "done" }
    /\ UNCHANGED <<sel, queue, lock>>
    /\ \A s \in Task : s # t => pc'[s] = pc[s] /\ status'[s] = status[s] /\ lease'[s] = lease[s]
    /\ \A u \in Unit : u # cur[t] => lease'[t][u] = lease[t][u]
    /\ \/ UNCHANGED ticker /\ pc'[t] \notin { "idle", "done" }
       \/ /\ pc'[t] = "done"
          /\ ticker' = [k \in Ticker |-> IF ticker[k] = t THEN NoTask ELSE ticker[k]]
    /\ status'[t] = status[t] \/ status'[t] \notin Waiting
    /\ pc'[t] \in Unleased => pc[t] \in Unleased /\ UNCHANGED <<lease, status>>
    /\ pc[t] \in Unleased => UNCHANGED lease
    /\ pc[t] \in Unleased /\ pc'[t] \notin Unleased => status'[t] \notin Waiting \/ status[t] # "QUEUED"

LEMMA DispatchDoes ==
    ASSUME TypeOK, NEW t \in Task, Dispatch(t)
    PROVE  DispatchEffect(t)
<1> USE DEF TypeOK, StatusOK, DispatchOK, LeasesOK, Goto, Unleased, Waiting, DispatchEffect
<1>1. CASE CheckQueued(t)
  BY <1>1 DEF CheckQueued, TaskTargets, leaseVars, statusVars, queueVars
<1>2. CASE WritePreparing(t)
  BY <1>2 DEF WritePreparing, SetStatus, leaseVars, statusVars, queueVars
<1>3. CASE HoldCheck(t)
  BY <1>3 DEF HoldCheck, FailRelease, leaseVars, statusVars, queueVars
<1>4. CASE Grab(t)
  BY <1>4 DEF Grab, leaseVars, statusVars, queueVars
<1>5. CASE Register(t)
  BY <1>5 DEF Register, leaseVars, statusVars, queueVars
<1>6. CASE PrepareOk(t)
  BY <1>6 DEF PrepareOk, NextUnit, leaseVars, statusVars, queueVars
<1>7. CASE PrepareRejected(t)
  BY <1>7 DEF PrepareRejected, FailRelease, leaseVars, statusVars, queueVars
<1>8. CASE PrepareRaised(t)
  BY <1>8 DEF PrepareRaised, leaseVars, statusVars, queueVars
<1>9. CASE Query(t)
  BY <1>9 DEF Query, FailRelease, FailKeep, leaseVars, statusVars, queueVars
<1>10. CASE Commit(t)
  BY <1>10 DEF Commit, NextUnit, leaseVars, statusVars, queueVars
<1>11. CASE Reserve(t)
  BY <1>11 DEF Reserve, Advance, SetStatus, FailKeep, leaseVars, statusVars, queueVars
<1>12. CASE WritePlan(t)
  BY <1>12 DEF WritePlan, leaseVars, statusVars, queueVars
<1>13. CASE PlanAck(t)
  BY <1>13 DEF PlanAck, NextUnit, leaseVars, statusVars, queueVars
<1>14. CASE PlanFailed(t)
  BY <1>14 DEF PlanFailed, FailKeep, leaseVars, statusVars, queueVars
<1>15. CASE StartCheck(t)
  BY <1>15 DEF StartCheck, leaseVars, statusVars, queueVars
<1>16. CASE Dispatched(t)
  BY <1>16 DEF Dispatched, Advance, SetStatus, FailKeep, leaseVars, statusVars, queueVars
<1>17. CASE Starting(t)
  BY <1>17 DEF Starting, Advance, SetStatus, FailKeep, leaseVars, statusVars, queueVars
<1>18. CASE Running(t)
  BY <1>18 DEF Running, Advance, SetStatus, FailKeep, leaseVars, statusVars, queueVars
<1>19. CASE ExecuteCall(t)
  BY <1>19 DEF ExecuteCall, leaseVars, statusVars, queueVars
<1>20. CASE ExecuteResult(t)
  BY <1>20 DEF ExecuteResult, NextUnit, leaseVars, statusVars, queueVars
<1>21. CASE ExecuteRaised(t)
  BY <1>21 DEF ExecuteRaised, FailKeep, leaseVars, statusVars, queueVars
<1>22. CASE EndCheck(t)
  BY <1>22 DEF EndCheck, leaseVars, statusVars, queueVars
<1>23. CASE Finalize(t)
  BY <1>23 DEF Finalize, Advance, SetStatus, FailKeep, leaseVars, statusVars, queueVars
<1>24. CASE CleanupFailed(t)
  BY <1>24 DEF CleanupFailed, Advance, SetStatus, FailKeep, leaseVars, statusVars, queueVars
<1>25. CASE Release(t)
  BY <1>25 DEF Release, Deleted, NextUnit, leaseVars, statusVars, queueVars
<1>26. CASE Settle(t)
  BY <1>26 DEF Settle, Advance, SetStatus, FailKeep, Verdict, OutcomeStates, leaseVars, statusVars, queueVars
<1>27. CASE ForceFinalizing(t)
  BY <1>27 DEF ForceFinalizing, SetStatus, leaseVars, statusVars, queueVars
<1>28. CASE ForceTarget(t)
  BY <1>28 DEF ForceTarget, SetStatus, leaseVars, statusVars, queueVars
<1>29. CASE Finally(t)
  BY <1>29 DEF Finally, leaseVars, statusVars, queueVars
<1> QED
  BY <1>1, <1>2, <1>3, <1>4, <1>5, <1>6, <1>7, <1>8, <1>9, <1>10, <1>11, <1>12, <1>13, <1>14, <1>15, <1>16, <1>17, <1>18, <1>19, <1>20, <1>21, <1>22, <1>23, <1>24, <1>25, <1>26, <1>27, <1>28, <1>29 DEF Dispatch

(* The bookkeeping of the queue and of the dispatches.                     *)
QueueFacts == DispatchesMatch /\ NoTaskForgotten

LEMMA QueueInit == Init => QueueInv
<1> SUFFICES ASSUME Init PROVE QueueInv
  OBVIOUS
<1>1. DispatchesMatch /\ NoTaskForgotten
  BY ConstantAssumption DEF Init, DispatchesMatch, NoTaskForgotten, Dispatching, Unleased, Waiting
<1> QED BY <1>1, InitType DEF QueueInv

LEMMA QueueDispatch ==
    ASSUME QueueInv, NEW t \in Task, Dispatch(t)
    PROVE  QueueFacts'
<1> USE DEF QueueInv, QueueFacts
<1>1. DispatchEffect(t)
  BY DispatchDoes
<1>2. \A s \in Task : s # t => (Dispatching(s)' <=> Dispatching(s))
  BY <1>1, ConstantAssumption DEF DispatchEffect, Dispatching, TypeOK, DispatchOK
<1>3. Dispatching(t)' <=> pc'[t] \notin { "idle", "done" }
  BY <1>1, ConstantAssumption DEF DispatchEffect, Dispatching, DispatchesMatch, TypeOK, DispatchOK
<1>4. DispatchesMatch'
  <2>1. ASSUME NEW s \in Task, s # t
        PROVE  /\ pc'[s] = pc[s] /\ status'[s] = status[s]
               /\ Dispatching(s)' <=> Dispatching(s)
    BY <1>1, <1>2, <2>1 DEF DispatchEffect
  <2>2. t \notin queue /\ status[t] # "CREATED" /\ UNCHANGED <<queue, lock>>
    BY <1>1 DEF DispatchEffect, DispatchesMatch
  <2>3. /\ status'[t] # "CREATED"
        /\ status'[t] \in Waiting => pc'[t] \in Unleased
    BY <1>1, <2>2 DEF DispatchEffect, DispatchesMatch, Waiting
  <2> QED BY <1>3, <2>1, <2>2, <2>3 DEF DispatchesMatch
<1>5. NoTaskForgotten'
  <2>1. status'[t] = "QUEUED" => Dispatching(t)'
    BY <1>1, <1>3 DEF DispatchEffect, DispatchesMatch, Unleased, Waiting
  <2>2. t \notin queue
    BY <1>1 DEF DispatchEffect, DispatchesMatch
  <2> QED BY <1>1, <1>2, <2>1, <2>2 DEF DispatchEffect, NoTaskForgotten
<1> QED BY <1>4, <1>5

LEMMA QueueTick ==
    ASSUME QueueInv, NEW k \in Ticker, TickIdle(k) \/ \E t \in Task : TickClaim(k, t)
    PROVE  QueueFacts'
<1> USE DEF QueueInv, QueueFacts
<1>1. ASSUME NEW E \in SUBSET queue, Expire(E), queue' \subseteq queue \ E
      PROVE  /\ \A s \in Task : s \notin E => status'[s] = status[s]
             /\ \A s \in Task : s \in E => status'[s] = "BLOCKED"
             /\ \A s \in queue' : status'[s] = "QUEUED"
  BY <1>1 DEF Expire, NoTaskForgotten, TypeOK, QueueOK
<1>2. ASSUME NEW S \in SUBSET queue
      PROVE  Overdue(S) \in SUBSET queue
  BY DEF Overdue
<1>3. CASE TickIdle(k)
  <2>1. Expire(Overdue(queue)) /\ queue' = queue \ Overdue(queue)
    BY <1>3 DEF TickIdle
  <2>2. UNCHANGED <<ticker, pc, lock>>
    BY <1>3 DEF TickIdle, dispVars
  <2>3. \A s \in Task : Dispatching(s)' <=> Dispatching(s)
    BY <2>2 DEF Dispatching
  <2> QED BY <1>1, <1>2, <2>1, <2>2, <2>3 DEF DispatchesMatch, NoTaskForgotten, Waiting, Unleased
<1>4. ASSUME NEW t \in Task, TickClaim(k, t)
      PROVE  QueueFacts'
  <2> DEFINE E == Overdue({ s \in queue : Before(s, t) })
  <2>1. Expire(E) /\ queue' = (queue \ E) \ {t} /\ t \in queue
    BY <1>4 DEF TickClaim
  <2>2. E \in SUBSET queue
    BY <1>2
  <2>3. /\ UNCHANGED lock
        /\ pc' = [pc EXCEPT ![t] = "claimed"]
        /\ ticker[k] = NoTask /\ ticker' = [ticker EXCEPT ![k] = t]
    BY <1>4 DEF TickClaim
  <2>4. \A s \in Task : Dispatching(s)' <=> Dispatching(s) \/ s = t
    BY <2>3, ConstantAssumption DEF Dispatching, TypeOK, DispatchOK
  <2>5. t \notin E
    BY <2>1, ConstantAssumption DEF Overdue, Before, TypeOK, QueueOK
  <2> HIDE DEF E
  <2>6. /\ \A s \in Task : s \notin E => status'[s] = status[s]
        /\ \A s \in Task : s \in E => status'[s] = "BLOCKED"
        /\ \A s \in queue' : status'[s] = "QUEUED"
    BY <1>1, <2>1, <2>2
  <2>7. \A s \in Task : pc'[s] = IF s = t THEN "claimed" ELSE pc[s]
    BY <2>3 DEF TypeOK, DispatchOK
  <2>8. DispatchesMatch'
    BY <2>1, <2>3, <2>4, <2>5, <2>6, <2>7 DEF DispatchesMatch, NoTaskForgotten, Waiting, Unleased
  <2>9. NoTaskForgotten'
    BY <2>1, <2>3, <2>4, <2>5, <2>6 DEF NoTaskForgotten
  <2> QED BY <2>8, <2>9
<1> QED BY <1>3, <1>4

LEMMA QueueCancel ==
    ASSUME QueueInv, NEW t \in Task,
           CancelQueued(t) \/ CancelWrite(t) \/ CancelAbort(t) \/ CancelRequest(t) \/ CancelReply(t)
    PROVE  QueueFacts'
<1> USE DEF QueueInv, QueueFacts, DispatchesMatch, NoTaskForgotten, Waiting, Unleased
<1>1. \A s \in Task : Dispatching(s)' <=> Dispatching(s)
  BY DEF CancelQueued, CancelWrite, CancelAbort, CancelRequest, CancelReply, Dispatching, dispVars
<1>2. CASE CancelQueued(t)
  BY <1>1, <1>2 DEF CancelQueued, Cancellable, Dequeued, Free, dispVars, statusVars
<1>3. CASE CancelWrite(t)
  BY <1>1, <1>3 DEF CancelWrite, SetStatus, dispVars, queueVars, TypeOK, StatusOK
<1>4. CASE CancelAbort(t)
  BY <1>1, <1>4 DEF CancelAbort, dispVars, queueVars, statusVars
<1>5. CASE CancelRequest(t)
  BY <1>1, <1>5 DEF CancelRequest, dispVars, queueVars, statusVars
<1>6. CASE CancelReply(t)
  BY <1>1, <1>6 DEF CancelReply, dispVars, queueVars, statusVars
<1> QED BY <1>2, <1>3, <1>4, <1>5, <1>6

LEMMA QueueReconcile ==
    ASSUME QueueInv, NEW t \in Task,
           ReconcileAsk(t) \/ ReconcileRelease(t) \/ ReconcileResolve(t)
    PROVE  QueueFacts'
<1> USE DEF QueueInv, QueueFacts, DispatchesMatch, NoTaskForgotten, Waiting, Unleased
<1>1. \A s \in Task : Dispatching(s)' <=> Dispatching(s)
  BY DEF ReconcileAsk, ReconcileRelease, ReconcileResolve, Dispatching, dispVars
<1>2. CASE ReconcileAsk(t)
  <2>1. \A s \in Task : /\ lock # [op |-> "cancel", task |-> s]
                        /\ lock' # [op |-> "cancel", task |-> s]
    BY <1>2 DEF ReconcileAsk, ReconcileBegins, ReconcileSafe, ReconcileRefused, Asking, Free
  <2> QED BY <1>1, <1>2, <2>1 DEF ReconcileAsk, dispVars, queueVars, statusVars
<1>3. CASE ReconcileRelease(t)
  BY <1>1, <1>3 DEF ReconcileRelease, dispVars, queueVars, statusVars
<1>4. CASE ReconcileResolve(t)
  <2>1. \A s \in Task : \/ status'[s] = status[s]
                        \/ status[s] = "CLEANUP_FAILED" /\ status'[s] \notin Waiting
    BY <1>4 DEF ReconcileResolve, Reconciled, TypeOK, StatusOK, Verdict, OutcomeStates
  <2>2. UNCHANGED <<queue, pc>> /\ \A s \in Task : lock' # [op |-> "cancel", task |-> s]
    BY <1>4 DEF ReconcileResolve, dispVars, queueVars
  <2>3. lock = [op |-> "reconcile", task |-> t]
    BY <1>4 DEF ReconcileResolve
  <2>4. \A s \in Task : lock # [op |-> "cancel", task |-> s]
    BY <2>3
  <2> QED BY <1>1, <2>1, <2>2, <2>4
<1> QED BY <1>2, <1>3, <1>4

LEMMA QueueCrash ==
    ASSUME QueueInv, Crash
    PROVE  QueueFacts'
<1> USE DEF QueueInv, QueueFacts, DispatchesMatch, NoTaskForgotten, Waiting, Unleased
<1>1. \A s \in Task : ~Dispatching(s)'
  BY ConstantAssumption DEF Crash, Dispatching
<1>2. \A s \in Task : /\ status'[s] \in Waiting <=> status[s] \in Waiting
                      /\ status'[s] = "QUEUED" <=> status[s] = "QUEUED"
  BY DEF Crash, RestartStatus, ActiveStates
<1> QED BY <1>1, <1>2 DEF Crash

LEMMA QueueNext == QueueInv /\ [Next]_vars => QueueInv'
<1> SUFFICES ASSUME QueueInv, [Next]_vars PROVE QueueFacts'
  BY NextType DEF QueueInv, QueueFacts
<1>1. CASE UNCHANGED vars
  BY <1>1 DEF vars, statusVars, queueVars, dispVars, QueueInv, QueueFacts, DispatchesMatch,
              NoTaskForgotten, Dispatching
<1>2. ASSUME NEW w \in Worker, NEW S \in SUBSET Gpu, RegisterWorker(w, S)
      PROVE  QueueFacts'
  BY <1>2 DEF RegisterWorker, statusVars, queueVars, dispVars, QueueInv, QueueFacts,
              DispatchesMatch, NoTaskForgotten, Dispatching
<1>3. ASSUME NEW t \in Task, Enqueue(t)
      PROVE  QueueFacts'
  BY <1>3 DEF Enqueue, Unknown, Free, dispVars, QueueInv, QueueFacts, DispatchesMatch,
              NoTaskForgotten, Dispatching, TypeOK, StatusOK, Waiting, Unleased
<1>4. ASSUME NEW t \in Task, NEW u \in Units(t), Wait(t) \/ WorkerStep(t, u)
      PROVE  QueueFacts'
  BY <1>4 DEF Wait, WorkerStep, Deliver, Launch, Exit, statusVars, queueVars, dispVars, QueueInv,
              QueueFacts, DispatchesMatch, NoTaskForgotten, Dispatching
<1>5. ASSUME NEW t \in Task, Wait(t)
      PROVE  QueueFacts'
  BY <1>4, <1>5, FirstUnit
<1> QED BY <1>1, <1>2, <1>3, <1>4, <1>5, QueueDispatch, QueueTick, QueueCancel, QueueReconcile,
           QueueCrash DEF Next

(* No queued Task is ever forgotten, however many threads tick and         *)
(* whatever is cancelled, lost, reconciled or restarted.                   *)
THEOREM QueueCorrect == Spec => []NoTaskForgotten
<1>1. QueueInv => NoTaskForgotten
  BY DEF QueueInv
<1> QED BY <1>1, QueueInit, QueueNext, PTL DEF Spec
-----------------------------------------------------------------------------
(* With one thread in tick, at most one Task is being dispatched.          *)
LEMMA OneDispatch ==
    ASSUME OneTicker, NEW s \in Task, NEW t \in Task, Dispatching(s), Dispatching(t)
    PROVE  s = t
  BY DEF OneTicker, Dispatching

(* The units of a Task are on different Workers.                           *)
LEMMA UnitsApart ==
    ASSUME TypeOK, NEW t \in Task, NEW u \in Units(t), NEW v \in Units(t), u # v
    PROVE  Needs(t, u) \cap Needs(t, v) = {}
<1>1. WorkerOf[t][u] # WorkerOf[t][v]
  BY ConstantAssumption
<1> QED BY <1>1 DEF Needs, GpuResources, Container1

LeaseFacts == LeasesMatch /\ ClaimsAreFree /\ ExclusiveLeases

(* Steps that take no lease and select nothing cannot break LeaseFacts.    *)
LEMMA LeasesKept ==
    ASSUME LeaseFacts,
           UNCHANGED sel,
           \A t \in Task, u \in Unit : Leased(t, u)' => Leased(t, u),
           \A t \in Task : Dispatching(t)' => Dispatching(t),
           \A t \in Task : pc[t] \notin Unleased => pc'[t] \notin Unleased
    PROVE  LeaseFacts'
<1>1. \A t, u : Needs(t, u)' = Needs(t, u)
  BY DEF Needs, GpuResources, Container1
<1>2. LeasesMatch'
  BY DEF LeaseFacts, LeasesMatch, Units
<1>3. ClaimsAreFree'
  BY <1>1 DEF LeaseFacts, ClaimsAreFree, Units
<1>4. ExclusiveLeases'
  BY <1>1 DEF LeaseFacts, ExclusiveLeases
<1> QED BY <1>2, <1>3, <1>4 DEF LeaseFacts

LEMMA LeaseInit == Init => LeaseInv
<1> SUFFICES ASSUME Init PROVE LeaseFacts
  BY QueueInit DEF LeaseInv, LeaseFacts
<1>1. \A t \in Task, u \in Unit : ~Leased(t, u)
  BY DEF Init, Leased
<1> QED BY <1>1 DEF LeaseFacts, LeasesMatch, ClaimsAreFree, ExclusiveLeases

(* A step of _dispatch may lease the unit it is at; nobody else has a      *)
(* lease on what that unit needs, nor has another unit of the Task.        *)
LEMMA LeaseDispatch ==
    ASSUME OneTicker, LeaseInv, NEW t \in Task, Dispatch(t)
    PROVE  LeaseFacts'
<1> USE DEF LeaseInv, QueueInv
<1>1. DispatchEffect(t)
  BY DispatchDoes
<1>2. cur[t] \in Unit /\ cur[t] \in Units(t) /\ Units(t) \subseteq Unit
  BY UnitsAreUnits DEF TypeOK, DispatchOK
<1>3. Dispatching(t)
  BY <1>1 DEF DispatchEffect, DispatchesMatch
<1>4. \A s \in Task : Dispatching(s)' => s = t
  <2>1. \A s \in Task : Dispatching(s)' => Dispatching(s)
    BY <1>1, ConstantAssumption DEF DispatchEffect, Dispatching, TypeOK, DispatchOK
  <2> QED BY <1>3, <2>1, OneDispatch
<1>5. \A s, u : Needs(s, u)' = Needs(s, u)
  BY <1>1 DEF DispatchEffect, Needs, GpuResources, Container1
<1>6. \A s \in Task, u \in Unit : s # t \/ u # cur[t] => (Leased(s, u)' <=> Leased(s, u))
  BY <1>1 DEF DispatchEffect, Leased
<1>7. LeasesMatch'
  <2>1. ASSUME NEW s \in Task, s # t
        PROVE  pc'[s] = pc[s]
    BY <1>1, <2>1 DEF DispatchEffect
  <2>2. pc'[t] \in Unleased => UNCHANGED lease /\ pc[t] \in Unleased
    BY <1>1 DEF DispatchEffect
  <2>3. ASSUME NEW u \in Unit, Leased(t, u)'
        PROVE  u \in Units(t) /\ pc'[t] \notin Unleased
    BY <1>2, <1>6, <2>2, <2>3 DEF LeasesMatch, Leased
  <2> QED BY <1>6, <2>1, <2>3 DEF LeasesMatch, Units
<1>8. ClaimsAreFree'
  BY <1>3, <1>4, <1>5, <1>6 DEF ClaimsAreFree, Units
<1>9. ExclusiveLeases'
  <2>1. ASSUME NEW u \in Units(t), NEW s \in Task, NEW v \in Unit, s # t, Leased(s, v)
        PROVE  Needs(t, u) \cap Needs(s, v) = {}
    BY <1>3, <2>1 DEF ClaimsAreFree
  <2>2. ASSUME NEW u \in Unit, NEW v \in Unit, u # v, Leased(t, u)', Leased(t, v)'
        PROVE  Needs(t, u) \cap Needs(t, v) = {}
    BY <1>7, <2>2, UnitsApart DEF LeasesMatch, Units
  <2>3. \A u \in Unit : Leased(t, u)' => u \in Units(t)
    BY <1>7 DEF LeasesMatch, Units
  <2>4. ASSUME NEW r \in Task, NEW s \in Task, NEW u \in Unit, NEW v \in Unit,
               Leased(r, u)', Leased(s, v)', Needs(r, u) \cap Needs(s, v) # {}
        PROVE  r = s /\ u = v
    <3>1. CASE r # t /\ s # t
      BY <1>6, <2>4, <3>1 DEF ExclusiveLeases
    <3>2. CASE r = t /\ s = t
      BY <2>2, <2>4, <3>2
    <3>3. CASE r = t /\ s # t
      BY <1>6, <2>1, <2>3, <2>4, <3>3
    <3>4. CASE r # t /\ s = t
      BY <1>6, <2>1, <2>3, <2>4, <3>4
    <3> QED BY <3>1, <3>2, <3>3, <3>4
  <2> QED BY <1>5, <2>4 DEF ExclusiveLeases
<1> QED BY <1>7, <1>8, <1>9 DEF LeaseFacts

(* What a tick claims it has selected from the resources without a lease.  *)
LEMMA LeaseClaim ==
    ASSUME OneTicker, LeaseInv, NEW k \in Ticker, NEW t \in Task, TickClaim(k, t)
    PROVE  LeaseFacts'
<1> USE DEF LeaseInv, QueueInv
<1>1. PICK pick \in [Unit -> SUBSET Gpu] :
         Selection(t, pick) /\ sel' = [sel EXCEPT ![t] = pick]
  BY DEF TickClaim
<1>2. /\ UNCHANGED lease
      /\ pc' = [pc EXCEPT ![t] = "claimed"]
      /\ t \in queue /\ ticker[k] = NoTask /\ ticker' = [ticker EXCEPT ![k] = t]
  BY DEF TickClaim, leaseVars
<1>3. \A s \in Task, u \in Unit : Leased(s, u)' <=> Leased(s, u)
  BY <1>2 DEF Leased
<1>4. \A u \in Unit : ~Leased(t, u)
  BY <1>2 DEF DispatchesMatch, LeasesMatch, Unleased
<1>5. \A s \in Task, u \in Unit : s # t => Needs(s, u)' = Needs(s, u)
  BY <1>1 DEF Needs, GpuResources, Container1, TypeOK, DispatchOK
<1>6. \A s \in Task : Dispatching(s)' => s = t
  BY <1>2, ConstantAssumption DEF OneTicker, Dispatching, TypeOK, DispatchOK
<1>7. ASSUME NEW u \in Units(t)
      PROVE  Needs(t, u)' \cap LeasedResources = {}
  <2>1. u \in Unit
    BY UnitsAreUnits
  <2>2. Selects(t, u, pick[u])
    BY <1>1, <2>1 DEF Selection
  <2>3. Needs(t, u)' = GpuResources(t, u, pick[u]) \cup { Container1(t, u) }
    BY <1>1, <2>1 DEF Needs, GpuResources, Container1, TypeOK, DispatchOK
  <2> QED BY <2>2, <2>3 DEF Selects, Available, GpuResources
<1>8. LeasesMatch'
  BY <1>2, <1>3, <1>4 DEF LeasesMatch, Units, TypeOK, DispatchOK
<1>9. ClaimsAreFree'
  <2>1. ASSUME NEW u \in Units(t), NEW s \in Task, s # t, NEW v \in Unit, Leased(s, v)'
        PROVE  Needs(t, u)' \cap Needs(s, v)' = {}
    <3>1. Needs(s, v)' = Needs(s, v)
      BY <1>5, <2>1
    <3>2. Needs(s, v) \subseteq LeasedResources
      BY <1>3, <2>1, NeedsType DEF LeasedResources
    <3> QED BY <1>7, <3>1, <3>2
  <2> QED BY <1>6, <2>1 DEF ClaimsAreFree, Units
<1>10. ExclusiveLeases'
  BY <1>3, <1>4, <1>5 DEF ExclusiveLeases
<1> QED BY <1>8, <1>9, <1>10 DEF LeaseFacts

(* A restart keeps the leases with what they name and ends every dispatch. *)
LEMMA LeaseCrash ==
    ASSUME LeaseInv, Crash
    PROVE  LeaseFacts'
<1> USE DEF LeaseInv, QueueInv
<1>1. \A s \in Task, u \in Unit : Leased(s, u)' <=> Leased(s, u)
  BY DEF Crash, leaseVars, Leased
<1>2. \A s \in Task : ~Dispatching(s)'
  BY ConstantAssumption DEF Crash, Dispatching
<1>3. ASSUME NEW s \in Task, NEW u \in Unit, Leased(s, u)
      PROVE  Needs(s, u)' = Needs(s, u)
  BY <1>3 DEF Crash, HoldsLease, LeasesMatch, Needs, GpuResources, Container1
<1>4. ASSUME NEW s \in Task, NEW u \in Unit, Leased(s, u)
      PROVE  pc'[s] \notin Unleased
  <2>1. status[s] \notin Waiting
    BY <1>4 DEF LeasesMatch, DispatchesMatch
  <2> QED BY <2>1 DEF Crash, Unleased, Waiting
<1>5. LeasesMatch'
  BY <1>1, <1>4 DEF LeasesMatch, Units
<1>6. ClaimsAreFree'
  BY <1>2 DEF ClaimsAreFree
<1>7. ExclusiveLeases'
  BY <1>1, <1>3 DEF ExclusiveLeases
<1> QED BY <1>5, <1>6, <1>7 DEF LeaseFacts

LEMMA LeaseNext == OneTicker /\ LeaseInv /\ [Next]_vars => LeaseInv'
<1> SUFFICES ASSUME OneTicker, LeaseInv, [Next]_vars PROVE LeaseFacts'
  BY QueueNext DEF LeaseInv, LeaseFacts
<1> USE DEF LeaseInv
<1>0. LeaseFacts
  BY DEF LeaseFacts
<1>1. CASE UNCHANGED vars
  BY <1>0, <1>1, LeasesKept DEF vars, dispVars, leaseVars, Leased, Dispatching
<1>2. ASSUME NEW w \in Worker, NEW S \in SUBSET Gpu, RegisterWorker(w, S)
      PROVE  LeaseFacts'
  BY <1>0, <1>2, LeasesKept DEF RegisterWorker, dispVars, leaseVars, Leased, Dispatching
<1>3. ASSUME NEW k \in Ticker, TickIdle(k)
      PROVE  LeaseFacts'
  BY <1>0, <1>3, LeasesKept DEF TickIdle, dispVars, leaseVars, Leased, Dispatching
<1>4. ASSUME NEW t \in Task, Enqueue(t) \/ Wait(t)
      PROVE  LeaseFacts'
  BY <1>0, <1>4, LeasesKept DEF Enqueue, Wait, dispVars, leaseVars, Leased, Dispatching
<1>5. ASSUME NEW t \in Task, CancelQueued(t) \/ CancelWrite(t) \/ CancelAbort(t)
                             \/ CancelRequest(t) \/ CancelReply(t)
      PROVE  LeaseFacts'
  BY <1>0, <1>5, LeasesKept DEF CancelQueued, CancelWrite, CancelAbort, CancelRequest,
              CancelReply, dispVars, leaseVars, Leased, Dispatching
<1>6. ASSUME NEW t \in Task, ReconcileAsk(t) \/ ReconcileRelease(t) \/ ReconcileResolve(t)
      PROVE  LeaseFacts'
  <2>1. UNCHANGED dispVars
    BY <1>6 DEF ReconcileAsk, ReconcileRelease, ReconcileResolve
  <2>2. \A s \in Task, u \in Unit : Leased(s, u)' => Leased(s, u)
    BY <1>6, UnitsAreUnits DEF ReconcileAsk, ReconcileRelease, ReconcileResolve, leaseVars, Leased,
       QueueInv, TypeOK, LeasesOK
  <2> QED BY <1>0, <2>1, <2>2, LeasesKept DEF dispVars, Dispatching
<1>7. ASSUME NEW t \in Task, NEW u \in Units(t), WorkerStep(t, u)
      PROVE  LeaseFacts'
  BY <1>0, <1>7, LeasesKept DEF WorkerStep, Deliver, Launch, Exit, dispVars, leaseVars, Leased,
              Dispatching
<1> QED BY <1>1, <1>2, <1>3, <1>4, <1>5, <1>6, <1>7, LeaseDispatch, LeaseClaim, LeaseCrash DEF Next

(* While only one thread ticks, no GPU and no container is ever in two     *)
(* leases: for every fleet, all Tasks, and any mix of lost calls, refused  *)
(* calls, cancels, reconciliations and restarts.                           *)
THEOREM LeasesExclusive ==
    ASSUME OneTicker
    PROVE  Spec => []ExclusiveLeases
<1>1. LeaseInv => ExclusiveLeases
  BY DEF LeaseInv
<1>2. LeaseInv /\ [Next]_vars => LeaseInv'
  BY LeaseNext
<1> QED BY <1>1, <1>2, LeaseInit, PTL DEF Spec
-----------------------------------------------------------------------------
(* Only Grab, Register and Crash touch the epochs, and only Grab leads to  *)
(* the point where a lease is persisted.                                   *)
LEMMA EpochsElsewhere ==
    ASSUME TypeOK, NEW t \in Task, Dispatch(t), ~Grab(t), ~Register(t)
    PROVE  /\ UNCHANGED <<epochs, logged, epoch>>
           /\ pc'[t] # "register"
           /\ \A u \in Unit : lease'[t][u] = "held" => lease[t][u] = "held"
<1> USE DEF TypeOK, DispatchOK, LeasesOK, Goto, resVars, leaseVars
<1>1. CASE CheckQueued(t)
  BY <1>1 DEF CheckQueued
<1>2. CASE WritePreparing(t)
  BY <1>2 DEF WritePreparing, SetStatus
<1>3. CASE HoldCheck(t)
  BY <1>3 DEF HoldCheck, FailRelease
<1>4. CASE PrepareOk(t)
  BY <1>4 DEF PrepareOk, NextUnit
<1>5. CASE PrepareRejected(t)
  BY <1>5 DEF PrepareRejected, FailRelease
<1>6. CASE PrepareRaised(t)
  BY <1>6 DEF PrepareRaised
<1>7. CASE Query(t)
  BY <1>7 DEF Query, FailRelease, FailKeep
<1>8. CASE Commit(t)
  BY <1>8 DEF Commit, NextUnit
<1>9. CASE Reserve(t)
  BY <1>9 DEF Reserve, Advance, FailKeep
<1>10. CASE WritePlan(t)
  BY <1>10 DEF WritePlan
<1>11. CASE PlanAck(t)
  BY <1>11 DEF PlanAck, NextUnit
<1>12. CASE PlanFailed(t)
  BY <1>12 DEF PlanFailed, FailKeep
<1>13. CASE StartCheck(t)
  BY <1>13 DEF StartCheck
<1>14. CASE Dispatched(t)
  BY <1>14 DEF Dispatched, Advance, FailKeep
<1>15. CASE Starting(t)
  BY <1>15 DEF Starting, Advance, FailKeep
<1>16. CASE Running(t)
  BY <1>16 DEF Running, Advance, FailKeep
<1>17. CASE ExecuteCall(t)
  BY <1>17 DEF ExecuteCall
<1>18. CASE ExecuteResult(t)
  BY <1>18 DEF ExecuteResult, NextUnit
<1>19. CASE ExecuteRaised(t)
  BY <1>19 DEF ExecuteRaised, FailKeep
<1>20. CASE EndCheck(t)
  BY <1>20 DEF EndCheck
<1>21. CASE Finalize(t)
  BY <1>21 DEF Finalize, Advance, FailKeep
<1>22. CASE CleanupFailed(t)
  BY <1>22 DEF CleanupFailed, Advance, FailKeep
<1>23. CASE Release(t)
  BY <1>23 DEF Release, Deleted, NextUnit
<1>24. CASE Settle(t)
  BY <1>24 DEF Settle, Advance, FailKeep
<1>25. CASE ForceFinalizing(t)
  BY <1>25 DEF ForceFinalizing, SetStatus
<1>26. CASE ForceTarget(t)
  BY <1>26 DEF ForceTarget, SetStatus
<1>27. CASE Finally(t)
  BY <1>27 DEF Finally
<1> QED
  BY <1>1, <1>2, <1>3, <1>4, <1>5, <1>6, <1>7, <1>8, <1>9, <1>10, <1>11, <1>12, <1>13, <1>14, <1>15, <1>16, <1>17, <1>18, <1>19, <1>20, <1>21, <1>22, <1>23, <1>24, <1>25, <1>26, <1>27 DEF Dispatch

(* A step that takes no epoch and persists none preserves EpochInv.        *)
LEMMA EpochsKept ==
    ASSUME EpochInv, UNCHANGED <<epochs, logged, epoch>>,
           \A t \in Task : pc'[t] = "register" =>
               pc[t] = "register" /\ sel'[t] = sel[t] /\ cur'[t] = cur[t]
    PROVE  EpochInv'
<1>1. \A t \in Task : pc'[t] = "register" => Needs(t, cur[t])' = Needs(t, cur[t])
  BY DEF Needs, GpuResources, Container1
<1> QED BY <1>1 DEF EpochInv

(* The dispatch under way is the only one that can be about to persist a   *)
(* lease, so nobody overtakes the epoch it has taken.                      *)
LEMMA EpochDispatch ==
    ASSUME OneTicker, QueueInv, EpochInv, NEW t \in Task, Dispatch(t)
    PROVE  EpochInv'
<1> USE DEF QueueInv
<1>1. DispatchEffect(t)
  BY DispatchDoes
<1>2. \A s \in Task : s # t => pc'[s] # "register"
  <2>1. Dispatching(t)
    BY <1>1 DEF DispatchEffect, DispatchesMatch
  <2>2. ASSUME NEW s \in Task, s # t, pc[s] = "register"
        PROVE  FALSE
    BY <2>1, <2>2, OneDispatch DEF DispatchesMatch
  <2> QED BY <1>1, <2>2 DEF DispatchEffect
<1>3. cur[t] \in Unit /\ Needs(t, cur[t]) \subseteq Resource
  BY NeedsType DEF TypeOK, DispatchOK
<1>4. CASE Grab(t)
  <2>1. PICK q \in Needs(t, cur[t]) :
          /\ \A r \in Needs(t, cur[t]) : epochs[r] <= epochs[q]
          /\ epochs' = [r \in Resource |-> IF r \in Needs(t, cur[t]) THEN epochs[q] + 1
                                                                     ELSE epochs[r]]
          /\ epoch' = [epoch EXCEPT ![t][cur[t]] = epochs[q] + 1]
    BY <1>4 DEF Grab
  <2>2. epoch'[t][cur[t]] = epochs[q] + 1 /\ UNCHANGED <<logged, cur, sel>>
    BY <1>3, <1>4, <2>1 DEF Grab, TypeOK, LeasesOK
  <2>3. \A r \in Resource : epochs[r] \in Nat /\ logged[r] \in Nat /\ logged[r] <= epochs[r]
    BY DEF TypeOK, ResourcesOK, EpochInv
  <2>4. Needs(t, cur[t])' = Needs(t, cur[t])
    BY <2>2 DEF Needs, GpuResources, Container1
  <2>5. \A r \in Resource : logged'[r] <= epochs'[r]
    BY <1>3, <2>1, <2>2, <2>3
  <2>6. \A r \in Needs(t, cur[t]) :
           logged'[r] < epoch'[t][cur'[t]] /\ epoch'[t][cur'[t]] <= epochs'[r]
    BY <1>3, <2>1, <2>2, <2>3
  <2> QED BY <1>2, <2>4, <2>5, <2>6 DEF EpochInv
<1>5. CASE Register(t)
  <2>1. /\ pc' = [pc EXCEPT ![t] = "prepare"]
        /\ UNCHANGED epochs
        /\ logged' = [r \in Resource |->
                        IF r \in Needs(t, cur[t]) /\ logged[r] < epoch[t][cur[t]]
                          THEN epoch[t][cur[t]] ELSE logged[r]]
    BY <1>5 DEF Register, Goto
  <2>2. \A r \in Needs(t, cur[t]) : epoch[t][cur[t]] <= epochs[r]
    BY <1>5 DEF Register, Goto, EpochInv
  <2>3. \A r \in Resource : logged'[r] <= epochs'[r]
    BY <2>1, <2>2 DEF EpochInv
  <2>4. pc'[t] # "register"
    BY <2>1 DEF TypeOK, DispatchOK
  <2> QED BY <1>2, <2>3, <2>4 DEF EpochInv
<1>6. CASE ~Grab(t) /\ ~Register(t)
  BY <1>2, <1>6, EpochsElsewhere, EpochsKept
<1> QED BY <1>4, <1>5, <1>6

LEMMA EpochNext == OneTicker /\ QueueInv /\ EpochInv /\ [Next]_vars => EpochInv'
<1> SUFFICES ASSUME OneTicker, QueueInv, EpochInv, [Next]_vars PROVE EpochInv'
  OBVIOUS
<1> USE DEF QueueInv
<1>1. CASE UNCHANGED vars
  BY <1>1, EpochsKept DEF vars, dispVars, leaseVars, resVars
<1>2. ASSUME NEW w \in Worker, NEW S \in SUBSET Gpu, RegisterWorker(w, S)
      PROVE  EpochInv'
  BY <1>2, EpochsKept DEF RegisterWorker, dispVars, leaseVars, resVars
<1>3. ASSUME NEW k \in Ticker, TickIdle(k) \/ \E t \in Task : TickClaim(k, t)
      PROVE  EpochInv'
  <2>1. UNCHANGED <<epochs, logged, epoch, cur>>
    BY <1>3 DEF TickIdle, TickClaim, dispVars, leaseVars, resVars
  <2>2. ASSUME NEW t \in Task, pc'[t] = "register"
        PROVE  pc[t] = "register" /\ sel'[t] = sel[t]
    BY <1>3, <2>2 DEF TickIdle, TickClaim, dispVars, TypeOK, DispatchOK
  <2> QED BY <2>1, <2>2, EpochsKept
<1>4. ASSUME NEW t \in Task, Enqueue(t) \/ Wait(t)
      PROVE  EpochInv'
  BY <1>4, EpochsKept DEF Enqueue, Wait, dispVars, leaseVars, resVars
<1>5. ASSUME NEW t \in Task, CancelQueued(t) \/ CancelWrite(t) \/ CancelAbort(t)
                             \/ CancelRequest(t) \/ CancelReply(t)
      PROVE  EpochInv'
  BY <1>5, EpochsKept DEF CancelQueued, CancelWrite, CancelAbort, CancelRequest, CancelReply,
              dispVars, leaseVars, resVars
<1>6. ASSUME NEW t \in Task, ReconcileAsk(t) \/ ReconcileRelease(t) \/ ReconcileResolve(t)
      PROVE  EpochInv'
  BY <1>6, EpochsKept DEF ReconcileAsk, ReconcileRelease, ReconcileResolve, dispVars, leaseVars,
              resVars
<1>7. ASSUME NEW t \in Task, NEW u \in Units(t), WorkerStep(t, u)
      PROVE  EpochInv'
  BY <1>7, EpochsKept DEF WorkerStep, Deliver, Launch, Exit, dispVars, leaseVars, resVars
<1>8. CASE Crash
  <2>1. \A r \in Resource : logged'[r] <= epochs'[r]
    BY <1>8 DEF Crash, RestartEpochs, TypeOK, ResourcesOK
  <2>2. \A t \in Task : pc'[t] # "register"
    BY <1>8 DEF Crash
  <2> QED BY <2>1, <2>2 DEF EpochInv
<1> QED BY <1>1, <1>2, <1>3, <1>4, <1>5, <1>6, <1>7, <1>8, EpochDispatch DEF Next

(* The only step that persists a provisional lease is Register.            *)
LEMMA EpochStep ==
    ASSUME QueueInv, EpochInv, [Next]_vars, NEW t \in Task, NEW u \in Unit,
           lease[t][u] = "none", lease'[t][u] = "held"
    PROVE  \A r \in Needs(t, u) : logged[r] < epoch[t][u]
<1> USE DEF QueueInv
<1>1. ASSUME NEW s \in Task, Dispatch(s)
      PROVE  Register(t) /\ u = cur[t]
  <2>1. DispatchEffect(s)
    BY <1>1, DispatchDoes
  <2>2. s = t /\ u = cur[t]
    BY <2>1 DEF DispatchEffect
  <2>3. ~Grab(t)
    BY DEF Grab
  <2> QED BY <1>1, <2>2, <2>3, EpochsElsewhere
<1>2. ASSUME ~ \E s \in Task : Dispatch(s)
      PROVE  FALSE
  <2>1. lease' = lease \/ \E s \in Task : ReconcileRelease(s)
    BY <1>2, ZenonT(40) DEF Next, vars, leaseVars, RegisterWorker, TickIdle, TickClaim, Enqueue, Wait,
       CancelQueued, CancelWrite, CancelAbort, CancelRequest, CancelReply, ReconcileAsk,
       ReconcileResolve, WorkerStep, Deliver, Launch, Exit, Crash
  <2>2. ASSUME NEW s \in Task, ReconcileRelease(s)
        PROVE  lease'[t][u] # "held"
    BY <2>2 DEF ReconcileRelease, TypeOK, LeasesOK
  <2> QED BY <2>1, <2>2
<1>3. Register(t) /\ u = cur[t]
  BY <1>1, <1>2
<1> QED BY <1>3 DEF Register, Goto, EpochInv

(* While only one thread ticks, no lease ever gets an epoch that a lease   *)
(* on one of its resources has had, restarts included.                     *)
THEOREM EpochsNeverReused ==
    ASSUME OneTicker
    PROVE  Spec => EpochsGrow
<1>1. Init => EpochInv
  BY DEF Init, EpochInv
<1>2. QueueInv /\ EpochInv /\ [Next]_vars => EpochInv'
  BY EpochNext
<1>3. QueueInv /\ EpochInv /\ [Next]_vars =>
        [\A t \in Task, u \in Unit :
           lease[t][u] = "none" /\ lease'[t][u] = "held" =>
              \A r \in Needs(t, u) : logged[r] < epoch[t][u]]_vars
  BY EpochStep
<1> QED BY <1>1, <1>2, <1>3, QueueInit, QueueNext, PTL DEF Spec, EpochsGrow
=============================================================================
