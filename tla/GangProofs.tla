------------------------------ MODULE GangProofs ------------------------------
(***************************************************************************)
(* What the gang dispatch of Scheduler guarantees, proved for every fleet  *)
(* and every set of Tasks: the start barrier, at most one execution, no    *)
(* running container without a lease, outcomes without leases, that leases *)
(* go together or not at all, that the holds are those of the dispatch,    *)
(* and that all this implements Ownership.  The proofs follow one dispatch *)
(* from stage to stage (GangStage of SchedulerInv) and show that every     *)
(* other thread, the Workers and a restart leave it where it is.           *)
(***************************************************************************)
EXTENDS SchedulerProofs

(* Everything about a Task t that the stages speak of, but the lock.       *)
Same(t) ==
    /\ pc'[t] = pc[t] /\ cur'[t] = cur[t] /\ verdict'[t] = verdict[t] /\ unclean'[t] = unclean[t]
    /\ status'[t] = status[t] /\ underlying'[t] = underlying[t]
    /\ lease'[t] = lease[t] /\ plans'[t] = plans[t]
    /\ wrk'[t] = wrk[t] /\ inflight'[t] = inflight[t]
DoneWith(t) ==
    \/ lock' = lock
    \/ /\ lock' # [op |-> "reconcile", task |-> t]
       /\ \A S \in SUBSET Unit : lock' # Asking(t, S)

(* A dispatching thread works on its own Task and leaves the lock alone.   *)
LEMMA DispatchLocal ==
    ASSUME TypeOK, NEW t \in Task, Dispatch(t)
    PROVE  lock' = lock /\ \A s \in Task : s # t => Same(s)
<1> USE DEF TypeOK, StatusOK, DispatchOK, LeasesOK, WorkerOK, Goto, Same, leaseVars,
   statusVars, workerVars
<1>1. CASE CheckQueued(t)
  BY <1>1 DEF CheckQueued, TaskTargets
<1>2. CASE WritePreparing(t)
  BY <1>2 DEF WritePreparing, SetStatus
<1>3. CASE HoldCheck(t)
  BY <1>3 DEF HoldCheck, FailRelease
<1>4. CASE Grab(t)
  BY <1>4 DEF Grab
<1>5. CASE Register(t)
  BY <1>5 DEF Register
<1>6. CASE PrepareOk(t)
  BY <1>6 DEF PrepareOk, NextUnit
<1>7. CASE PrepareRejected(t)
  BY <1>7 DEF PrepareRejected, FailRelease
<1>8. CASE PrepareRaised(t)
  BY <1>8 DEF PrepareRaised, LostCall
<1>9. CASE Query(t)
  BY <1>9 DEF Query, FailRelease, FailKeep
<1>10. CASE Commit(t)
  BY <1>10 DEF Commit, NextUnit
<1>11. CASE Reserve(t)
  BY <1>11 DEF Reserve, Advance, SetStatus, FailKeep
<1>12. CASE WritePlan(t)
  BY <1>12 DEF WritePlan
<1>13. CASE PlanAck(t)
  BY <1>13 DEF PlanAck, NextUnit
<1>14. CASE PlanFailed(t)
  BY <1>14 DEF PlanFailed, LostCall, FailKeep
<1>15. CASE StartCheck(t)
  BY <1>15 DEF StartCheck
<1>16. CASE Dispatched(t)
  BY <1>16 DEF Dispatched, Advance, SetStatus, FailKeep
<1>17. CASE Starting(t)
  BY <1>17 DEF Starting, Advance, SetStatus, FailKeep
<1>18. CASE Running(t)
  BY <1>18 DEF Running, Advance, SetStatus, FailKeep
<1>19. CASE ExecuteCall(t)
  BY <1>19 DEF ExecuteCall
<1>20. CASE ExecuteResult(t)
  BY <1>20 DEF ExecuteResult, NextUnit
<1>21. CASE ExecuteRaised(t)
  BY <1>21 DEF ExecuteRaised, FailKeep
<1>22. CASE EndCheck(t)
  BY <1>22 DEF EndCheck
<1>23. CASE Finalize(t)
  BY <1>23 DEF Finalize, Advance, SetStatus, FailKeep
<1>24. CASE CleanupFailed(t)
  BY <1>24 DEF CleanupFailed, Advance, SetStatus, FailKeep
<1>25. CASE Release(t)
  BY <1>25 DEF Release, Deleted, NextUnit
<1>26. CASE Settle(t)
  BY <1>26 DEF Settle, Advance, SetStatus, FailKeep
<1>27. CASE ForceFinalizing(t)
  BY <1>27 DEF ForceFinalizing, SetStatus
<1>28. CASE ForceTarget(t)
  BY <1>28 DEF ForceTarget, SetStatus
<1>29. CASE Finally(t)
  BY <1>29 DEF Finally
<1> QED
  BY <1>1, <1>2, <1>3, <1>4, <1>5, <1>6, <1>7, <1>8, <1>9, <1>10, <1>11, <1>12, <1>13, <1>14,
     <1>15, <1>16, <1>17, <1>18, <1>19, <1>20, <1>21, <1>22, <1>23, <1>24, <1>25, <1>26, <1>27,
        <1>28, <1>29 DEF Dispatch

(* A Task that a step leaves alone stays at its stage.                     *)
LEMMA StageKept ==
    ASSUME NEW t \in Task, GangStage(t), Same(t), DoneWith(t)
    PROVE  GangStage(t)'
<1> USE DEF GangStage, Same, DoneWith
<1>1. LoopStage(t)'
  BY DEF LoopStage
<1>2. LeaseStage(t)'
  BY DEF LeaseStage, HoldsLease, Leased, Units
<1>3. PlanStage(t)'
  BY DEF PlanStage, Units
<1>4. WorkStage(t)'
  BY DEF WorkStage, Silent, Stopped, Ran, Waits, Units
<1>5. BarrierInv(t)'
  BY DEF BarrierInv, Started, Planned, Units
<1>6. AskStage(t)'
  BY DEF AskStage, Units, Asking
<1>7. ReconcileStage(t)'
  BY DEF ReconcileStage
<1> QED BY <1>1, <1>2, <1>3, <1>4, <1>5, <1>6, <1>7

(* The units of a Task are numbered from one, and cur[t] is one of them.   *)
LEMMA UnitNumbers ==
    ASSUME TypeOK, NEW t \in Task
    PROVE  /\ UnitCount[t] \in Nat /\ cur[t] \in 1 .. UnitCount[t] /\ cur[t] \in Unit
           /\ \A u \in Units(t) : u \in 1 .. UnitCount[t] /\ u \in Unit
           /\ 1 \in Units(t)
  BY ConstantAssumption, FirstUnit DEF TypeOK, DispatchOK, Unit, Units

(* At the end of a loop's body: it was the last unit, or there are more.   *)
LastUnit(t, from, after) ==
    /\ pc[t] = from /\ pc'[t] = after
    /\ cur[t] \in Nat /\ cur'[t] = 1
    /\ \A u \in Units(t) : u \in Nat /\ 1 <= u /\ u <= cur[t]
MoreUnits(t, from, again) ==
    /\ pc[t] = from /\ pc'[t] = again
    /\ cur[t] \in Nat /\ cur'[t] = cur[t] + 1
    /\ \A u \in Units(t) : u \in Nat /\ (u < cur'[t] <=> u <= cur[t])

LEMMA NextUnitDoes ==
    ASSUME TypeOK, NEW t \in Task, NEW from, NEW again, NEW after, NextUnit(t, from, again, after)
    PROVE  LastUnit(t, from, after) \/ MoreUnits(t, from, again)
  BY ConstantAssumption DEF LastUnit, MoreUnits, NextUnit, Goto, TypeOK, DispatchOK, Unit, Units

(* The loops over units, one by one: what is true of the units behind the  *)
(* current one is true of all units when the loop ends.                    *)
LEMMA PrepareOkLeases ==
    ASSUME TypeOK, NEW t \in Task, GangStage(t), PrepareOk(t)
    PROVE  LeaseStage(t)'
<1>1. LeaseStage(t) /\ lease'[t] = lease[t]
  BY DEF GangStage, PrepareOk, leaseVars
<1>2. LastUnit(t, "prepare", "commit") \/ MoreUnits(t, "prepare", "hold")
  BY NextUnitDoes DEF PrepareOk
<1>3. \A u \in Units(t) : lease[t][u] = IF u <= cur[t] THEN "held" ELSE "none"
  BY <1>1, <1>2 DEF LastUnit, MoreUnits, LeaseStage, Taking
<1>4. CASE LastUnit(t, "prepare", "commit")
  <2>1. \A u \in Units(t) : lease[t][u] = "held" /\ ~(u < cur'[t])
    BY <1>3, <1>4 DEF LastUnit
  <2> QED BY <1>1, <1>4, <2>1 DEF LastUnit, LeaseStage, Unleased, Underway, Taking, Units
<1>5. CASE MoreUnits(t, "prepare", "hold")
  BY <1>1, <1>3, <1>5 DEF MoreUnits, LeaseStage, Unleased, Underway, Taking, Units
<1> QED BY <1>2, <1>4, <1>5

LEMMA CommitLeases ==
    ASSUME TypeOK, NEW t \in Task, GangStage(t), Commit(t)
    PROVE  LeaseStage(t)'
<1>1. LeaseStage(t) /\ cur[t] \in Units(t)
  BY DEF GangStage, TypeOK, DispatchOK
<1>2. \A u \in Unit : lease'[t][u] = IF u = cur[t] THEN "committed" ELSE lease[t][u]
  BY DEF Commit, TypeOK, LeasesOK
<1>3. LastUnit(t, "commit", "reserve") \/ MoreUnits(t, "commit", "commit")
  BY NextUnitDoes DEF Commit
<1>4. \A u \in Units(t) : lease'[t][u] = IF u <= cur[t] THEN "committed" ELSE "held"
  BY <1>1, <1>2, <1>3, UnitsAreUnits DEF LastUnit, MoreUnits, LeaseStage
<1>5. \A u \in Unit \ Units(t) : lease'[t][u] = "none"
  BY <1>1, <1>2 DEF LeaseStage
<1>6. CASE LastUnit(t, "commit", "reserve")
  <2>1. \A u \in Units(t) : lease'[t][u] = "committed"
    BY <1>4, <1>6 DEF LastUnit
  <2> QED BY <1>5, <1>6, <2>1 DEF LastUnit, LeaseStage, Unleased, Underway, Taking, Units
<1>7. CASE MoreUnits(t, "commit", "commit")
  BY <1>4, <1>5, <1>7 DEF MoreUnits, LeaseStage, Unleased, Underway, Taking, Units
<1> QED BY <1>3, <1>6, <1>7

LEMMA ReleaseLeases ==
    ASSUME TypeOK, NEW t \in Task, GangStage(t), Release(t)
    PROVE  LeaseStage(t)'
<1>1. LeaseStage(t) /\ cur[t] \in Units(t)
  BY DEF GangStage, TypeOK, DispatchOK
<1>2. \A u \in Unit : lease'[t][u] = IF u = cur[t] THEN Deleted(t, u) ELSE lease[t][u]
  BY DEF Release, TypeOK, LeasesOK
<1>3. \A u \in Unit \ Units(t) : lease'[t][u] = "none"
  BY <1>1, <1>2 DEF LeaseStage
<1>4. CASE NextUnit(t, "release", "release", "settle")
  <2>1. LastUnit(t, "release", "settle") \/ MoreUnits(t, "release", "release")
    BY <1>4, NextUnitDoes
  <2>2. \A u \in Units(t) : lease'[t][u] \in IF u <= cur[t] THEN { "released" } ELSE Kept
    BY <1>1, <1>2, <2>1, UnitsAreUnits DEF LastUnit, MoreUnits, LeaseStage, Deleted, Kept
  <2>3. CASE LastUnit(t, "release", "settle")
    <3>1. \A u \in Units(t) : lease'[t][u] = "released"
      BY <2>2, <2>3 DEF LastUnit
    <3> QED BY <1>3, <2>3, <3>1 DEF LastUnit, LeaseStage, Unleased, Underway, Taking, Units
  <2>4. CASE MoreUnits(t, "release", "release")
    BY <1>3, <2>2, <2>4 DEF MoreUnits, LeaseStage, Unleased, Underway, Taking, Units, Kept
  <2> QED BY <2>1, <2>3, <2>4
<1>5. CASE NextUnit(t, "fail_release", "fail_release", "fail_settle")
  <2>1. LastUnit(t, "fail_release", "fail_settle") \/ MoreUnits(t, "fail_release", "fail_release")
    BY <1>5, NextUnitDoes
  <2>2. \A u \in Units(t) :
           lease'[t][u] \in IF u <= cur[t] THEN { "none", "released" } ELSE { "none", "held" }
    BY <1>1, <1>2, <2>1, UnitsAreUnits DEF LastUnit, MoreUnits, LeaseStage, Deleted
  <2>3. CASE LastUnit(t, "fail_release", "fail_settle")
    <3>1. \A u \in Units(t) : lease'[t][u] \in { "none", "released" }
      BY <2>2, <2>3 DEF LastUnit
    <3> QED BY <1>3, <2>3, <3>1 DEF LastUnit, LeaseStage, HoldsLease, Leased, Unleased,
       Underway, Taking, Units
  <2>4. CASE MoreUnits(t, "fail_release", "fail_release")
    BY <1>3, <2>2, <2>4 DEF MoreUnits, LeaseStage, Unleased, Underway, Taking, Units
  <2> QED BY <2>1, <2>3, <2>4
<1> QED BY <1>4, <1>5 DEF Release

LEMMA WritePlanPlans ==
    ASSUME TypeOK, NEW t \in Task, GangStage(t), WritePlan(t)
    PROVE  PlanStage(t)'
<1>1. /\ pc[t] = "plan" /\ pc'[t] = "ack" /\ cur'[t] = cur[t]
      /\ plans'[t] = plans[t] \cup { cur[t] }
  BY DEF WritePlan, Goto, TypeOK, DispatchOK, LeasesOK
<1>2. \A u \in Units(t) : u \in plans[t] <=> u < cur[t]
  BY <1>1 DEF GangStage, PlanStage
<1>3. \A u \in Units(t) : u \in Nat /\ cur[t] \in Nat
  BY UnitNumbers
<1>4. \A u \in Units(t) : u \in plans'[t] <=> u <= cur[t]
  BY <1>1, <1>2, <1>3
<1> QED BY <1>1, <1>4 DEF PlanStage, Unleased, Underway, Concluded, Taking, Units

LEMMA PrepareOkWork ==
    ASSUME TypeOK, NEW t \in Task, GangStage(t), PrepareOk(t)
    PROVE  WorkStage(t)'
<1>1. WorkStage(t) /\ cur[t] \in Units(t)
  BY DEF GangStage, TypeOK, DispatchOK
<1>2. /\ inflight'[t] = inflight[t] /\ unclean'[t] = unclean[t]
      /\ \A u \in Unit : wrk'[t][u] = IF u = cur[t] THEN "prepared" ELSE wrk[t][u]
  BY DEF PrepareOk, TypeOK, WorkerOK
<1>3. LastUnit(t, "prepare", "commit") \/ MoreUnits(t, "prepare", "hold")
  BY NextUnitDoes DEF PrepareOk
<1>4. \A u \in Units(t) : /\ wrk'[t][u] = IF u <= cur[t] THEN "prepared" ELSE "none"
                          /\ inflight'[t][u] = "none"
  BY <1>1, <1>2, <1>3, UnitsAreUnits DEF LastUnit, MoreUnits, WorkStage, Taking, Silent
<1>5. \A u \in Unit \ Units(t) : wrk'[t][u] = "none" /\ inflight'[t][u] = "none"
  BY <1>1, <1>2 DEF WorkStage, Silent
<1>6. CASE LastUnit(t, "prepare", "commit")
  <2>1. \A u \in Units(t) : wrk'[t][u] = "prepared" /\ inflight'[t][u] = "none"
    BY <1>4, <1>6 DEF LastUnit, Silent
  <2> QED BY <1>5, <1>6, <2>1 DEF LastUnit, WorkStage, Silent, Unleased, Underway, Concluded,
     Taking, Units
<1>7. CASE MoreUnits(t, "prepare", "hold")
  <2>1. \A u \in Units(t) : /\ wrk'[t][u] = IF u < cur'[t] THEN "prepared" ELSE "none"
                            /\ inflight'[t][u] = "none"
    BY <1>4, <1>7 DEF MoreUnits, Silent
  <2> QED BY <1>5, <1>7, <2>1 DEF MoreUnits, WorkStage, Silent, Unleased, Underway, Concluded,
     Taking, Units
<1> QED BY <1>3, <1>6, <1>7

LEMMA PlanAckWork ==
    ASSUME TypeOK, NEW t \in Task, GangStage(t), PlanAck(t)
    PROVE  WorkStage(t)'
<1>1. WorkStage(t) /\ cur[t] \in Units(t)
  BY DEF GangStage, TypeOK, DispatchOK
<1>2. /\ inflight'[t] = inflight[t] /\ unclean'[t] = unclean[t]
      /\ \A u \in Unit : wrk'[t][u] = IF u = cur[t] THEN "planned" ELSE wrk[t][u]
  BY DEF PlanAck, TypeOK, WorkerOK
<1>3. LastUnit(t, "ack", "startcheck") \/ MoreUnits(t, "ack", "plan")
  BY NextUnitDoes DEF PlanAck
<1>4. \A u \in Units(t) : /\ wrk'[t][u] = IF u <= cur[t] THEN "planned" ELSE "prepared"
                          /\ inflight'[t][u] = "none"
  BY <1>1, <1>2, <1>3, UnitsAreUnits DEF LastUnit, MoreUnits, WorkStage, Silent
<1>5. \A u \in Unit \ Units(t) : wrk'[t][u] = "none" /\ inflight'[t][u] = "none"
  BY <1>1, <1>2 DEF WorkStage, Silent
<1>6. CASE LastUnit(t, "ack", "startcheck")
  <2>1. \A u \in Units(t) : wrk'[t][u] = "planned" /\ inflight'[t][u] = "none"
    BY <1>4, <1>6 DEF LastUnit, Silent
  <2> QED BY <1>5, <1>6, <2>1 DEF LastUnit, WorkStage, Silent, Unleased, Underway, Concluded,
     Taking, Units
<1>7. CASE MoreUnits(t, "ack", "plan")
  <2>1. \A u \in Units(t) : /\ wrk'[t][u] = IF u < cur'[t] THEN "planned" ELSE "prepared"
                            /\ inflight'[t][u] = "none"
    BY <1>4, <1>7 DEF MoreUnits, Silent
  <2> QED BY <1>5, <1>7, <2>1 DEF MoreUnits, WorkStage, Silent, Unleased, Underway, Concluded,
     Taking, Units
<1> QED BY <1>3, <1>6, <1>7

LEMMA ExecuteResultWork ==
    ASSUME TypeOK, NEW t \in Task, GangStage(t), ExecuteResult(t)
    PROVE  WorkStage(t)'
<1>1. WorkStage(t) /\ cur[t] \in Units(t)
  BY DEF GangStage, TypeOK, DispatchOK
<1>2. wrk'[t] = wrk[t] /\ inflight'[t] = inflight[t]
  BY DEF ExecuteResult, workerVars
<1>3. LastUnit(t, "await", "endcheck") \/ MoreUnits(t, "await", "execute")
  BY NextUnitDoes DEF ExecuteResult
<1>4. pc[t] = "await" /\ Waits(t, cur[t])
  BY <1>1, <1>3 DEF LastUnit, MoreUnits, WorkStage
<1>5. \/ wrk[t][cur[t]] = "exited" /\ unclean'[t] = unclean[t]
      \/ wrk[t][cur[t]] \in { "running", "exited" } /\ unclean'[t] = TRUE
  BY DEF ExecuteResult, TypeOK, DispatchOK
<1>6. /\ wrk'[t][cur[t]] \in { "running", "exited" } /\ inflight'[t][cur[t]] = "none"
      /\ ~unclean'[t] => wrk'[t][cur[t]] = "exited"
  BY <1>2, <1>4, <1>5 DEF Waits
<1>7. \A u \in Units(t) : IF u <= cur[t] THEN Stopped(t, u)'
                            ELSE wrk'[t][u] = "planned" /\ inflight'[t][u] = "none"
  BY <1>1, <1>2, <1>3, <1>4, <1>5, <1>6 DEF LastUnit, MoreUnits, WorkStage, Silent, Stopped, Ran
<1>8. \A u \in Unit \ Units(t) : wrk'[t][u] = "none" /\ inflight'[t][u] = "none"
  BY <1>1, <1>2 DEF WorkStage, Silent
<1>9. CASE LastUnit(t, "await", "endcheck")
  <2>1. \A u \in Units(t) : Stopped(t, u)'
    BY <1>7, <1>9 DEF LastUnit
  <2> QED BY <1>8, <1>9, <2>1 DEF LastUnit, WorkStage, Silent, Unleased, Underway, Concluded,
     Taking, Units
<1>10. CASE MoreUnits(t, "await", "execute")
  BY <1>7, <1>8, <1>10 DEF MoreUnits, WorkStage, Silent, Unleased, Underway, Concluded, Taking,
     Units
<1> QED BY <1>3, <1>9, <1>10

(* Each loop ends with the unit counter at one.                            *)
LEMMA LoopDispatch ==
    ASSUME TypeOK, NEW t \in Task, GangStage(t), Dispatch(t)
    PROVE  LoopStage(t)'
<1> USE DEF TypeOK, DispatchOK, LeasesOK, WorkerOK, Goto, GangStage, LoopStage, InLoop
<1>0. /\ UnitCount[t] \in Nat /\ cur[t] \in 1 .. UnitCount[t] /\ cur[t] \in Unit
      /\ \A u \in Units(t) : u \in 1 .. UnitCount[t] /\ u \in Unit
      /\ 1 \in Units(t)
  BY UnitNumbers
<1>1. CASE CheckQueued(t)
  BY <1>1, <1>0 DEF CheckQueued, TaskTargets
<1>2. CASE WritePreparing(t)
  BY <1>2, <1>0 DEF WritePreparing, SetStatus
<1>3. CASE HoldCheck(t)
  BY <1>3, <1>0 DEF HoldCheck, FailRelease
<1>4. CASE Grab(t)
  BY <1>4, <1>0 DEF Grab
<1>5. CASE Register(t)
  BY <1>5, <1>0 DEF Register
<1>6. CASE PrepareOk(t)
  BY <1>6, <1>0 DEF PrepareOk, NextUnit
<1>7. CASE PrepareRejected(t)
  BY <1>7, <1>0 DEF PrepareRejected, FailRelease
<1>8. CASE PrepareRaised(t)
  BY <1>8, <1>0 DEF PrepareRaised, LostCall
<1>9. CASE Query(t)
  BY <1>9, <1>0 DEF Query, FailRelease, FailKeep
<1>10. CASE Commit(t)
  BY <1>10, <1>0 DEF Commit, NextUnit
<1>11. CASE Reserve(t)
  BY <1>11, <1>0 DEF Reserve, Advance, SetStatus, FailKeep
<1>12. CASE WritePlan(t)
  BY <1>12, <1>0 DEF WritePlan
<1>13. CASE PlanAck(t)
  BY <1>13, <1>0 DEF PlanAck, NextUnit
<1>14. CASE PlanFailed(t)
  BY <1>14, <1>0 DEF PlanFailed, LostCall, FailKeep
<1>15. CASE StartCheck(t)
  BY <1>15, <1>0 DEF StartCheck
<1>16. CASE Dispatched(t)
  BY <1>16, <1>0 DEF Dispatched, Advance, SetStatus, FailKeep
<1>17. CASE Starting(t)
  BY <1>17, <1>0 DEF Starting, Advance, SetStatus, FailKeep
<1>18. CASE Running(t)
  BY <1>18, <1>0 DEF Running, Advance, SetStatus, FailKeep
<1>19. CASE ExecuteCall(t)
  BY <1>19, <1>0 DEF ExecuteCall
<1>20. CASE ExecuteResult(t)
  BY <1>20, <1>0 DEF ExecuteResult, NextUnit
<1>21. CASE ExecuteRaised(t)
  BY <1>21, <1>0 DEF ExecuteRaised, FailKeep
<1>22. CASE EndCheck(t)
  BY <1>22, <1>0 DEF EndCheck
<1>23. CASE Finalize(t)
  BY <1>23, <1>0 DEF Finalize, Advance, SetStatus, FailKeep
<1>24. CASE CleanupFailed(t)
  BY <1>24, <1>0 DEF CleanupFailed, Advance, SetStatus, FailKeep
<1>25. CASE Release(t)
  BY <1>25, <1>0 DEF Release, Deleted, NextUnit
<1>26. CASE Settle(t)
  BY <1>26, <1>0 DEF Settle, Advance, SetStatus, FailKeep
<1>27. CASE ForceFinalizing(t)
  BY <1>27, <1>0 DEF ForceFinalizing, SetStatus
<1>28. CASE ForceTarget(t)
  BY <1>28, <1>0 DEF ForceTarget, SetStatus
<1>29. CASE Finally(t)
  BY <1>29, <1>0 DEF Finally
<1> QED
  BY <1>1, <1>2, <1>3, <1>4, <1>5, <1>6, <1>7, <1>8, <1>9, <1>10, <1>11, <1>12, <1>13, <1>14,
     <1>15, <1>16, <1>17, <1>18, <1>19, <1>20, <1>21, <1>22, <1>23, <1>24, <1>25, <1>26, <1>27,
        <1>28, <1>29 DEF Dispatch

(* Each loop leaves the leases as the next stage expects them.             *)
LEMMA LeaseStageDispatch ==
    ASSUME TypeOK, NEW t \in Task, GangStage(t), Dispatch(t)
    PROVE  LeaseStage(t)'
<1> USE DEF TypeOK, DispatchOK, LeasesOK, WorkerOK, Goto, GangStage, LoopStage, InLoop,
   LeaseStage, Taking, Unleased, Underway, Kept, HoldsLease, Leased, Units, leaseVars
<1>0. /\ UnitCount[t] \in Nat /\ cur[t] \in 1 .. UnitCount[t] /\ cur[t] \in Unit
      /\ \A u \in Units(t) : u \in 1 .. UnitCount[t] /\ u \in Unit
      /\ 1 \in Units(t)
  BY UnitNumbers
<1>1. CASE CheckQueued(t)
  BY <1>1, <1>0 DEF CheckQueued, TaskTargets
<1>2. CASE WritePreparing(t)
  BY <1>2, <1>0 DEF WritePreparing, SetStatus
<1>3. CASE HoldCheck(t)
  BY <1>3, <1>0 DEF HoldCheck, FailRelease
<1>4. CASE Grab(t)
  BY <1>4, <1>0 DEF Grab
<1>5. CASE Register(t)
  BY <1>5, <1>0 DEF Register
<1>6. CASE PrepareOk(t)
  BY <1>6, PrepareOkLeases
<1>7. CASE PrepareRejected(t)
  BY <1>7, <1>0 DEF PrepareRejected, FailRelease
<1>8. CASE PrepareRaised(t)
  BY <1>8, <1>0 DEF PrepareRaised, LostCall
<1>9. CASE Query(t)
  BY <1>9, <1>0 DEF Query, FailRelease, FailKeep
<1>10. CASE Commit(t)
  BY <1>10, CommitLeases
<1>11. CASE Reserve(t)
  BY <1>11, <1>0 DEF Reserve, Advance, SetStatus, FailKeep
<1>12. CASE WritePlan(t)
  BY <1>12, <1>0 DEF WritePlan
<1>13. CASE PlanAck(t)
  BY <1>13, <1>0 DEF PlanAck, NextUnit
<1>14. CASE PlanFailed(t)
  BY <1>14, <1>0 DEF PlanFailed, LostCall, FailKeep
<1>15. CASE StartCheck(t)
  BY <1>15, <1>0 DEF StartCheck
<1>16. CASE Dispatched(t)
  BY <1>16, <1>0 DEF Dispatched, Advance, SetStatus, FailKeep
<1>17. CASE Starting(t)
  BY <1>17, <1>0 DEF Starting, Advance, SetStatus, FailKeep
<1>18. CASE Running(t)
  BY <1>18, <1>0 DEF Running, Advance, SetStatus, FailKeep
<1>19. CASE ExecuteCall(t)
  BY <1>19, <1>0 DEF ExecuteCall
<1>20. CASE ExecuteResult(t)
  BY <1>20, <1>0 DEF ExecuteResult, NextUnit
<1>21. CASE ExecuteRaised(t)
  BY <1>21, <1>0 DEF ExecuteRaised, FailKeep
<1>22. CASE EndCheck(t)
  BY <1>22, <1>0 DEF EndCheck
<1>23. CASE Finalize(t)
  BY <1>23, <1>0 DEF Finalize, Advance, SetStatus, FailKeep
<1>24. CASE CleanupFailed(t)
  BY <1>24, <1>0 DEF CleanupFailed, Advance, SetStatus, FailKeep
<1>25. CASE Release(t)
  BY <1>25, ReleaseLeases
<1>26. CASE Settle(t)
  BY <1>26, <1>0 DEF Settle, Advance, SetStatus, FailKeep
<1>27. CASE ForceFinalizing(t)
  BY <1>27, <1>0 DEF ForceFinalizing, SetStatus
<1>28. CASE ForceTarget(t)
  BY <1>28, <1>0 DEF ForceTarget, SetStatus
<1>29. CASE Finally(t)
  BY <1>29, <1>0 DEF Finally
<1> QED
  BY <1>1, <1>2, <1>3, <1>4, <1>5, <1>6, <1>7, <1>8, <1>9, <1>10, <1>11, <1>12, <1>13, <1>14,
     <1>15, <1>16, <1>17, <1>18, <1>19, <1>20, <1>21, <1>22, <1>23, <1>24, <1>25, <1>26, <1>27,
        <1>28, <1>29 DEF Dispatch

(* ... and the plans,                                                      *)
LEMMA PlanStageDispatch ==
    ASSUME TypeOK, NEW t \in Task, GangStage(t), Dispatch(t)
    PROVE  PlanStage(t)'
<1> USE DEF TypeOK, DispatchOK, LeasesOK, WorkerOK, Goto, GangStage, LoopStage, InLoop,
   PlanStage, Taking, Unleased, Underway, Concluded, Units, leaseVars
<1>0. /\ UnitCount[t] \in Nat /\ cur[t] \in 1 .. UnitCount[t] /\ cur[t] \in Unit
      /\ \A u \in Units(t) : u \in 1 .. UnitCount[t] /\ u \in Unit
      /\ 1 \in Units(t)
  BY UnitNumbers
<1>1. CASE CheckQueued(t)
  BY <1>1, <1>0 DEF CheckQueued, TaskTargets
<1>2. CASE WritePreparing(t)
  BY <1>2, <1>0 DEF WritePreparing, SetStatus
<1>3. CASE HoldCheck(t)
  BY <1>3, <1>0 DEF HoldCheck, FailRelease
<1>4. CASE Grab(t)
  BY <1>4, <1>0 DEF Grab
<1>5. CASE Register(t)
  BY <1>5, <1>0 DEF Register
<1>6. CASE PrepareOk(t)
  BY <1>6, <1>0 DEF PrepareOk, NextUnit
<1>7. CASE PrepareRejected(t)
  BY <1>7, <1>0 DEF PrepareRejected, FailRelease
<1>8. CASE PrepareRaised(t)
  BY <1>8, <1>0 DEF PrepareRaised, LostCall
<1>9. CASE Query(t)
  BY <1>9, <1>0 DEF Query, FailRelease, FailKeep
<1>10. CASE Commit(t)
  BY <1>10, <1>0 DEF Commit, NextUnit
<1>11. CASE Reserve(t)
  BY <1>11, <1>0 DEF Reserve, Advance, SetStatus, FailKeep
<1>12. CASE WritePlan(t)
  BY <1>12, WritePlanPlans
<1>13. CASE PlanAck(t)
  BY <1>13, <1>0 DEF PlanAck, NextUnit
<1>14. CASE PlanFailed(t)
  BY <1>14, <1>0 DEF PlanFailed, LostCall, FailKeep
<1>15. CASE StartCheck(t)
  BY <1>15, <1>0 DEF StartCheck
<1>16. CASE Dispatched(t)
  BY <1>16, <1>0 DEF Dispatched, Advance, SetStatus, FailKeep
<1>17. CASE Starting(t)
  BY <1>17, <1>0 DEF Starting, Advance, SetStatus, FailKeep
<1>18. CASE Running(t)
  BY <1>18, <1>0 DEF Running, Advance, SetStatus, FailKeep
<1>19. CASE ExecuteCall(t)
  BY <1>19, <1>0 DEF ExecuteCall
<1>20. CASE ExecuteResult(t)
  BY <1>20, <1>0 DEF ExecuteResult, NextUnit
<1>21. CASE ExecuteRaised(t)
  BY <1>21, <1>0 DEF ExecuteRaised, FailKeep
<1>22. CASE EndCheck(t)
  BY <1>22, <1>0 DEF EndCheck
<1>23. CASE Finalize(t)
  BY <1>23, <1>0 DEF Finalize, Advance, SetStatus, FailKeep
<1>24. CASE CleanupFailed(t)
  BY <1>24, <1>0 DEF CleanupFailed, Advance, SetStatus, FailKeep
<1>25. CASE Release(t)
  BY <1>25, <1>0 DEF Release, Deleted, NextUnit
<1>26. CASE Settle(t)
  BY <1>26, <1>0 DEF Settle, Advance, SetStatus, FailKeep
<1>27. CASE ForceFinalizing(t)
  BY <1>27, <1>0 DEF ForceFinalizing, SetStatus
<1>28. CASE ForceTarget(t)
  BY <1>28, <1>0 DEF ForceTarget, SetStatus
<1>29. CASE Finally(t)
  BY <1>29, <1>0 DEF Finally
<1> QED
  BY <1>1, <1>2, <1>3, <1>4, <1>5, <1>6, <1>7, <1>8, <1>9, <1>10, <1>11, <1>12, <1>13, <1>14,
     <1>15, <1>16, <1>17, <1>18, <1>19, <1>20, <1>21, <1>22, <1>23, <1>24, <1>25, <1>26, <1>27,
        <1>28, <1>29 DEF Dispatch

(* ... and the Worker.                                                     *)
LEMMA WorkStageDispatch ==
    ASSUME TypeOK, NEW t \in Task, GangStage(t), Dispatch(t)
    PROVE  WorkStage(t)'
<1> USE DEF TypeOK, DispatchOK, LeasesOK, WorkerOK, Goto, GangStage, LoopStage, InLoop,
   WorkStage, Silent, Stopped, Ran, Waits, Taking, Unleased, Underway, Concluded, Units,
   workerVars
<1>0. /\ UnitCount[t] \in Nat /\ cur[t] \in 1 .. UnitCount[t] /\ cur[t] \in Unit
      /\ \A u \in Units(t) : u \in 1 .. UnitCount[t] /\ u \in Unit
      /\ 1 \in Units(t)
  BY UnitNumbers
<1>1. CASE CheckQueued(t)
  BY <1>1, <1>0 DEF CheckQueued, TaskTargets
<1>2. CASE WritePreparing(t)
  BY <1>2, <1>0 DEF WritePreparing, SetStatus
<1>3. CASE HoldCheck(t)
  BY <1>3, <1>0 DEF HoldCheck, FailRelease
<1>4. CASE Grab(t)
  BY <1>4, <1>0 DEF Grab
<1>5. CASE Register(t)
  BY <1>5, <1>0 DEF Register
<1>6. CASE PrepareOk(t)
  BY <1>6, PrepareOkWork
<1>7. CASE PrepareRejected(t)
  BY <1>7, <1>0 DEF PrepareRejected, FailRelease
<1>8. CASE PrepareRaised(t)
  BY <1>8, <1>0 DEF PrepareRaised, LostCall
<1>9. CASE Query(t)
  BY <1>9, <1>0 DEF Query, FailRelease, FailKeep
<1>10. CASE Commit(t)
  BY <1>10, <1>0 DEF Commit, NextUnit
<1>11. CASE Reserve(t)
  BY <1>11, <1>0 DEF Reserve, Advance, SetStatus, FailKeep
<1>12. CASE WritePlan(t)
  BY <1>12, <1>0 DEF WritePlan
<1>13. CASE PlanAck(t)
  BY <1>13, PlanAckWork
<1>14. CASE PlanFailed(t)
  BY <1>14, <1>0 DEF PlanFailed, LostCall, FailKeep
<1>15. CASE StartCheck(t)
  BY <1>15, <1>0 DEF StartCheck
<1>16. CASE Dispatched(t)
  BY <1>16, <1>0 DEF Dispatched, Advance, SetStatus, FailKeep
<1>17. CASE Starting(t)
  BY <1>17, <1>0 DEF Starting, Advance, SetStatus, FailKeep
<1>18. CASE Running(t)
  BY <1>18, <1>0 DEF Running, Advance, SetStatus, FailKeep
<1>19. CASE ExecuteCall(t)
  BY <1>19, <1>0 DEF ExecuteCall
<1>20. CASE ExecuteResult(t)
  BY <1>20, ExecuteResultWork
<1>21. CASE ExecuteRaised(t)
  BY <1>21, <1>0 DEF ExecuteRaised, FailKeep
<1>22. CASE EndCheck(t)
  BY <1>22, <1>0 DEF EndCheck
<1>23. CASE Finalize(t)
  BY <1>23, <1>0 DEF Finalize, Advance, SetStatus, FailKeep
<1>24. CASE CleanupFailed(t)
  BY <1>24, <1>0 DEF CleanupFailed, Advance, SetStatus, FailKeep
<1>25. CASE Release(t)
  BY <1>25, <1>0 DEF Release, Deleted, NextUnit
<1>26. CASE Settle(t)
  BY <1>26, <1>0 DEF Settle, Advance, SetStatus, FailKeep
<1>27. CASE ForceFinalizing(t)
  BY <1>27, <1>0 DEF ForceFinalizing, SetStatus
<1>28. CASE ForceTarget(t)
  BY <1>28, <1>0 DEF ForceTarget, SetStatus
<1>29. CASE Finally(t)
  BY <1>29, <1>0 DEF Finally
<1> QED
  BY <1>1, <1>2, <1>3, <1>4, <1>5, <1>6, <1>7, <1>8, <1>9, <1>10, <1>11, <1>12, <1>13, <1>14,
     <1>15, <1>16, <1>17, <1>18, <1>19, <1>20, <1>21, <1>22, <1>23, <1>24, <1>25, <1>26, <1>27,
        <1>28, <1>29 DEF Dispatch

(* The only step that starts a unit, ExecuteCall, comes after all units    *)
(* have been planned; no step before takes a plan or a lease away.         *)
LEMMA BarrierDispatch ==
    ASSUME TypeOK, NEW t \in Task, GangStage(t), Dispatch(t)
    PROVE  BarrierInv(t)'
<1> USE DEF TypeOK, DispatchOK, LeasesOK, WorkerOK, Goto, GangStage, BarrierInv, Started,
   Planned, LeaseStage, PlanStage, WorkStage, Silent, Stopped, Ran, Waits,
       Taking, Unleased, Underway, Concluded, Kept, Units, leaseVars, workerVars
<1>0. /\ UnitCount[t] \in Nat /\ cur[t] \in 1 .. UnitCount[t] /\ cur[t] \in Unit
      /\ \A u \in Units(t) : u \in 1 .. UnitCount[t] /\ u \in Unit
      /\ 1 \in Units(t)
  BY UnitNumbers
<1>1. CASE CheckQueued(t)
  BY <1>1, <1>0 DEF CheckQueued, TaskTargets
<1>2. CASE WritePreparing(t)
  BY <1>2, <1>0 DEF WritePreparing, SetStatus
<1>3. CASE HoldCheck(t)
  BY <1>3, <1>0 DEF HoldCheck, FailRelease
<1>4. CASE Grab(t)
  BY <1>4, <1>0 DEF Grab
<1>5. CASE Register(t)
  BY <1>5, <1>0 DEF Register
<1>6. CASE PrepareOk(t)
  BY <1>6, <1>0 DEF PrepareOk, NextUnit
<1>7. CASE PrepareRejected(t)
  BY <1>7, <1>0 DEF PrepareRejected, FailRelease
<1>8. CASE PrepareRaised(t)
  BY <1>8, <1>0 DEF PrepareRaised, LostCall
<1>9. CASE Query(t)
  BY <1>9, <1>0 DEF Query, FailRelease, FailKeep
<1>10. CASE Commit(t)
  BY <1>10, <1>0 DEF Commit, NextUnit
<1>11. CASE Reserve(t)
  BY <1>11, <1>0 DEF Reserve, Advance, SetStatus, FailKeep
<1>12. CASE WritePlan(t)
  BY <1>12, <1>0 DEF WritePlan
<1>13. CASE PlanAck(t)
  BY <1>13, <1>0 DEF PlanAck, NextUnit
<1>14. CASE PlanFailed(t)
  BY <1>14, <1>0 DEF PlanFailed, LostCall, FailKeep
<1>15. CASE StartCheck(t)
  BY <1>15, <1>0 DEF StartCheck
<1>16. CASE Dispatched(t)
  BY <1>16, <1>0 DEF Dispatched, Advance, SetStatus, FailKeep
<1>17. CASE Starting(t)
  BY <1>17, <1>0 DEF Starting, Advance, SetStatus, FailKeep
<1>18. CASE Running(t)
  BY <1>18, <1>0 DEF Running, Advance, SetStatus, FailKeep
<1>19. CASE ExecuteCall(t)
  <2>1. /\ pc[t] = "execute" /\ lease'[t] = lease[t] /\ plans'[t] = plans[t] /\ wrk'[t] = wrk[t]
    BY <1>19 DEF ExecuteCall
  <2>2. \A v \in Units(t) : lease[t][v] \in { "committed", "released" }
    BY <2>1
  <2>3. \A v \in Units(t) : v \in plans[t]
    BY <2>1
  <2>4. \A v \in Units(t) : wrk[t][v] \notin { "none", "prepared" }
    BY <2>1
  <2> QED BY <2>1, <2>2, <2>3, <2>4
<1>20. CASE ExecuteResult(t)
  BY <1>20, <1>0 DEF ExecuteResult, NextUnit
<1>21. CASE ExecuteRaised(t)
  BY <1>21, <1>0 DEF ExecuteRaised, FailKeep
<1>22. CASE EndCheck(t)
  BY <1>22, <1>0 DEF EndCheck
<1>23. CASE Finalize(t)
  BY <1>23, <1>0 DEF Finalize, Advance, SetStatus, FailKeep
<1>24. CASE CleanupFailed(t)
  BY <1>24, <1>0 DEF CleanupFailed, Advance, SetStatus, FailKeep
<1>25. CASE Release(t)
  BY <1>25, <1>0 DEF Release, Deleted, NextUnit
<1>26. CASE Settle(t)
  BY <1>26, <1>0 DEF Settle, Advance, SetStatus, FailKeep
<1>27. CASE ForceFinalizing(t)
  BY <1>27, <1>0 DEF ForceFinalizing, SetStatus
<1>28. CASE ForceTarget(t)
  BY <1>28, <1>0 DEF ForceTarget, SetStatus
<1>29. CASE Finally(t)
  BY <1>29, <1>0 DEF Finally
<1> QED
  BY <1>1, <1>2, <1>3, <1>4, <1>5, <1>6, <1>7, <1>8, <1>9, <1>10, <1>11, <1>12, <1>13, <1>14,
     <1>15, <1>16, <1>17, <1>18, <1>19, <1>20, <1>21, <1>22, <1>23, <1>24, <1>25, <1>26, <1>27,
        <1>28, <1>29 DEF Dispatch

(* A dispatch that has come far enough to be reconciled goes only further. *)
LEMMA ReconcileStageDispatch ==
    ASSUME TypeOK, NEW t \in Task, GangStage(t), Dispatch(t)
    PROVE  ReconcileStage(t)'
<1> USE DEF TypeOK, DispatchOK, LeasesOK, WorkerOK, Goto, GangStage, StatusOK, ReconcileStage,
   Late, Underway, Concluded, Unresolved, TaskTargets, statusVars
<1>0. /\ UnitCount[t] \in Nat /\ cur[t] \in 1 .. UnitCount[t] /\ cur[t] \in Unit
      /\ \A u \in Units(t) : u \in 1 .. UnitCount[t] /\ u \in Unit
      /\ 1 \in Units(t)
  BY UnitNumbers
<1>1. CASE CheckQueued(t)
  BY <1>1, <1>0 DEF CheckQueued, TaskTargets
<1>2. CASE WritePreparing(t)
  BY <1>2, <1>0 DEF WritePreparing, SetStatus
<1>3. CASE HoldCheck(t)
  BY <1>3, <1>0 DEF HoldCheck, FailRelease
<1>4. CASE Grab(t)
  BY <1>4, <1>0 DEF Grab
<1>5. CASE Register(t)
  BY <1>5, <1>0 DEF Register
<1>6. CASE PrepareOk(t)
  BY <1>6, <1>0 DEF PrepareOk, NextUnit
<1>7. CASE PrepareRejected(t)
  BY <1>7, <1>0 DEF PrepareRejected, FailRelease
<1>8. CASE PrepareRaised(t)
  BY <1>8, <1>0 DEF PrepareRaised, LostCall
<1>9. CASE Query(t)
  BY <1>9, <1>0 DEF Query, FailRelease, FailKeep
<1>10. CASE Commit(t)
  BY <1>10, <1>0 DEF Commit, NextUnit
<1>11. CASE Reserve(t)
  BY <1>11, <1>0 DEF Reserve, Advance, SetStatus, FailKeep
<1>12. CASE WritePlan(t)
  BY <1>12, <1>0 DEF WritePlan
<1>13. CASE PlanAck(t)
  BY <1>13, <1>0 DEF PlanAck, NextUnit
<1>14. CASE PlanFailed(t)
  BY <1>14, <1>0 DEF PlanFailed, LostCall, FailKeep
<1>15. CASE StartCheck(t)
  BY <1>15, <1>0 DEF StartCheck
<1>16. CASE Dispatched(t)
  BY <1>16, <1>0 DEF Dispatched, Advance, SetStatus, FailKeep
<1>17. CASE Starting(t)
  BY <1>17, <1>0 DEF Starting, Advance, SetStatus, FailKeep
<1>18. CASE Running(t)
  BY <1>18, <1>0 DEF Running, Advance, SetStatus, FailKeep
<1>19. CASE ExecuteCall(t)
  BY <1>19, <1>0 DEF ExecuteCall
<1>20. CASE ExecuteResult(t)
  BY <1>20, <1>0 DEF ExecuteResult, NextUnit
<1>21. CASE ExecuteRaised(t)
  BY <1>21, <1>0 DEF ExecuteRaised, FailKeep
<1>22. CASE EndCheck(t)
  BY <1>22, <1>0 DEF EndCheck
<1>23. CASE Finalize(t)
  BY <1>23, <1>0 DEF Finalize, Advance, SetStatus, FailKeep
<1>24. CASE CleanupFailed(t)
  BY <1>24, <1>0 DEF CleanupFailed, Advance, SetStatus, FailKeep
<1>25. CASE Release(t)
  BY <1>25, <1>0 DEF Release, Deleted, NextUnit
<1>26. CASE Settle(t)
  BY <1>26, <1>0 DEF Settle, Advance, SetStatus, FailKeep
<1>27. CASE ForceFinalizing(t)
  BY <1>27, <1>0 DEF ForceFinalizing, SetStatus
<1>28. CASE ForceTarget(t)
  BY <1>28, <1>0 DEF ForceTarget, SetStatus
<1>29. CASE Finally(t)
  BY <1>29, <1>0 DEF Finally
<1> QED
  BY <1>1, <1>2, <1>3, <1>4, <1>5, <1>6, <1>7, <1>8, <1>9, <1>10, <1>11, <1>12, <1>13, <1>14,
     <1>15, <1>16, <1>17, <1>18, <1>19, <1>20, <1>21, <1>22, <1>23, <1>24, <1>25, <1>26, <1>27,
        <1>28, <1>29 DEF Dispatch

(* What a reconciliation has been told of a unit stays true, and its plans *)
(* stay complete.                                                          *)
LEMMA AskStageDispatch ==
    ASSUME TypeOK, NEW t \in Task, GangStage(t), Dispatch(t)
    PROVE  AskStage(t)'
<1>0. /\ cur[t] \in Units(t) /\ Units(t) # {} /\ Units(t)' = Units(t)
      /\ \E V : wrk \in [Task -> [Unit -> V]]
  BY UnitNumbers DEF TypeOK, DispatchOK, WorkerOK, Units
<1> SUFFICES ASSUME NEW S \in SUBSET Unit, lock' = Asking(t, S)
             PROVE  /\ plans'[t] = Units(t) /\ (NotEarly => status'[t] \in Unresolved)
                    /\ \A u \in S : wrk'[t][u] \notin { "none", "prepared" }
  BY <1>0 DEF AskStage, Asking
<1>1. /\ plans[t] = Units(t) /\ (NotEarly => status[t] \in Unresolved)
      /\ \A u \in S : wrk[t][u] \notin { "none", "prepared" }
  BY DispatchLocal DEF GangStage, AskStage
<1>2. pc[t] \notin Taking \cup { "plan" }
  BY <1>0, <1>1, UnitNumbers DEF GangStage, PlanStage
<1>3. plans'[t] = plans[t]
  BY <1>2 DEF Dispatch, leaseVars, CheckQueued, WritePreparing, HoldCheck, Grab, Register,
     PrepareOk, PrepareRejected, PrepareRaised, Query, Commit, Reserve, WritePlan, PlanAck,
     PlanFailed, StartCheck, Dispatched, Starting, Running, ExecuteCall, ExecuteResult,
     ExecuteRaised, EndCheck, Finalize, CleanupFailed, Release, Settle, ForceFinalizing,
     ForceTarget, Finally, Advance, Goto
<1>4. wrk' = wrk \/ wrk' = [wrk EXCEPT ![t][cur[t]] = "planned"]
  BY <1>2 DEF Dispatch, workerVars, CheckQueued, WritePreparing, HoldCheck, Grab, Register,
     PrepareOk, PrepareRejected, PrepareRaised, Query, Commit, Reserve, WritePlan, PlanAck,
     PlanFailed, LostCall, StartCheck, Dispatched, Starting, Running, ExecuteCall, ExecuteResult,
     ExecuteRaised, EndCheck, Finalize, CleanupFailed, Release, Settle, ForceFinalizing,
     ForceTarget, Finally, Advance, NextUnit, Goto, Taking
<1>5. \A u \in S : wrk'[t][u] \notin { "none", "prepared" }
  BY <1>0, <1>1, <1>4
<1>6. ASSUME NotEarly
      PROVE  status' = status
  <2>1. pc[t] \in { "finally", "done" }
    BY <1>1, <1>6 DEF GangStage, ReconcileStage
  <2> QED BY <2>1 DEF Dispatch, statusVars, CheckQueued, WritePreparing, HoldCheck, FailRelease,
     Grab, Register, PrepareOk, PrepareRejected, PrepareRaised, Query, FailKeep, Commit, Reserve,
     WritePlan, PlanAck, PlanFailed, StartCheck, Dispatched, Starting, Running, ExecuteCall,
     ExecuteResult, ExecuteRaised, EndCheck, Finalize, CleanupFailed, Release, Settle,
     ForceFinalizing, ForceTarget, Finally, Advance, NextUnit, Goto
<1> QED BY <1>1, <1>3, <1>5, <1>6

LEMMA GangDispatch ==
    ASSUME GangInv, NEW t \in Task, Dispatch(t)
    PROVE  \A s \in Task : GangStage(s)'
<1>1. TypeOK /\ GangStage(t)
  BY DEF GangInv, QueueInv
<1>2. GangStage(t)'
  BY <1>1, LoopDispatch, LeaseStageDispatch, PlanStageDispatch, WorkStageDispatch,
     BarrierDispatch, AskStageDispatch, ReconcileStageDispatch DEF GangStage
<1>3. ASSUME NEW s \in Task, s # t
      PROVE  GangStage(s)'
  <2>1. Same(s) /\ DoneWith(s) /\ GangStage(s)
    BY <1>1, <1>3, DispatchLocal DEF GangInv, DoneWith
  <2> QED BY <2>1, StageKept
<1> QED BY <1>2, <1>3

(* What a Worker, or a cancel, may do to one unit.                         *)
Moves(t, u) ==
    \/ wrk'[t][u] = wrk[t][u] /\ inflight'[t][u] = inflight[t][u]
    \/ /\ inflight'[t][u] = "none"
       /\ \/ inflight[t][u] = "PREPARE" /\ wrk[t][u] = "none" /\ wrk'[t][u] = "prepared"
          \/ inflight[t][u] = "PLAN" /\ wrk[t][u] = "prepared" /\ wrk'[t][u] = "planned"
          \/ inflight[t][u] = "EXECUTE" /\ wrk[t][u] = "planned" /\ wrk'[t][u] = "launching"
    \/ /\ inflight'[t][u] = inflight[t][u]
       /\ \/ wrk[t][u] = "launching" /\ wrk'[t][u] \in { "running", "exited" }
          \/ wrk[t][u] = "running" /\ wrk'[t][u] = "exited"
WorkerMoves ==
    /\ UNCHANGED <<statusVars, lock, dispVars, leaseVars, queue>>
    /\ \A t \in Task, u \in Unit : Moves(t, u)

LEMMA WorkersMove ==
    ASSUME TypeOK, NEW t \in Task,
           CancelReply(t) \/ \E u \in Units(t) : WorkerStep(t, u)
    PROVE  WorkerMoves
<1>1. CASE CancelReply(t)
  <2>1. PICK S \in SUBSET { u \in calling[t] : wrk[t][u] = "running" } :
           wrk' = [wrk EXCEPT ![t] = [u \in Unit |-> IF u \in S THEN "exited" ELSE @[u]]]
    BY <1>1 DEF CancelReply
  <2>2. inflight' = inflight /\ \A s \in Task, u \in Unit : Moves(s, u)
    BY <1>1, <2>1 DEF CancelReply, Moves, TypeOK, WorkerOK
  <2> QED BY <1>1, <2>2 DEF CancelReply, WorkerMoves, queueVars
<1>2. ASSUME NEW u \in Units(t), WorkerStep(t, u)
      PROVE  WorkerMoves
  <2>0. u \in Unit
    BY UnitsAreUnits
  <2>1. CASE Deliver(t, u)
    BY <2>0, <2>1 DEF Deliver, WorkerMoves, Moves, TypeOK, WorkerOK, queueVars
  <2>2. CASE Launch(t, u)
    BY <2>0, <2>2 DEF Launch, WorkerMoves, Moves, TypeOK, WorkerOK, queueVars
  <2>3. CASE Exit(t, u)
    BY <2>0, <2>3 DEF Exit, WorkerMoves, Moves, TypeOK, WorkerOK, queueVars
  <2> QED BY <1>2, <2>1, <2>2, <2>3 DEF WorkerStep
<1> QED BY <1>1, <1>2

(* A Worker that does what it was asked for stays within what the dispatch *)
(* expects of it.                                                          *)
LEMMA GangWorker ==
    ASSUME TypeOK, NEW t \in Task, GangStage(t), WorkerMoves
    PROVE  GangStage(t)'
<1> USE DEF GangStage, WorkerMoves, statusVars, dispVars, leaseVars
<1>1. LoopStage(t)'
  BY DEF LoopStage
<1>2. LeaseStage(t)'
  BY DEF LeaseStage, HoldsLease, Leased, Units
<1>3. PlanStage(t)'
  BY DEF PlanStage, Units
<1>4. WorkStage(t)'
  <2>1. \A u \in Unit : Moves(t, u)
    OBVIOUS
  <2>2. ASSUME NEW u \in Unit
        PROVE  /\ Stopped(t, u) => Stopped(t, u)'
               /\ Waits(t, u) => Waits(t, u)'
               /\ \A w \in { "none", "prepared", "planned" } : Silent(t, u, w) => Silent(t, u, w)'
    BY <2>1 DEF Moves, Stopped, Ran, Waits, Silent
  <2>3. Units(t) \subseteq Unit
    BY UnitsAreUnits
  <2> QED BY <2>1, <2>2, <2>3 DEF WorkStage, Silent, Moves, Units
<1>5. BarrierInv(t)'
  <2>1. \A u \in Units(t) : Moves(t, u)
    BY UnitsAreUnits
  <2> QED BY <2>1 DEF BarrierInv, Started, Planned, Moves, Units
<1>6. AskStage(t)'
  <2>1. \A u \in Unit : Moves(t, u)
    OBVIOUS
  <2> QED BY <2>1 DEF AskStage, Asking, Moves, Units
<1>7. ReconcileStage(t)'
  BY DEF ReconcileStage
<1> QED BY <1>1, <1>2, <1>3, <1>4, <1>5, <1>6, <1>7

(* A tick claims a Task that is idle and removes others from the queue.    *)
LEMMA GangTick ==
    ASSUME GangInv, NEW k \in Ticker, TickIdle(k) \/ \E t \in Task : TickClaim(k, t)
    PROVE  \A s \in Task : GangStage(s)'
<1> USE DEF GangInv, QueueInv
<1>1. ASSUME NEW E \in SUBSET queue, Expire(E)
      PROVE  \A s \in Task : status'[s] = status[s] \/ (pc[s] = "idle" /\ status'[s] = "BLOCKED")
  BY <1>1 DEF Expire, DispatchesMatch
<1>2. ASSUME NEW S \in SUBSET queue
      PROVE  Overdue(S) \in SUBSET queue
  BY DEF Overdue
<1>3. /\ UNCHANGED <<lock, cur, verdict, unclean, lease, plans, wrk, inflight>>
      /\ \A s \in Task : pc'[s] = pc[s] \/ (pc[s] = "idle" /\ pc'[s] = "claimed")
  BY ZenonT(40) DEF TickIdle, TickClaim, dispVars, leaseVars, workerVars, DispatchesMatch, TypeOK,
     DispatchOK
<1>4. \A s \in Task : status'[s] = status[s] \/ (pc[s] = "idle" /\ status'[s] = "BLOCKED")
  <2>1. CASE TickIdle(k)
    BY <1>1, <1>2, <2>1 DEF TickIdle
  <2>2. ASSUME NEW t \in Task, TickClaim(k, t)
        PROVE  \E E \in SUBSET queue : Expire(E)
    <3>1. Overdue({ s \in queue : Before(s, t) }) \in SUBSET queue
      BY <1>2
    <3> QED BY <2>2, <3>1 DEF TickClaim
  <2> QED BY <1>1, <2>1, <2>2
<1> SUFFICES ASSUME NEW s \in Task PROVE GangStage(s)'
  OBVIOUS
<1> USE <1>3, <1>4 DEF GangStage
<1>5. LoopStage(s)'
  BY DEF LoopStage, InLoop
<1>6. LeaseStage(s)'
  BY DEF LeaseStage, HoldsLease, Leased, Units, Unleased, Taking, Underway
<1>7. PlanStage(s)'
  BY DEF PlanStage, Units, Unleased, Taking, Underway, Concluded
<1>8. WorkStage(s)'
  BY DEF WorkStage, Silent, Stopped, Ran, Waits, Units, Unleased, Taking, Underway, Concluded
<1>9. BarrierInv(s)'
  BY DEF BarrierInv, Started, Planned, Units
<1>10. AskStage(s)'
  <2>1. Units(s) # {} /\ (pc[s] = "idle" => plans[s] = {})
    BY UnitNumbers DEF PlanStage, Unleased
  <2> QED BY <2>1 DEF AskStage, Asking, Units
<1>11. ReconcileStage(s)'
  BY DEF ReconcileStage, Unresolved, Late, Underway, Concluded
<1> QED BY <1>5, <1>6, <1>7, <1>8, <1>9, <1>10, <1>11

(* A cancel takes a Task off the queue, records a request or stops what    *)
(* runs; it never touches a lease or a plan.                               *)
LEMMA GangCancel ==
    ASSUME GangInv, NEW t \in Task,
           CancelQueued(t) \/ CancelWrite(t) \/ CancelAbort(t) \/ CancelRequest(t) \/ CancelReply(t)
    PROVE  \A s \in Task : GangStage(s)'
<1> USE DEF GangInv, QueueInv
<1>1. CASE CancelQueued(t) \/ CancelAbort(t) \/ CancelRequest(t)
  <2>1. \A s \in Task : Same(s) /\ DoneWith(s)
    BY <1>1 DEF CancelQueued, CancelAbort, CancelRequest, Same, DoneWith, Asking, statusVars,
       dispVars, leaseVars, workerVars
  <2> QED BY <2>1, StageKept
<1>2. CASE CancelWrite(t)
  <2>1. \A s \in Task : s # t => Same(s) /\ DoneWith(s)
    BY <1>2 DEF CancelWrite, SetStatus, TypeOK, StatusOK, Same, DoneWith, Asking, dispVars,
       leaseVars, workerVars
  <2>2. /\ UNCHANGED <<dispVars, leaseVars, workerVars>>
        /\ status'[t] = "CANCELLED" /\ lock' = [op |-> "free", task |-> NoTask]
    BY <1>2 DEF CancelWrite, SetStatus, TypeOK, StatusOK
  <2>3. AskStage(t)' /\ ReconcileStage(t)'
    BY <2>2 DEF AskStage, Asking, ReconcileStage, Unresolved
  <2>4. GangStage(t)'
    <3> USE <2>2 DEF GangStage, dispVars, leaseVars, workerVars
    <3>1. LoopStage(t)'
      BY DEF LoopStage
    <3>2. LeaseStage(t)' /\ PlanStage(t)'
      BY DEF LeaseStage, PlanStage, HoldsLease, Leased, Units
    <3>3. WorkStage(t)' /\ BarrierInv(t)'
      BY DEF WorkStage, Silent, Stopped, Ran, Waits, BarrierInv, Started, Planned, Units
    <3> QED BY <2>3, <3>1, <3>2, <3>3
  <2> QED BY <2>1, <2>4, StageKept
<1>3. CASE CancelReply(t)
  BY <1>3, WorkersMove, GangWorker
<1> QED BY <1>1, <1>2, <1>3

(* A reconciliation releases leases only after the loops that take and     *)
(* plan them: all units have a plan and the last one asked, too, is past   *)
(* PREPARED.                                                               *)
LEMMA ReconcileComesLate ==
    ASSUME TypeOK, NEW t \in Task, GangStage(t), NEW S \in SUBSET Units(t), NEW v \in Units(t),
           lock = Asking(t, S), S \cup {v} = Units(t), Safe(t, v)
    PROVE  pc[t] \in Late /\ (NotEarly => status[t] \in Unresolved)
<1>1. /\ S \in SUBSET Unit /\ 1 \in Units(t) /\ cur[t] \in Units(t)
  BY UnitNumbers, UnitsAreUnits DEF TypeOK, DispatchOK
<1>2. /\ plans[t] = Units(t) /\ (NotEarly => status[t] \in Unresolved)
      /\ \A u \in Units(t) : wrk[t][u] # "prepared"
  BY <1>1 DEF GangStage, AskStage, Safe
<1>3. pc[t] \notin Unleased \cup Taking \cup { "commit", "reserve", "fail_release" }
  BY <1>1, <1>2 DEF GangStage, PlanStage
<1>4. pc[t] # "plan"
  BY <1>1, <1>2, UnitNumbers DEF GangStage, PlanStage
<1>5. pc[t] # "ack"
  BY <1>1, <1>2, UnitNumbers DEF GangStage, WorkStage, Silent
<1>6. pc[t] \in Stage
  BY DEF TypeOK, DispatchOK
<1> QED BY <1>2, <1>3, <1>4, <1>5, <1>6 DEF Stage, Late, Unleased, Taking, Underway, Concluded

(* The units are asked one after the other.                                *)
LEMMA GangAsk ==
    ASSUME TypeOK, NEW t \in Task, GangStage(t), ReconcileAsk(t)
    PROVE  AskStage(t)' /\ ReconcileStage(t)'
<1>0. /\ UNCHANGED <<status, pc, plans, wrk>> /\ Units(t)' = Units(t)
      /\ Units(t) \subseteq Unit
  BY UnitsAreUnits DEF ReconcileAsk, statusVars, dispVars, leaseVars, workerVars, Units
<1>1. CASE ReconcileBegins(t)
  BY <1>0, <1>1 DEF ReconcileBegins, MayReconcile, NotEarly, Unresolved, GangStage, AskStage,
     Asking, ReconcileStage
<1>2. CASE ReconcileSafe(t)
  <2>1. PICK S \in SUBSET Units(t), u \in Units(t) :
           /\ lock = Asking(t, S) /\ Safe(t, u)
           /\ lock' = IF S \cup {u} = Units(t) THEN [op |-> "reconcile", task |-> t]
                                              ELSE Asking(t, S \cup {u})
    BY <1>2 DEF ReconcileSafe
  <2>2. CASE S \cup {u} = Units(t)
    BY <1>0, <2>1, <2>2, ReconcileComesLate DEF GangStage, AskStage, Asking, ReconcileStage
  <2>3. CASE S \cup {u} # Units(t)
    <3>1. lock' = Asking(t, S \cup {u}) /\ S \in SUBSET Unit /\ u \in Unit
      BY <1>0, <2>1, <2>3
    <3>2. \A R \in SUBSET Unit : lock' = Asking(t, R) => R = S \cup {u}
      BY <3>1 DEF Asking
    <3>3. AskStage(t)'
      BY <1>0, <2>1, <3>1, <3>2 DEF GangStage, AskStage, Asking, Safe
    <3>4. ReconcileStage(t)'
      BY <1>0, <3>1 DEF GangStage, ReconcileStage, Asking
    <3> QED BY <3>3, <3>4
  <2> QED BY <2>2, <2>3
<1>3. CASE ReconcileRefused(t)
  BY <1>0, <1>3 DEF ReconcileRefused, GangStage, AskStage, Asking, ReconcileStage
<1> QED BY <1>1, <1>2, <1>3 DEF ReconcileAsk

LEMMA GangReconcile ==
    ASSUME GangInv, NEW t \in Task,
           ReconcileAsk(t) \/ ReconcileRelease(t) \/ ReconcileResolve(t)
    PROVE  \A s \in Task : GangStage(s)'
<1> USE DEF GangInv, QueueInv
<1>0. UNCHANGED <<dispVars, workerVars, plans>> /\ GangStage(t)
  BY DEF ReconcileAsk, ReconcileRelease, ReconcileResolve, leaseVars
<1>1. \A s \in Task : s # t => Same(s) /\ DoneWith(s)
  <2>1. \A s \in Task : s # t => DoneWith(s)
    <3>1. CASE ReconcileAsk(t)
      BY <3>1 DEF ReconcileAsk, ReconcileBegins, ReconcileSafe, ReconcileRefused, DoneWith, Asking
    <3>2. CASE ReconcileRelease(t) \/ ReconcileResolve(t)
      BY <3>2 DEF ReconcileRelease, ReconcileResolve, DoneWith, Asking
    <3> QED BY <3>1, <3>2
  <2>2. \A s \in Task : s # t => Same(s)
    BY DEF ReconcileAsk, ReconcileRelease, ReconcileResolve, Same, statusVars, dispVars,
       leaseVars, workerVars, TypeOK, StatusOK, LeasesOK
  <2> QED BY <2>1, <2>2
<1>2. CASE ReconcileAsk(t)
  <2>1. AskStage(t)' /\ ReconcileStage(t)'
    BY <1>0, <1>2, GangAsk
  <2>2. LoopStage(t)' /\ LeaseStage(t)' /\ PlanStage(t)'
    BY <1>0, <1>2 DEF ReconcileAsk, GangStage, LoopStage, LeaseStage, PlanStage, HoldsLease,
       Leased, Units, statusVars, dispVars, leaseVars
  <2>3. WorkStage(t)' /\ BarrierInv(t)'
    BY <1>0, <1>2 DEF ReconcileAsk, GangStage, WorkStage, Silent, Stopped, Ran, Waits,
       BarrierInv, Started, Planned, Units, dispVars, leaseVars, workerVars
  <2>4. GangStage(t)'
    BY <2>1, <2>2, <2>3 DEF GangStage
  <2> QED BY <1>1, <2>4, StageKept
<1>3. CASE ReconcileRelease(t)
  <2>1. /\ lock = [op |-> "reconcile", task |-> t] /\ pc[t] \in Late
        /\ NotEarly => pc[t] \in { "finally", "done" }
    BY <1>0, <1>3 DEF ReconcileRelease, GangStage, ReconcileStage
  <2>2. PICK u \in Units(t) : Leased(t, u) /\ lease' = [lease EXCEPT ![t][u] = "released"]
    BY <1>3 DEF ReconcileRelease
  <2>3. \A v \in Unit : lease'[t][v] = IF v = u THEN "released" ELSE lease[t][v]
    BY <2>2, UnitsAreUnits DEF TypeOK, LeasesOK
  <2>4. \A v \in Units(t) : v \in Unit /\ (Leased(t, v)' => Leased(t, v))
    BY <2>3, UnitsAreUnits DEF Leased
  <2>5. LeaseStage(t)'
    <3>1. \A v \in Unit \ Units(t) : lease'[t][v] = "none"
      BY <1>0, <2>3 DEF GangStage, LeaseStage
    <3>2. HoldsLease(t)' => HoldsLease(t)
      BY <2>4 DEF HoldsLease, Units
    <3> QED BY <1>0, <2>1, <2>3, <2>4, <3>1, <3>2 DEF GangStage, LeaseStage, Late, NotEarly,
       Kept, Unleased,
               Taking, Underway, Concluded, Units, dispVars
  <2>6. LoopStage(t)' /\ PlanStage(t)'
    BY <1>0 DEF GangStage, LoopStage, PlanStage, Units, dispVars
  <2>7. WorkStage(t)'
    BY <1>0 DEF GangStage, WorkStage, Silent, Stopped, Ran, Waits, Units, dispVars, workerVars
  <2>8. BarrierInv(t)'
    BY <1>0, <2>3, <2>4 DEF GangStage, BarrierInv, Started, Planned, Units, workerVars
  <2>9. AskStage(t)' /\ ReconcileStage(t)'
    BY <1>0, <1>3 DEF ReconcileRelease, GangStage, AskStage, Asking, ReconcileStage, statusVars,
       dispVars
  <2>10. GangStage(t)'
    BY <2>5, <2>6, <2>7, <2>8, <2>9 DEF GangStage
  <2> QED BY <1>1, <2>10, StageKept
<1>4. CASE ReconcileResolve(t)
  <2>1. AskStage(t)' /\ ReconcileStage(t)'
    BY <1>0, <1>4 DEF ReconcileResolve, Reconciled, GangStage, AskStage, Asking, ReconcileStage,
       Unresolved, dispVars, TypeOK, StatusOK
  <2>2. LoopStage(t)' /\ LeaseStage(t)' /\ PlanStage(t)'
    BY <1>0, <1>4 DEF ReconcileResolve, GangStage, LoopStage, LeaseStage, PlanStage, HoldsLease,
       Leased, Units, dispVars, leaseVars
  <2>3. WorkStage(t)' /\ BarrierInv(t)'
    BY <1>0, <1>4 DEF ReconcileResolve, GangStage, WorkStage, Silent, Stopped, Ran, Waits,
       BarrierInv,
       Started, Planned, Units, dispVars, leaseVars, workerVars
  <2>4. GangStage(t)'
    BY <2>1, <2>2, <2>3 DEF GangStage
  <2> QED BY <1>1, <2>4, StageKept
<1> QED BY <1>2, <1>3, <1>4

(* A restart ends every dispatch where it is.                              *)
LEMMA GangCrash ==
    ASSUME GangInv, Crash, NEW t \in Task
    PROVE  GangStage(t)'
<1> USE DEF GangInv, QueueInv
<1>1. /\ UNCHANGED <<leaseVars, workerVars>> /\ cur'[t] = 1
      /\ pc'[t] \in { "idle", "done" } /\ (pc'[t] = "idle" => pc[t] \in Unleased)
      /\ lock' = [op |-> "free", task |-> NoTask]
      /\ status'[t] \in Unresolved => pc'[t] = "done"
      /\ GangStage(t)
  BY DEF Crash, DispatchesMatch, Waiting, RestartStatus, Unresolved, ActiveStates
<1>2. LoopStage(t)' /\ LeaseStage(t)' /\ PlanStage(t)'
  BY <1>1 DEF GangStage, LoopStage, LeaseStage, PlanStage, Unleased, Taking, Underway,
     Concluded,
     Units, leaseVars
<1>3. WorkStage(t)' /\ BarrierInv(t)'
  BY <1>1 DEF GangStage, WorkStage, Silent, Unleased, Taking, Underway, Concluded, BarrierInv,
     Started,
     Planned, Units, leaseVars, workerVars
<1>4. AskStage(t)' /\ ReconcileStage(t)'
  BY <1>1 DEF AskStage, Asking, ReconcileStage
<1> QED BY <1>2, <1>3, <1>4 DEF GangStage

LEMMA GangInit == Init => GangInv
<1> SUFFICES ASSUME Init, NEW t \in Task PROVE GangStage(t)
  BY QueueInit DEF GangInv
<1>1. LoopStage(t) /\ LeaseStage(t) /\ PlanStage(t)
  BY UnitsAreUnits DEF Init, LoopStage, LeaseStage, PlanStage, Unleased, Taking, Underway,
     Concluded
<1>2. WorkStage(t) /\ BarrierInv(t)
  BY UnitsAreUnits DEF Init, WorkStage, Silent, Unleased, Taking, Underway, Concluded,
     BarrierInv, Started
<1>3. AskStage(t) /\ ReconcileStage(t)
  BY DEF Init, AskStage, Asking, ReconcileStage, Unresolved
<1> QED BY <1>1, <1>2, <1>3 DEF GangStage

LEMMA GangNext == GangInv /\ [Next]_vars => GangInv'
<1> SUFFICES ASSUME GangInv, [Next]_vars PROVE \A s \in Task : GangStage(s)'
  BY QueueNext DEF GangInv
<1>1. ASSUME UNCHANGED <<statusVars, lock, dispVars, leaseVars, workerVars>>
      PROVE  \A s \in Task : GangStage(s)'
  BY <1>1, StageKept DEF GangInv, Same, DoneWith, statusVars, dispVars, leaseVars, workerVars
<1>2. ASSUME NEW t \in Task, Enqueue(t)
      PROVE  \A s \in Task : GangStage(s)'
  <2>1. \A s \in Task : s # t => Same(s) /\ DoneWith(s)
    BY <1>2 DEF Enqueue, Same, DoneWith, dispVars, leaseVars, workerVars, GangInv, QueueInv,
       TypeOK, StatusOK
  <2>2. GangStage(t)'
    <3>1. /\ UNCHANGED <<lock, dispVars, leaseVars, workerVars>> /\ GangStage(t) /\ lock.op = "free"
          /\ status'[t] = "QUEUED"
      BY <1>2 DEF Enqueue, Free, GangInv, QueueInv, TypeOK, StatusOK
    <3> USE <3>1 DEF GangStage, dispVars, leaseVars, workerVars
    <3>2. LoopStage(t)' /\ LeaseStage(t)' /\ PlanStage(t)'
      BY DEF LoopStage, LeaseStage, PlanStage, HoldsLease, Leased, Units
    <3>3. WorkStage(t)' /\ BarrierInv(t)'
      BY DEF WorkStage, Silent, Stopped, Ran, Waits, BarrierInv, Started, Planned, Units
    <3>4. AskStage(t)' /\ ReconcileStage(t)'
      BY DEF AskStage, Asking, ReconcileStage, Unresolved
    <3> QED BY <3>2, <3>3, <3>4
  <2> QED BY <2>1, <2>2, StageKept DEF GangInv
<1>3. ASSUME NEW t \in Task, NEW u \in Units(t), WorkerStep(t, u)
      PROVE  \A s \in Task : GangStage(s)'
  BY <1>3, WorkersMove, GangWorker DEF GangInv, QueueInv
<1>4. ASSUME NEW w \in Worker, NEW S \in SUBSET Gpu, RegisterWorker(w, S)
      PROVE  \A s \in Task : GangStage(s)'
  BY <1>1, <1>4 DEF RegisterWorker
<1>5. ASSUME NEW t \in Task, Wait(t)
      PROVE  \A s \in Task : GangStage(s)'
  BY <1>1, <1>5 DEF Wait
<1>6. CASE UNCHANGED vars
  BY <1>1, <1>6 DEF vars
<1> QED BY <1>2, <1>3, <1>4, <1>5, <1>6, GangDispatch, GangTick, GangCancel, GangReconcile,
   GangCrash DEF Next

(* No unit of a Task is started before all of its units have acknowledged  *)
(* their plans under committed leases: for every gang, whatever calls are  *)
(* lost, refused, cancelled or reconciled, and across restarts.            *)
THEOREM BarrierHolds == Spec => []BarrierBeforeStart
<1>1. GangInv => BarrierBeforeStart
  BY DEF GangInv, GangStage, BarrierInv, Started, Planned, BarrierBeforeStart
<1> QED BY <1>1, GangInit, GangNext, PTL DEF Spec

(* A dispatching thread only asks a Worker for what comes next.            *)
Forward(t, u) == Progress(wrk'[t][u]) >= Progress(wrk[t][u])

LEMMA ForwardDispatch ==
    ASSUME GangInv, NEW t \in Task, Dispatch(t), NEW s \in Task, NEW u \in Unit
    PROVE  Forward(s, u)
<1>0. /\ TypeOK /\ GangStage(t) /\ cur[t] \in Units(t) /\ cur[t] \in Unit
      /\ \E V : wrk \in [Task -> [Unit -> V]]
      /\ wrk[s][u] \in { "none", "prepared", "planned", "launching", "running", "exited" }
  BY UnitNumbers DEF GangInv, QueueInv, TypeOK, DispatchOK, WorkerOK
<1>1. CASE PrepareOk(t) \/ PrepareRaised(t)
  <2>1. pc[t] = "prepare"
    BY <1>1 DEF PrepareOk, PrepareRaised, NextUnit, Goto
  <2>2. wrk[t][cur[t]] = "none"
    BY <1>0, <2>1, UnitNumbers DEF GangStage, WorkStage, Taking, Silent
  <2>3. wrk' = wrk \/ wrk' = [wrk EXCEPT ![t][cur[t]] = "prepared"]
    BY <1>1 DEF PrepareOk, PrepareRaised, LostCall
  <2>4. wrk'[s][u] = wrk[s][u] \/ (wrk[s][u] = "none" /\ wrk'[s][u] = "prepared")
    BY <1>0, <2>2, <2>3
  <2> QED BY <1>0, <2>4 DEF Forward, Progress
<1>2. CASE PlanAck(t) \/ PlanFailed(t)
  <2>1. pc[t] = "ack"
    BY <1>2 DEF PlanAck, PlanFailed, NextUnit, FailKeep, Goto
  <2>2. wrk[t][cur[t]] = "prepared"
    BY <1>0, <2>1, UnitNumbers DEF GangStage, WorkStage, Silent
  <2>3. wrk' = wrk \/ wrk' = [wrk EXCEPT ![t][cur[t]] = "planned"]
    BY <1>2 DEF PlanAck, PlanFailed, LostCall
  <2>4. wrk'[s][u] = wrk[s][u] \/ (wrk[s][u] = "prepared" /\ wrk'[s][u] = "planned")
    BY <1>0, <2>2, <2>3
  <2> QED BY <1>0, <2>4 DEF Forward, Progress
<1>3. CASE wrk' = wrk
  BY <1>0, <1>3 DEF Forward, Progress
<1>4. wrk' = wrk \/ PrepareOk(t) \/ PrepareRaised(t) \/ PlanAck(t) \/ PlanFailed(t)
  BY DEF Dispatch, workerVars, CheckQueued, WritePreparing, HoldCheck, Grab, Register,
     PrepareRejected, Query, Commit, Reserve, WritePlan, StartCheck, Dispatched, Starting,
     Running, ExecuteCall, ExecuteResult, ExecuteRaised, EndCheck, Finalize, CleanupFailed,
     Release, Settle, ForceFinalizing, ForceTarget, Finally, Advance
<1> QED BY <1>1, <1>2, <1>3, <1>4

LEMMA ForwardNext ==
    ASSUME GangInv, [Next]_vars, NEW s \in Task, NEW u \in Unit
    PROVE  Forward(s, u)
<1>0. wrk[s][u] \in { "none", "prepared", "planned", "launching", "running", "exited" }
  BY DEF GangInv, QueueInv, TypeOK, WorkerOK
<1>1. CASE wrk' = wrk
  BY <1>0, <1>1 DEF Forward, Progress
<1>2. CASE WorkerMoves
  BY <1>0, <1>2 DEF WorkerMoves, Moves, Forward, Progress
<1>3. \/ wrk' = wrk \/ \E t \in Task : Dispatch(t)
      \/ \E t \in Task : CancelReply(t) \/ \E v \in Units(t) : WorkerStep(t, v)
  BY DEF Next, vars, workerVars, RegisterWorker, TickIdle, TickClaim, Enqueue, Wait,
     CancelQueued,
     CancelWrite, CancelAbort, CancelRequest, ReconcileAsk, ReconcileRelease, ReconcileResolve,
     Crash
<1> QED BY <1>1, <1>2, <1>3, ForwardDispatch, WorkersMove DEF GangInv, QueueInv

(* A unit is executed at most once: no step, of whatever thread, makes a   *)
(* Worker do again what it has done, not even after a restart.             *)
THEOREM AtMostOnce == Spec => NoReexecution
<1>1. GangInv /\ [Next]_vars =>
        [\A t \in Task, u \in Unit : Progress(wrk'[t][u]) >= Progress(wrk[t][u])]_vars
  BY ForwardNext DEF Forward
<1> QED BY <1>1, GangInit, GangNext, PTL DEF Spec, NoReexecution
-----------------------------------------------------------------------------
(* A lease is released only when no unit runs or may still be told to.     *)
LEMMA RunDispatch ==
    ASSUME NoReconcile, TypeOK, NEW t \in Task, GangStage(t), RunInv(t), Dispatch(t)
    PROVE  RunInv(t)'
<1> USE DEF NoReconcile, TypeOK, DispatchOK, LeasesOK, WorkerOK, Goto, GangStage, RunInv,
   LeaseStage,
       WorkStage, Silent, Stopped, Ran, Waits, Taking, Unleased, Underway, Concluded, Kept,
       Units,
       leaseVars, workerVars
<1>0. /\ UnitCount[t] \in Nat /\ cur[t] \in 1 .. UnitCount[t] /\ cur[t] \in Unit
      /\ \A u \in Units(t) : u \in 1 .. UnitCount[t] /\ u \in Unit
      /\ 1 \in Units(t)
  BY UnitNumbers
<1>1. CASE CheckQueued(t)
  BY <1>1, <1>0 DEF CheckQueued, TaskTargets
<1>2. CASE WritePreparing(t)
  BY <1>2, <1>0 DEF WritePreparing, SetStatus
<1>3. CASE HoldCheck(t)
  BY <1>3, <1>0 DEF HoldCheck, FailRelease
<1>4. CASE Grab(t)
  BY <1>4, <1>0 DEF Grab
<1>5. CASE Register(t)
  BY <1>5, <1>0 DEF Register
<1>6. CASE PrepareOk(t)
  BY <1>6, <1>0 DEF PrepareOk, NextUnit
<1>7. CASE PrepareRejected(t)
  BY <1>7, <1>0 DEF PrepareRejected, FailRelease
<1>8. CASE PrepareRaised(t)
  BY <1>8, <1>0 DEF PrepareRaised, LostCall
<1>9. CASE Query(t)
  BY <1>9, <1>0 DEF Query, FailRelease, FailKeep
<1>10. CASE Commit(t)
  BY <1>10, <1>0 DEF Commit, NextUnit
<1>11. CASE Reserve(t)
  BY <1>11, <1>0 DEF Reserve, Advance, SetStatus, FailKeep
<1>12. CASE WritePlan(t)
  BY <1>12, <1>0 DEF WritePlan
<1>13. CASE PlanAck(t)
  BY <1>13, <1>0 DEF PlanAck, NextUnit
<1>14. CASE PlanFailed(t)
  BY <1>14, <1>0 DEF PlanFailed, LostCall, FailKeep
<1>15. CASE StartCheck(t)
  BY <1>15, <1>0 DEF StartCheck
<1>16. CASE Dispatched(t)
  BY <1>16, <1>0 DEF Dispatched, Advance, SetStatus, FailKeep
<1>17. CASE Starting(t)
  BY <1>17, <1>0 DEF Starting, Advance, SetStatus, FailKeep
<1>18. CASE Running(t)
  BY <1>18, <1>0 DEF Running, Advance, SetStatus, FailKeep
<1>19. CASE ExecuteCall(t)
  BY <1>19, <1>0 DEF ExecuteCall
<1>20. CASE ExecuteResult(t)
  BY <1>20, <1>0 DEF ExecuteResult, NextUnit
<1>21. CASE ExecuteRaised(t)
  BY <1>21, <1>0 DEF ExecuteRaised, FailKeep
<1>22. CASE EndCheck(t)
  BY <1>22, <1>0 DEF EndCheck
<1>23. CASE Finalize(t)
  BY <1>23, <1>0 DEF Finalize, Advance, SetStatus, FailKeep
<1>24. CASE CleanupFailed(t)
  BY <1>24, <1>0 DEF CleanupFailed, Advance, SetStatus, FailKeep
<1>25. CASE Release(t)
  BY <1>25, <1>0 DEF Release, Deleted, NextUnit
<1>26. CASE Settle(t)
  BY <1>26, <1>0 DEF Settle, Advance, SetStatus, FailKeep
<1>27. CASE ForceFinalizing(t)
  BY <1>27, <1>0 DEF ForceFinalizing, SetStatus
<1>28. CASE ForceTarget(t)
  BY <1>28, <1>0 DEF ForceTarget, SetStatus
<1>29. CASE Finally(t)
  BY <1>29, <1>0 DEF Finally
<1> QED
  BY <1>1, <1>2, <1>3, <1>4, <1>5, <1>6, <1>7, <1>8, <1>9, <1>10, <1>11, <1>12, <1>13, <1>14,
     <1>15, <1>16, <1>17, <1>18, <1>19, <1>20, <1>21, <1>22, <1>23, <1>24, <1>25, <1>26, <1>27,
        <1>28, <1>29 DEF Dispatch

LEMMA RunNext ==
    ASSUME NoReconcile, GangInv, \A t \in Task : RunInv(t), [Next]_vars, NEW s \in Task
    PROVE  RunInv(s)'
<1> USE DEF GangInv, QueueInv
<1>1. ASSUME \/ lock' = lock
             \/ lock' = [op |-> "free", task |-> NoTask]
             \/ \E t \in Task : lock' = [op |-> "cancel", task |-> t],
             UNCHANGED <<lease, wrk, inflight>>
      PROVE  RunInv(s)'
  BY <1>1 DEF RunInv, Units, Asking
<1>2. ASSUME NEW t \in Task, Dispatch(t)
      PROVE  RunInv(s)'
  <2>1. CASE s = t
    BY <1>2, <2>1, RunDispatch
  <2>2. CASE s # t
    BY <1>2, <2>2, DispatchLocal DEF Same, RunInv, Units, Asking
  <2> QED BY <2>1, <2>2
<1>3. CASE WorkerMoves
  <2>1. \A u \in Units(s) : Moves(s, u)
    BY <1>3, UnitsAreUnits DEF WorkerMoves
  <2> QED BY <1>3, <2>1 DEF WorkerMoves, Moves, RunInv, Units, Asking, leaseVars
<1>4. ASSUME NEW t \in Task, ReconcileAsk(t) \/ ReconcileRelease(t) \/ ReconcileResolve(t)
      PROVE  FALSE
  <2>1. ~ReconcileBegins(t)
    BY DEF NoReconcile, ReconcileBegins, MayReconcile
  <2>2. ~ReconcileSafe(t) /\ ~ReconcileRefused(t)
    BY UnitsAreUnits DEF ReconcileSafe, ReconcileRefused, RunInv
  <2>3. ~ReconcileRelease(t) /\ ~ReconcileResolve(t)
    BY DEF ReconcileRelease, ReconcileResolve, RunInv
  <2> QED BY <1>4, <2>1, <2>2, <2>3 DEF ReconcileAsk
<1>5. \/ UNCHANGED <<lease, wrk, inflight>>
      \/ \E t \in Task : Dispatch(t)
      \/ \E t \in Task : CancelReply(t) \/ \E u \in Units(t) : WorkerStep(t, u)
      \/ \E t \in Task : ReconcileRelease(t)
  BY DEF Next, vars, leaseVars, workerVars, RegisterWorker, TickIdle, TickClaim, Enqueue, Wait,
     CancelQueued, CancelWrite, CancelAbort, CancelRequest, ReconcileAsk, ReconcileResolve,
     Crash
<1>6. \/ lock' = lock
      \/ lock' = [op |-> "free", task |-> NoTask]
      \/ \E t \in Task : lock' = [op |-> "cancel", task |-> t]
      \/ \E t \in Task : Dispatch(t) \/ ReconcileAsk(t)
  BY ZenonT(40) DEF Next, vars, RegisterWorker, TickIdle, TickClaim, Enqueue, Wait, CancelQueued,
     CancelWrite,
     CancelAbort, CancelRequest, CancelReply, ReconcileRelease, ReconcileResolve, WorkerStep,
     Deliver,
     Launch, Exit, Crash
<1> QED BY <1>1, <1>2, <1>3, <1>4, <1>5, <1>6, WorkersMove

(* As long as nobody reconciles, a running container has its resources     *)
(* under a committed lease: for every fleet and whatever else happens.     *)
THEOREM RunsAreCovered ==
    ASSUME NoReconcile
    PROVE  Spec => []RunningCovered
<1> DEFINE Inv == GangInv /\ \A t \in Task : RunInv(t)
<1>1. Init => Inv
  BY GangInit, UnitsAreUnits DEF Init, RunInv, Asking
<1>2. Inv /\ [Next]_vars => Inv'
  BY GangNext, RunNext
<1>3. Inv => RunningCovered
  BY DEF GangInv, GangStage, WorkStage, Silent, RunInv, RunningCovered
<1> QED BY <1>1, <1>2, <1>3, PTL DEF Spec
-----------------------------------------------------------------------------
(* The outcome is decided once, under the lock, before the start; what     *)
(* follows only replaces it by another outcome.                            *)
LEMMA VerdictDispatch ==
    ASSUME TypeOK, NEW t \in Task, GangStage(t), Dispatch(t), VerdictStage(t)
    PROVE  VerdictStage(t)'
<1> USE DEF TypeOK, DispatchOK, Goto, VerdictStage, OutcomeStates, Underway, Concluded
<1>0. /\ UnitCount[t] \in Nat /\ cur[t] \in 1 .. UnitCount[t] /\ cur[t] \in Unit
      /\ \A u \in Units(t) : u \in 1 .. UnitCount[t] /\ u \in Unit
      /\ 1 \in Units(t)
  BY UnitNumbers
<1>1. CASE CheckQueued(t)
  BY <1>1, <1>0 DEF CheckQueued, TaskTargets
<1>2. CASE WritePreparing(t)
  BY <1>2, <1>0 DEF WritePreparing, SetStatus
<1>3. CASE HoldCheck(t)
  BY <1>3, <1>0 DEF HoldCheck, FailRelease
<1>4. CASE Grab(t)
  BY <1>4, <1>0 DEF Grab
<1>5. CASE Register(t)
  BY <1>5, <1>0 DEF Register
<1>6. CASE PrepareOk(t)
  BY <1>6, <1>0 DEF PrepareOk, NextUnit
<1>7. CASE PrepareRejected(t)
  BY <1>7, <1>0 DEF PrepareRejected, FailRelease
<1>8. CASE PrepareRaised(t)
  BY <1>8, <1>0 DEF PrepareRaised, LostCall
<1>9. CASE Query(t)
  BY <1>9, <1>0 DEF Query, FailRelease, FailKeep
<1>10. CASE Commit(t)
  BY <1>10, <1>0 DEF Commit, NextUnit
<1>11. CASE Reserve(t)
  BY <1>11, <1>0 DEF Reserve, Advance, SetStatus, FailKeep
<1>12. CASE WritePlan(t)
  BY <1>12, <1>0 DEF WritePlan
<1>13. CASE PlanAck(t)
  BY <1>13, <1>0 DEF PlanAck, NextUnit
<1>14. CASE PlanFailed(t)
  BY <1>14, <1>0 DEF PlanFailed, LostCall, FailKeep
<1>15. CASE StartCheck(t)
  BY <1>15, <1>0 DEF StartCheck
<1>16. CASE Dispatched(t)
  BY <1>16, <1>0 DEF Dispatched, Advance, SetStatus, FailKeep
<1>17. CASE Starting(t)
  BY <1>17, <1>0 DEF Starting, Advance, SetStatus, FailKeep
<1>18. CASE Running(t)
  BY <1>18, <1>0 DEF Running, Advance, SetStatus, FailKeep
<1>19. CASE ExecuteCall(t)
  BY <1>19, <1>0 DEF ExecuteCall
<1>20. CASE ExecuteResult(t)
  BY <1>20, <1>0 DEF ExecuteResult, NextUnit
<1>21. CASE ExecuteRaised(t)
  BY <1>21, <1>0 DEF ExecuteRaised, FailKeep
<1>22. CASE EndCheck(t)
  BY <1>22, <1>0 DEF EndCheck
<1>23. CASE Finalize(t)
  BY <1>23, <1>0 DEF Finalize, Advance, SetStatus, FailKeep
<1>24. CASE CleanupFailed(t)
  BY <1>24, <1>0 DEF CleanupFailed, Advance, SetStatus, FailKeep
<1>25. CASE Release(t)
  BY <1>25, <1>0 DEF Release, Deleted, NextUnit
<1>26. CASE Settle(t)
  BY <1>26, <1>0 DEF Settle, Advance, SetStatus, FailKeep
<1>27. CASE ForceFinalizing(t)
  BY <1>27, <1>0 DEF ForceFinalizing, SetStatus
<1>28. CASE ForceTarget(t)
  BY <1>28, <1>0 DEF ForceTarget, SetStatus
<1>29. CASE Finally(t)
  BY <1>29, <1>0 DEF Finally
<1> QED
  BY <1>1, <1>2, <1>3, <1>4, <1>5, <1>6, <1>7, <1>8, <1>9, <1>10, <1>11, <1>12, <1>13, <1>14,
     <1>15, <1>16, <1>17, <1>18, <1>19, <1>20, <1>21, <1>22, <1>23, <1>24, <1>25, <1>26, <1>27,
        <1>28, <1>29 DEF Dispatch

(* _transition takes the status along the edges of the table.              *)
LEMMA StatusDispatch ==
    ASSUME TypeOK, NEW t \in Task, GangStage(t), Dispatch(t), VerdictStage(t), StatusStage(t)
    PROVE  StatusStage(t)'
<1> USE DEF TypeOK, StatusOK, DispatchOK, Goto, VerdictStage, StatusStage, TaskTargets,
   OutcomeStates,
       Unresolved, ActiveStates, Waiting, Taking, Underway, Concluded, statusVars
<1>0. /\ UnitCount[t] \in Nat /\ cur[t] \in 1 .. UnitCount[t] /\ cur[t] \in Unit
      /\ \A u \in Units(t) : u \in 1 .. UnitCount[t] /\ u \in Unit
      /\ 1 \in Units(t)
  BY UnitNumbers
<1>1. CASE CheckQueued(t)
  BY <1>1, <1>0 DEF CheckQueued, TaskTargets
<1>2. CASE WritePreparing(t)
  BY <1>2, <1>0 DEF WritePreparing, SetStatus
<1>3. CASE HoldCheck(t)
  BY <1>3, <1>0 DEF HoldCheck, FailRelease
<1>4. CASE Grab(t)
  BY <1>4, <1>0 DEF Grab
<1>5. CASE Register(t)
  BY <1>5, <1>0 DEF Register
<1>6. CASE PrepareOk(t)
  BY <1>6, <1>0 DEF PrepareOk, NextUnit
<1>7. CASE PrepareRejected(t)
  BY <1>7, <1>0 DEF PrepareRejected, FailRelease
<1>8. CASE PrepareRaised(t)
  BY <1>8, <1>0 DEF PrepareRaised, LostCall
<1>9. CASE Query(t)
  BY <1>9, <1>0 DEF Query, FailRelease, FailKeep
<1>10. CASE Commit(t)
  BY <1>10, <1>0 DEF Commit, NextUnit
<1>11. CASE Reserve(t)
  BY <1>11, <1>0 DEF Reserve, Advance, SetStatus, FailKeep
<1>12. CASE WritePlan(t)
  BY <1>12, <1>0 DEF WritePlan
<1>13. CASE PlanAck(t)
  BY <1>13, <1>0 DEF PlanAck, NextUnit
<1>14. CASE PlanFailed(t)
  BY <1>14, <1>0 DEF PlanFailed, LostCall, FailKeep
<1>15. CASE StartCheck(t)
  BY <1>15, <1>0 DEF StartCheck
<1>16. CASE Dispatched(t)
  BY <1>16, <1>0 DEF Dispatched, Advance, SetStatus, FailKeep
<1>17. CASE Starting(t)
  BY <1>17, <1>0 DEF Starting, Advance, SetStatus, FailKeep
<1>18. CASE Running(t)
  BY <1>18, <1>0 DEF Running, Advance, SetStatus, FailKeep
<1>19. CASE ExecuteCall(t)
  BY <1>19, <1>0 DEF ExecuteCall
<1>20. CASE ExecuteResult(t)
  BY <1>20, <1>0 DEF ExecuteResult, NextUnit
<1>21. CASE ExecuteRaised(t)
  BY <1>21, <1>0 DEF ExecuteRaised, FailKeep
<1>22. CASE EndCheck(t)
  BY <1>22, <1>0 DEF EndCheck
<1>23. CASE Finalize(t)
  BY <1>23, <1>0 DEF Finalize, Advance, SetStatus, FailKeep
<1>24. CASE CleanupFailed(t)
  BY <1>24, <1>0 DEF CleanupFailed, Advance, SetStatus, FailKeep
<1>25. CASE Release(t)
  BY <1>25, <1>0 DEF Release, Deleted, NextUnit
<1>26. CASE Settle(t)
  BY <1>26, <1>0 DEF Settle, Advance, SetStatus, FailKeep
<1>27. CASE ForceFinalizing(t)
  BY <1>27, <1>0 DEF ForceFinalizing, SetStatus
<1>28. CASE ForceTarget(t)
  BY <1>28, <1>0 DEF ForceTarget, SetStatus
<1>29. CASE Finally(t)
  BY <1>29, <1>0 DEF Finally
<1> QED
  BY <1>1, <1>2, <1>3, <1>4, <1>5, <1>6, <1>7, <1>8, <1>9, <1>10, <1>11, <1>12, <1>13, <1>14,
     <1>15, <1>16, <1>17, <1>18, <1>19, <1>20, <1>21, <1>22, <1>23, <1>24, <1>25, <1>26, <1>27,
        <1>28, <1>29 DEF Dispatch

(* An outcome is announced after the last lease is gone.                   *)
LEMMA OutcomeDispatch ==
    ASSUME TypeOK, NEW t \in Task, GangStage(t), Dispatch(t),
           VerdictStage(t), StatusStage(t), OutcomeInv(t)
    PROVE  OutcomeInv(t)'
<1> USE DEF TypeOK, StatusOK, DispatchOK, LeasesOK, WorkerOK, Goto, GangStage, LeaseStage,
   WorkStage, Silent,
       Stopped, Ran, Waits, HoldsLease, Leased, VerdictStage, StatusStage, OutcomeInv, GoodEnd,
       TaskTargets, OutcomeStates,
       Unresolved, ActiveStates, Waiting, Taking, Unleased, Underway, Concluded, Kept, Units,
       Free, statusVars, leaseVars, workerVars
<1>0. /\ UnitCount[t] \in Nat /\ cur[t] \in 1 .. UnitCount[t] /\ cur[t] \in Unit
      /\ \A u \in Units(t) : u \in 1 .. UnitCount[t] /\ u \in Unit
      /\ 1 \in Units(t)
  BY UnitNumbers
<1>1. CASE CheckQueued(t)
  BY <1>1, <1>0 DEF CheckQueued, TaskTargets
<1>2. CASE WritePreparing(t)
  BY <1>2, <1>0 DEF WritePreparing, SetStatus
<1>3. CASE HoldCheck(t)
  BY <1>3, <1>0 DEF HoldCheck, FailRelease
<1>4. CASE Grab(t)
  BY <1>4, <1>0 DEF Grab
<1>5. CASE Register(t)
  BY <1>5, <1>0 DEF Register
<1>6. CASE PrepareOk(t)
  BY <1>6, <1>0 DEF PrepareOk, NextUnit
<1>7. CASE PrepareRejected(t)
  BY <1>7, <1>0 DEF PrepareRejected, FailRelease
<1>8. CASE PrepareRaised(t)
  BY <1>8, <1>0 DEF PrepareRaised, LostCall
<1>9. CASE Query(t)
  BY <1>9, <1>0 DEF Query, FailRelease, FailKeep
<1>10. CASE Commit(t)
  BY <1>10, <1>0 DEF Commit, NextUnit
<1>11. CASE Reserve(t)
  BY <1>11, <1>0 DEF Reserve, Advance, SetStatus, FailKeep
<1>12. CASE WritePlan(t)
  BY <1>12, <1>0 DEF WritePlan
<1>13. CASE PlanAck(t)
  BY <1>13, <1>0 DEF PlanAck, NextUnit
<1>14. CASE PlanFailed(t)
  <2>1. /\ pc[t] = "ack" /\ pc'[t] = "fail_settle" /\ status'[t] = status[t]
        /\ underlying'[t] = underlying[t]
    BY <1>14 DEF PlanFailed, FailKeep
  <2>2. status[t] = "RESERVED" /\ ~Ran(t, cur[t])
    BY <1>0, <2>1
  <2>3. underlying[t] # "COMPLETED"
    BY <1>0, <2>2
  <2> QED BY <2>1, <2>2, <2>3
<1>15. CASE StartCheck(t)
  BY <1>15, <1>0 DEF StartCheck
<1>16. CASE Dispatched(t)
  BY <1>16, <1>0 DEF Dispatched, Advance, SetStatus, FailKeep
<1>17. CASE Starting(t)
  BY <1>17, <1>0 DEF Starting, Advance, SetStatus, FailKeep
<1>18. CASE Running(t)
  BY <1>18, <1>0 DEF Running, Advance, SetStatus, FailKeep
<1>19. CASE ExecuteCall(t)
  BY <1>19, <1>0 DEF ExecuteCall
<1>20. CASE ExecuteResult(t)
  BY <1>20, <1>0 DEF ExecuteResult, NextUnit
<1>21. CASE ExecuteRaised(t)
  BY <1>21, <1>0 DEF ExecuteRaised, FailKeep
<1>22. CASE EndCheck(t)
  BY <1>22, <1>0 DEF EndCheck
<1>23. CASE Finalize(t)
  BY <1>23, <1>0 DEF Finalize, Advance, SetStatus, FailKeep
<1>24. CASE CleanupFailed(t)
  <2>1. /\ pc[t] = "cleanup_failed" /\ pc'[t] = "finally" /\ status'[t] = "CLEANUP_FAILED"
        /\ underlying'[t] = verdict[t] /\ lock' = lock
        /\ lease'[t] = lease[t] /\ wrk'[t] = wrk[t] /\ inflight'[t] = inflight[t]
    BY <1>24 DEF CleanupFailed, Advance, SetStatus, FailKeep
  <2>2. verdict[t] = "COMPLETED" => \A u \in Units(t) : Ran(t, u)
    BY <2>1
  <2>3. \A u \in Units(t) : lease[t][u] \in { "committed", "released" }
    BY <2>1
  <2>4. GoodEnd(t)' => verdict[t] = "COMPLETED"
    BY <2>1
  <2>5. lock = [op |-> "reconcile", task |-> t] /\ verdict[t] = "COMPLETED" =>
           \A u \in Units(t) : wrk[t][u] = "exited"
    BY <2>1
  <2>6. underlying'[t] = "COMPLETED" =>
           \A u \in Units(t) : Ran(t, u)' /\ lease'[t][u] \in { "committed", "released" }
    BY <2>1, <2>2, <2>3
  <2>7. status'[t] \notin OutcomeStates \cup { "BLOCKED" }
    BY <2>1
  <2> QED BY <2>1, <2>4, <2>5, <2>6, <2>7
<1>25. CASE Release(t)
  BY <1>25, <1>0 DEF Release, Deleted, NextUnit
<1>26. CASE Settle(t)
  BY <1>26, <1>0 DEF Settle, Advance, SetStatus, FailKeep
<1>27. CASE ForceFinalizing(t)
  BY <1>27, <1>0 DEF ForceFinalizing, SetStatus
<1>28. CASE ForceTarget(t)
  BY <1>28, <1>0 DEF ForceTarget, SetStatus
<1>29. CASE Finally(t)
  BY <1>29, <1>0 DEF Finally
<1> QED
  BY <1>1, <1>2, <1>3, <1>4, <1>5, <1>6, <1>7, <1>8, <1>9, <1>10, <1>11, <1>12, <1>13, <1>14,
     <1>15, <1>16, <1>17, <1>18, <1>19, <1>20, <1>21, <1>22, <1>23, <1>24, <1>25, <1>26, <1>27,
        <1>28, <1>29 DEF Dispatch

(* While the Workers are being asked, no dispatch gets past the two checks *)
(* that decide its end.                                                    *)
LEMMA AskedEndDispatch ==
    ASSUME GangInv, NEW t \in Task, Dispatch(t), AskedEnd(t)
    PROVE  AskedEnd(t)'
<1>0. lock' = lock /\ TypeOK
  BY DispatchLocal DEF GangInv, QueueInv
<1> SUFFICES ASSUME NEW S \in SUBSET Unit, lock = Asking(t, S), GoodEnd(t)',
                    NEW u \in S
             PROVE  wrk'[t][u] = "exited"
  BY <1>0 DEF AskedEnd, Asking
<1>1. ~Free
  BY DEF Asking, Free
<1> USE <1>0 DEF TypeOK, StatusOK, DispatchOK
<1>2. ASSUME underlying'[t] = "COMPLETED"
      PROVE  GoodEnd(t)
  <2>1. ASSUME NEW from, NEW target, NEW under, NEW to, Advance(t, from, target, under, to),
               under = "COMPLETED" => GoodEnd(t)
        PROVE  GoodEnd(t)
    BY <1>2, <2>1 DEF Advance, SetStatus, GoodEnd, statusVars
  <2>2. ASSUME CleanupFailed(t)
        PROVE  pc[t] = "cleanup_failed" /\ (verdict[t] = "COMPLETED" => GoodEnd(t))
    BY <2>2 DEF CleanupFailed, Advance, FailKeep, Goto, GoodEnd
  <2>3. CASE underlying'[t] = underlying[t]
    BY <1>2, <2>3 DEF GoodEnd
  <2>4. CASE WritePreparing(t) \/ ForceFinalizing(t) \/ ForceTarget(t)
    BY <1>2, <2>4 DEF WritePreparing, ForceFinalizing, ForceTarget, SetStatus, GoodEnd
  <2>5. CASE \/ Reserve(t) \/ Dispatched(t) \/ Starting(t) \/ Running(t) \/ Finalize(t)
             \/ Settle(t)
    BY <2>1, <2>5 DEF Reserve, Dispatched, Starting, Running, Finalize, Settle
  <2>6. CASE CleanupFailed(t)
    BY <2>1, <2>2, <2>6 DEF CleanupFailed
  <2> QED BY <2>3, <2>4, <2>5, <2>6 DEF Dispatch, statusVars, CheckQueued, HoldCheck, Grab,
     Register, PrepareOk, PrepareRejected, PrepareRaised, Query, Commit, WritePlan, PlanAck,
     PlanFailed, StartCheck, ExecuteCall, ExecuteResult, ExecuteRaised, EndCheck, Release, Finally
<1>3. ASSUME pc'[t] \in { "finalize", "cleanup_failed" } /\ verdict'[t] = "COMPLETED"
      PROVE  GoodEnd(t)
  <2>1. ~StartCheck(t) /\ ~EndCheck(t)
    BY <1>1 DEF StartCheck, EndCheck
  <2>2. CASE Finalize(t)
    BY <1>3, <2>2 DEF Finalize, Advance, FailKeep, Goto, GoodEnd
  <2>3. ~Finalize(t) => FALSE
    BY <1>3, <2>1 DEF Dispatch, CheckQueued, WritePreparing, HoldCheck, FailRelease, Grab,
     Register, PrepareOk, PrepareRejected, PrepareRaised, Query, FailKeep, Commit, Reserve,
     WritePlan, PlanAck, PlanFailed, Dispatched, Starting, Running, ExecuteCall, ExecuteResult,
     ExecuteRaised, CleanupFailed, Release, Settle, ForceFinalizing, ForceTarget, Finally,
     Advance, NextUnit, Goto
  <2> QED BY <2>2, <2>3
<1>4. wrk[t][u] = "exited"
  BY <1>2, <1>3 DEF AskedEnd, GoodEnd
<1>5. /\ Forward(t, u)
      /\ wrk'[t][u] \in { "none", "prepared", "planned", "launching", "running", "exited" }
  BY ForwardDispatch, QueueNext DEF GangInv, QueueInv, WorkerOK, Next
<1> QED BY <1>4, <1>5 DEF Forward, Progress

(* What an outcome rests on is not changed by a step that leaves the Task  *)
(* alone.                                                                  *)
Outcomes(t) == VerdictStage(t) /\ StatusStage(t) /\ OutcomeInv(t) /\ AskedEnd(t)
Unlocked(t) ==
    \/ lock' = lock
    \/ /\ \A op \in { "cancel", "reconcile" } : lock' # [op |-> op, task |-> t]
       /\ \A S \in SUBSET Unit : lock' # Asking(t, S)

LEMMA OutcomesKept ==
    ASSUME NEW t \in Task, Outcomes(t), Same(t), Unlocked(t)
    PROVE  Outcomes(t)'
<1> USE DEF Outcomes, Same, Unlocked
<1>1. VerdictStage(t)' /\ StatusStage(t)'
  BY DEF VerdictStage, StatusStage
<1>2. OutcomeInv(t)'
  BY DEF OutcomeInv, GoodEnd, HoldsLease, Leased, Ran, Units
<1>3. AskedEnd(t)'
  BY DEF AskedEnd, Asking, GoodEnd
<1> QED BY <1>1, <1>2, <1>3

LEMMA OutcomesDispatch ==
    ASSUME OutcomesInv, NEW t \in Task, Dispatch(t), NEW s \in Task
    PROVE  Outcomes(s)'
<1>1. TypeOK /\ GangStage(t) /\ Outcomes(t) /\ Outcomes(s)
  BY DEF OutcomesInv, GangInv, QueueInv, Outcomes
<1>2. CASE s = t
  BY <1>1, <1>2, VerdictDispatch, StatusDispatch, OutcomeDispatch, AskedEndDispatch
     DEF Outcomes, OutcomesInv
<1>3. CASE s # t
  BY <1>1, <1>3, DispatchLocal, OutcomesKept DEF Unlocked
<1> QED BY <1>2, <1>3

(* A Task without a lease that no dispatch works on may end at any time.   *)
LEMMA OutcomesTick ==
    ASSUME OutcomesInv, NEW k \in Ticker, TickIdle(k) \/ \E t \in Task : TickClaim(k, t),
           NEW s \in Task
    PROVE  Outcomes(s)'
<1> USE DEF OutcomesInv, GangInv, QueueInv
<1>1. /\ UNCHANGED <<lock, cur, verdict, unclean, lease, wrk, inflight>> /\ Free
      /\ Outcomes(s) /\ GangStage(s)
  BY DEF TickIdle, TickClaim, dispVars, leaseVars, workerVars, Outcomes
<1>2. PICK E \in SUBSET queue :
         /\ Expire(E)
         /\ \/ UNCHANGED pc
            \/ \E t \in queue \ E : pc' = [pc EXCEPT ![t] = "claimed"]
  <2>1. CASE TickIdle(k)
    <3>1. Overdue(queue) \in SUBSET queue
      BY DEF Overdue
    <3> QED BY <2>1, <3>1 DEF TickIdle, dispVars
  <2>2. ASSUME NEW t \in Task, TickClaim(k, t)
        PROVE  \E E \in SUBSET queue :
                  Expire(E) /\ \E u \in queue \ E : pc' = [pc EXCEPT ![u] = "claimed"]
    <3> DEFINE E == Overdue({ r \in queue : Before(r, t) })
    <3>1. E \in SUBSET queue /\ t \in queue \ E
      BY <2>2, ConstantAssumption DEF TickClaim, Overdue, Before, TypeOK, QueueOK
    <3>2. Expire(E) /\ pc' = [pc EXCEPT ![t] = "claimed"]
      BY <2>2 DEF TickClaim
    <3> HIDE DEF E
    <3> QED BY <3>1, <3>2
  <2> QED BY <2>1, <2>2
<1>3. \A t \in queue : pc[t] = "idle" /\ status[t] = "QUEUED" /\ t \in Task
  BY DEF DispatchesMatch, TypeOK, QueueOK
<1>0. AskedEnd(s)'
  BY <1>1 DEF AskedEnd, Asking, Free
<1>4. CASE s \in E
  <2>1. status'[s] = "BLOCKED" /\ underlying'[s] = "NONE" /\ pc'[s] = "idle"
    BY <1>2, <1>3, <1>4 DEF Expire, TypeOK, DispatchOK
  <2>2. ~HoldsLease(s)'
    BY <1>1, <1>3, <1>4 DEF GangStage, LeaseStage, Unleased, HoldsLease, Leased, Units
  <2>3. VerdictStage(s)' /\ StatusStage(s)'
    BY <1>1, <2>1 DEF VerdictStage, StatusStage, Free, Taking, Underway, Concluded
  <2>4. OutcomeInv(s)'
    BY <1>1, <2>1, <2>2 DEF OutcomeInv, GoodEnd, Free
  <2> QED BY <1>0, <2>3, <2>4 DEF Outcomes
<1>5. CASE s \notin E
  <2>1. /\ status'[s] = status[s] /\ underlying'[s] = underlying[s]
        /\ pc'[s] = pc[s] \/ (pc[s] = "idle" /\ status[s] = "QUEUED" /\ pc'[s] = "claimed")
    BY <1>2, <1>3, <1>5 DEF Expire, TypeOK, DispatchOK
  <2>2. VerdictStage(s)' /\ StatusStage(s)'
    BY <1>1, <2>1 DEF Outcomes, VerdictStage, StatusStage, Free, Taking, Underway, Concluded
  <2>3. OutcomeInv(s)'
    BY <1>1, <2>1 DEF Outcomes, OutcomeInv, GoodEnd, HoldsLease, Leased, Ran, Units, Free
  <2> QED BY <1>0, <2>2, <2>3 DEF Outcomes
<1> QED BY <1>4, <1>5

(* Without a race (NoRace), a Task that is cancelled has no lease.         *)
LEMMA OutcomesCancel ==
    ASSUME NoRace, OutcomesInv, NEW t \in Task,
           CancelQueued(t) \/ CancelWrite(t) \/ CancelAbort(t) \/ CancelRequest(t),
           NEW s \in Task
    PROVE  Outcomes(s)'
<1> USE DEF OutcomesInv, GangInv, QueueInv
<1>1. Outcomes(s) /\ Outcomes(t) /\ GangStage(t) /\ UNCHANGED <<dispVars, leaseVars, workerVars>>
  BY DEF Outcomes, CancelQueued, CancelWrite, CancelAbort, CancelRequest
<1>2. CASE s # t
  <2>1. Same(s) /\ Unlocked(s)
    BY <1>2 DEF CancelQueued, CancelWrite, CancelAbort, CancelRequest, SetStatus, Same,
       Unlocked, Asking, statusVars, dispVars, leaseVars, workerVars, TypeOK, StatusOK
  <2> QED BY <1>1, <2>1, OutcomesKept
<1>3. CASE s = t /\ (CancelAbort(t) \/ CancelRequest(t))
  <2>1. Same(s) /\ Unlocked(s)
    BY <1>3 DEF CancelAbort, CancelRequest, Same, Unlocked, Asking, statusVars, dispVars, leaseVars,
       workerVars
  <2> QED BY <1>1, <2>1, OutcomesKept
<1>4. CASE s = t /\ CancelQueued(t)
  <2>1. /\ UNCHANGED statusVars /\ lock' = [op |-> "cancel", task |-> t]
        /\ status[t] \in { "QUEUED", "BLOCKED" } /\ pc[t] \notin { "claimed", "checked" }
    BY <1>4 DEF CancelQueued, Cancellable, NoRace
  <2>2. pc[t] \in { "idle", "done" }
    <3>1. pc[t] \in Stage
      BY DEF TypeOK, DispatchOK
    <3> QED BY <1>1, <2>1, <3>1 DEF Outcomes, StatusStage, Stage, Taking, Concluded,
       ActiveStates,
               OutcomeStates, Unresolved
  <2>3. VerdictStage(t)' /\ StatusStage(t)'
    BY <1>1, <2>1, <2>2 DEF Outcomes, VerdictStage, StatusStage, statusVars, dispVars
  <2>4. OutcomeInv(t)'
    BY <1>1, <2>1 DEF Outcomes, OutcomeInv, GoodEnd, HoldsLease, Leased, Ran, Units, statusVars,
       dispVars, leaseVars, workerVars
  <2>5. AskedEnd(t)'
    BY <2>1 DEF AskedEnd, Asking
  <2> QED BY <1>4, <2>3, <2>4, <2>5 DEF Outcomes
<1>5. CASE s = t /\ CancelWrite(t)
  <2>1. /\ lock = [op |-> "cancel", task |-> t] /\ lock' = [op |-> "free", task |-> NoTask]
        /\ status'[t] = "CANCELLED" /\ underlying'[t] = "NONE"
    BY <1>5 DEF CancelWrite, SetStatus, TypeOK, StatusOK
  <2>2. pc[t] \in { "idle", "done" } /\ status[t] \in { "QUEUED", "BLOCKED" }
    BY <1>1, <2>1 DEF Outcomes, StatusStage
  <2>3. ~HoldsLease(t)
    <3>1. CASE status[t] = "BLOCKED"
      BY <1>1, <3>1 DEF Outcomes, OutcomeInv
    <3>2. CASE status[t] = "QUEUED"
      <4>1. pc[t] = "idle"
        BY <1>1, <2>2, <3>2 DEF Outcomes, StatusStage, Waiting
      <4> QED BY <1>1, <4>1 DEF GangStage, LeaseStage, Unleased, HoldsLease, Leased
    <3> QED BY <2>2, <3>1, <3>2
  <2>4. VerdictStage(t)' /\ StatusStage(t)'
    BY <1>1, <2>1, <2>2 DEF VerdictStage, StatusStage, Taking, Underway, Concluded,
       ActiveStates, Waiting,
       dispVars
  <2>5. OutcomeInv(t)'
    BY <1>1, <2>1, <2>3 DEF OutcomeInv, GoodEnd, HoldsLease, Leased, Units, leaseVars
  <2>6. AskedEnd(t)'
    BY <2>1 DEF AskedEnd, Asking
  <2> QED BY <1>5, <2>4, <2>5, <2>6 DEF Outcomes
<1> QED BY <1>2, <1>3, <1>4, <1>5

(* What has stopped stays stopped.                                         *)
LEMMA OutcomesWorker ==
    ASSUME OutcomesInv, WorkerMoves, NEW s \in Task
    PROVE  Outcomes(s)'
<1>1. Outcomes(s) /\ \A u \in Units(s) : Moves(s, u)
  BY UnitsAreUnits DEF OutcomesInv, Outcomes, WorkerMoves
<1> USE DEF WorkerMoves, statusVars, dispVars, leaseVars
<1>2. VerdictStage(s)' /\ StatusStage(s)'
  BY <1>1 DEF Outcomes, VerdictStage, StatusStage
<1>3. OutcomeInv(s)'
  BY <1>1 DEF Outcomes, OutcomeInv, GoodEnd, HoldsLease, Leased, Ran, Moves, Units
<1>4. AskedEnd(s)'
  BY DEF OutcomesInv, AskedEnd, Asking, GoodEnd, Moves
<1> QED BY <1>2, <1>3, <1>4 DEF Outcomes

(* A reconciliation takes the lock for its own Task alone.                 *)
LEMMA ReconcileOthers ==
    ASSUME NEW t \in Task, NEW s \in Task, s # t,
           ReconcileAsk(t) \/ ReconcileRelease(t) \/ ReconcileResolve(t)
    PROVE  Unlocked(s)
<1>1. CASE ReconcileAsk(t)
  BY <1>1 DEF ReconcileAsk, ReconcileBegins, ReconcileSafe, ReconcileRefused, Unlocked, Asking
<1>2. CASE ReconcileRelease(t) \/ ReconcileResolve(t)
  BY <1>2 DEF ReconcileRelease, ReconcileResolve, Unlocked, Asking
<1> QED BY <1>1, <1>2

(* An administrator asks every Worker whether its container has stopped    *)
(* and announces the outcome after the last release.                       *)
LEMMA OutcomesReconcile ==
    ASSUME OutcomesInv, NEW t \in Task,
           ReconcileAsk(t) \/ ReconcileRelease(t) \/ ReconcileResolve(t),
           NEW s \in Task
    PROVE  Outcomes(s)'
<1> USE DEF OutcomesInv, GangInv, QueueInv
<1>1. Outcomes(s) /\ Outcomes(t) /\ GangStage(t) /\ UNCHANGED <<dispVars, workerVars, underlying>>
  BY DEF Outcomes, ReconcileAsk, ReconcileRelease, ReconcileResolve, statusVars
<1>2. CASE s # t
  <2>1. Same(s) /\ Unlocked(s)
    BY <1>2, ReconcileOthers DEF ReconcileAsk, ReconcileRelease, ReconcileResolve, Same,
       statusVars, dispVars, leaseVars, workerVars, TypeOK, StatusOK, LeasesOK
  <2> QED BY <1>1, <2>1, OutcomesKept
<1>3. CASE ReconcileAsk(t)
  <2>1. UNCHANGED <<statusVars, leaseVars>> /\ (GoodEnd(t)' <=> GoodEnd(t))
    BY <1>3 DEF ReconcileAsk, GoodEnd, statusVars, dispVars
  <2>2. GoodEnd(t) => \A u \in Units(t) : Ran(t, u)
    BY <1>1 DEF Outcomes, OutcomeInv, GoodEnd, GangStage, WorkStage, Stopped, Concluded
  <2>3. /\ \A S \in SUBSET Unit : lock' = Asking(t, S) /\ GoodEnd(t) =>
               \A u \in S : wrk[t][u] = "exited"
        /\ lock' = [op |-> "reconcile", task |-> t] /\ GoodEnd(t) =>
               \A u \in Units(t) : wrk[t][u] = "exited"
        /\ lock' # [op |-> "cancel", task |-> t]
    <3>1. CASE ReconcileBegins(t) \/ ReconcileRefused(t)
      BY <3>1 DEF ReconcileBegins, ReconcileRefused, Asking
    <3>2. CASE ReconcileSafe(t)
      <4>1. PICK S \in SUBSET Units(t), u \in Units(t) :
               /\ lock = Asking(t, S) /\ Safe(t, u)
               /\ lock' = IF S \cup {u} = Units(t) THEN [op |-> "reconcile", task |-> t]
                                                  ELSE Asking(t, S \cup {u})
        BY <3>2 DEF ReconcileSafe
      <4>2. GoodEnd(t) => \A v \in S \cup {u} : wrk[t][v] = "exited"
        BY <1>1, <2>2, <4>1, UnitsAreUnits DEF Outcomes, AskedEnd, Ran, Safe
      <4> QED BY <4>1, <4>2 DEF Asking
    <3> QED BY <1>3, <3>1, <3>2 DEF ReconcileAsk
  <2>4. VerdictStage(t)' /\ StatusStage(t)'
    BY <1>1, <2>1, <2>3 DEF Outcomes, VerdictStage, StatusStage, statusVars, dispVars
  <2>5. OutcomeInv(t)'
    BY <1>1, <2>1, <2>3 DEF Outcomes, OutcomeInv, HoldsLease, Leased, Ran, Units,
       statusVars, dispVars, leaseVars, workerVars
  <2>6. AskedEnd(t)'
    BY <1>1, <2>1, <2>3 DEF AskedEnd, Asking, workerVars
  <2> QED BY <1>2, <2>4, <2>5, <2>6 DEF Outcomes
<1>4. CASE ReconcileRelease(t)
  <2>1. UNCHANGED <<statusVars, lock>>
    BY <1>4 DEF ReconcileRelease
  <2>2. \A u \in Units(t) :
           lease'[t][u] = lease[t][u] \/ (Leased(t, u) /\ lease'[t][u] = "released")
    BY <1>4, UnitsAreUnits DEF ReconcileRelease, TypeOK, LeasesOK
  <2>3. VerdictStage(t)' /\ StatusStage(t)'
    BY <1>1, <2>1 DEF Outcomes, VerdictStage, StatusStage, statusVars, dispVars
  <2>4. OutcomeInv(t)'
    BY <1>1, <2>1, <2>2 DEF Outcomes, OutcomeInv, GoodEnd, HoldsLease, Leased, Ran, Units,
       statusVars,
       dispVars, workerVars
  <2>5. AskedEnd(t)'
    BY <1>4 DEF ReconcileRelease, AskedEnd, Asking
  <2> QED BY <1>2, <2>3, <2>4, <2>5 DEF Outcomes
<1>5. CASE ReconcileResolve(t)
  <2>1. /\ lock = [op |-> "reconcile", task |-> t] /\ lock' = [op |-> "free", task |-> NoTask]
        /\ ~HoldsLease(t) /\ UNCHANGED leaseVars
        /\ \/ status'[t] = status[t]
           \/ /\ status[t] = "CLEANUP_FAILED" /\ status'[t] \in OutcomeStates \cup Unresolved
              /\ status'[t] = "COMPLETED" => underlying[t] = "COMPLETED"
    BY <1>5 DEF ReconcileResolve, Reconciled, TypeOK, StatusOK, Verdict, Unresolved,
       OutcomeStates
  <2>2. VerdictStage(t)' /\ StatusStage(t)'
    BY <1>1, <2>1 DEF Outcomes, VerdictStage, StatusStage, Unresolved, OutcomeStates,
       ActiveStates,
       Waiting, Taking, Concluded, dispVars
  <2>3. underlying[t] = "COMPLETED" =>
           \A u \in Units(t) : wrk[t][u] = "exited" /\ lease[t][u] = "released"
    BY <1>1, <2>1 DEF Outcomes, OutcomeInv, GoodEnd, HoldsLease, Leased
  <2>4. OutcomeInv(t)'
    BY <1>1, <2>1, <2>3 DEF Outcomes, OutcomeInv, GoodEnd, HoldsLease, Leased, Ran, Units,
       dispVars, leaseVars, workerVars
  <2>5. AskedEnd(t)'
    BY <2>1 DEF AskedEnd, Asking
  <2> QED BY <1>2, <2>2, <2>4, <2>5 DEF Outcomes
<1> QED BY <1>3, <1>4, <1>5

LEMMA OutcomesCrash ==
    ASSUME OutcomesInv, Crash, NEW s \in Task
    PROVE  Outcomes(s)'
<1>1. /\ Outcomes(s) /\ UNCHANGED <<underlying, leaseVars, workerVars>>
      /\ lock' = [op |-> "free", task |-> NoTask]
      /\ \/ pc'[s] = "idle" /\ status'[s] \in { "CREATED", "QUEUED" }
         \/ pc'[s] = "done" /\ status'[s] \notin ActiveStates \cup Waiting
      /\ status'[s] # status[s] => status'[s] = "RECONCILIATION_REQUIRED"
  BY DEF OutcomesInv, Outcomes, Crash, RestartStatus, ActiveStates, Waiting
<1>2. VerdictStage(s)' /\ StatusStage(s)'
  BY <1>1 DEF VerdictStage, StatusStage, Taking, Underway, Concluded
<1>3. OutcomeInv(s)'
  BY <1>1 DEF Outcomes, OutcomeInv, GoodEnd, OutcomeStates, HoldsLease, Leased, Ran, Units,
     leaseVars,
     workerVars
<1>4. AskedEnd(s)'
  BY <1>1 DEF AskedEnd, Asking
<1> QED BY <1>2, <1>3, <1>4 DEF Outcomes

LEMMA OutcomesInit == Init => OutcomesInv
<1> SUFFICES ASSUME Init, NEW t \in Task PROVE Outcomes(t)
  BY GangInit DEF OutcomesInv, Outcomes
<1>1. VerdictStage(t) /\ StatusStage(t)
  BY DEF Init, VerdictStage, StatusStage, Taking, Underway, Concluded
<1>2. OutcomeInv(t)
  BY DEF Init, OutcomeInv, GoodEnd, OutcomeStates
<1>3. AskedEnd(t)
  BY DEF Init, AskedEnd, Asking
<1> QED BY <1>1, <1>2, <1>3 DEF Outcomes

LEMMA OutcomesNext == NoRace /\ OutcomesInv /\ [Next]_vars => OutcomesInv'
<1> SUFFICES ASSUME NoRace, OutcomesInv, [Next]_vars, NEW s \in Task PROVE Outcomes(s)'
  BY GangNext DEF OutcomesInv, Outcomes
<1>1. TypeOK /\ Outcomes(s)
  BY DEF OutcomesInv, GangInv, QueueInv, Outcomes
<1>2. ASSUME UNCHANGED <<statusVars, lock, dispVars, leaseVars, workerVars>>
      PROVE  Outcomes(s)'
  BY <1>1, <1>2, OutcomesKept DEF Same, Unlocked, statusVars, dispVars, leaseVars, workerVars
<1>3. ASSUME NEW t \in Task, Enqueue(t)
      PROVE  Outcomes(s)'
  <2>1. /\ UNCHANGED <<lock, underlying, dispVars, leaseVars, workerVars>> /\ Free
        /\ status'[s] = IF s = t THEN "QUEUED" ELSE status[s]
        /\ s = t => pc[s] = "idle"
    BY <1>1, <1>3 DEF Enqueue, Unknown, TypeOK, StatusOK, OutcomesInv, GangInv, QueueInv,
       DispatchesMatch
  <2>2. CASE s = t
    <3>1. VerdictStage(s)' /\ StatusStage(s)'
      BY <1>1, <2>1, <2>2 DEF VerdictStage, StatusStage, Free, Taking, Underway, Concluded,
         dispVars
    <3>2. OutcomeInv(s)'
      BY <1>1, <2>1, <2>2 DEF Outcomes, OutcomeInv, GoodEnd, OutcomeStates, Free, Ran, Units,
         dispVars,
         leaseVars, workerVars
    <3>3. AskedEnd(s)'
      BY <2>1 DEF AskedEnd, Asking, Free
    <3> QED BY <3>1, <3>2, <3>3 DEF Outcomes
  <2>3. CASE s # t
    BY <1>1, <2>1, <2>3, OutcomesKept DEF Same, Unlocked, dispVars, leaseVars, workerVars
  <2> QED BY <2>2, <2>3
<1>4. ASSUME NEW t \in Task, CancelReply(t) \/ \E u \in Units(t) : WorkerStep(t, u)
      PROVE  Outcomes(s)'
  BY <1>1, <1>4, WorkersMove, OutcomesWorker
<1>5. ASSUME NEW w \in Worker, NEW S \in SUBSET Gpu, RegisterWorker(w, S)
      PROVE  Outcomes(s)'
  BY <1>2, <1>5 DEF RegisterWorker
<1>6. ASSUME NEW t \in Task, Wait(t)
      PROVE  Outcomes(s)'
  BY <1>2, <1>6 DEF Wait
<1>7. CASE UNCHANGED vars
  BY <1>2, <1>7 DEF vars
<1> QED BY <1>3, <1>4, <1>5, <1>6, <1>7, OutcomesDispatch, OutcomesTick, OutcomesCancel,
           OutcomesReconcile, OutcomesCrash DEF Next

(* Unless a cancel slips between the check and the write of PREPARING, a   *)
(* Task that has COMPLETED, FAILED or been CANCELLED has no lease left,    *)
(* and COMPLETED means that every unit ran and has stopped; also when an   *)
(* administrator reconciles what still runs, and across restarts.          *)
THEOREM OutcomesReleaseAll ==
    ASSUME NoRace
    PROVE  Spec => []OutcomeReleasesAll
<1>1. OutcomesInv => OutcomeReleasesAll
  BY DEF OutcomesInv, OutcomeInv, OutcomeReleasesAll
<1>2. OutcomesInv /\ [Next]_vars => OutcomesInv'
  BY OutcomesNext
<1> QED BY <1>1, <1>2, OutcomesInit, PTL DEF Spec
-----------------------------------------------------------------------------
LEMMA BehindTheLast ==
    ASSUME NEW t \in Task, NEW from, NEW after, LastUnit(t, from, after)
    PROVE  \A u \in Units(t) : u # cur[t] => u < cur[t]
  BY DEF LastUnit

(* A dispatch comes to its end with every lease committed, every lease     *)
(* released, or none of those it took released.                            *)
LEMMA TogetherDispatch ==
    ASSUME NotEarly, TypeOK, NEW t \in Task, GangStage(t), TogetherInv(t), Dispatch(t)
    PROVE  TogetherInv(t)'
<1> USE DEF NotEarly, TypeOK, StatusOK, DispatchOK, LeasesOK, Verdict, OutcomeStates, Goto,
   GangStage,
       ReconcileStage, Unresolved, LeaseStage, HoldsLease, Leased, TogetherInv, Together,
       TaskTargets,
       Taking, Unleased, Underway, Concluded, Kept, Units, statusVars, leaseVars
<1>0. /\ UnitCount[t] \in Nat /\ cur[t] \in 1 .. UnitCount[t] /\ cur[t] \in Unit
      /\ \A u \in Units(t) : u \in 1 .. UnitCount[t] /\ u \in Unit
      /\ 1 \in Units(t)
  BY UnitNumbers
<1>1. CASE CheckQueued(t)
  BY <1>1, <1>0 DEF CheckQueued, TaskTargets
<1>2. CASE WritePreparing(t)
  BY <1>2, <1>0 DEF WritePreparing, SetStatus
<1>3. CASE HoldCheck(t)
  BY <1>3, <1>0 DEF HoldCheck, FailRelease
<1>4. CASE Grab(t)
  BY <1>4, <1>0 DEF Grab
<1>5. CASE Register(t)
  BY <1>5, <1>0 DEF Register
<1>6. CASE PrepareOk(t)
  BY <1>6, <1>0 DEF PrepareOk, NextUnit
<1>7. CASE PrepareRejected(t)
  BY <1>7, <1>0 DEF PrepareRejected, FailRelease
<1>8. CASE PrepareRaised(t)
  BY <1>8, <1>0 DEF PrepareRaised, LostCall
<1>9. CASE Query(t)
  BY <1>9, <1>0 DEF Query, FailRelease, FailKeep
<1>10. CASE Commit(t)
  BY <1>10, <1>0 DEF Commit, NextUnit
<1>11. CASE Reserve(t)
  BY <1>11, <1>0 DEF Reserve, Advance, SetStatus, FailKeep
<1>12. CASE WritePlan(t)
  BY <1>12, <1>0 DEF WritePlan
<1>13. CASE PlanAck(t)
  BY <1>13, <1>0 DEF PlanAck, NextUnit
<1>14. CASE PlanFailed(t)
  BY <1>14, <1>0 DEF PlanFailed, LostCall, FailKeep
<1>15. CASE StartCheck(t)
  BY <1>15, <1>0 DEF StartCheck
<1>16. CASE Dispatched(t)
  BY <1>16, <1>0 DEF Dispatched, Advance, SetStatus, FailKeep
<1>17. CASE Starting(t)
  BY <1>17, <1>0 DEF Starting, Advance, SetStatus, FailKeep
<1>18. CASE Running(t)
  BY <1>18, <1>0 DEF Running, Advance, SetStatus, FailKeep
<1>19. CASE ExecuteCall(t)
  BY <1>19, <1>0 DEF ExecuteCall
<1>20. CASE ExecuteResult(t)
  BY <1>20, <1>0 DEF ExecuteResult, NextUnit
<1>21. CASE ExecuteRaised(t)
  BY <1>21, <1>0 DEF ExecuteRaised, FailKeep
<1>22. CASE EndCheck(t)
  BY <1>22, <1>0 DEF EndCheck
<1>23. CASE Finalize(t)
  BY <1>23, <1>0 DEF Finalize, Advance, SetStatus, FailKeep
<1>24. CASE CleanupFailed(t)
  BY <1>24, <1>0 DEF CleanupFailed, Advance, SetStatus, FailKeep
<1>25. CASE Release(t)
  <2>1. /\ \/ LastUnit(t, "release", "settle") \/ MoreUnits(t, "release", "release")
           \/ LastUnit(t, "fail_release", "fail_settle")
           \/ MoreUnits(t, "fail_release", "fail_release")
        /\ lease' = [lease EXCEPT ![t][cur[t]] = Deleted(t, cur[t])]
        /\ UNCHANGED <<status, lock>>
    BY <1>25, NextUnitDoes DEF Release
  <2>2. status'[t] # "CLEANUP_FAILED"
    BY <2>1 DEF LastUnit, MoreUnits
  <2>3. pc'[t] \notin { "finally", "done" }
    BY <2>1 DEF LastUnit, MoreUnits
  <2>4. ASSUME pc'[t] = "fail_settle"
        PROVE  \A u \in Units(t) : lease'[t][u] \in { "none", "released" }
    <3>1. LastUnit(t, "fail_release", "fail_settle")
      BY <2>1, <2>4 DEF LastUnit, MoreUnits
    <3>2. lease'[t][cur[t]] \in { "none", "released" }
      BY <1>0, <2>1 DEF Deleted
    <3>3. \A u \in Units(t) : u # cur[t] => lease'[t][u] \in { "none", "released" }
      <4>1. \A u \in Units(t) : u # cur[t] => lease'[t][u] = lease[t][u]
        BY <1>0, <2>1
      <4>2. \A u \in Units(t) : u # cur[t] => u < cur[t]
        BY <3>1, BehindTheLast
      <4> QED BY <3>1, <4>1, <4>2 DEF LastUnit
    <3> QED BY <3>2, <3>3
  <2> QED BY <2>2, <2>3, <2>4
<1>26. CASE Settle(t)
  BY <1>26, <1>0 DEF Settle, Advance, SetStatus, FailKeep
<1>27. CASE ForceFinalizing(t)
  BY <1>27, <1>0 DEF ForceFinalizing, SetStatus
<1>28. CASE ForceTarget(t)
  BY <1>28, <1>0 DEF ForceTarget, SetStatus
<1>29. CASE Finally(t)
  BY <1>29, <1>0 DEF Finally
<1> QED
  BY <1>1, <1>2, <1>3, <1>4, <1>5, <1>6, <1>7, <1>8, <1>9, <1>10, <1>11, <1>12, <1>13, <1>14,
     <1>15, <1>16, <1>17, <1>18, <1>19, <1>20, <1>21, <1>22, <1>23, <1>24, <1>25, <1>26, <1>27,
        <1>28, <1>29 DEF Dispatch

LEMMA TogetherKept ==
    ASSUME NEW t \in Task, TogetherInv(t), pc'[t] = pc[t], lease'[t] = lease[t],
           status'[t] = status[t] \/ status'[t] # "CLEANUP_FAILED",
           lock' = [op |-> "reconcile", task |-> t] \/ lock # [op |-> "reconcile", task |-> t]
    PROVE  TogetherInv(t)'
  BY DEF TogetherInv, Together, Leased, Units

LEMMA TogetherNext ==
    ASSUME NoCrash, NotEarly, GangInv, \A t \in Task : TogetherInv(t), [Next]_vars, NEW s \in Task
    PROVE  TogetherInv(s)'
<1> USE DEF GangInv, QueueInv
<1>1. ASSUME NEW t \in Task, Dispatch(t)
      PROVE  TogetherInv(s)'
  <2>1. CASE s = t
    BY <1>1, <2>1, TogetherDispatch
  <2>2. CASE s # t
    BY <1>1, <2>2, DispatchLocal, TogetherKept DEF Same
  <2> QED BY <2>1, <2>2
<1>2. ASSUME NEW k \in Ticker, TickIdle(k) \/ \E t \in Task : TickClaim(k, t)
      PROVE  TogetherInv(s)'
  <2>1. /\ UNCHANGED <<lock, lease>>
        /\ pc'[s] = pc[s] \/ pc'[s] = "claimed"
        /\ status'[s] = status[s] \/ status'[s] = "BLOCKED"
    <3>1. UNCHANGED <<lock, lease>>
      BY <1>2 DEF TickIdle, TickClaim, leaseVars
    <3>2. pc' = pc \/ \E t \in Task : pc' = [pc EXCEPT ![t] = "claimed"]
      BY <1>2 DEF TickIdle, TickClaim, dispVars
    <3>3. \E S \in SUBSET Task : Expire(S)
      BY <1>2 DEF TickIdle, TickClaim, TypeOK, QueueOK, Overdue
    <3>4. pc'[s] = pc[s] \/ pc'[s] = "claimed"
      BY <3>2 DEF TypeOK, DispatchOK
    <3>5. status'[s] = status[s] \/ status'[s] = "BLOCKED"
      BY <3>3 DEF Expire
    <3> QED BY <3>1, <3>4, <3>5
  <2> QED BY <2>1 DEF TogetherInv, Together, Leased, Units
<1>3. ASSUME NEW t \in Task,
             CancelQueued(t) \/ CancelWrite(t) \/ CancelAbort(t) \/ CancelRequest(t) \/ Enqueue(t)
      PROVE  TogetherInv(s)'
  <2>1. /\ UNCHANGED <<pc, lease>>
        /\ status'[s] = status[s] \/ status'[s] \in { "CANCELLED", "QUEUED" }
        /\ lock # [op |-> "reconcile", task |-> s] \/ lock' = lock
    BY <1>3 DEF CancelQueued, CancelWrite, CancelAbort, CancelRequest, Enqueue, SetStatus, Free,
       statusVars, dispVars, leaseVars, TypeOK, StatusOK
  <2> QED BY <2>1, TogetherKept
<1>4. CASE WorkerMoves
  BY <1>4, TogetherKept DEF WorkerMoves, statusVars, dispVars, leaseVars
<1>5. ASSUME NEW t \in Task, ReconcileAsk(t) \/ ReconcileRelease(t)
      PROVE  TogetherInv(s)'
  <2>1. CASE ReconcileAsk(t)
    <3>1. lock # [op |-> "reconcile", task |-> s]
      BY <2>1 DEF ReconcileAsk, ReconcileBegins, ReconcileSafe, ReconcileRefused, Asking, Free
    <3> QED BY <2>1, <3>1, TogetherKept DEF ReconcileAsk, statusVars, dispVars, leaseVars
  <2>2. CASE ReconcileRelease(t) /\ s = t
    BY <2>2 DEF ReconcileRelease, TogetherInv
  <2>3. CASE ReconcileRelease(t) /\ s # t
    <3>1. /\ UNCHANGED <<pc, status>> /\ lease'[s] = lease[s]
          /\ lock # [op |-> "reconcile", task |-> s]
      BY <2>3 DEF ReconcileRelease, statusVars, dispVars, leaseVars, TypeOK, LeasesOK
    <3> QED BY <3>1, TogetherKept
  <2> QED BY <1>5, <2>1, <2>2, <2>3
<1>6. ASSUME NEW t \in Task, ReconcileResolve(t)
      PROVE  TogetherInv(s)'
  <2>1. CASE s = t
    <3>1. ~HoldsLease(t)' /\ status'[t] # "CLEANUP_FAILED"
      BY <1>6 DEF ReconcileResolve, Reconciled, HoldsLease, Leased, Units, leaseVars, TypeOK,
         StatusOK,
         Verdict, OutcomeStates
    <3> QED BY <2>1, <3>1 DEF TogetherInv, Together, HoldsLease, Leased, Units
  <2>2. CASE s # t
    <3>1. /\ UNCHANGED <<pc, lease>> /\ status'[s] = status[s]
          /\ lock # [op |-> "reconcile", task |-> s]
      BY <1>6, <2>2 DEF ReconcileResolve, dispVars, leaseVars, TypeOK, StatusOK
    <3> QED BY <3>1, TogetherKept
  <2> QED BY <2>1, <2>2
<1>7. ASSUME UNCHANGED <<statusVars, lock, dispVars, leaseVars>>
      PROVE  TogetherInv(s)'
  BY <1>7, TogetherKept DEF statusVars, dispVars, leaseVars
<1>8. ASSUME NEW w \in Worker, NEW S \in SUBSET Gpu, RegisterWorker(w, S)
      PROVE  TogetherInv(s)'
  BY <1>7, <1>8 DEF RegisterWorker
<1>9. ASSUME NEW t \in Task, Wait(t)
      PROVE  TogetherInv(s)'
  BY <1>7, <1>9 DEF Wait
<1>10. CASE UNCHANGED vars
  BY <1>7, <1>10 DEF vars
<1>11. ~Crash
  BY DEF NoCrash, Crash
<1> QED BY <1>1, <1>2, <1>3, <1>4, <1>5, <1>6, <1>8, <1>9, <1>10, <1>11, WorkersMove DEF Next

(* Without a restart, and as long as administrators reconcile only what    *)
(* the documents name, the leases of a Task nobody works on go together or *)
(* not at all, and those of CLEANUP_FAILED all stay committed.             *)
THEOREM NoPartialRelease ==
    ASSUME NoCrash, NotEarly
    PROVE  Spec => []LeasesGoTogether
<1> DEFINE Inv == GangInv /\ \A t \in Task : TogetherInv(t)
<1>1. Init => Inv
  BY GangInit DEF Init, TogetherInv
<1>2. Inv /\ [Next]_vars => Inv'
  BY GangNext, TogetherNext
<1>3. Inv => LeasesGoTogether
  <2> SUFFICES ASSUME GangInv, NEW t \in Task, TogetherInv(t), AtRest(t)
               PROVE  /\ Together(t)
                      /\ status[t] = "CLEANUP_FAILED" =>
                            \A u \in Units(t) : lease[t][u] = "committed"
    BY DEF LeasesGoTogether, Together
  <2>1. pc[t] \in { "idle", "done" } /\ lock # [op |-> "reconcile", task |-> t]
    BY DEF AtRest, GangInv, QueueInv, DispatchesMatch
  <2>2. pc[t] = "idle" => Together(t)
    BY DEF GangInv, GangStage, LeaseStage, Unleased, Together
  <2> QED BY <2>1, <2>2 DEF TogetherInv
<1> QED BY <1>1, <1>2, <1>3, PTL DEF Spec
-----------------------------------------------------------------------------
(* Only Grab makes a dispatch rely on something it did not rely on before. *)
LEMMA HoldsElsewhere ==
    ASSUME TypeOK, NEW t \in Task, LeaseStage(t), Dispatch(t), ~Grab(t), ~Finally(t)
    PROVE  /\ pc'[t] \in { "claimed", "checked" } => pc[t] \in { "claimed", "checked" }
           /\ pc'[t] = "done" => pc[t] = "claimed"
           /\ \A u \in Units(t) : Relies(t, u)' => Relies(t, u)
<1> USE DEF TypeOK, DispatchOK, LeasesOK, Goto, Relies, Leased, leaseVars
<1>0. cur[t] \in Unit /\ \A u \in Units(t) : u \in Unit
  BY UnitNumbers
<1>1. CASE CheckQueued(t)
  BY <1>1, <1>0 DEF CheckQueued, TaskTargets
<1>2. CASE WritePreparing(t)
  BY <1>2, <1>0 DEF WritePreparing, SetStatus
<1>3. CASE HoldCheck(t)
  BY <1>3, <1>0 DEF HoldCheck, FailRelease
<1>4. CASE Register(t)
  BY <1>4, <1>0 DEF Register
<1>5. CASE PrepareOk(t)
  BY <1>5, <1>0 DEF PrepareOk, NextUnit
<1>6. CASE PrepareRejected(t)
  BY <1>6, <1>0 DEF PrepareRejected, FailRelease
<1>7. CASE PrepareRaised(t)
  BY <1>7, <1>0 DEF PrepareRaised, LostCall
<1>8. CASE Query(t)
  BY <1>8, <1>0 DEF Query, FailRelease, FailKeep
<1>9. CASE Commit(t)
  BY <1>9, <1>0 DEF Commit, NextUnit, LeaseStage
<1>10. CASE Reserve(t)
  BY <1>10, <1>0 DEF Reserve, Advance, SetStatus, FailKeep
<1>11. CASE WritePlan(t)
  BY <1>11, <1>0 DEF WritePlan
<1>12. CASE PlanAck(t)
  BY <1>12, <1>0 DEF PlanAck, NextUnit
<1>13. CASE PlanFailed(t)
  BY <1>13, <1>0 DEF PlanFailed, LostCall, FailKeep
<1>14. CASE StartCheck(t)
  BY <1>14, <1>0 DEF StartCheck
<1>15. CASE Dispatched(t)
  BY <1>15, <1>0 DEF Dispatched, Advance, SetStatus, FailKeep
<1>16. CASE Starting(t)
  BY <1>16, <1>0 DEF Starting, Advance, SetStatus, FailKeep
<1>17. CASE Running(t)
  BY <1>17, <1>0 DEF Running, Advance, SetStatus, FailKeep
<1>18. CASE ExecuteCall(t)
  BY <1>18, <1>0 DEF ExecuteCall
<1>19. CASE ExecuteResult(t)
  BY <1>19, <1>0 DEF ExecuteResult, NextUnit
<1>20. CASE ExecuteRaised(t)
  BY <1>20, <1>0 DEF ExecuteRaised, FailKeep
<1>21. CASE EndCheck(t)
  BY <1>21, <1>0 DEF EndCheck
<1>22. CASE Finalize(t)
  BY <1>22, <1>0 DEF Finalize, Advance, SetStatus, FailKeep
<1>23. CASE CleanupFailed(t)
  BY <1>23, <1>0 DEF CleanupFailed, Advance, SetStatus, FailKeep
<1>24. CASE Release(t)
  BY <1>24, <1>0 DEF Release, Deleted, NextUnit
<1>25. CASE Settle(t)
  BY <1>25, <1>0 DEF Settle, Advance, SetStatus, FailKeep
<1>26. CASE ForceFinalizing(t)
  BY <1>26, <1>0 DEF ForceFinalizing, SetStatus
<1>27. CASE ForceTarget(t)
  BY <1>27, <1>0 DEF ForceTarget, SetStatus
<1> QED
  BY <1>1, <1>2, <1>3, <1>4, <1>5, <1>6, <1>7, <1>8, <1>9, <1>10, <1>11, <1>12, <1>13, <1>14,
     <1>15, <1>16, <1>17, <1>18, <1>19, <1>20, <1>21, <1>22, <1>23, <1>24, <1>25, <1>26,
        <1>27 DEF Dispatch

(* A dispatch holds what it leases, from before the lease to its end.      *)
LEMMA HoldsDispatch ==
    ASSUME OneTicker, LeaseInv, GangInv, HoldsInv, NEW t \in Task, Dispatch(t)
    PROVE  HoldsInv'
<1> USE DEF LeaseInv, QueueInv
<1>1. DispatchEffect(t) /\ lock' = lock /\ \A s \in Task : s # t => Same(s)
  BY DispatchDoes, DispatchLocal
<1>2. \A s \in Task, u \in Unit : Needs(s, u)' = Needs(s, u)
  BY <1>1 DEF DispatchEffect, Needs, GpuResources, Container1
<1>3. Dispatching(t) /\ \A s \in Task : Dispatching(s) => s = t
  BY <1>1, OneDispatch DEF DispatchEffect, DispatchesMatch
<1>4. /\ \A s \in Task : Dispatching(s)' => s = t
      /\ Dispatching(t)' \/ (pc'[t] = "done" /\ \A s \in Task : ~Dispatching(s)')
  BY <1>1, <1>3, ConstantAssumption DEF DispatchEffect, Dispatching, TypeOK, DispatchOK
<1>5. cur[t] \in Units(t) /\ Units(t) \subseteq Unit
  BY UnitsAreUnits DEF TypeOK, DispatchOK
<1>6. holds \subseteq UNION { Needs(t, u) : u \in Units(t) }
  BY <1>3 DEF HoldsInv
<1>7. \A s \in Task : s # t => pc[s] \in { "idle", "done" }
  BY <1>3 DEF DispatchesMatch
<1>8. CASE Grab(t)
  <2>1. /\ pc[t] = "grab" /\ pc'[t] = "register" /\ holds' = holds \cup Needs(t, cur[t])
        /\ UNCHANGED <<cur, lease, ticker>>
    BY <1>8 DEF Grab, Goto, TypeOK, DispatchOK
  <2>2. Dispatching(t)'
    BY <1>4, <2>1
  <2>3. \A r \in holds' : \E u \in Units(t) : r \in Needs(t, u)
    BY <1>5, <1>6, <2>1
  <2>4. \A u \in Units(t) : Relies(t, u)' => Needs(t, u) \subseteq holds'
    BY <1>3, <2>1 DEF HoldsInv, Relies, Leased
  <2>5. \A s \in Task : pc'[s] \notin { "claimed", "checked" }
    BY <1>1, <1>7, <2>1 DEF Same
  <2> QED BY <1>2, <1>4, <1>5, <2>2, <2>3, <2>4, <2>5 DEF HoldsInv, Units
<1>9. CASE Finally(t)
  <2>1. holds' = {}
    BY <1>6, <1>9 DEF Finally, Dropped
  <2>2. \A s \in Task : ~Dispatching(s)'
    BY <1>4, <1>9, ConstantAssumption DEF Finally, Dispatching, TypeOK, DispatchOK
  <2> QED BY <2>1, <2>2 DEF HoldsInv
<1>10. CASE ~Grab(t) /\ ~Finally(t)
  <2>1. holds' = holds
    BY <1>10 DEF Dispatch, resVars, CheckQueued, WritePreparing, HoldCheck, Register,
       PrepareOk, PrepareRejected, PrepareRaised, Query, Commit, Reserve, WritePlan, PlanAck,
       PlanFailed, StartCheck, Dispatched, Starting, Running, ExecuteCall, ExecuteResult,
       ExecuteRaised, EndCheck, Finalize, CleanupFailed, Release, Settle, ForceFinalizing,
       ForceTarget, Advance
  <2>2. /\ pc'[t] \in { "claimed", "checked" } => pc[t] \in { "claimed", "checked" }
        /\ pc'[t] = "done" => pc[t] = "claimed"
    BY <1>10, HoldsElsewhere DEF GangInv, GangStage
  <2>3. \A u \in Units(t) : Relies(t, u)' => Relies(t, u)
    BY <1>10, HoldsElsewhere DEF GangInv, GangStage
  <2>4. \A s \in Task : pc'[s] \in { "claimed", "checked" } => holds' = {}
    BY <1>1, <1>7, <2>1, <2>2 DEF HoldsInv, Same
  <2>5. CASE Dispatching(t)'
    <3>1. \A u \in Units(t) : Relies(t, u)' => Needs(t, u) \subseteq holds'
      BY <1>3, <2>1, <2>3 DEF HoldsInv
    <3>2. \A r \in holds' : \E u \in Units(t) : r \in Needs(t, u)
      BY <1>6, <2>1
    <3> QED BY <1>2, <1>4, <1>5, <2>4, <2>5, <3>1, <3>2 DEF HoldsInv, Units
  <2>6. CASE ~Dispatching(t)'
    <3>1. holds' = {}
      BY <1>4, <2>1, <2>2, <2>6 DEF HoldsInv
    <3> QED BY <1>4, <2>6, <3>1 DEF HoldsInv
  <2> QED BY <2>5, <2>6
<1> QED BY <1>8, <1>9, <1>10

LEMMA HoldsNext == OneTicker /\ LeaseInv /\ GangInv /\ HoldsInv /\ [Next]_vars => HoldsInv'
<1> SUFFICES ASSUME OneTicker, LeaseInv, GangInv, HoldsInv, [Next]_vars PROVE HoldsInv'
  OBVIOUS
<1> USE DEF LeaseInv, QueueInv
<1>1. ASSUME UNCHANGED <<holds, ticker, sel, cur, pc>>,
             \A t \in Task, u \in Unit : Leased(t, u)' => Leased(t, u)
      PROVE  HoldsInv'
  <2>1. \A s \in Task, u \in Unit : Needs(s, u)' = Needs(s, u) /\ (Relies(s, u)' => Relies(s, u))
    BY <1>1 DEF Needs, GpuResources, Container1, Relies
  <2>2. \A s \in Task : Dispatching(s)' <=> Dispatching(s)
    BY <1>1 DEF Dispatching
  <2> QED BY <1>1, <2>1, <2>2, UnitsAreUnits DEF HoldsInv, Units
<1>2. ASSUME NEW k \in Ticker, NEW t \in Task, TickClaim(k, t)
      PROVE  HoldsInv'
  <2>1. /\ t \in queue /\ ticker[k] = NoTask /\ ticker' = [ticker EXCEPT ![k] = t]
        /\ pc' = [pc EXCEPT ![t] = "claimed"] /\ UNCHANGED <<holds, lease>>
    BY <1>2 DEF TickClaim, resVars, leaseVars
  <2>2. \A s \in Task : ~Dispatching(s) /\ (Dispatching(s)' => s = t)
    BY <2>1, ConstantAssumption DEF OneTicker, Dispatching, TypeOK, DispatchOK
  <2>3. holds = {}
    BY <2>2 DEF HoldsInv
  <2>4. \A u \in Units(t) : ~Relies(t, u)'
    BY <2>1, UnitsAreUnits DEF DispatchesMatch, LeasesMatch, Unleased, Relies, Leased, TypeOK,
       DispatchOK
  <2> QED BY <2>1, <2>2, <2>3, <2>4 DEF HoldsInv, Units
<1>3. CASE Crash
  <2>1. holds' = {} /\ \A s \in Task : ~Dispatching(s)'
    BY <1>3, ConstantAssumption DEF Crash, Dispatching
  <2> QED BY <2>1 DEF HoldsInv
<1>4. ASSUME NEW k \in Ticker, TickIdle(k)
      PROVE  HoldsInv'
  BY <1>1, <1>4 DEF TickIdle, dispVars, resVars, leaseVars, Leased
<1>5. ASSUME NEW t \in Task, Enqueue(t) \/ Wait(t)
      PROVE  HoldsInv'
  BY <1>1, <1>5 DEF Enqueue, Wait, dispVars, resVars, leaseVars, Leased
<1>6. ASSUME NEW t \in Task, CancelQueued(t) \/ CancelWrite(t) \/ CancelAbort(t)
                             \/ CancelRequest(t) \/ CancelReply(t)
      PROVE  HoldsInv'
  BY <1>1, <1>6 DEF CancelQueued, CancelWrite, CancelAbort, CancelRequest, CancelReply,
     dispVars, resVars,
     leaseVars, Leased
<1>7. ASSUME NEW t \in Task, ReconcileAsk(t) \/ ReconcileRelease(t) \/ ReconcileResolve(t)
      PROVE  HoldsInv'
  <2>1. UNCHANGED <<dispVars, holds>>
    BY <1>7 DEF ReconcileAsk, ReconcileRelease, ReconcileResolve, resVars
  <2>2. \A s \in Task, u \in Unit : Leased(s, u)' => Leased(s, u)
    BY <1>7, UnitsAreUnits DEF ReconcileAsk, ReconcileRelease, ReconcileResolve, leaseVars,
       Leased,
       TypeOK, LeasesOK
  <2> QED BY <1>1, <2>1, <2>2 DEF dispVars
<1>8. ASSUME NEW t \in Task, NEW u \in Units(t), WorkerStep(t, u)
      PROVE  HoldsInv'
  BY <1>1, <1>8 DEF WorkerStep, Deliver, Launch, Exit, dispVars, resVars, leaseVars, Leased
<1>9. ASSUME NEW w \in Worker, NEW S \in SUBSET Gpu, RegisterWorker(w, S)
      PROVE  HoldsInv'
  BY <1>1, <1>9 DEF RegisterWorker, dispVars, resVars, leaseVars, Leased
<1>10. CASE UNCHANGED vars
  BY <1>1, <1>10 DEF vars, dispVars, resVars, leaseVars, Leased
<1> QED BY <1>2, <1>3, <1>4, <1>5, <1>6, <1>7, <1>8, <1>9, <1>10, HoldsDispatch DEF Next

(* While only one thread ticks, _holds is exactly what keeps a dispatch's  *)
(* resources: it loses none that its leases rely on, and nothing stays     *)
(* behind when it ends, by whatever path.                                  *)
THEOREM HoldsAreExact ==
    ASSUME OneTicker
    PROVE  Spec => []HoldsAreTheDispatchers
<1>1. Init => HoldsInv
  BY ConstantAssumption DEF Init, HoldsInv, Dispatching
<1>2. LeaseInv /\ GangInv /\ HoldsInv /\ [Next]_vars => HoldsInv'
  BY HoldsNext
<1>3. LeaseInv /\ HoldsInv => HoldsAreTheDispatchers
  BY UnitsAreUnits DEF LeaseInv, LeasesMatch, HoldsInv, Relies, HoldsAreTheDispatchers
<1>4. LeaseInv /\ [Next]_vars => LeaseInv'
  BY LeaseNext
<1>5. GangInv /\ [Next]_vars => GangInv'
  BY GangNext
<1> QED BY <1>1, <1>2, <1>3, <1>4, <1>5, LeaseInit, GangInit, PTL DEF Spec
-----------------------------------------------------------------------------
(* The refinement of Ownership.  The two modules speak of the same table.  *)
LEMMA SameTable ==
    /\ Own!TaskState = TaskState
    /\ Own!ActiveStates = ActiveStates
    /\ Own!OutcomeStates = OutcomeStates
    /\ \A s : Own!TaskTargets(s) = TaskTargets(s)
  BY DEF Own!TaskState, Own!ActiveStates, Own!OutcomeStates, Own!TaskTargets,
         TaskState, ActiveStates, OutcomeStates, TaskTargets

(* What a Task owns, before and after a step.                              *)
LEMMA OwnedIs ==
    /\ Owned  = [t \in Task |-> Owned[t]]
    /\ Owned' = [t \in Task |-> Owned'[t]]
    /\ \A t \in Task : \A r :
          r \in Owned[t]  <=> \E v \in Unit : Leased(t, v)  /\ r \in Needs(t, v)
    /\ \A t \in Task : \A r :
          r \in Owned'[t] <=> \E v \in Unit : Leased(t, v)' /\ r \in Needs(t, v)'
  BY DEF Owned

LEMMA OwnedKept ==
    ASSUME NEW t \in Task,
           \A u \in Unit : /\ Leased(t, u)' <=> Leased(t, u)
                           /\ Leased(t, u) => sel'[t][u] = sel[t][u]
    PROVE  Owned'[t] = Owned[t]
<1>1. \A u \in Unit : Leased(t, u) => Needs(t, u)' = Needs(t, u)
  BY DEF Needs, GpuResources, Container1
<1>2. \A r : r \in Owned'[t] <=> r \in Owned[t]
  BY <1>1, OwnedIs
<1> QED BY <1>2

LEMMA OwnedSame ==
    ASSUME \A t \in Task, u \in Unit : /\ Leased(t, u)' <=> Leased(t, u)
                                       /\ Leased(t, u) => sel'[t][u] = sel[t][u]
    PROVE  Owned' = Owned
  BY OwnedKept, OwnedIs

LEMMA OwnsSome ==
    ASSUME NEW t \in Task, NEW u \in Unit, Leased(t, u)
    PROVE  Owned[t] # {}
<1>1. Container1(t, u) \in Needs(t, u)
  BY DEF Needs
<1>2. Container1(t, u) \in Owned[t]
  BY <1>1, OwnedIs
<1> QED BY <1>2

LEMMA OwnsNone ==
    ASSUME LeasesMatch, NEW t \in Task, ~HoldsLease(t)
    PROVE  Owned[t] = {}
<1>1. \A u \in Unit : ~Leased(t, u)
  BY DEF LeasesMatch, HoldsLease
<1>2. \A r : r \notin Owned[t]
  BY <1>1, OwnedIs
<1> QED BY <1>2

(* The steps of _dispatch that write no status.                            *)
StatusKept(t) ==
    \/ CheckQueued(t) \/ HoldCheck(t) \/ Grab(t) \/ Register(t) \/ PrepareOk(t)
    \/ PrepareRejected(t) \/ PrepareRaised(t) \/ Query(t) \/ Commit(t) \/ WritePlan(t)
    \/ PlanAck(t) \/ PlanFailed(t) \/ StartCheck(t) \/ ExecuteCall(t)
    \/ ExecuteResult(t) \/ ExecuteRaised(t) \/ EndCheck(t) \/ Release(t) \/ Finally(t)
LEMMA StatusIsKept ==
    ASSUME NEW t \in Task, StatusKept(t)
    PROVE  UNCHANGED statusVars
  BY DEF StatusKept, CheckQueued, HoldCheck, Grab, Register, PrepareOk, PrepareRejected,
     PrepareRaised, Query, Commit, WritePlan, PlanAck, PlanFailed, StartCheck,
     ExecuteCall, ExecuteResult, ExecuteRaised, EndCheck, Release, Finally

(* The induction behind the refinement.                                    *)
LEMMA UnderlyingNext ==
    ASSUME OutcomesInv, UnderlyingInv, [Next]_vars
    PROVE  UnderlyingInv'
<1> USE DEF UnderlyingInv, OutcomeStates
<1>0. TypeOK
  BY DEF OutcomesInv, GangInv, QueueInv
<1>1. ASSUME UNCHANGED underlying
      PROVE  UnderlyingInv'
  BY <1>1
<1>2. ASSUME NEW t \in Task, NEW s, NEW x \in OutcomeStates \cup { "NONE" }, SetStatus(t, s, x)
      PROVE  UnderlyingInv'
  BY <1>0, <1>2 DEF SetStatus, TypeOK, StatusOK
<1>3. ASSUME NEW t \in Task, NEW f, NEW s, NEW to, NEW x \in OutcomeStates \cup { "NONE" },
             Advance(t, f, s, x, to)
      PROVE  UnderlyingInv'
  BY <1>1, <1>2, <1>3 DEF Advance, statusVars
<1>4. ASSUME NEW t \in Task, Dispatch(t)
      PROVE  UnderlyingInv'
  <2>1. CASE \/ Reserve(t) \/ Dispatched(t) \/ Starting(t) \/ Running(t)
             \/ Finalize(t) \/ Settle(t)
    BY <1>3, <2>1 DEF Reserve, Dispatched, Starting, Running, Finalize, Settle
  <2>2. CASE CleanupFailed(t)
    <3>1. \/ UNCHANGED underlying
          \/ SetStatus(t, "CLEANUP_FAILED", verdict[t]) /\ pc[t] = "cleanup_failed"
      BY <2>2 DEF CleanupFailed, Advance, Goto, statusVars
    <3>2. pc[t] = "cleanup_failed" => verdict[t] \in OutcomeStates
      BY DEF OutcomesInv, VerdictStage, Concluded
    <3> QED BY <1>1, <1>2, <3>1, <3>2
  <2>3. CASE WritePreparing(t) \/ ForceFinalizing(t)
    BY <1>2, <2>3 DEF WritePreparing, ForceFinalizing
  <2>4. CASE ForceTarget(t)
    <3>1. SetStatus(t, verdict[t], IF status[t] = "FINALIZING" THEN "FAILED" ELSE underlying[t])
      BY <2>4 DEF ForceTarget
    <3> QED BY <1>2, <3>1
  <2>5. CASE StatusKept(t)
    BY <1>1, <2>5, StatusIsKept DEF statusVars
  <2> QED BY <1>4, <2>1, <2>2, <2>3, <2>4, <2>5 DEF Dispatch, StatusKept
<1>5. ASSUME NEW k \in Ticker, TickIdle(k) \/ \E t \in Task : TickClaim(k, t)
      PROVE  UnderlyingInv'
  BY <1>5 DEF TickIdle, TickClaim, Expire
<1>6. ASSUME NEW t \in Task, CancelWrite(t)
      PROVE  UnderlyingInv'
  BY <1>2, <1>6 DEF CancelWrite
<1>7. ASSUME NEW t \in Task,
             \/ CancelQueued(t) \/ CancelAbort(t) \/ CancelRequest(t) \/ Enqueue(t) \/ Wait(t)
             \/ ReconcileAsk(t) \/ ReconcileRelease(t) \/ ReconcileResolve(t)
      PROVE  UnderlyingInv'
  BY <1>1, <1>7 DEF CancelQueued, CancelAbort, CancelRequest, Enqueue, Wait, ReconcileAsk,
     ReconcileRelease, ReconcileResolve, statusVars
<1>8. CASE WorkerMoves
  BY <1>1, <1>8 DEF WorkerMoves, statusVars
<1>9. CASE Crash \/ UNCHANGED vars \/ \E w \in Worker, S \in SUBSET Gpu : RegisterWorker(w, S)
  BY <1>1, <1>9 DEF Crash, vars, RegisterWorker, statusVars
<1> QED BY <1>0, <1>4, <1>5, <1>6, <1>7, <1>8, <1>9, WorkersMove DEF Next

(* Only Register and Release change what the Task of a dispatch owns.      *)
LEMMA OwnedElsewhere ==
    ASSUME GangInv, NEW t \in Task, Dispatch(t), ~Register(t), ~Release(t)
    PROVE  Owned' = Owned
<1>0. TypeOK /\ LeaseStage(t) /\ cur[t] \in Units(t) /\ Units(t) \subseteq Unit
  BY UnitsAreUnits DEF GangInv, GangStage, QueueInv, TypeOK, DispatchOK
<1>1. DispatchEffect(t)
  BY <1>0, DispatchDoes
<1>2. sel' = sel /\ \A s \in Task : s # t => lease'[s] = lease[s]
  BY <1>1 DEF DispatchEffect
<1>3. CASE Commit(t)
  <2>1. pc[t] = "commit" /\ lease' = [lease EXCEPT ![t][cur[t]] = "committed"]
    BY <1>3 DEF Commit, NextUnit, Goto
  <2>2. Leased(t, cur[t]) /\ \A u \in Unit : Leased(t, u)' <=> Leased(t, u)
    BY <1>0, <2>1 DEF LeaseStage, Leased, TypeOK, LeasesOK
  <2> QED BY <1>2, <2>2, OwnedSame DEF Leased
<1>4. CASE ~Commit(t)
  <2>1. UNCHANGED lease
    BY <1>4 DEF Dispatch, leaseVars, Advance, CheckQueued, WritePreparing, HoldCheck,
       Grab, PrepareOk, PrepareRejected, PrepareRaised, Query, Reserve, WritePlan,
       PlanAck, PlanFailed, StartCheck, Dispatched, Starting, Running, ExecuteCall,
       ExecuteResult, ExecuteRaised, EndCheck, Finalize, CleanupFailed, Settle,
       ForceFinalizing, ForceTarget, Finally
  <2> QED BY <1>2, <2>1, OwnedSame DEF Leased
<1> QED BY <1>3, <1>4

(* An ordinary transition of Ownership.                                    *)
LEMMA MoveStep ==
    ASSUME NEW t \in Task, NEW s \in TaskState, status' = [status EXCEPT ![t] = s], Owned' = Owned,
           s \in TaskTargets(status[t]),
           s \in { "RESERVED", "DISPATCHED", "STARTING", "RUNNING" } => Owned[t] # {},
           s \in OutcomeStates => Owned[t] = {}
    PROVE  Own!Next
<1>1. Own!Move(t, s)
  BY SameTable DEF Own!Move
<1> QED BY <1>1, SameTable DEF Own!Next

LEMMA TakeStep ==
    ASSUME OneTicker, LeaseInv, GangInv, \A s \in Task : StatusStage(s), NEW t \in Task, Register(t)
    PROVE  Own!Next
<1> USE DEF LeaseInv, QueueInv
<1> DEFINE c == cur[t]
<1>1. /\ pc[t] = "register" /\ status' = status /\ sel' = sel
      /\ lease' = [lease EXCEPT ![t][c] = "held"]
      /\ c \in Units(t) /\ c \in Unit
  BY UnitsAreUnits DEF Register, Goto, statusVars, TypeOK, DispatchOK
<1>2. ~Leased(t, c)
  BY <1>1, UnitNumbers DEF GangInv, GangStage, LeaseStage, Taking, Leased
<1>3. Needs(t, c)' = Needs(t, c) /\ \A s \in Task, u \in Unit : Needs(s, u)' = Needs(s, u)
  BY <1>1 DEF Needs, GpuResources, Container1, Register
<1>4. \A s \in Task, u \in Unit : Leased(s, u)' <=> Leased(s, u) \/ (s = t /\ u = c)
  BY <1>1 DEF Leased, TypeOK, LeasesOK
<1>5. \A s \in Task : s # t => Owned'[s] = Owned[s]
  BY <1>1, <1>4, OwnedKept
<1>6. Owned'[t] = Owned[t] \cup Needs(t, c)
  <2>1. \A r : r \in Owned'[t] <=> r \in Owned[t] \/ r \in Needs(t, c)
    BY <1>1, <1>3, <1>4, OwnedIs
  <2> QED BY <2>1
<1>7. Owned' = [Owned EXCEPT ![t] = @ \cup Needs(t, c)]
  BY <1>5, <1>6, OwnedIs
<1>8. Needs(t, c) \subseteq Resource \ Own!Taken
  <2>1. Dispatching(t)
    BY <1>1 DEF DispatchesMatch
  <2>2. \A s \in Task, v \in Unit : Leased(s, v) => Needs(t, c) \cap Needs(s, v) = {}
    BY <1>1, <1>2, <2>1, UnitsApart DEF ClaimsAreFree, LeasesMatch
  <2>3. \A s \in Task : Needs(t, c) \cap Owned[s] = {}
    BY <2>2, OwnedIs
  <2>4. Needs(t, c) \cap Own!Taken = {}
    BY <2>3 DEF Own!Taken
  <2> QED BY <1>1, <2>4, NeedsType
<1>9. Needs(t, c) # {}
  BY DEF Needs
<1>10. status[t] = "PREPARING"
  BY <1>1 DEF StatusStage, Taking
<1> HIDE DEF c
<1>11. Own!Acquire(t)
  BY <1>1, <1>7, <1>8, <1>9, <1>10 DEF Own!Acquire
<1> QED BY <1>11 DEF Own!Next

(* A lease that ends, of a Task that may give resources back.              *)
LEMMA GiveStep ==
    ASSUME TypeOK, UNCHANGED <<status, sel>>, NEW t \in Task, NEW u \in Unit,
           lease' = [lease EXCEPT ![t][u] = "released"] \/ lease' = lease,
           status[t] \in { "PREPARING", "FINALIZING", "CLEANUP_FAILED", "RECONCILIATION_REQUIRED" }
    PROVE  Own!Next \/ Owned' = Owned
<1>1. \A s \in Task, v \in Unit : /\ Leased(s, v)' => Leased(s, v)
                                  /\ s # t => (Leased(s, v)' <=> Leased(s, v))
  BY DEF Leased, TypeOK, LeasesOK
<1>2. \A s \in Task : s # t => Owned'[s] = Owned[s]
  BY <1>1, OwnedKept
<1>3. \A s \in Task, v \in Unit : Needs(s, v)' = Needs(s, v)
  BY DEF Needs, GpuResources, Container1
<1>4. Owned'[t] \subseteq Owned[t]
  BY <1>1, <1>3, OwnedIs
<1> DEFINE R == Owned[t] \ Owned'[t]
<1>5. Owned'[t] = Owned[t] \ R
  BY <1>4
<1>6. Owned' = [Owned EXCEPT ![t] = @ \ R]
  BY <1>2, <1>5, OwnedIs
<1>7. R # {} => Own!Surrender(t)
  <2>1. R \in SUBSET Owned[t]
    OBVIOUS
  <2> HIDE DEF R
  <2> QED BY <1>6, <2>1 DEF Own!Surrender, Own!MayRelease
<1>8. R = {} => Owned' = Owned
  <2>1. R = {} => Owned'[t] = Owned[t]
    BY <1>5
  <2> QED BY <1>2, <2>1, OwnedIs
<1> QED BY <1>7, <1>8 DEF Own!Next

(* Each step of a dispatch is a step of Ownership or none.                 *)
LEMMA DispatchRefines ==
    ASSUME OneTicker, NotEarly, LeaseInv, OutcomesInv, NEW t \in Task, Dispatch(t)
    PROVE  [Own!Next]_(Own!vars)
<1>0. /\ TypeOK /\ GangInv /\ LeasesMatch /\ GangStage(t) /\ LeaseStage(t) /\ ReconcileStage(t)
      /\ StatusStage(t) /\ VerdictStage(t) /\ \A s \in Task : StatusStage(s)
  BY DEF LeaseInv, OutcomesInv, GangInv, GangStage, QueueInv
<1>a. 1 \in Units(t) /\ 1 \in Unit
  BY FirstUnit
<1>1. CASE Register(t)
  BY <1>0, <1>1, TakeStep
<1>2. CASE Release(t)
  <2>1. /\ UNCHANGED <<status, sel>> /\ cur[t] \in Unit
        /\ pc[t] \in { "release", "fail_release" }
        /\ lease' = [lease EXCEPT ![t][cur[t]] = Deleted(t, cur[t])]
    BY <1>0, <1>2 DEF Release, NextUnit, Goto, statusVars, TypeOK, DispatchOK
  <2>2. \/ lease' = [lease EXCEPT ![t][cur[t]] = "released"]
        \/ lease' = lease
    <3>1. CASE lease[t][cur[t]] = "none"
      BY <1>0, <2>1, <3>1 DEF Deleted, TypeOK, LeasesOK
    <3>2. CASE lease[t][cur[t]] # "none"
      BY <2>1, <3>2 DEF Deleted
    <3> QED BY <3>1, <3>2
  <2>3. status[t] \in { "PREPARING", "FINALIZING" }
    BY <1>0, <2>1 DEF StatusStage, Taking, Concluded
  <2> QED BY <1>0, <2>1, <2>2, <2>3, GiveStep DEF Own!vars
<1>3. CASE ~Register(t) /\ ~Release(t)
  <2>0. Owned' = Owned
    BY <1>0, <1>3, OwnedElsewhere
  <2>1. CASE StatusKept(t)
    BY <2>0, <2>1, StatusIsKept DEF statusVars, Own!vars
  <2>2. ASSUME NEW f, NEW x \in TaskState, NEW under, NEW to, Advance(t, f, x, under, to),
               pc[t] = f => /\ x \in { "RESERVED", "DISPATCHED", "STARTING", "RUNNING" } =>
                                  Owned[t] # {}
                            /\ x \in OutcomeStates => Owned[t] = {}
        PROVE  [Own!Next]_(Own!vars)
    <3>1. CASE UNCHANGED statusVars
      BY <2>0, <3>1 DEF statusVars, Own!vars
    <3>2. CASE ~UNCHANGED statusVars
      <4>1. /\ pc[t] = f /\ x \in TaskTargets(status[t])
            /\ status' = [status EXCEPT ![t] = x]
        BY <2>2, <3>2 DEF Advance, Goto, SetStatus
      <4> QED BY <2>0, <2>2, <4>1, MoveStep
    <3> QED BY <3>1, <3>2
  <2>3. CASE Reserve(t) \/ Dispatched(t) \/ Starting(t) \/ Running(t)
    <3>1. pc[t] \in { "reserve", "dispatch", "starting", "running" }
      BY <2>3 DEF Reserve, Dispatched, Starting, Running, Advance, Goto, FailKeep
    <3>2. Leased(t, 1)
      BY <1>0, <1>a, <3>1 DEF LeaseStage, Underway, Kept, NotEarly, Leased
    <3>3. Owned[t] # {}
      BY <1>a, <3>2, OwnsSome
    <3>4. { "RESERVED", "DISPATCHED", "STARTING", "RUNNING" } \subseteq TaskState \ OutcomeStates
      BY DEF TaskState, OutcomeStates
    <3> QED BY <2>2, <2>3, <3>3, <3>4 DEF Reserve, Dispatched, Starting, Running
  <2>4. CASE Finalize(t) \/ CleanupFailed(t)
    <3>1. { "FINALIZING", "CLEANUP_FAILED" } \subseteq
             TaskState \ ({ "RESERVED", "DISPATCHED", "STARTING", "RUNNING" } \cup OutcomeStates)
      BY DEF TaskState, OutcomeStates
    <3> QED BY <2>2, <2>4, <3>1 DEF Finalize, CleanupFailed
  <2>5. CASE Settle(t)
    <3>1. pc[t] = "settle"
      BY <2>5 DEF Settle, Advance, Goto, FailKeep
    <3>2. verdict[t] \in OutcomeStates /\ ~HoldsLease(t)
      BY <1>0, <3>1 DEF VerdictStage, Concluded, LeaseStage, HoldsLease, Leased
    <3>3. Owned[t] = {}
      BY <1>0, <3>2, OwnsNone
    <3>4. verdict[t] \in TaskState \ { "RESERVED", "DISPATCHED", "STARTING", "RUNNING" }
      BY <3>2 DEF OutcomeStates, TaskState
    <3> QED BY <2>2, <2>5, <3>3, <3>4 DEF Settle
  <2>6. CASE WritePreparing(t)
    <3>1. status[t] = "QUEUED" /\ status' = [status EXCEPT ![t] = "PREPARING"]
      BY <1>0, <2>6 DEF WritePreparing, Goto, SetStatus, StatusStage
    <3>2. "PREPARING" \in TaskTargets(status[t]) /\ "PREPARING" \in TaskState \ OutcomeStates
      BY <3>1 DEF TaskTargets, TaskState, OutcomeStates
    <3> QED BY <2>0, <3>1, <3>2, MoveStep
  <2>7. CASE ForceFinalizing(t)
    <3>1. /\ "FINALIZING" \in TaskTargets(status[t]) /\ "FINALIZING" \in TaskState \ OutcomeStates
          /\ status' = [status EXCEPT ![t] = "FINALIZING"]
      BY <2>7 DEF ForceFinalizing, SetStatus, TaskState, OutcomeStates
    <3> QED BY <2>0, <3>1, MoveStep
  <2>8. CASE ForceTarget(t)
    <3>1. /\ pc[t] = "fail_settle" /\ status' = [status EXCEPT ![t] = verdict[t]]
          /\ status[t] = "FINALIZING" \/ "FINALIZING" \notin TaskTargets(status[t])
      BY <2>8 DEF ForceTarget, Goto, SetStatus
    <3>2. status[t] \in ActiveStates
      BY <1>0, <3>1 DEF StatusStage
    <3>3. status[t] = "FINALIZING"
      BY <3>1, <3>2 DEF ActiveStates, TaskTargets
    <3>4. verdict[t] \in { "FAILED", "RECONCILIATION_REQUIRED" }
      BY <1>0, <3>1 DEF TypeOK, DispatchOK
    <3>5. verdict[t] \in TaskTargets(status[t]) /\ verdict[t] \in TaskState
      BY <3>3, <3>4 DEF TaskTargets, TaskState
    <3>6. verdict[t] \in OutcomeStates => Owned[t] = {}
      BY <1>0, <3>1, <3>4, OwnsNone DEF LeaseStage, OutcomeStates
    <3> QED BY <2>0, <3>1, <3>4, <3>5, <3>6, MoveStep
  <2> QED BY <1>3, <2>1, <2>3, <2>4, <2>5, <2>6, <2>7, <2>8 DEF Dispatch, StatusKept
<1> QED BY <1>1, <1>2, <1>3

(* A pass over the queue blocks some Tasks and selects for one without     *)
(* leases.                                                                 *)
LEMMA TickRefines ==
    ASSUME LeaseInv, NEW k \in Ticker, TickIdle(k) \/ \E t \in Task : TickClaim(k, t)
    PROVE  [Own!Next]_(Own!vars)
<1> USE DEF LeaseInv, QueueInv
<1>1. PICK E : Expire(E)
  BY DEF TickIdle, TickClaim
<1> DEFINE B == { s \in Task : s \in E /\ status[s] = "QUEUED" }
<1>2. status' = [s \in Task |-> IF s \in B THEN "BLOCKED" ELSE status[s]]
  BY <1>1 DEF Expire
<1>3. Owned' = Owned
  <2>1. lease' = lease
    BY DEF TickIdle, TickClaim, leaseVars
  <2>2. CASE TickIdle(k)
    BY <2>1, <2>2, OwnedSame DEF TickIdle, dispVars, Leased
  <2>3. ASSUME NEW t \in Task, TickClaim(k, t)
        PROVE  Owned' = Owned
    <3>1. t \in queue /\ \A s \in Task : s # t => sel'[s] = sel[s]
      BY <2>3 DEF TickClaim, TypeOK, DispatchOK
    <3>2. \A u \in Unit : ~Leased(t, u)
      BY <3>1 DEF DispatchesMatch, LeasesMatch, Unleased
    <3> QED BY <2>1, <3>1, <3>2, OwnedSame DEF Leased
  <2> QED BY <2>2, <2>3
<1>4. B \in SUBSET Task /\ \A s \in B : status[s] = "QUEUED"
  OBVIOUS
<1> HIDE DEF B
<1>5. Own!Block(B)
  BY <1>2, <1>3, <1>4 DEF Own!Block
<1> QED BY <1>4, <1>5 DEF Own!Next

LEMMA ReconcileRefines ==
    ASSUME NotEarly, LeaseInv, OutcomesInv, UnderlyingInv, NEW t \in Task,
           ReconcileRelease(t) \/ ReconcileResolve(t)
    PROVE  [Own!Next]_(Own!vars)
<1>0. /\ TypeOK /\ LeasesMatch
      /\ lock = [op |-> "reconcile", task |-> t] => status[t] \in Unresolved
  BY DEF LeaseInv, QueueInv, OutcomesInv, GangInv, GangStage, ReconcileStage
<1>1. CASE ReconcileRelease(t)
  <2>1. PICK u \in Units(t) : lease' = [lease EXCEPT ![t][u] = "released"]
    BY <1>1 DEF ReconcileRelease
  <2>2. UNCHANGED <<status, sel>> /\ status[t] \in Unresolved
    BY <1>0, <1>1 DEF ReconcileRelease, statusVars, dispVars
  <2> QED BY <1>0, <2>1, <2>2, UnitsAreUnits, GiveStep DEF Unresolved, Own!vars
<1>2. CASE ReconcileResolve(t)
  <2>1. Owned' = Owned /\ Owned[t] = {}
    BY <1>0, <1>2, OwnedSame, OwnsNone DEF ReconcileResolve, dispVars, leaseVars, Leased
  <2>2. CASE status[t] # "CLEANUP_FAILED"
    <3>1. status' = status
      BY <1>0, <1>2, <2>2 DEF ReconcileResolve, Reconciled, TypeOK, StatusOK
    <3> QED BY <2>1, <3>1 DEF Own!vars
  <2>3. CASE status[t] = "CLEANUP_FAILED"
    <3>1. Reconciled(t) \in OutcomeStates /\ Reconciled(t) \in TaskState
      BY <2>3 DEF Reconciled, UnderlyingInv, OutcomeStates, TaskState
    <3>2. Own!Resolve(t, Reconciled(t))
      BY <1>2, <2>1, <2>3, <3>1, SameTable DEF ReconcileResolve, Own!Resolve
    <3> QED BY <3>1, <3>2, SameTable DEF Own!Next
  <2> QED BY <2>2, <2>3
<1> QED BY <1>1, <1>2

LEMMA CancelRefines ==
    ASSUME LeaseInv, OutcomesInv, NEW t \in Task, CancelWrite(t)
    PROVE  [Own!Next]_(Own!vars)
<1>0. TypeOK /\ StatusStage(t) /\ OutcomeInv(t) /\ DispatchesMatch /\ LeasesMatch
  BY DEF LeaseInv, QueueInv, OutcomesInv
<1>1. /\ status[t] \in { "QUEUED", "BLOCKED" }
      /\ status' = [status EXCEPT ![t] = "CANCELLED"]
      /\ UNCHANGED <<lease, sel>>
  BY <1>0 DEF CancelWrite, SetStatus, StatusStage, leaseVars, dispVars
<1>2. ~HoldsLease(t)
  <2>1. status[t] = "QUEUED" => pc[t] \in Unleased
    BY <1>0 DEF DispatchesMatch, Waiting
  <2>2. status[t] = "BLOCKED" => ~HoldsLease(t)
    BY <1>0 DEF OutcomeInv
  <2> QED BY <1>0, <1>1, <2>1, <2>2, UnitsAreUnits DEF LeasesMatch, HoldsLease
<1>3. Owned' = Owned /\ Owned[t] = {}
  BY <1>0, <1>1, <1>2, OwnedSame, OwnsNone DEF Leased
<1>4. "CANCELLED" \in TaskTargets(status[t]) /\ "CANCELLED" \in TaskState
  BY <1>1 DEF TaskTargets, TaskState
<1> QED BY <1>1, <1>3, <1>4, MoveStep

LEMMA CrashRefines ==
    ASSUME LeaseInv, Crash
    PROVE  [Own!Next]_(Own!vars)
<1>1. status' = [t \in Task |-> IF status[t] \in ActiveStates
                                  THEN "RECONCILIATION_REQUIRED" ELSE status[t]]
  BY DEF Crash, RestartStatus
<1>2. \A t \in Task, u \in Unit : /\ Leased(t, u)' <=> Leased(t, u)
                                  /\ Leased(t, u) => sel'[t][u] = sel[t][u]
  BY DEF Crash, leaseVars, Leased, HoldsLease, LeaseInv, LeasesMatch
<1>3. Owned' = Owned
  BY <1>2, OwnedSame
<1>4. Own!Restart
  BY <1>1, <1>3, SameTable DEF Own!Restart
<1> QED BY <1>4 DEF Own!Next

LEMMA NextRefines ==
    OneTicker /\ NotEarly /\ LeaseInv /\ OutcomesInv /\ UnderlyingInv /\ [Next]_vars
        => [Own!Next]_(Own!vars)
<1> SUFFICES ASSUME OneTicker, NotEarly, LeaseInv, OutcomesInv, UnderlyingInv, [Next]_vars
             PROVE  [Own!Next]_(Own!vars)
  OBVIOUS
<1>0. TypeOK
  BY DEF LeaseInv, QueueInv
<1>1. ASSUME UNCHANGED <<status, lease, sel>>
      PROVE  [Own!Next]_(Own!vars)
  BY <1>1, OwnedSame DEF Leased, Own!vars
<1>2. ASSUME NEW t \in Task, Enqueue(t)
      PROVE  [Own!Next]_(Own!vars)
  <2>1. status[t] = "CREATED" /\ status' = [status EXCEPT ![t] = "QUEUED"]
    BY <1>2 DEF Enqueue, Unknown
  <2>2. "QUEUED" \in TaskTargets(status[t]) /\ "QUEUED" \in TaskState \ OutcomeStates
    BY <2>1 DEF TaskTargets, TaskState, OutcomeStates
  <2>3. Owned' = Owned
    BY <1>2, OwnedSame DEF Enqueue, dispVars, leaseVars, Leased
  <2> QED BY <2>1, <2>2, <2>3, MoveStep
<1>3. ASSUME NEW t \in Task,
             \/ Wait(t) \/ CancelQueued(t) \/ CancelAbort(t) \/ CancelRequest(t) \/ ReconcileAsk(t)
      PROVE  [Own!Next]_(Own!vars)
  BY <1>1, <1>3 DEF Wait, CancelQueued, CancelAbort, CancelRequest, ReconcileAsk, statusVars,
     dispVars,
     leaseVars
<1>4. CASE WorkerMoves
  BY <1>1, <1>4 DEF WorkerMoves, statusVars, dispVars, leaseVars
<1>5. CASE UNCHANGED vars \/ \E w \in Worker, S \in SUBSET Gpu : RegisterWorker(w, S)
  BY <1>1, <1>5 DEF vars, RegisterWorker, statusVars, dispVars, leaseVars
<1> QED
  BY <1>0, <1>2, <1>3, <1>4, <1>5, DispatchRefines, TickRefines, CancelRefines,
     ReconcileRefines,
     CrashRefines, WorkersMove DEF Next

(* Under one ticking thread, without a cancel that races the first write   *)
(* of a dispatch and with administrators who keep to the documents, the    *)
(* scheduler implements Ownership: it takes only free resources and only   *)
(* while PREPARING, it starts and runs only with some, it gives them back  *)
(* only at the end, and it announces an outcome only without any.          *)
THEOREM OwnershipImplemented ==
    ASSUME OneTicker, NoRace, NotEarly
    PROVE  Spec => ImplementsOwnership
<1> DEFINE Inv == LeaseInv /\ OutcomesInv /\ UnderlyingInv
<1>1. Init => Inv /\ Own!Init
  <2> SUFFICES ASSUME Init PROVE Inv /\ Own!Init
    OBVIOUS
  <2>1. UnderlyingInv
    BY DEF Init, UnderlyingInv
  <2>2. \A t \in Task : Owned[t] = {}
    <3>1. \A t \in Task : \A r : r \notin Owned[t]
      BY OwnedIs DEF Init, Leased
    <3> QED BY <3>1
  <2>3. Own!Init
    BY <2>2, OwnedIs DEF Init, Own!Init
  <2> QED BY <2>1, <2>3, LeaseInit, OutcomesInit
<1>2. Inv /\ [Next]_vars => Inv'
  BY LeaseNext, OutcomesNext, UnderlyingNext
<1>3. Inv /\ [Next]_vars => [Own!Next]_(Own!vars)
  BY NextRefines
<1> QED BY <1>1, <1>2, <1>3, PTL DEF Spec, ImplementsOwnership, Own!Spec
=============================================================================
