----------------------------- MODULE StateStore -----------------------------
(* What the scheduler writes to its state directory, one file operation at  *)
(* a time, and what a start of the master rebuilds from it                  *)
(* (storage/events.py; _persist_status, _persist_lease, _delete_lease and   *)
(* _load of scheduler/core.py).                                             *)
(*                                                                          *)
(* A status change is three writes: a file of task-status-history, the      *)
(* snapshot, a line of the Task's event stream.  A lease change is two: a   *)
(* file of lease-history, the snapshot.  Each write is atomic (rename), but *)
(* a line can be torn.  History files are read in the order of their names, *)
(* statuses in the order of updated_at: both are times of the wall clock,   *)
(* which can step back, so that a file may sort before older ones.          *)
(*                                                                          *)
(* A start is two parts of create_app: the Scheduler, whose _load marks     *)
(* what was under way, and the ProposalService, which reads every event     *)
(* stream and ends the start when one is torn.  Only the streams of the     *)
(* Tasks are here; nothing but the removal of the half line helps, and that *)
(* is an administrator's to do.                                             *)
(*                                                                          *)
(* What decides about a dispatch is left to Scheduler: here it is only the  *)
(* order in which one Task's thread writes, and it may fail anywhere.  No   *)
(* file belongs to two Tasks, and one thread at a time writes those of one. *)
EXTENDS Naturals, Sequences, SequencesExt, TaskStates

CONSTANTS
  Task, Lease,
  LeasesOf,    \* the leases a dispatch of each Task takes, one per unit
  MaxStatus,   \* statuses written of one Task (bound of the instance)
  MaxCrash,    \* crashes of the master (bound of the instance)
  MaxSkew,     \* files that sort before older ones (bound of the instance)
  Faults       \* "tear": a line is not written in full; "wipe": snapshots deleted

ASSUME StoreAssumption ==
  /\ LeasesOf \in [Task -> (SUBSET Lease) \ { {} }]
  /\ \A t, u \in Task : t # u => LeasesOf[t] \cap LeasesOf[u] = {}
  /\ MaxStatus \in Nat /\ MaxCrash \in Nat /\ MaxSkew \in Nat

VARIABLES
  taskFiles,    \* immutable/tasks
  statusFiles,  \* immutable/task-status-history, per Task in the order of updated_at
  statusSnap,   \* snapshots/task-status
  leaseFiles,   \* immutable/lease-history, per lease in the order of names
  leaseSnap,    \* snapshots/leases
  lines,        \* events/tasks: whole lines of each Task's stream
  torn,         \* the streams that end in half a line
  mode,         \* "down", "loading": in create_app, "up"
  statuses,     \* _statuses ("CREATED": not in it)
  queue,        \* _queue
  leases,       \* _leases
  thread,       \* the call that works on the Task
  op,           \* the write of that call under way
  crashes, skews

historyVars == <<taskFiles, statusFiles, leaseFiles>>
snapVars    == <<statusSnap, leaseSnap>>
eventVars   == <<lines, torn>>
memoryVars  == <<statuses, queue, leases, thread>>
vars == <<historyVars, snapVars, eventVars, mode, memoryVars, op, crashes, skews>>

None == "none"
NoSnap == [value |-> "CREATED", nth |-> 0]
LeaseAction == { "HELD", "COMMITTED", "RELEASED" }
Threads == { None, "dispatch", "cancelled", "refused", "unsure", "reconcile" }
Idle == [step |-> "idle", of |-> None, value |-> None]
StatusWrite(t, s) == [step |-> "history", of |-> t, value |-> s]
LeaseWrite(l, a)  == [step |-> "lease_history", of |-> l, value |-> a]

Init ==
  /\ taskFiles = {} /\ torn = {} /\ queue = {}
  /\ statusFiles = [t \in Task |-> <<>>] /\ leaseFiles = [l \in Lease |-> <<>>]
  /\ statusSnap = [t \in Task |-> NoSnap] /\ leaseSnap = [l \in Lease |-> None]
  /\ lines = [t \in Task |-> 0]
  /\ mode = "down"
  /\ statuses = [t \in Task |-> "CREATED"]
  /\ leases = [l \in Lease |-> None]
  /\ thread = [t \in Task |-> None] /\ op = [t \in Task |-> Idle]
  /\ crashes = 0 /\ skews = 0

-----------------------------------------------------------------------------
(* Files.  Every entry carries the number of the write that made it, which  *)
(* the code does not know.                                                  *)

Entry(files, v) == [value |-> v, nth |-> Len(files) + 1]

(* new_id and utc_now sort last, unless the clock has stepped back.         *)
Additions(files, v) ==
  { InsertAt(files, i, Entry(files, v)) :
      i \in IF skews < MaxSkew THEN 1 .. Len(files) + 1 ELSE { Len(files) + 1 } }
WrittenLast(files) == files = <<>> \/ Last(files).nth = Len(files)
CountSkew(files) == skews' = IF WrittenLast(files) THEN skews ELSE skews + 1

(* _load takes the snapshot first, and any status of the history that is    *)
(* not older instead of it.                                                 *)
LatestStatus(files, snap) ==
  IF files # <<>> /\ (snap = NoSnap \/ \E i \in 1 .. Len(files) : files[i] = snap)
  THEN Last(files).value ELSE snap.value

(* Snapshots of leases first, then the history: HELD and COMMITTED put the  *)
(* lease back, RELEASED takes it away.                                      *)
LeaseSnapshotWins(files, snap) ==   \* mutant: the history is for missing snapshots only
  IF snap # None \/ files = <<>> THEN snap
  ELSE IF Last(files).value = "RELEASED" THEN None ELSE Last(files).value
ReleasesIgnored(files, snap) ==     \* mutant: RELEASED entries are skipped
  IF files = <<>> \/ Last(files).value = "RELEASED" THEN snap ELSE Last(files).value
RebuiltLease(files, snap) ==
  IF files = <<>> THEN snap
  ELSE IF Last(files).value = "RELEASED" THEN None ELSE Last(files).value

RebuiltStatuses == [t \in Task |-> LatestStatus(statusFiles[t], statusSnap[t])]
RebuiltLeases == [l \in Lease |-> RebuiltLease(leaseFiles[l], leaseSnap[l])]

-----------------------------------------------------------------------------
(* One write at a time.                                                     *)

Step(t, s) == op' = [op EXCEPT ![t].step = s]
Over(t) == op' = [op EXCEPT ![t] = Idle]
Forget ==
  /\ mode' = "down"
  /\ statuses' = [t \in Task |-> "CREATED"] /\ leases' = [l \in Lease |-> None]
  /\ queue' = {} /\ thread' = [t \in Task |-> None] /\ op' = [t \in Task |-> Idle]

WriteStatus(t) ==
  /\ op[t].step = "history"
  /\ \E files \in Additions(statusFiles[t], op[t].value) :
        /\ statusFiles' = [statusFiles EXCEPT ![t] = files]
        /\ CountSkew(files)
  /\ Step(t, "snapshot")
  /\ UNCHANGED <<taskFiles, leaseFiles, snapVars, eventVars, mode, memoryVars, crashes>>

WriteStatusSnapshot(t) ==
  /\ op[t].step = "snapshot"
  /\ statusSnap' = [statusSnap EXCEPT ![t] =
        [value |-> op[t].value, nth |-> Len(statusFiles[t])]]
  /\ Step(t, "event")
  /\ UNCHANGED <<historyVars, leaseSnap, eventVars, mode, memoryVars, crashes, skews>>

(* A dispatch ends with the status it returns.                              *)
Ends(t) ==
  \/ thread[t] = "reconcile"
  \/ thread[t] \in { "dispatch", "cancelled" }
     /\ op[t].value \in OutcomeStates \cup { "CLEANUP_FAILED" }
  \/ thread[t] \in { "refused", "unsure" } /\ op[t].value # "FINALIZING"

AppendEvent(t) ==
  /\ op[t].step = "event" /\ t \notin torn
  /\ lines' = [lines EXCEPT ![t] = @ + 1]
  /\ thread' = IF Ends(t) THEN [thread EXCEPT ![t] = None] ELSE thread
  /\ Over(t)
  /\ UNCHANGED <<historyVars, snapVars, torn, mode, statuses, queue, leases, crashes, skews>>

(* An append that raises ends a start of the master; it ends a call too,    *)
(* but in the try block of _dispatch it is one more failure, of an          *)
(* execution whose leases are committed by then.                            *)
Raised(t) ==
  \/ mode = "loading" /\ Forget
  \/ /\ mode = "up"
     /\ thread' = [thread EXCEPT ![t] =
           IF @ \in { "dispatch", "cancelled" } /\ op[t].value # "PREPARING"
           THEN "unsure" ELSE None]
     /\ Over(t)
     /\ UNCHANGED <<mode, statuses, queue, leases>>

AppendFails(t) ==
  /\ op[t].step = "event"
  /\ \/ t \in torn /\ UNCHANGED torn                 \* list_events refuses the stream
     \/ /\ "tear" \in Faults /\ t \notin torn        \* os.write wrote a part
        /\ torn' = torn \cup { t }
  /\ Raised(t)
  /\ UNCHANGED <<historyVars, snapVars, lines, crashes, skews>>

WriteLease(t) ==
  /\ op[t].step = "lease_history"
  /\ LET l == op[t].of IN
       \E files \in Additions(leaseFiles[l], op[t].value) :
          /\ leaseFiles' = [leaseFiles EXCEPT ![l] = files]
          /\ CountSkew(files)
  /\ Step(t, "lease_snapshot")
  /\ UNCHANGED <<taskFiles, statusFiles, snapVars, eventVars, mode, memoryVars, crashes>>

SnapshotNeverDeleted(t) ==   \* mutant: a released lease stays where it was
  /\ op[t].step = "lease_snapshot"
  /\ leases' = [leases EXCEPT ![op[t].of] = op[t].value]
  /\ leaseSnap' = [leaseSnap EXCEPT ![op[t].of] = op[t].value]
  /\ Over(t)
  /\ UNCHANGED <<historyVars, statusSnap, eventVars, mode, statuses, queue, thread,
                 crashes, skews>>
WriteLeaseSnapshot(t) ==
  /\ op[t].step = "lease_snapshot"
  /\ LET l == op[t].of
         kept == IF op[t].value = "RELEASED" THEN None ELSE op[t].value
     IN /\ leases' = [leases EXCEPT ![l] = kept]
        /\ leaseSnap' = [leaseSnap EXCEPT ![l] = kept]
  /\ Over(t)
  /\ UNCHANGED <<historyVars, statusSnap, eventVars, mode, statuses, queue, thread,
                 crashes, skews>>

-----------------------------------------------------------------------------
(* The calls.  Each begins its next write when the last one is done.        *)

Ready(t) == mode = "up" /\ op[t] = Idle
Room(t) == Len(statusFiles[t]) < MaxStatus
Held(t) == { l \in LeasesOf[t] : leases[l] # None }

(* _transition sets _statuses before it persists.                           *)
Change(t, s) ==
  /\ statuses' = [statuses EXCEPT ![t] = s]
  /\ op' = [op EXCEPT ![t] = StatusWrite(t, s)]

Transition(t, s) == s \in TaskTargets(statuses[t]) /\ Room(t) /\ Change(t, s)

Kept == <<historyVars, snapVars, eventVars, mode, leases, crashes, skews>>

(* enqueue: the Task's file, unless it is there from an earlier call.       *)
Admit(t) ==
  /\ Ready(t) /\ statuses[t] = "CREATED" /\ t \notin taskFiles
  /\ taskFiles' = taskFiles \cup { t }
  /\ UNCHANGED <<statusFiles, leaseFiles, snapVars, eventVars, mode, memoryVars, op,
                 crashes, skews>>

Enqueue(t) ==
  /\ Ready(t) /\ statuses[t] = "CREATED" /\ t \in taskFiles
  /\ queue' = queue \cup { t }
  /\ Change(t, "QUEUED")
  /\ UNCHANGED <<Kept, thread>>

(* cancel_task of a waiting Task, and the expiry of its wait in tick.       *)
Dequeue(t) ==
  /\ Ready(t) /\ thread[t] = None
  /\ statuses[t] \in { "QUEUED", "BLOCKED" }
  /\ \E s \in { "CANCELLED", "BLOCKED" } : Transition(t, s)
  /\ queue' = queue \ { t }
  /\ UNCHANGED <<Kept, thread>>

(* tick claims the Task, and _dispatch begins.                              *)
Claim(t) ==
  /\ Ready(t) /\ t \in queue
  /\ queue' = queue \ { t }
  /\ Transition(t, "PREPARING")
  /\ thread' = [thread EXCEPT ![t] = "dispatch"]
  /\ UNCHANGED Kept

Hold(t, l) ==
  /\ Ready(t) /\ thread[t] = "dispatch" /\ statuses[t] = "PREPARING"
  /\ l \in LeasesOf[t] /\ leaseFiles[l] = <<>>
  /\ op' = [op EXCEPT ![t] = LeaseWrite(l, "HELD")]
  /\ UNCHANGED <<Kept, statuses, queue, thread>>

Commit(t, l) ==
  /\ Ready(t) /\ thread[t] = "dispatch" /\ statuses[t] = "PREPARING"
  /\ Held(t) = LeasesOf[t] /\ l \in LeasesOf[t] /\ leases[l] = "HELD"
  /\ op' = [op EXCEPT ![t] = LeaseWrite(l, "COMMITTED")]
  /\ UNCHANGED <<Kept, statuses, queue, thread>>

AllCommitted(t) == \A l \in LeasesOf[t] : leases[l] = "COMMITTED"

(* RESERVED to RUNNING, and FINALIZING when the results are in.             *)
Advance(t) ==
  /\ Ready(t) /\ thread[t] = "dispatch" /\ AllCommitted(t)
  /\ \E s \in { "RESERVED", "DISPATCHED", "STARTING", "RUNNING", "FINALIZING" } :
        /\ s = "FINALIZING" => statuses[t] = "RUNNING"
        /\ Transition(t, s)
  /\ UNCHANGED <<Kept, queue, thread>>

(* A cancel that comes before the start.                                    *)
CancelBeforeStart(t) ==
  /\ Ready(t) /\ thread[t] = "dispatch" /\ statuses[t] = "RESERVED"
  /\ thread' = [thread EXCEPT ![t] = "cancelled"]
  /\ Transition(t, "FINALIZING")
  /\ UNCHANGED <<Kept, queue>>

CleanupFailed(t) ==
  /\ Ready(t) /\ thread[t] = "dispatch" /\ statuses[t] = "FINALIZING" /\ AllCommitted(t)
  /\ Transition(t, "CLEANUP_FAILED")
  /\ UNCHANGED <<Kept, queue, thread>>

OutcomeFirst(t) ==   \* mutant: the outcome is written before the releases
  /\ Ready(t) /\ thread[t] \in { "dispatch", "cancelled" } /\ statuses[t] = "FINALIZING"
  /\ \E s \in IF thread[t] = "cancelled" THEN { "CANCELLED" } ELSE OutcomeStates :
        Transition(t, s)
  /\ UNCHANGED <<Kept, queue, thread>>
Outcome(t) ==
  /\ Ready(t) /\ thread[t] \in { "dispatch", "cancelled" } /\ statuses[t] = "FINALIZING"
  /\ Held(t) = {}
  /\ \E s \in IF thread[t] = "cancelled" THEN { "CANCELLED" } ELSE OutcomeStates :
        Transition(t, s)
  /\ UNCHANGED <<Kept, queue, thread>>

(* The except clause of _dispatch: with nothing committed it may be sure    *)
(* that the Worker has done nothing, or not.                                *)
Fail(t) ==
  /\ Ready(t) /\ thread[t] = "dispatch" /\ statuses[t] \in ActiveStates \ { "FINALIZING" }
  /\ \E how \in { "refused", "unsure" } :
        /\ how = "refused" =>
              statuses[t] = "PREPARING" /\ \A l \in LeasesOf[t] : leases[l] # "COMMITTED"
        /\ thread' = [thread EXCEPT ![t] = how]
  /\ UNCHANGED <<Kept, statuses, queue, op>>

(* _force_failure, once the leases of a refused execution are released.     *)
ForceFailure(t) ==
  /\ Ready(t) /\ thread[t] \in { "refused", "unsure" }
  /\ thread[t] = "refused" => Held(t) = {}
  /\ Room(t)
  /\ IF statuses[t] \notin { "FINALIZING", "FAILED" }
         /\ "FINALIZING" \in TaskTargets(statuses[t])
     THEN Transition(t, "FINALIZING")
     ELSE Change(t, IF thread[t] = "refused" THEN "FAILED" ELSE "RECONCILIATION_REQUIRED")
  /\ UNCHANGED <<Kept, queue, thread>>

(* reconcile_execution of an execution no dispatch works on any more.       *)
Reconcile(t) ==
  /\ Ready(t) /\ thread[t] = None /\ Held(t) # {}
  /\ thread' = [thread EXCEPT ![t] = "reconcile"]
  /\ UNCHANGED <<Kept, statuses, queue, op>>

Release(t, l) ==
  /\ Ready(t) /\ l \in Held(t)
  /\ \/ thread[t] \in { "dispatch", "cancelled" } /\ statuses[t] = "FINALIZING"
     \/ thread[t] \in { "refused", "reconcile" }
  /\ op' = [op EXCEPT ![t] = LeaseWrite(l, "RELEASED")]
  /\ UNCHANGED <<Kept, statuses, queue, thread>>

(* reconcile_execution gives CLEANUP_FAILED the outcome it has kept.        *)
Settle(t) ==
  /\ Ready(t) /\ thread[t] = "reconcile" /\ Held(t) = {}
  /\ IF statuses[t] = "CLEANUP_FAILED"
     THEN Room(t) /\ \E s \in OutcomeStates : Change(t, s)
     ELSE /\ op' = [op EXCEPT ![t] = [Idle EXCEPT !.step = "event"]]
          /\ UNCHANGED statuses
  /\ UNCHANGED <<Kept, queue, thread>>

-----------------------------------------------------------------------------
(* Starts and ends of the master.                                           *)

Start ==
  /\ mode = "down" /\ mode' = "loading"
  /\ statuses' = RebuiltStatuses
  /\ UNCHANGED <<historyVars, snapVars, eventVars, queue, leases, thread, op, crashes, skews>>

Quiet == \A t \in Task : op[t] = Idle

(* _load: what was active needs an administrator, and is written so.        *)
Mark(t) ==
  /\ mode = "loading" /\ Quiet /\ statuses[t] \in ActiveStates
  /\ Change(t, "RECONCILIATION_REQUIRED")
  /\ UNCHANGED <<Kept, queue, thread>>

Marked == mode = "loading" /\ Quiet /\ \A t \in Task : statuses[t] \notin ActiveStates

(* The rest of _load, which the ProposalService lets stand when             *)
(* validate_all_events finds whole streams.                                 *)
Rebuilds ==
  /\ Marked
  /\ mode' = "up"
  /\ queue' = { t \in taskFiles : statuses[t] = "QUEUED" }
  /\ leases' = RebuiltLeases
  /\ UNCHANGED <<historyVars, snapVars, eventVars, statuses, thread, op, crashes, skews>>
StartsAnyway == Rebuilds   \* mutant: the streams are not validated
CountsLines ==             \* mutant: every status must have its line
  Rebuilds /\ torn = {} /\ \A t \in Task : lines[t] >= Len(statusFiles[t])
Loaded == Rebuilds /\ torn = {}

(* StoreCorruptionError ends create_app, once _load has marked every Task.  *)
Refused ==
  /\ Marked /\ torn # {}
  /\ Forget
  /\ UNCHANGED <<historyVars, snapVars, eventVars, crashes, skews>>

Crash ==
  /\ mode # "down" /\ crashes < MaxCrash
  /\ crashes' = crashes + 1
  /\ \/ UNCHANGED torn
     \/ /\ "tear" \in Faults
        /\ \E t \in Task : op[t].step = "event" /\ torn' = torn \cup { t }
  /\ Forget
  /\ UNCHANGED <<historyVars, snapVars, lines, skews>>

(* docs/usage.md:46: snapshots may be deleted.                              *)
Wipe ==
  /\ "wipe" \in Faults /\ mode = "down"
  /\ statusSnap' = [t \in Task |-> NoSnap] /\ leaseSnap' = [l \in Lease |-> None]
  /\ UNCHANGED <<historyVars, eventVars, mode, memoryVars, op, crashes, skews>>

(* The half line at the end of a stream is cut off by hand.                 *)
Repair ==
  /\ mode = "down"
  /\ \E t \in torn : torn' = torn \ { t }
  /\ UNCHANGED <<historyVars, snapVars, lines, mode, memoryVars, op, crashes, skews>>

Write(t) ==
  \/ WriteStatus(t) \/ WriteStatusSnapshot(t) \/ AppendEvent(t) \/ AppendFails(t)
  \/ WriteLease(t) \/ WriteLeaseSnapshot(t)

Call(t) ==
  \/ Admit(t) \/ Enqueue(t) \/ Dequeue(t) \/ Claim(t) \/ Advance(t) \/ CancelBeforeStart(t)
  \/ CleanupFailed(t) \/ Outcome(t) \/ Fail(t) \/ ForceFailure(t) \/ Reconcile(t) \/ Settle(t)
  \/ \E l \in LeasesOf[t] : Hold(t, l) \/ Commit(t, l) \/ Release(t, l)

Load == Start \/ Loaded \/ Refused \/ \E t \in Task : Mark(t)

Next == Load \/ Crash \/ Wipe \/ Repair \/ \E t \in Task : Write(t) \/ Call(t)

Spec == Init /\ [][Next]_vars

(* Somebody starts the master again, and what a start does ends.  That a    *)
(* torn stream is ever repaired is not assumed.                             *)
Starting == mode # "up" /\ (Load \/ \E t \in Task : Write(t))
FairSpec == Spec /\ WF_vars(Starting)

-----------------------------------------------------------------------------
(* Properties.                                                              *)

IsFile(files, Value) ==
  \A i \in 1 .. Len(files) : files[i].value \in Value /\ files[i].nth \in 1 .. Len(files)

(* The type of every variable: files of known values, numbered by their     *)
(* writes; writes and memory only while the master runs.                    *)
TypeOK ==
  /\ taskFiles \subseteq Task /\ torn \subseteq Task /\ queue \subseteq Task
  /\ \A t \in Task : IsFile(statusFiles[t], TaskState)
  /\ \A l \in Lease : IsFile(leaseFiles[l], LeaseAction)
  /\ \A t \in Task : statusSnap[t].value \in TaskState
  /\ leaseSnap \in [Lease -> { None, "HELD", "COMMITTED" }]
  /\ leases \in [Lease -> { None, "HELD", "COMMITTED" }]
  /\ lines \in [Task -> Nat]
  /\ mode \in { "down", "loading", "up" }
  /\ statuses \in [Task -> TaskState]
  /\ thread \in [Task -> Threads]
  /\ \A t \in Task : op[t].step \in
        { "idle", "history", "snapshot", "event", "lease_history", "lease_snapshot" }
  /\ crashes \in 0 .. MaxCrash /\ skews \in 0 .. MaxSkew
  /\ mode # "up" => queue = {}

(* docs/usage.md:46 and :539, spec 222: at every moment, in the middle of a *)
(* call or after a crash, and whatever the clock did, a start without the   *)
(* snapshots rebuilds the same statuses and leases as a start with them.    *)
SnapshotsAreRedundant ==
  /\ \A t \in Task :
        LatestStatus(statusFiles[t], statusSnap[t]) = LatestStatus(statusFiles[t], NoSnap)
  /\ \A l \in Lease :
        RebuiltLease(leaseFiles[l], leaseSnap[l]) = RebuiltLease(leaseFiles[l], None)

Writes(l, a) == \E i \in 1 .. Len(leaseFiles[l]) : leaseFiles[l][i].value = a
BeingWritten(l) == \E t \in Task : op[t].of = l

(* What the last write of a history says: nobody but the model knows.       *)
NewestOf(files) == IF files = <<>> THEN None
                   ELSE (CHOOSE e \in ToSet(files) : e.nth = Len(files)).value

LeaseAsWritten(l) ==
  leases[l] = IF NewestOf(leaseFiles[l]) = "RELEASED" THEN None ELSE NewestOf(leaseFiles[l])
StatusAsWritten(t) ==
  /\ statuses[t] = IF statusFiles[t] = <<>> THEN "CREATED" ELSE NewestOf(statusFiles[t])
  /\ t \in queue <=> NewestOf(statusFiles[t]) = "QUEUED"

(* After any number of starts, failed ones included, and as long as what    *)
(* was written last also sorts last: the master has every lease and every   *)
(* status as it was last written (no released lease comes back, none that   *)
(* was committed is provisional) and queues the Tasks that are QUEUED and   *)
(* no others.  However the clock went, a lease that was written and not     *)
(* released is in _leases, so its resources are not given away.             *)
RebuiltAsWritten ==
  mode = "up" =>
    /\ \A l \in Lease :
          ~BeingWritten(l) /\ Writes(l, "HELD") /\ ~Writes(l, "RELEASED") => leases[l] # None
    /\ \A l \in Lease :
          ~BeingWritten(l) /\ WrittenLast(leaseFiles[l]) => LeaseAsWritten(l)
    /\ \A t \in Task :
          op[t] = Idle /\ WrittenLast(statusFiles[t]) => StatusAsWritten(t)

InOrder(files) == \A i \in 1 .. Len(files) : files[i].nth = i

(* With a clock that did not step back between two statuses: once the last  *)
(* one written is an outcome, no start finds a lease of the Task again,     *)
(* because the releases were written before it.                             *)
ReleasedBeforeOutcome ==
  \A t \in Task :
    /\ NewestOf(statusFiles[t]) \in OutcomeStates /\ InOrder(statusFiles[t])
    /\ \A l \in LeasesOf[t] : WrittenLast(leaseFiles[l])
    => \A l \in LeasesOf[t] : RebuiltLease(leaseFiles[l], leaseSnap[l]) = None

(* Spec 220-221: no start succeeds while a stream ends in half a line.  And *)
(* however often starts crash or fail on such a line, between any two writes*)
(* of a mark, nothing they leave behind keeps the next one from coming up   *)
(* once the streams are whole: a status without its line, a lease without   *)
(* its snapshot or a Task marked by half are no obstacle.                   *)
ComesUp ==
  /\ [][mode # "up" /\ mode' = "up" => torn = {}]_vars
  /\ []<>(mode = "up" \/ torn # {})
=============================================================================
