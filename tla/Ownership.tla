------------------------------ MODULE Ownership ------------------------------
(***************************************************************************)
(* What the scheduler promises about resources, with everything about how  *)
(* left out: a Task moves through the lifecycle table, it takes resources  *)
(* only while it is PREPARING and only ones nobody owns, it runs only      *)
(* while it owns some, and it gives them back before its outcome is        *)
(* announced.  A restart leaves the owners alone and puts every active     *)
(* Task into RECONCILIATION_REQUIRED.                                      *)
(***************************************************************************)
EXTENDS TaskStates

CONSTANTS Task, Resource

VARIABLES
    status,  \* the state of each Task
    owns     \* [Task -> SUBSET Resource], what its leases name

vars == <<status, owns>>

Taken == UNION { owns[t] : t \in Task }

Init ==
    /\ status = [t \in Task |-> "CREATED"]
    /\ owns = [t \in Task |-> {}]

(* The provisional leases of one unit.                                     *)
Acquire(t) ==
    /\ UNCHANGED status
    /\ status[t] = "PREPARING"
    /\ \E R \in SUBSET (Resource \ Taken) :
          R # {} /\ owns' = [owns EXCEPT ![t] = @ \cup R]

(* A Task gives resources back while its dispatch fails before anything    *)
(* started, while it is being finalised, or when an administrator has      *)
(* reconciled it; never in between.                                        *)
MayRelease == { "PREPARING", "FINALIZING", "CLEANUP_FAILED", "RECONCILIATION_REQUIRED" }
Surrender(t) ==
    /\ UNCHANGED status
    /\ status[t] \in MayRelease
    /\ \E R \in SUBSET owns[t] : R # {} /\ owns' = [owns EXCEPT ![t] = @ \ R]

(* An ordinary transition.  Only the owner of something goes on to         *)
(* RESERVED and beyond; only a Task that owns nothing has an outcome.      *)
Move(t, s) ==
    /\ status' = [status EXCEPT ![t] = s]
    /\ s \in TaskTargets(status[t])
    /\ s \in { "RESERVED", "DISPATCHED", "STARTING", "RUNNING" } => owns[t] # {}
    /\ s \in OutcomeStates => owns[t] = {}
    /\ UNCHANGED owns

(* A reconciled CLEANUP_FAILED Task gets its underlying outcome.           *)
Resolve(t, s) ==
    /\ status' = [status EXCEPT ![t] = s]
    /\ status[t] = "CLEANUP_FAILED" /\ owns[t] = {}
    /\ s \in OutcomeStates
    /\ UNCHANGED owns

(* Several queued Tasks may expire in one pass over the queue.             *)
Block(E) ==
    /\ status' = [t \in Task |-> IF t \in E THEN "BLOCKED" ELSE status[t]]
    /\ \A t \in E : status[t] = "QUEUED"
    /\ UNCHANGED owns

Restart ==
    /\ status' = [t \in Task |-> IF status[t] \in ActiveStates
                                   THEN "RECONCILIATION_REQUIRED" ELSE status[t]]
    /\ UNCHANGED owns

Next ==
    \/ \E t \in Task : Acquire(t) \/ Surrender(t)
    \/ \E t \in Task, s \in TaskState : Move(t, s) \/ Resolve(t, s)
    \/ \E E \in SUBSET Task : Block(E)
    \/ Restart

Spec == Init /\ [][Next]_vars
=============================================================================
