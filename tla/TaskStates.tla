----------------------------- MODULE TaskStates -----------------------------
(***************************************************************************)
(* The Task lifecycle table shared by the scheduler and its abstract       *)
(* specifications: the states of domain/models.py (TaskState) and the      *)
(* edges of domain/state.py (_TASK_EDGES), which transition_task consults  *)
(* before every ordinary status change.                                    *)
(***************************************************************************)

TaskState ==
    { "CREATED", "QUEUED", "BLOCKED", "PREPARING", "RESERVED", "DISPATCHED",
      "STARTING", "RUNNING", "FINALIZING", "COMPLETED", "FAILED", "CANCELLED",
      "CLEANUP_FAILED", "RECONCILIATION_REQUIRED" }

(* The states from which no outcome is known yet although a dispatch has   *)
(* begun; _load turns them into RECONCILIATION_REQUIRED.                   *)
ActiveStates ==
    { "PREPARING", "RESERVED", "DISPATCHED", "STARTING", "RUNNING", "FINALIZING" }

(* The three outcomes that _TASK_EDGES gives no way out of.                *)
OutcomeStates == { "COMPLETED", "FAILED", "CANCELLED" }

(* task_targets(s): the states transition_task accepts after s.            *)
TaskTargets(s) ==
    CASE s = "CREATED"        -> { "QUEUED", "BLOCKED", "FAILED" }
      [] s = "QUEUED"         -> { "PREPARING", "CANCELLED", "BLOCKED" }
      [] s = "BLOCKED"        -> { "QUEUED", "CANCELLED", "FAILED" }
      [] s = "PREPARING"      -> { "QUEUED", "RESERVED", "FINALIZING",
                                   "RECONCILIATION_REQUIRED" }
      [] s = "RESERVED"       -> { "DISPATCHED", "FINALIZING",
                                   "RECONCILIATION_REQUIRED" }
      [] s = "DISPATCHED"     -> { "STARTING", "FINALIZING",
                                   "RECONCILIATION_REQUIRED" }
      [] s = "STARTING"       -> { "RUNNING", "FINALIZING",
                                   "RECONCILIATION_REQUIRED" }
      [] s = "RUNNING"        -> { "FINALIZING", "RECONCILIATION_REQUIRED" }
      [] s = "FINALIZING"     -> { "COMPLETED", "FAILED", "CANCELLED",
                                   "CLEANUP_FAILED", "RECONCILIATION_REQUIRED" }
      [] s = "CLEANUP_FAILED" -> { "RECONCILIATION_REQUIRED", "FAILED", "CANCELLED" }
      [] s = "RECONCILIATION_REQUIRED" -> { "FAILED", "CANCELLED" }
      [] OTHER                -> {}
=============================================================================
