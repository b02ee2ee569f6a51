---------------------------- MODULE Qualification ----------------------------
(***************************************************************************)
(* One qualification run (qualification.py) and the system it is about.    *)
(* The runner passes the local gates and launches a submitter agent, which *)
(* has a Task of each card count submitted, reviewed, compiled, dispatched *)
(* and executed; then the runner reconstructs, from the files alone, what  *)
(* the run produced, and verifies it, while the master goes on.            *)
(*                                                                         *)
(* The module composes Harness and Evidence.  Of Proposals and dispatches  *)
(* it keeps the order of what a verdict reads; Proposal and Scheduler have *)
(* them whole.  What the code binds by identifiers, hashes and signatures  *)
(* is one Task's here.  There is one container, as in the code, so that a  *)
(* Task that keeps its lease keeps every other Task waiting.               *)
(*                                                                         *)
(* Everything out of the ordinary counts in faults: what fails, a cancel,  *)
(* and an agent that does not do as it was told.                           *)
(***************************************************************************)
EXTENDS Harness, TaskStates, FiniteSets, Sequences, SequencesExt

CONSTANTS
  Card,      \* _EXPECTED_CARD_COUNTS: 1, 2, 4, 8
  MaxFault   \* faults in a behaviour (a bound of the instance)

ASSUME QualificationAssumption ==
  /\ Task \subseteq Nat \ {0} /\ Card \subseteq Nat \ {0} /\ MaxFault \in Nat
  /\ IsFiniteSet(Task) /\ IsFiniteSet(Card)

VARIABLES
  phase,      \* of the runner
  agent,      \* the submitter agent: "none", "running", how it ended
  compiled,   \* the Tasks of the run, as reconstruct found them
  seen,       \* and the status it read of each
  verified,   \* those of them that _verify_item has passed
  card,       \* the card count of a submitted Proposal, 0 before that
  proposal,   \* its state
  status,     \* the last state in task-status-history
  lease,      \* the last action in lease-history
  call,       \* what the dispatcher is doing, and for which Task
  cancel,     \* the thread that cancels a Task
  flagged,    \* _cancel_requested
  work,       \* what the Worker does for the dispatcher
  owner,      \* the Task that _resource_owner gives the container to
  container,  \* "stopped" or "running"
  ran,        \* what the frozen command of a Task did
  lines, torn, evidence, ingest,
  faults,
  late,       \* the runner's patience with the agent is at its end
  early       \* the agent ended while an outcome it saw was being written

INSTANCE Evidence

runner     == <<phase, agent, compiled, seen, verified, late, early>>
proposals  == <<card, proposal>>
dispatcher == <<status, lease, call>>
cancelling == <<cancel, flagged>>
worker     == <<work, owner, container, ran>>
evidenceVars == <<lines, torn, evidence, ingest>>
vars == <<runner, proposals, dispatcher, cancelling, worker, harnessVars, evidenceVars, faults>>

Phase == { "gates", "agent", "proposals", "statuses", "verifying",
           "COMPLETED", "BLOCKED" }
Over == { "COMPLETED", "BLOCKED" }
ProposalState == { "NONE", "CLARIFYING", "AWAITING_CONFIRMATION", "IN_REVIEW", "COMPILING",
                   "COMPILED", "CHANGES_REQUESTED", "REJECTED", "PROCESSING_ERROR" }
Operation == { "PREPARE", "PLAN", "EXECUTE" }
NoWork == [task |-> 0, op |-> "none"]
NoCall == [task |-> 0, op |-> "none", step |-> "none"]

Init ==
  /\ phase = "gates" /\ agent = "none" /\ late = FALSE /\ early = FALSE
  /\ compiled = {} /\ seen = [t \in Task |-> "unread"] /\ verified = {}
  /\ card = [t \in Task |-> 0] /\ proposal = [t \in Task |-> "NONE"]
  /\ status = [t \in Task |-> "CREATED"] /\ lease = [t \in Task |-> "none"] /\ call = NoCall
  /\ cancel = [t \in Task |-> "none"] /\ flagged = {}
  /\ work = NoWork /\ owner = 0 /\ container = "stopped" /\ ran = [t \in Task |-> "no"]
  /\ HarnessInit /\ EvidenceInit /\ faults = 0

Fault == faults < MaxFault /\ faults' = faults + 1
FaultUnless(b) == IF b THEN UNCHANGED faults ELSE Fault

-----------------------------------------------------------------------------
(* The agent, its Proposals and the Processor and Reviewer they are given  *)
(* to.  The service has one lock: one Proposal is worked on at a time.     *)

AgentRuns == agent = "running"
ServiceFree ==
  \A t \in Task : ~ (proposal[t] \in { "CLARIFYING", "IN_REVIEW", "COMPILING" })

Submit(t, c) ==
  /\ AgentRuns /\ ServiceFree
  /\ card[t] = 0 /\ \A s \in Task : s < t => card[s] # 0
  /\ FaultUnless(\A s \in Task : card[s] # c)
  /\ card' = [card EXCEPT ![t] = c]
  /\ proposal' = [proposal EXCEPT ![t] = "CLARIFYING"]
  /\ Invoke(t, "processor")
  /\ UNCHANGED <<runner, dispatcher, cancelling, worker, evidenceVars>>

(* A further revision: what is known of the one before counts no more.     *)
Reply(t) ==
  /\ AgentRuns /\ ServiceFree
  /\ proposal[t] \in { "AWAITING_CONFIRMATION", "CHANGES_REQUESTED", "PROCESSING_ERROR" }
  /\ FaultUnless(proposal[t] # "AWAITING_CONFIRMATION")
  /\ proposal' = [proposal EXCEPT ![t] = "CLARIFYING"]
  /\ Invoke(t, "processor")
  /\ UNCHANGED <<runner, card, dispatcher, cancelling, worker, evidenceVars>>

Processed(t) ==
  /\ proposal[t] = "CLARIFYING" /\ answer[t]["processor"] # "none"
  /\ proposal' = [proposal EXCEPT ![t] =
                    IF answer[t]["processor"] = "returned" THEN "AWAITING_CONFIRMATION"
                                                           ELSE "PROCESSING_ERROR"]
  /\ UNCHANGED <<runner, card, dispatcher, cancelling, worker, harnessVars, evidenceVars, faults>>

Confirm(t) ==
  /\ AgentRuns /\ ServiceFree /\ proposal[t] = "AWAITING_CONFIRMATION"
  /\ proposal' = [proposal EXCEPT ![t] = "IN_REVIEW"]
  /\ Invoke(t, "reviewer")
  /\ UNCHANGED <<runner, card, dispatcher, cancelling, worker, evidenceVars, faults>>

Reviewed(t) ==
  /\ proposal[t] = "IN_REVIEW" /\ answer[t]["reviewer"] # "none"
  /\ \/ /\ answer[t]["reviewer"] = "returned"
        /\ \E s \in { "COMPILING", "CHANGES_REQUESTED", "REJECTED" } :
             /\ FaultUnless(s = "COMPILING")
             /\ proposal' = [proposal EXCEPT ![t] = s]
     \/ /\ answer[t]["reviewer"] = "raised" /\ UNCHANGED faults
        /\ proposal' = [proposal EXCEPT ![t] = "PROCESSING_ERROR"]
  /\ UNCHANGED <<runner, card, dispatcher, cancelling, worker, harnessVars, evidenceVars>>

(* The Task is written before its Proposal says COMPILED, and given to the *)
(* scheduler after that.                                                   *)
Compile(t) ==
  /\ proposal[t] = "COMPILING"
  /\ proposal' = [proposal EXCEPT ![t] = "COMPILED"]
  /\ UNCHANGED <<runner, card, dispatcher, cancelling, worker, harnessVars, evidenceVars, faults>>

Enqueue(t) ==
  /\ proposal[t] = "COMPILED" /\ status[t] = "CREATED"
  /\ status' = [status EXCEPT ![t] = "QUEUED"]
  /\ UNCHANGED <<runner, proposals, lease, call, cancelling, worker, harnessVars, evidenceVars,
                 faults>>

HarnessAttempt(t, r) ==
  /\ \/ Attempt(t, r, "valid") /\ UNCHANGED faults
     \/ \E kind \in Faulty : Attempt(t, r, kind) /\ Fault
  /\ UNCHANGED <<runner, proposals, dispatcher, cancelling, worker, evidenceVars>>

-----------------------------------------------------------------------------
(* The dispatcher: three calls to the Worker, each followed by ingestion   *)
(* of the evidence, and the outcome.  Every exception on the way, once a   *)
(* lease is committed, is RECONCILIATION_REQUIRED with the lease kept.     *)

Active(t) == lease[t] \in { "HELD", "COMMITTED" }

Asks(t, op) ==
  /\ call' = [task |-> t, op |-> op, step |-> "asked"]
  /\ work' = [task |-> t, op |-> op]
  /\ UNCHANGED <<owner, container, ran>>

Dispatch(t) ==
  /\ call = NoCall /\ work = NoWork
  /\ status[t] = "QUEUED" /\ \A s \in Task : ~Active(s)
  /\ status' = [status EXCEPT ![t] = "PREPARING"]
  /\ lease' = [lease EXCEPT ![t] = "HELD"]
  /\ Asks(t, "PREPARE")
  /\ UNCHANGED <<runner, proposals, cancelling, harnessVars, evidenceVars, faults>>

IsAt(t, step) == call.task = t /\ call.step = step

ReadsAnswer(t) ==
  /\ IsAt(t, "answered")
  /\ ReadsInbox(t, "dispatch")
  /\ call' = [call EXCEPT !.step = "reading"]
  /\ UNCHANGED <<runner, proposals, status, lease, cancelling, worker, harnessVars, faults>>

Copies(t, k) ==
  /\ Looks(t, k) \/ WritesEvidence(t, k)
  /\ UNCHANGED <<runner, proposals, dispatcher, cancelling, worker, harnessVars, faults>>

Received(t, op) == IsAt(t, "reading") /\ call.op = op /\ Ingested(t, "dispatch")

Prepared(t) ==
  /\ Received(t, "PREPARE")
  /\ status' = [status EXCEPT ![t] = "RESERVED"]
  /\ lease' = [lease EXCEPT ![t] = "COMMITTED"]
  /\ Asks(t, "PLAN")
  /\ UNCHANGED <<runner, proposals, cancelling, harnessVars, evidenceVars, faults>>

(* The last look at a cancel before the start.                             *)
PlanAcknowledged(t) ==
  /\ Received(t, "PLAN")
  /\ flagged' = flagged \ {t}
  /\ IF t \in flagged
       THEN /\ status' = [status EXCEPT ![t] = "FINALIZING"]
            /\ call' = [task |-> t, op |-> "release", step |-> "CANCELLED"]
            /\ UNCHANGED worker
       ELSE /\ status' = [status EXCEPT ![t] = "RUNNING"]
            /\ Asks(t, "EXECUTE")
  /\ UNCHANGED <<runner, proposals, lease, cancel, harnessVars, evidenceVars, faults>>

(* A container that was not confirmed stopped keeps the lease.             *)
Executed(t) ==
  /\ Received(t, "EXECUTE")
  /\ flagged' = flagged \ {t}
  /\ IF ran[t] # "unclean"
       THEN /\ status' = [status EXCEPT ![t] = "FINALIZING"]
            /\ call' = [task |-> t, op |-> "release",
                        step |-> IF t \in flagged THEN "CANCELLED"
                                 ELSE IF ran[t] = "well" THEN "COMPLETED" ELSE "FAILED"]
       ELSE /\ status' = [status EXCEPT ![t] = "CLEANUP_FAILED"]
            /\ call' = NoCall
  /\ UNCHANGED <<runner, proposals, lease, cancel, worker, harnessVars, evidenceVars, faults>>

ReleaseLater(t) ==   \* mutant: the outcome first, the lease with the next restart
  /\ call.task = t /\ call.op = "release"
  /\ call' = [call EXCEPT !.op = "settle"]
  /\ UNCHANGED <<runner, proposals, status, lease, cancelling, worker, harnessVars, evidenceVars,
                 faults>>

Release(t) ==
  /\ call.task = t /\ call.op = "release"
  /\ lease' = [lease EXCEPT ![t] = "RELEASED"]
  /\ call' = [call EXCEPT !.op = "settle"]
  /\ UNCHANGED <<runner, proposals, status, cancelling, worker, harnessVars, evidenceVars, faults>>

(* _transition to the outcome: memory, then the history, then the stream   *)
(* of the Task's events.  The other transitions are one step each: nobody  *)
(* but the dispatcher tells the moments between their writes apart.        *)
Settles(t, from, to) ==
  /\ call.task = t /\ call.op = from
  /\ call' = [call EXCEPT !.op = to]
  /\ UNCHANGED <<runner, proposals, lease, cancelling, worker, harnessVars, evidenceVars, faults>>
Settle(t) == Settles(t, "settle", "record") /\ UNCHANGED status
Record(t) == Settles(t, "record", "note") /\ status' = [status EXCEPT ![t] = call.step]
Note(t) ==
  /\ call.task = t /\ call.op = "note"
  /\ call' = NoCall
  /\ UNCHANGED <<runner, proposals, status, lease, cancelling, worker, harnessVars, evidenceVars,
                 faults>>

(* What get_status says, and whether the event is in the stream.           *)
Shown(t)    == IF call.task = t /\ call.op = "record" THEN call.step ELSE status[t]
Streamed(t) == status[t] = "COMPLETED" /\ ~(call.task = t /\ call.op = "note")

Uncertain(t) ==
  /\ status' = [status EXCEPT ![t] = "RECONCILIATION_REQUIRED"]
  /\ call' = NoCall
  /\ UNCHANGED lease
Failed(t) ==
  /\ status' = [status EXCEPT ![t] = "FAILED"]
  /\ lease' = [lease EXCEPT ![t] = "RELEASED"]
  /\ call' = NoCall

(* A write of the outcome that raises is one more failure of the dispatch. *)
OutcomeFails(t) ==
  /\ call.task = t /\ call.op \in { "record", "note" }
  /\ Uncertain(t) /\ Fault
  /\ UNCHANGED <<runner, proposals, cancelling, worker, harnessVars, evidenceVars>>

CollisionIgnored(t) ==   \* mutant: what another thread copies is left to it
  /\ IsAt(t, "reading") /\ Collides(t, "dispatch")
  /\ UNCHANGED <<runner, proposals, dispatcher, cancelling, worker, harnessVars, faults>>

DispatchCollides(t) ==
  /\ IsAt(t, "reading") /\ Collides(t, "dispatch")
  /\ Uncertain(t)
  /\ UNCHANGED <<runner, proposals, cancelling, worker, harnessVars, faults>>

DispatchRefused(t) ==
  /\ IsAt(t, "refused")
  /\ IF call.op = "PREPARE" THEN Failed(t) ELSE Uncertain(t)
  /\ UNCHANGED <<runner, proposals, cancelling, worker, harnessVars, evidenceVars, faults>>

(* No answer in time; that a PREPARE was not registered is certain.        *)
DispatchGivesUp(t) ==
  /\ IsAt(t, "asked")
  /\ FaultUnless(work = NoWork)
  /\ \/ Uncertain(t) /\ UNCHANGED worker
     \/ /\ call.op = "PREPARE" /\ owner # t
        /\ Failed(t)
        /\ work' = NoWork /\ UNCHANGED <<owner, container, ran>>
  /\ UNCHANGED <<runner, proposals, cancelling, harnessVars, evidenceVars>>

-----------------------------------------------------------------------------
(* The Worker.                                                             *)

Answers(t, step) ==
  /\ work' = NoWork
  /\ call' = IF IsAt(t, "asked") /\ call.op = work.op THEN [call EXCEPT !.step = step] ELSE call

Works(t, op) == work = [task |-> t, op |-> op]

HandlePrepare(t) ==
  /\ Works(t, "PREPARE")
  /\ owner' = t
  /\ Audit(t, "PREPARED") /\ Answers(t, "answered")
  /\ UNCHANGED <<runner, proposals, status, lease, cancelling, container, ran, harnessVars, faults>>

HandlePlan(t) ==
  /\ Works(t, "PLAN")
  /\ Audit(t, "PLAN_ACK") /\ Answers(t, "answered")
  /\ UNCHANGED <<runner, proposals, status, lease, cancelling, owner, container, ran, harnessVars,
                 faults>>

Refuse(t) ==
  /\ \E op \in { "PREPARE", "PLAN" } : Works(t, op)
  /\ Answers(t, "refused") /\ Fault
  /\ UNCHANGED <<runner, proposals, status, lease, cancelling, owner, container, ran, harnessVars,
                 evidenceVars>>

(* EXECUTE asks the controller first.                                      *)
Control(t) ==
  /\ Works(t, "EXECUTE")
  /\ invoked[t]["worker-controller"] = 0 /\ answer[t]["worker-controller"] = "none"
  /\ Invoke(t, "worker-controller")
  /\ UNCHANGED <<runner, proposals, dispatcher, cancelling, worker, evidenceVars, faults>>

(* A HarnessError ends the handler, and so does an audit line that cannot  *)
(* be written: no answer is sent, and nothing cleans up.                   *)
ControlRaised(t) ==
  /\ Works(t, "EXECUTE") /\ answer[t]["worker-controller"] = "raised"
  /\ work' = NoWork
  /\ UNCHANGED <<runner, proposals, dispatcher, cancelling, owner, container, ran, harnessVars,
                 evidenceVars, faults>>

Executing(t) ==
  /\ Works(t, "EXECUTE") /\ answer[t]["worker-controller"] = "returned"
  /\ t \notin torn

AuditFails(t) ==
  /\ work.task = t
  /\ AuditTears(t) \/ UNCHANGED evidenceVars
  /\ Executing(t) \/ ~Works(t, "EXECUTE")
  /\ work' = NoWork /\ Fault
  /\ owner' = IF Works(t, "PREPARE") THEN t ELSE owner
  /\ UNCHANGED <<runner, proposals, dispatcher, cancelling, container, ran, harnessVars>>

(* The checks before anything starts may fail, and so may the start.       *)
Inspect(t) ==
  /\ Executing(t) /\ ran[t] = "no" /\ "DOCKER_INSPECT_PRE" \notin Written(t)
  /\ \/ Audit(t, "DOCKER_INSPECT_PRE") /\ UNCHANGED <<ran, faults>>
     \/ /\ ran' = [ran EXCEPT ![t] = "refused"] /\ Fault
        /\ UNCHANGED evidenceVars
  /\ UNCHANGED <<runner, proposals, dispatcher, cancelling, work, owner, container, harnessVars>>

Start(t) ==
  /\ Executing(t) /\ ran[t] = "no" /\ "DOCKER_INSPECT_PRE" \in Written(t)
  /\ \/ container' = "running" /\ ran' = [ran EXCEPT ![t] = "started"] /\ UNCHANGED faults
     \/ UNCHANGED container /\ ran' = [ran EXCEPT ![t] = "badly"] /\ Fault
  /\ UNCHANGED <<runner, proposals, dispatcher, cancelling, work, owner, harnessVars, evidenceVars>>

Started(t) ==
  /\ Executing(t) /\ ran[t] = "started" /\ "DOCKER_START_CONFIRMED" \notin Written(t)
  /\ Audit(t, "DOCKER_START_CONFIRMED")
  /\ UNCHANGED <<runner, proposals, dispatcher, cancelling, worker, harnessVars, faults>>

(* The frozen command, which does not survive a container that is stopped. *)
Run(t) ==
  /\ Executing(t) /\ ran[t] = "started" /\ "DOCKER_START_CONFIRMED" \in Written(t)
  /\ \/ container = "running" /\ ran' = [ran EXCEPT ![t] = "well"] /\ UNCHANGED faults
     \/ ran' = [ran EXCEPT ![t] = "badly"] /\ FaultUnless(container = "stopped")
  /\ UNCHANGED <<runner, proposals, dispatcher, cancelling, work, owner, container, harnessVars,
                 evidenceVars>>

Cleanup(t) ==
  /\ Executing(t) /\ ran[t] \in { "well", "badly" }
  /\ "DOCKER_CLEANUP_INSPECTED" \notin Written(t)
  /\ \/ container' = "stopped" /\ UNCHANGED <<ran, faults>>
     \/ ran' = [ran EXCEPT ![t] = "unclean"] /\ UNCHANGED container /\ Fault
  /\ Audit(t, "DOCKER_CLEANUP_INSPECTED")
  /\ UNCHANGED <<runner, proposals, dispatcher, cancelling, work, owner, harnessVars>>

Finish(t) ==
  /\ Executing(t)
  /\ ran[t] = "refused" \/ "DOCKER_CLEANUP_INSPECTED" \in Written(t)
  /\ Audit(t, "EXECUTION_FINISHED") /\ Answers(t, "answered")
  /\ UNCHANGED <<runner, proposals, status, lease, cancelling, owner, container, ran, harnessVars,
                 faults>>

-----------------------------------------------------------------------------
(* One cancel of each Task, by an operator or by the agent.                *)

CancelAt(t, from, to) == cancel[t] = from /\ cancel' = [cancel EXCEPT ![t] = to]

Cancel(t) ==
  /\ Shown(t) \in ActiveStates \cup { "RECONCILIATION_REQUIRED" }
  /\ CancelAt(t, "none", IF lease[t] = "HELD" THEN "over" ELSE "asked")
  /\ flagged' = flagged \cup {t} /\ Fault
  /\ UNCHANGED <<runner, proposals, dispatcher, worker, harnessVars, evidenceVars>>

(* The Worker stops the container, if the plan is the one it works on.     *)
Cancels(t) == owner = t /\ "PLAN_ACK" \in Written(t)
HandleCancel(t) ==
  /\ \/ /\ Cancels(t) /\ CancelAt(t, "asked", "confirmed")
        /\ container' = "stopped" /\ UNCHANGED faults
        /\ Audit(t, "CANCELLED_BY_MASTER")
     \/ /\ Cancels(t) /\ CancelAt(t, "asked", "unconfirmed")
        /\ UNCHANGED container /\ Fault
        /\ Audit(t, "CANCELLED_BY_MASTER")
     \/ /\ ~Cancels(t) /\ CancelAt(t, "asked", "unconfirmed")
        /\ UNCHANGED <<container, evidenceVars, faults>>
  /\ UNCHANGED <<runner, proposals, dispatcher, flagged, work, owner, ran, harnessVars>>

(* The answer is read, and the flag taken back if it is not a yes; what is *)
(* raised leaves the flag behind.                                          *)
CancelReads(t) ==
  /\ \/ CancelAt(t, "confirmed", "reading yes")
     \/ CancelAt(t, "unconfirmed", "reading no")
  /\ ReadsInbox(t, "cancel")
  /\ UNCHANGED <<runner, proposals, dispatcher, flagged, worker, harnessVars, faults>>

CancelEnds(t) ==
  /\ Ingested(t, "cancel") /\ t \notin torn
  /\ \/ CancelAt(t, "reading yes", "over") /\ UNCHANGED flagged
     \/ CancelAt(t, "reading no", "over") /\ flagged' = flagged \ {t}
  /\ UNCHANGED <<runner, proposals, dispatcher, worker, harnessVars, evidenceVars, faults>>

CancelGivesUp(t) ==
  /\ \E from \in { "asked", "confirmed", "unconfirmed" } : CancelAt(t, from, "over")
  /\ Fault
  /\ UNCHANGED <<runner, proposals, dispatcher, flagged, worker, harnessVars, evidenceVars>>

CancelCollides(t) ==
  /\ Collides(t, "cancel")
  /\ cancel' = [cancel EXCEPT ![t] = "over"]
  /\ UNCHANGED <<runner, proposals, dispatcher, flagged, worker, harnessVars, faults>>

(* The lines before one that was cut off are copied, and then it raises.   *)
CancelMisreads(t) ==
  /\ Ingested(t, "cancel") /\ t \in torn
  /\ \E from \in { "reading yes", "reading no" } : CancelAt(t, from, "over")
  /\ UNCHANGED <<runner, proposals, dispatcher, flagged, worker, harnessVars, evidenceVars, faults>>

-----------------------------------------------------------------------------
(* The runner.                                                             *)

Goto(from, to) == phase = from /\ phase' = to
RunnerOnly == UNCHANGED <<proposals, dispatcher, cancelling, worker, harnessVars, evidenceVars>>

(* _run_local_gates and _master_profile; then the agent is launched.       *)
Gates ==
  /\ \/ Goto("gates", "agent") /\ agent' = "running" /\ UNCHANGED faults
     \/ Goto("gates", "BLOCKED") /\ UNCHANGED agent /\ Fault
  /\ UNCHANGED <<compiled, seen, verified, late, early>> /\ RunnerOnly

CardsOf(tasks) == { card[t] : t \in tasks }

(* What the agent was told: wait for a COMPLETED Task of every card count. *)
(* It asks the master, whose answer is ahead of the files.                 *)
AgentExits ==
  /\ agent = "running" /\ Goto("agent", "proposals")
  /\ \/ /\ agent' = "zero"
        /\ FaultUnless(Card \subseteq CardsOf({ t \in Task : Shown(t) = "COMPLETED" }))
        /\ early' = ~(Card \subseteq CardsOf({ t \in Task : Streamed(t) }))
     \/ agent' = "nonzero" /\ Fault /\ UNCHANGED early
  /\ UNCHANGED <<compiled, seen, verified, late>> /\ RunnerOnly

AgentTimesOut ==
  /\ agent = "running" /\ Goto("agent", "BLOCKED")
  /\ agent' = "killed" /\ late' = TRUE
  /\ UNCHANGED <<compiled, seen, verified, early, faults>> /\ RunnerOnly

(* reconstruct_qualification_result reads the Proposals, then the status   *)
(* of every Task they were compiled to.                                    *)
ReadsProposals ==
  /\ Goto("proposals", "statuses")
  /\ compiled' = { t \in Task : proposal[t] = "COMPILED" }
  /\ UNCHANGED <<agent, seen, verified, late, early, faults>> /\ RunnerOnly

ReadsStatus(t) ==
  /\ phase = "statuses" /\ t \in compiled /\ seen[t] = "unread"
  /\ seen' = [seen EXCEPT ![t] = status[t]]
  /\ UNCHANGED <<phase, agent, compiled, verified, late, early, faults>> /\ RunnerOnly

OneOfEachAtLeast(items) == CardsOf(items) = Card   \* mutant: not counted

OneOfEach(items) ==
  /\ CardsOf(items) = Card
  /\ Cardinality(items) = Cardinality(Card)

Judges ==
  /\ \A t \in compiled : seen[t] # "unread"
  /\ Goto("statuses", IF /\ agent = "zero" /\ OneOfEach(compiled)
                         /\ \A t \in compiled : seen[t] = "COMPLETED"
                      THEN "verifying" ELSE "BLOCKED")
  /\ UNCHANGED <<agent, compiled, seen, verified, late, early, faults>> /\ RunnerOnly

(* _verify_item reads everything about one item again.  What it asks of    *)
(* signatures, of plan and manifest, of the samples and the protocol events*)
(* before the start and of the artifacts is not modelled, nor is           *)
(* validate_all_events: OtherCheckFails stands for them.                   *)
ItemHolds(t) ==
  /\ proposal[t] = "COMPILED" /\ status[t] = "COMPLETED"
  /\ lease[t] = "RELEASED"
  /\ Streamed(t)
  /\ Required \subseteq evidence[t]
  /\ exitZero[t]["processor"] > 0 /\ exitZero[t]["reviewer"] > 0
  /\ exitZero[t]["worker-controller"] = 1
  /\ ran[t] = "well"

VerifiesItem(t) ==
  /\ phase = "verifying" /\ t \in compiled \ verified
  /\ IF ItemHolds(t)
       THEN verified' = verified \cup {t} /\ UNCHANGED phase
       ELSE phase' = "BLOCKED" /\ UNCHANGED verified
  /\ UNCHANGED <<agent, compiled, seen, late, early, faults>> /\ RunnerOnly

OtherCheckFails ==
  /\ Goto("verifying", "BLOCKED") /\ Fault
  /\ UNCHANGED <<agent, compiled, seen, verified, late, early>> /\ RunnerOnly

(* Then the leases, and then the container.                                *)
Concludes ==
  /\ verified = compiled
  /\ Goto("verifying", IF (\A t \in compiled : ~Active(t)) /\ container = "stopped"
                       THEN "COMPLETED" ELSE "BLOCKED")
  /\ UNCHANGED <<agent, compiled, seen, verified, late, early, faults>> /\ RunnerOnly

-----------------------------------------------------------------------------
(* The specification.                                                      *)

AgentStep ==
  \/ \E t \in Task : Confirm(t) \/ Reply(t) \/ \E c \in Card : Submit(t, c)
  \/ AgentExits
ServiceStep ==
  \E t \in Task : \/ Processed(t) \/ Reviewed(t) \/ Compile(t) \/ Enqueue(t)
                  \/ HarnessAttempt(t, "processor") \/ HarnessAttempt(t, "reviewer")
DispatchStep ==
  \E t \in Task : \/ Dispatch(t) \/ ReadsAnswer(t) \/ Copies(t, "dispatch") \/ Prepared(t)
                  \/ PlanAcknowledged(t) \/ Executed(t) \/ Release(t) \/ Settle(t)
                  \/ Record(t) \/ Note(t) \/ OutcomeFails(t)
                  \/ DispatchCollides(t) \/ DispatchRefused(t) \/ DispatchGivesUp(t)
WorkerStep ==
  \E t \in Task : \/ HandlePrepare(t) \/ HandlePlan(t) \/ Refuse(t) \/ Control(t)
                  \/ HarnessAttempt(t, "worker-controller") \/ ControlRaised(t)
                  \/ AuditFails(t) \/ Inspect(t) \/ Start(t) \/ Started(t) \/ Run(t)
                  \/ Cleanup(t) \/ Finish(t)
CancelStep ==
  \E t \in Task : \/ Cancel(t) \/ HandleCancel(t) \/ CancelReads(t) \/ Copies(t, "cancel")
                  \/ CancelEnds(t) \/ CancelGivesUp(t) \/ CancelCollides(t)
                  \/ CancelMisreads(t)
RunnerStep ==
  \/ Gates \/ ReadsProposals \/ Judges \/ OtherCheckFails \/ Concludes
  \/ \E t \in Task : ReadsStatus(t) \/ VerifiesItem(t)

Next == AgentStep \/ ServiceStep \/ DispatchStep \/ WorkerStep \/ CancelStep \/ RunnerStep
        \/ AgentTimesOut

(* The runner goes on, and subprocess.run does not wait for ever.  Nothing *)
(* is asked of the agent, the master and the Worker: any may stop.         *)
Fairness == WF_vars(RunnerStep \/ AgentTimesOut)

Spec == Init /\ [][Next]_vars /\ Fairness

-----------------------------------------------------------------------------
(* Properties.                                                             *)

(* Every variable holds a value of its kind.                               *)
TypeOK ==
  /\ phase \in Phase /\ agent \in { "none", "running", "zero", "nonzero", "killed" }
  /\ compiled \subseteq Task /\ verified \subseteq compiled /\ late \in BOOLEAN
  /\ early \in BOOLEAN
  /\ seen \in [Task -> TaskState \cup { "unread" }]
  /\ card \in [Task -> Card \cup {0}] /\ proposal \in [Task -> ProposalState]
  /\ status \in [Task -> TaskState]
  /\ lease \in [Task -> { "none", "HELD", "COMMITTED", "RELEASED" }]
  /\ call = NoCall \/ call.task \in Task
  /\ work = NoWork \/ (work.task \in Task /\ work.op \in Operation)
  /\ cancel \in [Task -> { "none", "asked", "confirmed", "unconfirmed", "reading yes",
                           "reading no", "over" }]
  /\ flagged \subseteq Task /\ owner \in Task \cup {0}
  /\ container \in { "stopped", "running" }
  /\ ran \in [Task -> { "no", "refused", "started", "well", "badly", "unclean" }]
  /\ faults \in 0 .. MaxFault
  /\ HarnessOK /\ EvidenceOK

(* A verdict of COMPLETED is true of what happened, and stays so while the *)
(* master goes on: there is one item of each card count; each was          *)
(* processed, reviewed and controlled by an invocation that returned; its  *)
(* command ran and came to a good end; no lease is left; and all that the  *)
(* Worker noted about the execution has reached the master                 *)
(* (verify_qualification and _verify_item look only at records).           *)
VerdictIsTrue ==
  phase = "COMPLETED" =>
    /\ \A c \in Card : \E t \in compiled : { s \in compiled : card[s] = c } = {t}
    /\ \A t \in compiled :
         /\ \A r \in Role : answer[t][r] = "returned"
         /\ ran[t] = "well" /\ status[t] = "COMPLETED" /\ ~Active(t)
         /\ Written(t) \ { "CANCELLED_BY_MASTER" } \subseteq evidence[t]

(* A Task is COMPLETED only when the evidence of its execution is with the *)
(* master, whatever a cancel that copies the same lines at the same time   *)
(* has done (execute ingests before it returns).                           *)
OutcomeHasEvidence ==
  \A t \in Task : status[t] = "COMPLETED" =>
    Required \cup { "PREPARED", "PLAN_ACK" } \subseteq evidence[t]

(* Every run comes to a verdict, and none is BLOCKED but for a reason:     *)
(* what was done without a fault, in time, passes the modelled checks of   *)
(* verify_qualification and _verify_item, whatever order the master, the   *)
(* Worker and the runner did it in.  One more reason is in the code: an    *)
(* agent that is told COMPLETED by get_status may end, and the runner read,*)
(* before _transition has written the history or the event of it.          *)
QualificationConcludes ==
  <>(phase \in Over) /\ [](phase = "BLOCKED" => faults > 0 \/ late \/ early)
=============================================================================
