------------------------- MODULE QualificationProofs -------------------------
(***************************************************************************)
(* That a verdict of COMPLETED is true, proved for every set of Tasks and  *)
(* of card counts, every number of attempts and every number of faults.    *)
(* The runner looks at records only; the invariant says what each record   *)
(* implies about the one who wrote it: the invocations of Harness, the     *)
(* lines of Evidence, and the order in which the dispatcher, the Worker    *)
(* and a cancel come to them.                                              *)
(***************************************************************************)
EXTENDS Qualification, FiniteSetTheorems, SequenceTheorems, TLAPS

Noted == Required \cup { "PREPARED", "PLAN_ACK" }
Outcome == { "COMPLETED", "FAILED", "CANCELLED" }
Ends == { "release", "settle", "record", "note" }

Calls ==
  [task : Task, op : Operation, step : { "asked", "answered", "refused", "reading" }]
    \cup [task : Task, op : Ends, step : Outcome]
Jobs == [task : Task, op : Operation]

(* The dispatcher waits for one answer, and the Worker works on nothing    *)
(* else meanwhile; it may still work for a dispatcher that gave up.        *)
CallInv ==
  /\ call \in Calls \cup { NoCall } /\ work \in Jobs \cup { NoWork }
  /\ call # NoCall =>
       \/ work = NoWork
       \/ call.step = "asked" /\ work = [task |-> call.task, op |-> call.op]

(* An invocation that goes on has no answer yet.                           *)
HarnessInv(t) == \A r \in Role : invoked[t][r] > 0 => answer[t][r] = "none"
ExitZeroInv(t) == \A r \in Role :
  exitZero[t][r] <= IF invoked[t][r] = 0 THEN MaxAttempts ELSE invoked[t][r] - 1

(* What the state of a Proposal tells of the agents it was given to.       *)
ProposalInv(t) ==
  /\ proposal[t] = "NONE" <=> card[t] = 0
  /\ invoked[t]["processor"] > 0 => proposal[t] = "CLARIFYING"
  /\ invoked[t]["reviewer"] > 0 => proposal[t] = "IN_REVIEW"
  /\ proposal[t] \in { "AWAITING_CONFIRMATION", "IN_REVIEW", "COMPILING", "COMPILED" } =>
       answer[t]["processor"] = "returned"
  /\ proposal[t] \in { "COMPILING", "COMPILED" } => answer[t]["reviewer"] = "returned"

(* What is copied has been written; a torn line ends the story of a Task.  *)
IngestInv(t) ==
  \A k \in Thread : /\ ToSet(ingest[t][k].left) \subseteq Written(t)
                    /\ ingest[t][k].next \in Written(t) \cup { NoEvent }
TornInv(t) ==
  t \in torn => /\ work.task # t /\ status[t] \notin { "CREATED", "QUEUED" }
                /\ call.task = t => call.step = "asked"
BegunInv(t) ==
  /\ call.task = t \/ work.task = t => status[t] \notin { "CREATED", "QUEUED" }
  /\ (call.task = t /\ call.op # "note") \/ work.task = t => status[t] # "COMPLETED"

(* What the Worker has done for a Task, by the progress of the dispatch.   *)
Answered == { "answered", "reading" }
AnsweredInv(t) ==
  call.task = t =>
    /\ (call.op = "PREPARE" /\ call.step \in Answered) \/ call.op \in { "PLAN", "EXECUTE" } =>
         "PREPARED" \in Written(t)
    /\ (call.op = "PLAN" /\ call.step \in Answered) \/ call.op = "EXECUTE" =>
         "PLAN_ACK" \in Written(t)
    /\ call.op = "EXECUTE" /\ call.step \in Answered /\ ran[t] = "well" => Noted \subseteq Written(t)
RanInv(t) ==
  /\ ran[t] # "no" => answer[t]["worker-controller"] = "returned"
  /\ ran[t] \in { "started", "well" } => "DOCKER_INSPECT_PRE" \in Written(t)
  /\ ran[t] = "well" => "DOCKER_START_CONFIRMED" \in Written(t)

(* What the dispatch has copied, or has in hand.                           *)
InHand(t) ==
  evidence[t] \cup ToSet(ingest[t]["dispatch"].left) \cup { ingest[t]["dispatch"].next }
CopiedInv(t) ==
  call.task = t =>
    /\ call.op = "EXECUTE" /\ call.step = "reading" /\ ran[t] = "well" => Noted \subseteq InHand(t)
    /\ call.op \in Ends /\ call.step = "COMPLETED" => ran[t] = "well" /\ Noted \subseteq evidence[t]
    /\ call.op \in Ends \ { "release" } => lease[t] = "RELEASED"
SettledInv(t) ==
  status[t] = "COMPLETED" => lease[t] = "RELEASED" /\ ran[t] = "well" /\ Noted \subseteq evidence[t]

(* What the runner has read is still so, and so is what it has verified: a *)
(* COMPLETED that it read in the history may still become another state.   *)
RunnerInv ==
  /\ \A t \in compiled : proposal[t] = "COMPILED"
  /\ \A t \in verified : Streamed(t)
  /\ phase \in { "gates", "agent" } => ~early
  /\ phase \in { "gates", "agent", "proposals", "statuses" } => verified = {}
  /\ phase \in { "verifying", "COMPLETED" } => OneOfEach(compiled)
  /\ phase = "COMPLETED" => verified = compiled

(* What keeps a run in which nothing went wrong from being BLOCKED: each   *)
(* agent was asked once and answered; a Task has begun only when it was    *)
(* compiled; every card count is submitted once; nobody cancels; and the   *)
(* container runs only between the start of a command and its cleanup.     *)
OnceInv(t) ==
  faults = 0 => \A r \in Role :
    /\ invoked[t][r] > 0 => exitZero[t][r] = 0
    /\ answer[t][r] = "returned" => exitZero[t][r] = 1
BegunCompiled(t) ==
  /\ status[t] # "CREATED" => proposal[t] = "COMPILED"
  /\ ran[t] # "no" => status[t] # "CREATED"
CleanedInv(t) ==
  "DOCKER_CLEANUP_INSPECTED" \in Written(t) => ran[t] \in { "well", "badly", "unclean" }
Unclean(t) == ran[t] \in { "started", "well" } /\ "DOCKER_CLEANUP_INSPECTED" \notin Written(t)
CancelInv == faults = 0 => \A t \in Task : cancel[t] = "none" /\ ingest[t]["cancel"] = Idle
ContainerInv == faults = 0 /\ container = "running" => \E t \in Task : Unclean(t)
CardsInv == faults = 0 => \A s, t \in Task : card[s] = card[t] /\ card[s] # 0 => s = t
Recorded == { t \in Task : Streamed(t) }
AgentDone == agent = "zero" /\ Card \subseteq CardsOf(Recorded)
ReasonInv ==
  faults = 0 /\ ~late /\ ~early =>
    /\ phase # "BLOCKED"
    /\ phase \in { "proposals", "statuses", "verifying", "COMPLETED" } => AgentDone
    /\ phase \in { "statuses", "verifying", "COMPLETED" } =>
         compiled = { t \in Task : proposal[t] = "COMPILED" }
    /\ phase \in { "gates", "agent", "proposals" } => \A t \in Task : seen[t] = "unread"
    /\ \A t \in Task : seen[t] \in { "unread", "COMPLETED" }

CInv ==
  /\ CancelInv /\ ContainerInv /\ CardsInv /\ ReasonInv
  /\ \A t \in Task : OnceInv(t) /\ BegunCompiled(t) /\ CleanedInv(t)

ExecutionInv(t) ==
  /\ TornInv(t) /\ BegunInv(t) /\ AnsweredInv(t) /\ RanInv(t) /\ CopiedInv(t) /\ SettledInv(t)
AgentsInv(t) == HarnessInv(t) /\ ExitZeroInv(t) /\ ProposalInv(t)

QInv ==
  /\ TypeOK /\ CallInv /\ RunnerInv
  /\ \A t \in Task : IngestInv(t) /\ AgentsInv(t) /\ ExecutionInv(t)

-----------------------------------------------------------------------------
(* The steps by what they leave alone.                                     *)

MakersStep(t) ==
  \/ Confirm(t) \/ Reply(t) \/ (\E c \in Card : Submit(t, c)) \/ Processed(t) \/ Reviewed(t)
  \/ Compile(t) \/ Control(t) \/ \E r \in Role : HarnessAttempt(t, r)
OutcomeStep(t) == Settle(t) \/ Record(t) \/ Note(t) \/ OutcomeFails(t)
DispatchersStep(t) ==
  \/ Enqueue(t) \/ Dispatch(t) \/ Prepared(t) \/ PlanAcknowledged(t) \/ Executed(t)
  \/ Release(t) \/ OutcomeStep(t) \/ DispatchRefused(t) \/ DispatchGivesUp(t)
ReadersStep(t) == ReadsAnswer(t) \/ DispatchCollides(t)
WorkersStep(t) ==
  \/ HandlePrepare(t) \/ HandlePlan(t) \/ Refuse(t) \/ ControlRaised(t) \/ AuditFails(t)
  \/ Inspect(t) \/ Start(t) \/ Started(t) \/ Run(t) \/ Cleanup(t) \/ Finish(t)
AsideStep(t) ==
  \/ Copies(t, "dispatch") \/ Copies(t, "cancel")
  \/ Cancel(t) \/ HandleCancel(t) \/ CancelReads(t)
  \/ CancelEnds(t) \/ CancelGivesUp(t) \/ CancelCollides(t) \/ CancelMisreads(t)
ExecutionStep(t) ==
  DispatchersStep(t) \/ ReadersStep(t) \/ WorkersStep(t) \/ AsideStep(t)
RunnersStep == AgentExits \/ AgentTimesOut \/ RunnerStep

LEMMA StepsOf ==
  ASSUME Next
  PROVE  RunnersStep \/ \E t \in Task : MakersStep(t) \/ ExecutionStep(t)
<1>1. CASE AgentStep
  BY <1>1 DEF AgentStep, RunnersStep, MakersStep
<1>2. CASE ServiceStep
  BY <1>2 DEF ServiceStep, MakersStep, ExecutionStep, DispatchersStep, Role
<1>3. CASE DispatchStep
  BY <1>3 DEF DispatchStep, ExecutionStep, DispatchersStep, OutcomeStep, ReadersStep, AsideStep
<1>4. CASE WorkerStep
  BY <1>4 DEF WorkerStep, ExecutionStep, WorkersStep, MakersStep, Role
<1>5. CASE CancelStep
  BY <1>5 DEF CancelStep, ExecutionStep, AsideStep
<1>6. CASE RunnerStep \/ AgentTimesOut
  BY <1>6 DEF RunnersStep
<1> QED
  BY <1>1, <1>2, <1>3, <1>4, <1>5, <1>6 DEF Next

LEMMA MakersLeave ==
  ASSUME NEW t, MakersStep(t)
  PROVE  UNCHANGED <<runner, dispatcher, cancelling, worker, evidenceVars>>
BY DEF MakersStep, Confirm, Reply, Submit, Processed, Reviewed, Compile, Control, HarnessAttempt

LEMMA RunnersLeave ==
  ASSUME RunnersStep
  PROVE  UNCHANGED <<proposals, dispatcher, cancelling, worker, harnessVars, evidenceVars>>
BY DEF RunnersStep, RunnerStep, RunnerOnly, AgentExits, AgentTimesOut, Gates, ReadsProposals,
       Judges, OtherCheckFails, Concludes, ReadsStatus, VerifiesItem

LEMMA ExecutionLeaves ==
  ASSUME NEW t, ExecutionStep(t)
  PROVE  UNCHANGED <<runner, proposals, harnessVars>>
<1>1. CASE DispatchersStep(t)
  BY <1>1 DEF DispatchersStep, Enqueue, Dispatch, Prepared, PlanAcknowledged, Executed, Release,
     OutcomeStep, Settle, Record, Note, Settles, OutcomeFails, DispatchRefused, DispatchGivesUp, proposals
<1>2. CASE ReadersStep(t)
  BY <1>2 DEF ReadersStep, ReadsAnswer, DispatchCollides
<1>3. CASE WorkersStep(t)
  BY <1>3 DEF WorkersStep, HandlePrepare, HandlePlan, Refuse, ControlRaised, AuditFails, Inspect,
     Start, Started, Run, Cleanup, Finish
<1>4. CASE AsideStep(t)
  BY <1>4 DEF AsideStep, Copies, Cancel, HandleCancel, CancelReads, CancelEnds, CancelGivesUp,
     CancelCollides, CancelMisreads
<1> QED
  BY <1>1, <1>2, <1>3, <1>4 DEF ExecutionStep

-----------------------------------------------------------------------------
(* The lines.                                                              *)

EvidenceMove(t) ==
  \/ UNCHANGED evidenceVars \/ AuditTears(t) \/ \E e \in Event : Audit(t, e)
  \/ \E k \in Thread : ReadsInbox(t, k) \/ Looks(t, k) \/ WritesEvidence(t, k) \/ Collides(t, k)

LEMMA Moves ==
  ASSUME NEW t, ExecutionStep(t)
  PROVE  EvidenceMove(t)
<1> USE DEF EvidenceMove
<1>1. CASE DispatchersStep(t)
  BY <1>1 DEF DispatchersStep, Enqueue, Dispatch, Prepared, PlanAcknowledged, Executed, Release,
     OutcomeStep, Settle, Record, Note, Settles, OutcomeFails, DispatchRefused, DispatchGivesUp
<1>2. CASE ReadersStep(t)
  BY <1>2 DEF ReadersStep, ReadsAnswer, DispatchCollides, Thread
<1>3. CASE WorkersStep(t)
  BY <1>3 DEF WorkersStep, HandlePrepare, HandlePlan, Refuse, ControlRaised, AuditFails, Inspect,
     Start, Started, Run, Cleanup, Finish, Event, Required
<1>4. CASE AsideStep(t)
  BY <1>4 DEF AsideStep, Copies, Cancel, HandleCancel, CancelReads, CancelEnds, CancelGivesUp,
     CancelCollides, CancelMisreads, Event, Thread
<1> QED
  BY <1>1, <1>2, <1>3, <1>4 DEF ExecutionStep

LEMMA AppendSet ==
  ASSUME NEW s \in Seq(Event), NEW e \in Event
  PROVE  /\ Append(s, e) \in Seq(Event)
         /\ ToSet(Append(s, e)) = ToSet(s) \cup {e}
BY AppendProperties DEF ToSet

LEMMA LookSet ==
  ASSUME NEW s \in Seq(Event), NEW i \in 1 .. Len(s)
  PROVE  /\ SubSeq(s, i + 1, Len(s)) \in Seq(Event)
         /\ ToSet(SubSeq(s, i + 1, Len(s))) \subseteq ToSet(s)
         /\ s[i] \in ToSet(s) /\ s[i] \in Event
         /\ \A e \in ToSet(s) : \/ e \in ToSet(SubSeq(s, i + 1, Len(s))) \cup { s[i] }
                                \/ \E j \in 1 .. i - 1 : e = s[j]
<1> DEFINE u == SubSeq(s, i + 1, Len(s))
<1>1. /\ u \in Seq(Event)
      /\ Len(u) = Len(s) - i
      /\ \A j \in 1 .. Len(s) - i : u[j] = s[i + j]
  <2>1. \A j \in i + 1 .. Len(s) : s[j] \in Event
    OBVIOUS
  <2>2. /\ u \in Seq(Event)
        /\ Len(u) = IF i + 1 <= Len(s) THEN Len(s) - (i + 1) + 1 ELSE 0
        /\ \A j \in 1 .. Len(s) - (i + 1) + 1 : u[j] = s[i + 1 + j - 1]
    BY <2>1, SubSeqProperties
  <2> QED
    BY <2>2
<1>2. ToSet(u) \subseteq ToSet(s)
  BY <1>1 DEF ToSet
<1>3. s[i] \in ToSet(s) /\ s[i] \in Event
  BY DEF ToSet
<1>4. ASSUME NEW e \in ToSet(s), e # s[i], \A j \in 1 .. i - 1 : e # s[j]
      PROVE  e \in ToSet(u)
  <2>1. PICK j \in 1 .. Len(s) : e = s[j]
    BY DEF ToSet
  <2>2. j > i
    BY <1>4, <2>1
  <2>3. j - i \in 1 .. Len(s) - i /\ u[j - i] = s[j]
    BY <1>1, <2>2
  <2>4. j - i \in DOMAIN u
    BY <1>1, <2>3
  <2>5. u[j - i] = e
    BY <2>1, <2>3
  <2> HIDE DEF u
  <2> QED
    BY <2>4, <2>5 DEF ToSet
<1> QED
  BY <1>1, <1>2, <1>3, <1>4

(* The lines, and what the master has of them, only grow; a thread copies  *)
(* what is there, and keeps in hand what it has not copied yet.            *)
Grown(t) ==
  /\ Written(t) \subseteq Written(t)' /\ evidence[t] \subseteq evidence'[t]
  /\ torn \subseteq torn'

Entry == [left : Seq(Event), next : Event \cup {NoEvent}]

LEMMA IngestSet ==
  ASSUME EvidenceOK, \A s \in Task : IngestInv(s),
         NEW t \in Task, NEW k \in Thread, NEW v \in Entry,
         ingest' = [ingest EXCEPT ![t][k] = v], UNCHANGED <<lines, torn>>,
         evidence' \in [Task -> SUBSET Event],
         \A s \in Task : evidence[s] \subseteq evidence'[s] /\ evidence'[s] \subseteq Written(s),
         ToSet(v.left) \subseteq Written(t), v.next \in Written(t) \cup {NoEvent}
  PROVE  /\ EvidenceOK' /\ \A s \in Task : IngestInv(s)' /\ Grown(s)
<1>1. /\ ingest' \in [Task -> [Thread -> Entry]]
      /\ \A s \in Task, q \in Thread :
           ingest'[s][q] = IF s = t /\ q = k THEN v ELSE ingest[s][q]
  BY DEF EvidenceOK, Entry
<1>2. \A s \in Task : Written(s)' = Written(s)
  BY DEF Written
<1>3. EvidenceOK'
  BY <1>1, <1>2 DEF EvidenceOK, Entry
<1>4. \A s \in Task : Grown(s)
  BY <1>2 DEF Grown
<1>5. ASSUME NEW s \in Task, NEW q \in Thread
      PROVE  /\ ToSet(ingest'[s][q].left) \subseteq Written(s)
             /\ ingest'[s][q].next \in Written(s) \cup { NoEvent }
  BY <1>1 DEF IngestInv
<1>6. \A s \in Task : IngestInv(s)'
  BY <1>2, <1>5 DEF IngestInv
<1> QED
  BY <1>3, <1>4, <1>6

LEMMA EvidenceNext ==
  ASSUME EvidenceOK, \A t \in Task : IngestInv(t), NEW t \in Task, EvidenceMove(t)
  PROVE  /\ EvidenceOK' /\ \A s \in Task : IngestInv(s)' /\ Grown(s)
<1> USE DEF EvidenceOK
<1>1. CASE UNCHANGED evidenceVars
  BY <1>1 DEF evidenceVars, Grown, IngestInv, Written
<1>2. CASE AuditTears(t)
  BY <1>2 DEF AuditTears, Grown, IngestInv, Written
<1>3. ASSUME NEW e \in Event, Audit(t, e)
      PROVE  /\ EvidenceOK' /\ \A s \in Task : IngestInv(s)' /\ Grown(s)
  <2>1. CASE t \in torn
    BY <1>3, <2>1 DEF Audit, Grown, IngestInv, Written
  <2>2. CASE t \notin torn
    <3>1. /\ Append(lines[t], e) \in Seq(Event)
          /\ ToSet(Append(lines[t], e)) = ToSet(lines[t]) \cup {e}
      BY AppendSet
    <3>2. lines' \in [Task -> Seq(Event)] /\ UNCHANGED <<torn, evidence, ingest>>
      BY <1>3, <2>2, <3>1 DEF Audit
    <3>3. \A s \in Task : Written(s)' = IF s = t THEN Written(s) \cup {e} ELSE Written(s)
      BY <1>3, <2>2, <3>1 DEF Audit, Written
    <3> QED
      BY <3>2, <3>3, ZenonT(40) DEF Grown, IngestInv
  <2> QED
    BY <2>1, <2>2
<1>4. ASSUME NEW k \in Thread, ReadsInbox(t, k) \/ Looks(t, k) \/ Collides(t, k)
      PROVE  /\ EvidenceOK' /\ \A s \in Task : IngestInv(s)' /\ Grown(s)
  <2>1. /\ UNCHANGED <<lines, torn>> /\ evidence' \in [Task -> SUBSET Event]
        /\ \A s \in Task : evidence[s] \subseteq evidence'[s] /\ evidence'[s] \subseteq Written(s)
    BY <1>4 DEF ReadsInbox, Looks, Collides
  <2>2. CASE ingest' = [ingest EXCEPT ![t][k] = Idle]
    <3>1. ToSet(<< >>) = {}
      BY DEF ToSet
    <3>2. Idle \in Entry /\ ToSet(Idle.left) = {} /\ Idle.next = NoEvent
      BY <3>1 DEF Entry, Idle
    <3> QED
      BY <2>1, <2>2, <3>2, IngestSet
  <2>3. CASE ReadsInbox(t, k)
    <3>1. PICK v : v = [left |-> lines[t], next |-> NoEvent]
      OBVIOUS
    <3>2. v \in Entry /\ ToSet(v.left) \subseteq Written(t) /\ v.next = NoEvent
      BY <3>1 DEF Entry, Written
    <3>3. ingest' = [ingest EXCEPT ![t][k] = v]
      BY <2>3, <3>1 DEF ReadsInbox
    <3> QED
      BY <2>1, <3>2, <3>3, IngestSet
  <2>4. ASSUME NEW i \in 1 .. Len(ingest[t][k].left),
               ingest' = [ingest EXCEPT ![t][k] =
                  [left |-> SubSeq(ingest[t][k].left, i + 1, Len(ingest[t][k].left)),
                   next |-> ingest[t][k].left[i]]]
        PROVE  /\ EvidenceOK' /\ \A s \in Task : IngestInv(s)' /\ Grown(s)
    <3>1. PICK left \in Seq(Event) : left = ingest[t][k].left
      OBVIOUS
    <3>2. PICK rest : rest = SubSeq(left, i + 1, Len(left))
      OBVIOUS
    <3>3. /\ rest \in Seq(Event) /\ ToSet(rest) \subseteq ToSet(left)
          /\ left[i] \in ToSet(left) /\ left[i] \in Event
      BY <3>1, <3>2, LookSet
    <3>4. ToSet(left) \subseteq Written(t)
      BY <3>1 DEF IngestInv
    <3>5. PICK v : v = [left |-> rest, next |-> left[i]]
      OBVIOUS
    <3>6. v \in Entry /\ ToSet(v.left) \subseteq Written(t) /\ v.next \in Written(t)
      BY <3>3, <3>4, <3>5 DEF Entry
    <3>7. ingest' = [ingest EXCEPT ![t][k] = v]
      BY <2>4, <3>1, <3>2, <3>5
    <3> QED
      BY <2>1, <3>6, <3>7, IngestSet
  <2> QED
    BY <1>4, <2>2, <2>3, <2>4 DEF Looks, Collides
<1>5. ASSUME NEW k \in Thread, WritesEvidence(t, k)
      PROVE  /\ EvidenceOK' /\ \A s \in Task : IngestInv(s)' /\ Grown(s)
  <2>1. UNCHANGED <<lines, torn>>
    BY <1>5 DEF WritesEvidence
  <2>2. ingest[t][k].next \in Written(t)
    BY <1>5 DEF WritesEvidence, IngestInv, NoEvent, Event, Required
  <2>3. /\ evidence' \in [Task -> SUBSET Event]
        /\ \A s \in Task : evidence[s] \subseteq evidence'[s] /\ evidence'[s] \subseteq Written(s)
    BY <1>5, <2>2 DEF WritesEvidence
  <2>4. PICK v : v = [left |-> ingest[t][k].left, next |-> NoEvent]
    OBVIOUS
  <2>5. v \in Entry /\ ToSet(v.left) \subseteq Written(t) /\ v.next = NoEvent
    BY <2>4 DEF Entry, IngestInv
  <2>6. ingest' = [ingest EXCEPT ![t][k] = v]
    <3>1. ingest[t][k] \in Entry
      BY DEF Entry
    <3>2. [ingest[t][k] EXCEPT !.next = NoEvent] = v
      BY <2>4, <3>1 DEF Entry
    <3>3. ingest' = [ingest EXCEPT ![t] = [ingest[t] EXCEPT ![k] =
                       [ingest[t][k] EXCEPT !.next = NoEvent]]]
      BY <1>5 DEF WritesEvidence
    <3> QED
      BY <3>2, <3>3
  <2> QED
    BY <2>1, <2>3, <2>5, <2>6, IngestSet
<1> QED
  BY <1>1, <1>2, <1>3, <1>4, <1>5 DEF EvidenceMove

-----------------------------------------------------------------------------
(* The agents.                                                             *)

(* Only the invocation of r for t is another one, or an attempt further.   *)
OnlyInvocation(t, r) ==
  \A s \in Task, q \in Role : s # t \/ q # r =>
    invoked'[s][q] = invoked[s][q] /\ exitZero'[s][q] = exitZero[s][q] /\ answer'[s][q] = answer[s][q]

LEMMA InvokeNext ==
  ASSUME HarnessOK, \A s \in Task : HarnessInv(s) /\ ExitZeroInv(s),
         NEW t \in Task, NEW r \in Role, Invoke(t, r)
  PROVE  /\ HarnessOK' /\ \A s \in Task : HarnessInv(s)' /\ ExitZeroInv(s)'
         /\ OnlyInvocation(t, r) /\ invoked'[t][r] = 1 /\ answer'[t][r] = "none"
<1> USE HarnessAssumption DEF HarnessOK
<1>1. HarnessOK'
  BY DEF Invoke
<1>2. /\ invoked'[t][r] = 1 /\ answer'[t][r] = "none" /\ exitZero'[t][r] = 0
      /\ OnlyInvocation(t, r)
  BY DEF Invoke, OnlyInvocation
<1>3. \A s \in Task : HarnessInv(s)'
  BY <1>2 DEF HarnessInv, OnlyInvocation
<1>4. \A s \in Task : ExitZeroInv(s)'
  BY <1>2 DEF ExitZeroInv, OnlyInvocation
<1> QED
  BY <1>1, <1>2, <1>3, <1>4

LEMMA AttemptNext ==
  ASSUME HarnessOK, \A s \in Task : HarnessInv(s) /\ ExitZeroInv(s),
         NEW t \in Task, NEW r \in Role, NEW kind, Attempt(t, r, kind)
  PROVE  /\ HarnessOK' /\ \A s \in Task : HarnessInv(s)' /\ ExitZeroInv(s)'
         /\ OnlyInvocation(t, r) /\ invoked[t][r] > 0 /\ answer[t][r] = "none"
<1> USE HarnessAssumption DEF HarnessOK
<1>1. /\ invoked[t][r] > 0 /\ answer[t][r] = "none"
      /\ invoked[t][r] \in 1 .. MaxAttempts /\ exitZero[t][r] \in 0 .. invoked[t][r] - 1
  BY DEF Attempt, HarnessInv, ExitZeroInv
<1>2. PICK z : z = IF kind \in { "retryable", "fatal" } THEN exitZero[t][r] ELSE exitZero[t][r] + 1
  OBVIOUS
<1>3. z \in 0 .. invoked[t][r] /\ z \in 0 .. MaxAttempts
  BY <1>1, <1>2
<1>4. exitZero' = [exitZero EXCEPT ![t][r] = z]
  BY <1>2 DEF Attempt
<1>5. CASE kind \in Retried /\ invoked[t][r] < MaxAttempts
  <2>1. /\ invoked' = [invoked EXCEPT ![t][r] = invoked[t][r] + 1] /\ UNCHANGED answer
    BY <1>5 DEF Attempt
  <2>2. HarnessOK' /\ OnlyInvocation(t, r)
    BY <1>1, <1>3, <1>4, <1>5, <2>1 DEF OnlyInvocation
  <2>3. invoked'[t][r] = invoked[t][r] + 1 /\ exitZero'[t][r] = z /\ answer'[t][r] = "none"
    BY <1>1, <1>4, <2>1
  <2>4. \A s \in Task : HarnessInv(s)'
    BY <2>2, <2>3, SMTT(30) DEF HarnessInv, OnlyInvocation
  <2>5. ASSUME NEW s \in Task, NEW q \in Role
        PROVE  exitZero'[s][q] <= IF invoked'[s][q] = 0 THEN MaxAttempts ELSE invoked'[s][q] - 1
    <3>1. CASE s = t /\ q = r
      BY <1>1, <1>3, <2>3, <3>1
    <3>2. CASE ~(s = t /\ q = r)
      BY <2>2, <3>2 DEF ExitZeroInv, OnlyInvocation
    <3> QED
      BY <3>1, <3>2
  <2>6. \A s \in Task : ExitZeroInv(s)'
    BY <2>5 DEF ExitZeroInv
  <2> QED
    BY <1>1, <2>2, <2>4, <2>6
<1>6. CASE ~(kind \in Retried /\ invoked[t][r] < MaxAttempts)
  <2>1. PICK a \in { "returned", "raised" } :
          /\ invoked' = [invoked EXCEPT ![t][r] = 0] /\ answer' = [answer EXCEPT ![t][r] = a]
    BY <1>6 DEF Attempt
  <2>2. HarnessOK' /\ OnlyInvocation(t, r)
    BY <1>1, <1>3, <1>4, <2>1 DEF OnlyInvocation
  <2>3. invoked'[t][r] = 0 /\ exitZero'[t][r] = z
    BY <1>4, <2>1
  <2>4. \A s \in Task : HarnessInv(s)'
    BY <2>2, <2>3 DEF HarnessInv, OnlyInvocation
  <2>5. \A s \in Task : ExitZeroInv(s)'
    BY <1>3, <2>2, <2>3, SMTT(30) DEF ExitZeroInv, OnlyInvocation
  <2> QED
    BY <1>1, <2>2, <2>4, <2>5
<1> QED
  BY <1>5, <1>6

(* A Proposal that was compiled stays so, with its card count, and what    *)
(* the controller answered stays its answer.                               *)
AgentsKeep ==
  /\ \A s \in Task : proposal[s] = "COMPILED" => proposal'[s] = "COMPILED" /\ card'[s] = card[s]
  /\ \A s \in Task : answer[s]["worker-controller"] # "none" =>
       answer'[s]["worker-controller"] = answer[s]["worker-controller"]

ProposalsOK == card \in [Task -> Card \cup {0}] /\ proposal \in [Task -> ProposalState]

LEMMA AgentsNext ==
  ASSUME HarnessOK, ProposalsOK, \A s \in Task : AgentsInv(s), NEW t \in Task, MakersStep(t)
  PROVE  HarnessOK' /\ ProposalsOK' /\ (\A s \in Task : AgentsInv(s)') /\ AgentsKeep
<1> USE QualificationAssumption DEF ProposalsOK, ProposalState
<1>0. \A s \in Task : HarnessInv(s) /\ ExitZeroInv(s) /\ ProposalInv(s)
  BY DEF AgentsInv
<1>a. { "processor", "reviewer", "worker-controller" } = Role
  BY DEF Role
<1>1. CASE Confirm(t)
  <2>1. /\ HarnessOK' /\ \A s \in Task : HarnessInv(s)' /\ ExitZeroInv(s)'
        /\ OnlyInvocation(t, "reviewer")
        /\ invoked'[t]["reviewer"] = 1 /\ answer'[t]["reviewer"] = "none"
    BY <1>0, <1>1, <1>a, InvokeNext DEF Confirm
  <2>2. UNCHANGED card /\ proposal[t] = "AWAITING_CONFIRMATION"
        /\ proposal' = [proposal EXCEPT ![t] = "IN_REVIEW"]
    BY <1>1 DEF Confirm
  <2>3. \A s \in Task : ProposalInv(s)'
    BY <1>0, <1>a, <2>1, <2>2 DEF ProposalInv, OnlyInvocation
  <2>4. ProposalsOK' /\ AgentsKeep
    BY <1>a, <2>1, <2>2 DEF AgentsKeep, OnlyInvocation
  <2> QED
    BY <2>1, <2>3, <2>4 DEF AgentsInv
<1>2. CASE Reply(t)
  <2>1. /\ HarnessOK' /\ \A s \in Task : HarnessInv(s)' /\ ExitZeroInv(s)'
        /\ OnlyInvocation(t, "processor")
        /\ invoked'[t]["processor"] = 1 /\ answer'[t]["processor"] = "none"
    BY <1>0, <1>2, <1>a, InvokeNext DEF Reply
  <2>2. /\ UNCHANGED card
        /\ proposal[t] \in { "AWAITING_CONFIRMATION", "CHANGES_REQUESTED", "PROCESSING_ERROR" }
        /\ proposal' = [proposal EXCEPT ![t] = "CLARIFYING"]
    BY <1>2 DEF Reply
  <2>3. \A s \in Task : ProposalInv(s)'
    BY <1>0, <1>a, <2>1, <2>2 DEF ProposalInv, OnlyInvocation
  <2>4. ProposalsOK' /\ AgentsKeep
    BY <1>a, <2>1, <2>2 DEF AgentsKeep, OnlyInvocation
  <2> QED
    BY <2>1, <2>3, <2>4 DEF AgentsInv
<1>3. ASSUME NEW c \in Card, Submit(t, c)
      PROVE  HarnessOK' /\ ProposalsOK' /\ (\A s \in Task : AgentsInv(s)') /\ AgentsKeep
  <2>1. /\ HarnessOK' /\ \A s \in Task : HarnessInv(s)' /\ ExitZeroInv(s)'
        /\ OnlyInvocation(t, "processor")
        /\ invoked'[t]["processor"] = 1 /\ answer'[t]["processor"] = "none"
    BY <1>0, <1>3, <1>a, InvokeNext DEF Submit
  <2>2. /\ card[t] = 0 /\ card' = [card EXCEPT ![t] = c]
        /\ proposal' = [proposal EXCEPT ![t] = "CLARIFYING"]
    BY <1>3 DEF Submit
  <2>3. proposal[t] = "NONE"
    BY <1>0, <2>2 DEF ProposalInv
  <2>4. \A s \in Task : ProposalInv(s)'
    BY <1>0, <1>a, <2>1, <2>2, <2>3 DEF ProposalInv, OnlyInvocation
  <2>5. ProposalsOK' /\ AgentsKeep
    BY <1>a, <2>1, <2>2, <2>3 DEF AgentsKeep, OnlyInvocation
  <2> QED
    BY <2>1, <2>4, <2>5 DEF AgentsInv
<1>4. ASSUME Processed(t) \/ Reviewed(t) \/ Compile(t)
      PROVE  HarnessOK' /\ ProposalsOK' /\ (\A s \in Task : AgentsInv(s)') /\ AgentsKeep
  <2>1. UNCHANGED <<card, invoked, exitZero, answer>>
    BY <1>4 DEF Processed, Reviewed, Compile, harnessVars
  <2>2. HarnessOK' /\ \A s \in Task : HarnessInv(s)' /\ ExitZeroInv(s)'
    BY <1>0, <2>1 DEF HarnessOK, HarnessInv, ExitZeroInv
  <2>3. PICK p \in ProposalState :
          /\ proposal' = [proposal EXCEPT ![t] = p]
          /\ \/ /\ proposal[t] = "CLARIFYING" /\ answer[t]["processor"] # "none"
                /\ p \in { "AWAITING_CONFIRMATION", "PROCESSING_ERROR" }
                /\ p = "AWAITING_CONFIRMATION" => answer[t]["processor"] = "returned"
             \/ /\ proposal[t] = "IN_REVIEW" /\ answer[t]["reviewer"] # "none"
                /\ p \in { "COMPILING", "CHANGES_REQUESTED", "REJECTED", "PROCESSING_ERROR" }
                /\ p = "COMPILING" => answer[t]["reviewer"] = "returned"
             \/ proposal[t] = "COMPILING" /\ p = "COMPILED"
    <3>1. CASE Processed(t)
      BY <3>1 DEF Processed
    <3>2. CASE Reviewed(t)
      BY <3>2 DEF Reviewed
    <3>3. CASE Compile(t)
      BY <3>3 DEF Compile
    <3> QED
      BY <1>4, <3>1, <3>2, <3>3
  <2>a. /\ card' = card /\ invoked' = invoked /\ answer' = answer
        /\ \A s \in Task : s # t => proposal'[s] = proposal[s]
        /\ proposal'[t] = p
    BY <2>1, <2>3
  <2>b. ASSUME NEW s \in Task, s # t PROVE ProposalInv(s)'
    BY <1>0, <2>a, <2>b DEF ProposalInv
  <2>c. (proposal[t] # "NONE" /\ p # "NONE") /\ ProposalInv(t)
    BY <1>0, <2>3
  <2>d. invoked[t]["processor"] \in Nat /\ invoked[t]["reviewer"] \in Nat
    BY <1>a DEF HarnessOK
  <2>e. (proposal[t] = "CLARIFYING" => ~(invoked[t]["reviewer"] > 0))
        /\ (proposal[t] # "CLARIFYING" => ~(invoked[t]["processor"] > 0))
        /\ (proposal[t] # "IN_REVIEW" => ~(invoked[t]["reviewer"] > 0))
    BY <2>c DEF ProposalInv
  <2>f. (answer[t]["processor"] # "none" => ~(invoked[t]["processor"] > 0))
        /\ (answer[t]["reviewer"] # "none" => ~(invoked[t]["reviewer"] > 0))
    BY <1>0, <1>a DEF HarnessInv
  <2>g. ProposalInv(t)'
    <3>1. (p = "NONE" <=> card[t] = 0) /\ ~(invoked[t]["processor"] > 0)
          /\ ~(invoked[t]["reviewer"] > 0)
      BY <2>3, <2>c, <2>e, <2>f DEF ProposalInv
    <3>2. p \in { "AWAITING_CONFIRMATION", "IN_REVIEW", "COMPILING", "COMPILED" } =>
            answer[t]["processor"] = "returned"
      BY <2>3, <2>c DEF ProposalInv
    <3>3. p \in { "COMPILING", "COMPILED" } => answer[t]["reviewer"] = "returned"
      BY <2>3, <2>c DEF ProposalInv
    <3> QED
      BY <2>a, <3>1, <3>2, <3>3 DEF ProposalInv
  <2>4. \A s \in Task : ProposalInv(s)'
    BY <2>b, <2>g
  <2>5. ProposalsOK' /\ AgentsKeep
    BY <2>1, <2>3 DEF AgentsKeep
  <2> QED
    BY <2>2, <2>4, <2>5 DEF AgentsInv
<1>5. CASE Control(t)
  <2>1. /\ HarnessOK' /\ \A s \in Task : HarnessInv(s)' /\ ExitZeroInv(s)'
        /\ OnlyInvocation(t, "worker-controller")
    BY <1>0, <1>5, <1>a, InvokeNext DEF Control
  <2>2. UNCHANGED <<card, proposal>> /\ answer[t]["worker-controller"] = "none"
    BY <1>5 DEF Control, proposals
  <2>3. \A s \in Task : ProposalInv(s)'
    BY <1>0, <1>a, <2>1, <2>2 DEF ProposalInv, OnlyInvocation
  <2>4. ProposalsOK' /\ AgentsKeep
    BY <1>a, <2>1, <2>2 DEF AgentsKeep, OnlyInvocation
  <2> QED
    BY <2>1, <2>3, <2>4 DEF AgentsInv
<1>6. ASSUME NEW r \in Role, HarnessAttempt(t, r)
      PROVE  HarnessOK' /\ ProposalsOK' /\ (\A s \in Task : AgentsInv(s)') /\ AgentsKeep
  <2>1. PICK kind : Attempt(t, r, kind)
    BY <1>6 DEF HarnessAttempt
  <2>2. /\ HarnessOK' /\ \A s \in Task : HarnessInv(s)' /\ ExitZeroInv(s)'
        /\ OnlyInvocation(t, r) /\ invoked[t][r] > 0 /\ answer[t][r] = "none"
    BY <1>0, <2>1, AttemptNext
  <2>3. UNCHANGED <<card, proposal>>
    BY <1>6 DEF HarnessAttempt, proposals
  <2>4. \A s \in Task : ProposalInv(s)'
    BY <1>0, <1>a, <2>2, <2>3 DEF ProposalInv, OnlyInvocation
  <2>5. ProposalsOK' /\ AgentsKeep
    BY <1>a, <2>2, <2>3 DEF AgentsKeep, OnlyInvocation
  <2> QED
    BY <2>2, <2>4, <2>5 DEF AgentsInv
<1> QED
  BY <1>1, <1>2, <1>3, <1>4, <1>5, <1>6 DEF MakersStep

-----------------------------------------------------------------------------
(* The dispatcher, the Worker and the cancels: the types, and that each    *)
(* works on one Task.                                                      *)

ExecutionOK ==
  /\ status \in [Task -> TaskState]
  /\ lease \in [Task -> { "none", "HELD", "COMMITTED", "RELEASED" }]
  /\ cancel \in [Task -> { "none", "asked", "confirmed", "unconfirmed", "reading yes",
                           "reading no", "over" }]
  /\ flagged \subseteq Task /\ owner \in Task \cup {0}
  /\ container \in { "stopped", "running" }
  /\ ran \in [Task -> { "no", "refused", "started", "well", "badly", "unclean" }]

OnlyLines(t) ==
  \A s \in Task : s # t =>
    /\ lines'[s] = lines[s] /\ evidence'[s] = evidence[s] /\ ingest'[s] = ingest[s]
    /\ s \in torn' <=> s \in torn

LEMMA MovesOne ==
  ASSUME EvidenceOK, NEW t \in Task, EvidenceMove(t)
  PROVE  OnlyLines(t)
<1> USE DEF OnlyLines, EvidenceOK
<1>1. CASE UNCHANGED evidenceVars \/ AuditTears(t) \/ \E e \in Event : Audit(t, e)
  BY <1>1 DEF Audit, AuditTears, evidenceVars
<1>2. ASSUME NEW k \in Thread, ReadsInbox(t, k) \/ Collides(t, k)
      PROVE  OnlyLines(t)
  BY <1>2 DEF ReadsInbox, Collides
<1>3. ASSUME NEW k \in Thread, Looks(t, k)
      PROVE  OnlyLines(t)
  BY <1>3 DEF Looks
<1>4. ASSUME NEW k \in Thread, WritesEvidence(t, k)
      PROVE  OnlyLines(t)
  BY <1>4 DEF WritesEvidence
<1> QED
  BY <1>1, <1>2, <1>3, <1>4 DEF EvidenceMove

(* What the dispatcher may be doing for a Task, and what it may do next.   *)
Steps == { "asked", "answered", "refused", "reading" }
LEMMA CallOf ==
  ASSUME CallInv, NEW t \in Task, call.task = t
  PROVE  /\ call \in Calls /\ call # NoCall
         /\ call.op \in Operation \cup Ends
         /\ call.op \in Operation => call.step \in Steps
         /\ call.op \in Ends => call.step \in Outcome
         /\ call.step \in Steps => call.op \notin Ends
BY QualificationAssumption DEF CallInv, Calls, NoCall, Operation, Steps, Ends, Outcome

LEMMA WorkOf ==
  ASSUME CallInv, NEW t \in Task, work.task = t
  PROVE  /\ work \in Jobs /\ work # NoWork
         /\ \/ call = NoCall
            \/ /\ call \in Calls /\ call.task = t
               /\ call.step = "asked" /\ call.op = work.op
<1>1. NoWork.task # t
  BY QualificationAssumption DEF NoWork
<1>2. work # NoWork /\ work \in Jobs
  BY <1>1 DEF CallInv
<1>3. ASSUME call # NoCall
      PROVE  call \in Calls /\ call.task = t /\ call.step = "asked" /\ call.op = work.op
  BY <1>2, <1>3 DEF CallInv
<1> QED
  BY <1>2, <1>3

LEMMA NextCall ==
  ASSUME CallInv, NEW t \in Task
  PROVE  /\ \A op \in Operation :
              /\ [task |-> t, op |-> op, step |-> "asked"] \in Calls
              /\ [task |-> t, op |-> op] \in Jobs
         /\ \A x \in Outcome : [task |-> t, op |-> "release", step |-> x] \in Calls
         /\ call.task = t /\ call.op \in Operation =>
              \A x \in Steps : /\ [call EXCEPT !.step = x] \in Calls
                               /\ [call EXCEPT !.step = x].task = t
                               /\ [call EXCEPT !.step = x].op = call.op
                               /\ [call EXCEPT !.step = x].step = x
         /\ call.task = t /\ call.op \in Ends =>
              \A x \in Ends : /\ [call EXCEPT !.op = x] \in Calls
                              /\ [call EXCEPT !.op = x].task = t
                              /\ [call EXCEPT !.op = x].step = call.step
                              /\ [call EXCEPT !.op = x].op = x
<1>1. /\ \A op \in Operation :
           /\ [task |-> t, op |-> op, step |-> "asked"] \in Calls
           /\ [task |-> t, op |-> op] \in Jobs
      /\ \A x \in Outcome : [task |-> t, op |-> "release", step |-> x] \in Calls
  BY DEF Calls, Jobs, Ends
<1>2. ASSUME call.task = t, call.op \in Operation, NEW x \in Steps
      PROVE  /\ [call EXCEPT !.step = x] \in Calls
             /\ [call EXCEPT !.step = x].task = t
             /\ [call EXCEPT !.step = x].op = call.op
             /\ [call EXCEPT !.step = x].step = x
  <2>1. call \in [task : Task, op : Operation, step : Steps]
    BY <1>2, CallOf DEF Calls, Operation, Steps, Ends
  <2> QED
    BY <1>2, <2>1 DEF Calls, Steps
<1>3. ASSUME call.task = t, call.op \in Ends, NEW x \in Ends
      PROVE  /\ [call EXCEPT !.op = x] \in Calls
             /\ [call EXCEPT !.op = x].task = t
             /\ [call EXCEPT !.op = x].step = call.step
             /\ [call EXCEPT !.op = x].op = x
  <2>1. call \in [task : Task, op : Ends, step : Outcome]
    BY <1>3, CallOf DEF Calls, Operation, Ends
  <2> QED
    BY <1>3, <2>1 DEF Calls
<1> QED
  BY <1>1, <1>2, <1>3

(* How a step of a Task's dispatch moves the dispatcher and the Worker.    *)
CallMove(t) ==
  \/ UNCHANGED <<call, work>>
  \/ call' = NoCall /\ work' \in { work, NoWork }
  \/ work' = NoWork /\ call' \in Calls /\ call'.task = t
  \/ /\ call' \in Calls /\ call'.task = t /\ call'.step = "asked"
     /\ work' \in Jobs /\ work' = [task |-> t, op |-> call'.op]

LEMMA CallMoves ==
  ASSUME CallInv, NEW t \in Task, CallMove(t)
  PROVE  /\ CallInv'
         /\ \A s \in Task : s # t => /\ call'.task = s => call' = call
                                     /\ work'.task = s => work' = work
BY QualificationAssumption DEF CallInv, CallMove, Calls, Jobs, NoCall, NoWork

LEMMA AsksMoves ==
  ASSUME CallInv, NEW t \in Task, NEW op \in Operation, Asks(t, op)
  PROVE  /\ CallMove(t) /\ UNCHANGED <<owner, container, ran>>
         /\ call' \in Calls /\ call'.task = t /\ call'.op = op /\ call'.step = "asked"
         /\ work' \in Jobs /\ work'.task = t /\ work'.op = op
<1>1. /\ call' = [task |-> t, op |-> op, step |-> "asked"] /\ work' = [task |-> t, op |-> op]
      /\ call' \in Calls /\ work' \in Jobs
  BY NextCall DEF Asks
<1> QED
  BY <1>1 DEF CallMove, Asks

LEMMA AnswersMoves ==
  ASSUME CallInv, NEW t \in Task, NEW op \in Operation, Works(t, op),
         NEW x \in { "answered", "refused" }, Answers(t, x)
  PROVE  /\ CallMove(t) /\ work' = NoWork
         /\ \/ call' = call /\ call.task # t
            \/ /\ call.task = t /\ call.step = "asked" /\ call.op = op
               /\ call' \in Calls /\ call'.task = t /\ call'.op = op /\ call'.step = x
<1>1. work.task = t /\ work.op = op /\ work # NoWork /\ work' = NoWork
  BY QualificationAssumption DEF Works, Answers, NoWork
<1>2. CASE call.task = t
  <2>1. call # NoCall /\ call.step = "asked" /\ call.op = op
    BY <1>1, <1>2, CallOf DEF CallInv
  <2>2. call' = [call EXCEPT !.step = x]
    BY <1>1, <1>2, <2>1 DEF Answers, IsAt
  <2>3. call' \in Calls /\ call'.task = t /\ call'.op = op /\ call'.step = x
    BY <1>2, <2>1, <2>2, NextCall DEF Steps
  <2> QED
    BY <1>1, <1>2, <2>1, <2>3 DEF CallMove
<1>3. CASE call.task # t
  <2>1. call' = call
    BY <1>3 DEF Answers, IsAt
  <2>2. call = NoCall
    BY <1>1, <1>3 DEF CallInv
  <2> QED
    BY <1>1, <1>3, <2>1, <2>2 DEF CallMove
<1> QED
  BY <1>2, <1>3

(* The rest of what the steps of one Task change.                          *)
OneTask(t) ==
  /\ ExecutionOK'
  /\ \A s \in Task : s # t =>
       status'[s] = status[s] /\ lease'[s] = lease[s] /\ ran'[s] = ran[s]

LEMMA DispatchersTypes ==
  ASSUME ExecutionOK, CallInv, NEW t \in Task, DispatchersStep(t)
  PROVE  OneTask(t) /\ CallMove(t)
<1> USE DEF ExecutionOK, OneTask, TaskState, cancelling, worker, dispatcher
<1>1. CASE Enqueue(t)
  BY <1>1 DEF Enqueue, CallMove
<1>2. CASE Dispatch(t)
  <2>1. Asks(t, "PREPARE") /\ "PREPARE" \in Operation
    BY <1>2 DEF Dispatch, Operation
  <2> QED
    BY <1>2, <2>1, AsksMoves DEF Dispatch
<1>3. CASE Prepared(t)
  <2>1. Asks(t, "PLAN") /\ "PLAN" \in Operation
    BY <1>3 DEF Prepared, Operation
  <2> QED
    BY <1>3, <2>1, AsksMoves DEF Prepared
<1>4. CASE PlanAcknowledged(t)
  <2>0. /\ call # NoCall /\ call.step = "reading"
        /\ status' \in { [status EXCEPT ![t] = x] : x \in TaskState } /\ UNCHANGED <<lease, cancel>>
        /\ flagged' = flagged \ {t}
    BY <1>4, CallOf DEF PlanAcknowledged, Received, IsAt
  <2>1. CASE Asks(t, "EXECUTE")
    <3>1. "EXECUTE" \in Operation
      BY DEF Operation
    <3> QED
      BY <2>0, <2>1, <3>1, AsksMoves, ZenonT(40)
  <2>2. CASE call' = [task |-> t, op |-> "release", step |-> "CANCELLED"] /\ UNCHANGED worker
    <3>1. call' \in Calls /\ call'.task = t
      BY <2>2, NextCall DEF Outcome
    <3>2. work = NoWork
      BY <2>0 DEF CallInv
    <3> QED
      BY <2>0, <2>2, <3>1, <3>2 DEF CallMove
  <2> QED
    BY <1>4, <2>1, <2>2 DEF PlanAcknowledged
<1>5. CASE Executed(t)
  <2>0. /\ call # NoCall /\ call.step = "reading"
        /\ status' \in { [status EXCEPT ![t] = x] : x \in TaskState }
        /\ UNCHANGED <<lease, cancel, worker>> /\ flagged' = flagged \ {t}
    BY <1>5, CallOf DEF Executed, Received, IsAt
  <2>1. work = NoWork
    BY <2>0 DEF CallInv
  <2>2. CASE call' = NoCall
    BY <2>0, <2>2 DEF CallMove
  <2>3. CASE call' # NoCall
    <3>1. PICK x \in Outcome : call' = [task |-> t, op |-> "release", step |-> x]
      BY <1>5, <2>3 DEF Executed, Outcome
    <3>2. call' \in Calls /\ call'.task = t
      BY <3>1, NextCall
    <3> QED
      BY <2>0, <2>1, <3>2 DEF CallMove
  <2> QED
    BY <2>2, <2>3
<1>6. CASE Release(t)
  <2>1. call.task = t /\ call.op = "release" /\ call' = [call EXCEPT !.op = "settle"]
        /\ UNCHANGED work
    BY <1>6 DEF Release
  <2>2. call' \in Calls /\ call'.task = t
    BY <2>1, NextCall DEF Ends
  <2>3. work = NoWork
    BY <2>1, CallOf DEF CallInv, Outcome, Ends
  <2> QED
    BY <1>6, <2>1, <2>2, <2>3 DEF Release, CallMove
<1>7. CASE OutcomeStep(t)
  <2>1. /\ call.task = t /\ call.op \in Ends /\ UNCHANGED <<lease, cancelling, worker>>
        /\ \/ call' = NoCall
           \/ \E x \in Ends : call' = [call EXCEPT !.op = x]
        /\ \/ UNCHANGED status
           \/ \E x \in { call.step, "RECONCILIATION_REQUIRED" } : status' = [status EXCEPT ![t] = x]
    BY <1>7 DEF OutcomeStep, Settle, Record, Note, Settles, OutcomeFails, Uncertain, Ends
  <2>2. call.step \in Outcome /\ work = NoWork
    BY <2>1, CallOf DEF CallInv, Outcome, Ends
  <2>3. call' = NoCall \/ (call' \in Calls /\ call'.task = t)
    <3>1. ASSUME NEW x \in Ends, call' = [call EXCEPT !.op = x]
          PROVE  call' \in Calls /\ call'.task = t
      BY <2>1, <3>1, NextCall
    <3> QED
      BY <2>1, <3>1
  <2>4. CallMove(t)
    BY <2>1, <2>2, <2>3 DEF CallMove
  <2>5. PICK x : (x = call.step \/ x = "RECONCILIATION_REQUIRED")
                 /\ status' \in { status, [status EXCEPT ![t] = x] }
    BY <2>1
  <2>6. x \in TaskState
    BY <2>2, <2>5 DEF Outcome
  <2>7. status' \in [Task -> TaskState] /\ \A s \in Task : s # t => status'[s] = status[s]
    BY <2>5, <2>6
  <2> QED
    BY <2>1, <2>4, <2>7
<1>8. CASE DispatchRefused(t)
  BY <1>8 DEF DispatchRefused, Failed, Uncertain, CallMove
<1>9. CASE DispatchGivesUp(t)
  BY <1>9 DEF DispatchGivesUp, Failed, Uncertain, CallMove
<1> QED
  BY <1>1, <1>2, <1>3, <1>4, <1>5, <1>6, <1>7, <1>8, <1>9 DEF DispatchersStep

LEMMA ReadersTypes ==
  ASSUME ExecutionOK, CallInv, NEW t \in Task, ReadersStep(t)
  PROVE  OneTask(t) /\ CallMove(t)
<1> USE DEF ExecutionOK, OneTask, TaskState, cancelling, worker
<1>1. CASE ReadsAnswer(t)
  <2>1. call.task = t /\ call.step = "answered" /\ call' = [call EXCEPT !.step = "reading"]
        /\ UNCHANGED work
    BY <1>1 DEF ReadsAnswer, IsAt
  <2>2. call.op \in Operation /\ work = NoWork
    BY <2>1, CallOf DEF CallInv, Outcome
  <2>3. call' \in Calls /\ call'.task = t
    BY <2>1, <2>2, NextCall DEF Steps
  <2> QED
    BY <1>1, <2>1, <2>2, <2>3 DEF ReadsAnswer, CallMove
<1>2. CASE DispatchCollides(t)
  BY <1>2 DEF DispatchCollides, Uncertain, CallMove
<1> QED
  BY <1>1, <1>2 DEF ReadersStep

LEMMA WorkersTypes ==
  ASSUME ExecutionOK, CallInv, NEW t \in Task, WorkersStep(t)
  PROVE  OneTask(t) /\ CallMove(t)
<1> USE DEF ExecutionOK, OneTask, cancelling, worker, dispatcher
<1>0. CASE HandlePrepare(t) \/ HandlePlan(t) \/ Refuse(t) \/ Finish(t)
  <2>1. /\ UNCHANGED <<status, lease, cancelling, container, ran>> /\ owner' \in { owner, t }
        /\ \E op \in Operation, x \in { "answered", "refused" } : Works(t, op) /\ Answers(t, x)
    BY <1>0 DEF HandlePrepare, HandlePlan, Refuse, Finish, Executing, Operation
  <2> QED
    BY <2>1, AnswersMoves
<1>1. CASE ControlRaised(t) \/ AuditFails(t)
  <2>1. /\ UNCHANGED <<status, lease, call, cancelling, container, ran>> /\ owner' \in { owner, t }
        /\ work' = NoWork /\ work.task = t
    <3>1. CASE ControlRaised(t)
      BY <3>1 DEF ControlRaised, Works
    <3>2. CASE AuditFails(t)
      BY <3>2 DEF AuditFails
    <3> QED
      BY <1>1, <3>1, <3>2
  <2>2. call = NoCall \/ (call \in Calls /\ call.task = t)
    BY <2>1, WorkOf
  <2> QED
    BY <2>1, <2>2 DEF CallMove
<1>2. CASE Inspect(t)
  BY <1>2 DEF Inspect, CallMove
<1>3. CASE Start(t)
  BY <1>3 DEF Start, CallMove
<1>4. CASE Started(t)
  BY <1>4 DEF Started, CallMove
<1>5. CASE Run(t)
  BY <1>5 DEF Run, CallMove
<1>6. CASE Cleanup(t)
  BY <1>6 DEF Cleanup, CallMove
<1> QED
  BY <1>0, <1>1, <1>2, <1>3, <1>4, <1>5, <1>6 DEF WorkersStep

(* What goes on beside the dispatch and the Worker.                        *)
LEMMA AsideTypes ==
  ASSUME ExecutionOK, CallInv, NEW t \in Task, AsideStep(t)
  PROVE  OneTask(t) /\ UNCHANGED <<status, lease, call, work, ran>>
<1>1. UNCHANGED <<status, lease, call, work, ran, owner>>
  BY DEF AsideStep, Copies, Cancel, HandleCancel, CancelReads, CancelEnds, CancelGivesUp,
     CancelCollides, CancelMisreads, dispatcher, worker
<1>2. /\ cancel' \in [Task -> { "none", "asked", "confirmed", "unconfirmed", "reading yes",
                                "reading no", "over" }]
      /\ flagged' \subseteq Task /\ container' \in { "stopped", "running" }
  <2> USE DEF ExecutionOK, CancelAt, worker, cancelling
  <2>1. CASE Copies(t, "dispatch") \/ Copies(t, "cancel")
    BY <2>1 DEF Copies
  <2>2. CASE Cancel(t)
    BY <2>2 DEF Cancel
  <2>3. CASE HandleCancel(t)
    BY <2>3 DEF HandleCancel
  <2>4. CASE CancelReads(t)
    BY <2>4 DEF CancelReads
  <2>5. CASE CancelEnds(t)
    BY <2>5 DEF CancelEnds
  <2>6. CASE CancelGivesUp(t)
    BY <2>6 DEF CancelGivesUp
  <2>7. CASE CancelCollides(t)
    BY <2>7 DEF CancelCollides
  <2>8. CASE CancelMisreads(t)
    BY <2>8 DEF CancelMisreads
  <2> QED
    BY <2>1, <2>2, <2>3, <2>4, <2>5, <2>6, <2>7, <2>8 DEF AsideStep
<1> QED
  BY <1>1, <1>2 DEF ExecutionOK, OneTask

(* What only grows keeps what is known of the execution.                   *)
LEMMA GrownKeeps ==
  ASSUME NEW t \in Task, ExecutionInv(t), Grown(t), torn' = torn,
         Noted \cap InHand(t) \subseteq InHand(t)',
         UNCHANGED <<status[t], lease[t], ran[t], call, work>>,
         answer'[t]["worker-controller"] = answer[t]["worker-controller"]
  PROVE  ExecutionInv(t)'
<1> USE DEF ExecutionInv, Grown
<1>1. TornInv(t)' /\ BegunInv(t)'
  BY DEF TornInv, BegunInv
<1>2. AnsweredInv(t)'
  BY DEF AnsweredInv
<1>3. RanInv(t)'
  BY DEF RanInv
<1>4. CopiedInv(t)'
  BY DEF CopiedInv
<1>5. SettledInv(t)'
  BY DEF SettledInv
<1> QED
  BY <1>1, <1>2, <1>3, <1>4, <1>5

(* The other Tasks.                                                        *)
LEMMA OthersKeep ==
  ASSUME CallInv, NEW t \in Task, CallMove(t), OneTask(t), OnlyLines(t), UNCHANGED answer,
         NEW s \in Task, s # t, ExecutionInv(s)
  PROVE  ExecutionInv(s)'
<1>1. /\ status'[s] = status[s] /\ lease'[s] = lease[s] /\ ran'[s] = ran[s]
      /\ evidence'[s] = evidence[s] /\ (s \in torn' <=> s \in torn)
      /\ Written(s)' = Written(s) /\ InHand(s)' = InHand(s)
      /\ call'.task = s => call' = call
      /\ work'.task = s => work' = work
  BY CallMoves DEF OneTask, OnlyLines, Written, InHand
<1> USE DEF ExecutionInv
<1>2. TornInv(s)' /\ BegunInv(s)'
  BY <1>1 DEF TornInv, BegunInv
<1>3. AnsweredInv(s)'
  BY <1>1 DEF AnsweredInv
<1>4. RanInv(s)'
  BY <1>1 DEF RanInv
<1>5. CopiedInv(s)'
  BY <1>1 DEF CopiedInv
<1>6. SettledInv(s)'
  BY <1>1 DEF SettledInv
<1> QED
  BY <1>2, <1>3, <1>4, <1>5, <1>6

(* The dispatcher's own steps write no line and copy none.                 *)
LEMMA DispatchersKeep ==
  ASSUME ExecutionOK, CallInv, EvidenceOK, NEW t \in Task, DispatchersStep(t), ExecutionInv(t),
         UNCHANGED answer
  PROVE  ExecutionInv(t)'
<1>1. UNCHANGED evidenceVars
  BY DEF DispatchersStep, Enqueue, Dispatch, Prepared, PlanAcknowledged, Executed, Release,
     OutcomeStep, Settle, Record, Note, Settles, OutcomeFails, DispatchRefused, DispatchGivesUp
<1>2. /\ evidence'[t] = evidence[t] /\ torn' = torn
      /\ Written(t)' = Written(t) /\ InHand(t)' = InHand(t)
  BY <1>1 DEF evidenceVars, Written, InHand
<1>3. t # 0
  BY QualificationAssumption
<1>4. CASE Enqueue(t)
  <2>1. status[t] = "CREATED" /\ status'[t] = "QUEUED" /\ UNCHANGED <<lease, call, work, ran>>
    BY <1>4 DEF Enqueue, worker, ExecutionOK
  <2>2. call.task # t /\ work.task # t
    BY <2>1 DEF ExecutionInv, BegunInv
  <2> QED
    BY <1>2, <2>1, <2>2 DEF ExecutionInv, TornInv, BegunInv, AnsweredInv, RanInv, CopiedInv,
       SettledInv
<1>5. CASE Dispatch(t)
  <2>1. "PREPARE" \in Operation /\ Asks(t, "PREPARE")
    BY <1>5 DEF Operation, Dispatch
  <2>2. /\ call'.task = t /\ call'.op = "PREPARE" /\ call'.step = "asked"
        /\ work'.task = t /\ UNCHANGED ran
    BY <2>1, AsksMoves
  <2>3. status[t] = "QUEUED" /\ status'[t] = "PREPARING"
    BY <1>5 DEF Dispatch, ExecutionOK
  <2> QED
    BY <1>2, <2>2, <2>3 DEF Answered, Ends, ExecutionInv, TornInv, BegunInv, AnsweredInv, RanInv,
       CopiedInv, SettledInv
<1>6. CASE Prepared(t)
  <2>1. "PLAN" \in Operation /\ Asks(t, "PLAN")
    BY <1>6 DEF Operation, Prepared
  <2>2. /\ call'.task = t /\ call'.op = "PLAN" /\ call'.step = "asked"
        /\ work'.task = t /\ UNCHANGED ran
    BY <2>1, AsksMoves
  <2>3. /\ status'[t] = "RESERVED"
        /\ call.task = t /\ call.op = "PREPARE" /\ call.step = "reading"
    BY <1>6 DEF Prepared, Received, IsAt, ExecutionOK
  <2> QED
    BY <1>2, <2>2, <2>3 DEF Answered, Ends, ExecutionInv, TornInv, BegunInv, AnsweredInv, RanInv,
       CopiedInv, SettledInv
<1>7. CASE PlanAcknowledged(t)
  <2>1. call.task = t /\ call.op = "PLAN" /\ call.step = "reading"
    BY <1>7 DEF PlanAcknowledged, Received, IsAt
  <2>2. work = NoWork /\ NoWork.task # t
    BY <2>1, <1>3, CallOf DEF CallInv, NoWork
  <2>3. CASE t \in flagged
    <3>1. /\ status'[t] = "FINALIZING" /\ UNCHANGED <<work, ran>>
          /\ call'.task = t /\ call'.op = "release" /\ call'.step = "CANCELLED"
      <4>1. /\ status' = [status EXCEPT ![t] = "FINALIZING"] /\ UNCHANGED worker
            /\ call' = [task |-> t, op |-> "release", step |-> "CANCELLED"]
        BY <1>7, <2>3 DEF PlanAcknowledged
      <4> QED
        BY <4>1 DEF worker, ExecutionOK
    <3> QED
      BY <1>2, <2>1, <2>2, <3>1 DEF Answered, Ends, ExecutionInv, TornInv, BegunInv, AnsweredInv, RanInv,
       CopiedInv, SettledInv
  <2>4. CASE t \notin flagged
    <3>1. "EXECUTE" \in Operation /\ Asks(t, "EXECUTE")
      BY <1>7, <2>4 DEF Operation, PlanAcknowledged
    <3>2. /\ call'.task = t /\ call'.op = "EXECUTE" /\ call'.step = "asked"
          /\ work'.task = t /\ UNCHANGED ran
      BY <3>1, AsksMoves
    <3>3. status'[t] = "RUNNING"
      BY <1>7, <2>4 DEF PlanAcknowledged, ExecutionOK
    <3> QED
      BY <1>2, <2>1, <3>2, <3>3 DEF Answered, Ends, ExecutionInv, TornInv, BegunInv, AnsweredInv, RanInv,
       CopiedInv, SettledInv
  <2> QED
    BY <2>3, <2>4
<1>8. CASE Executed(t)
  <2>1. call.task = t /\ call.op = "EXECUTE" /\ call.step = "reading" /\ Ingested(t, "dispatch")
    BY <1>8 DEF Executed, Received, IsAt
  <2>2. work = NoWork /\ NoWork.task # t
    BY <2>1, <1>3, CallOf DEF CallInv, NoWork
  <2>3. UNCHANGED <<work, ran>>
    BY <1>8 DEF Executed, worker
  <2>4. ran[t] = "well" => Noted \subseteq evidence[t]
    <3>1. ToSet(<< >>) = {}
      BY DEF ToSet
    <3>2. InHand(t) = evidence[t] \cup { NoEvent }
      BY <2>1, <3>1 DEF InHand, Ingested, Idle
    <3> QED
      BY <2>1, <3>2 DEF Noted, Required, NoEvent, ExecutionInv, CopiedInv
  <2>5. CASE call' = NoCall
    <3>1. status'[t] = "CLEANUP_FAILED" /\ call'.task # t
      BY <1>8, <1>3, <2>5 DEF Executed, NoCall, ExecutionOK
    <3> QED
      BY <1>2, <2>1, <2>2, <2>3, <3>1 DEF ExecutionInv, TornInv, BegunInv, AnsweredInv, RanInv, CopiedInv,
       SettledInv
  <2>6. CASE call' # NoCall
    <3>1. /\ status'[t] = "FINALIZING" /\ call'.task = t /\ call'.op = "release"
          /\ call'.step \in { "CANCELLED", "COMPLETED", "FAILED" }
          /\ call'.step = "COMPLETED" => ran[t] = "well"
      <4>1. /\ status' = [status EXCEPT ![t] = "FINALIZING"]
            /\ call' = [task |-> t, op |-> "release",
                        step |-> IF t \in flagged THEN "CANCELLED"
                                 ELSE IF ran[t] = "well" THEN "COMPLETED" ELSE "FAILED"]
        BY <1>8, <2>6 DEF Executed
      <4> QED
        BY <4>1 DEF ExecutionOK
    <3> QED
      BY <1>2, <2>1, <2>2, <2>3, <2>4, <3>1 DEF Answered, Ends, ExecutionInv, TornInv, BegunInv, AnsweredInv, RanInv,
       CopiedInv, SettledInv
  <2> QED
    BY <2>5, <2>6
<1>9. CASE Release(t)
  <2>1. /\ call.task = t /\ call.op = "release" /\ call' = [call EXCEPT !.op = "settle"]
        /\ lease'[t] = "RELEASED" /\ UNCHANGED <<status, work, ran>>
    BY <1>9 DEF Release, worker, ExecutionOK
  <2>2. call'.task = t /\ call'.op = "settle" /\ call'.step = call.step
    BY <2>1, NextCall DEF Ends
  <2>3. call'.step \notin Answered
    BY <2>1, <2>2, CallOf DEF Outcome, Answered, Ends
  <2> QED
    BY <1>2, <2>1, <2>2, <2>3 DEF Ends, ExecutionInv, TornInv, BegunInv, AnsweredInv, RanInv, CopiedInv,
       SettledInv
<1>10. CASE OutcomeStep(t)
  <2>1. /\ call.task = t /\ call.op \in Ends \ { "release" } /\ UNCHANGED <<lease, work, ran>>
        /\ \/ call.op = "settle" /\ call' = [call EXCEPT !.op = "record"] /\ UNCHANGED status
           \/ /\ call.op = "record" /\ call' = [call EXCEPT !.op = "note"]
              /\ status' = [status EXCEPT ![t] = call.step]
           \/ call.op = "note" /\ call' = NoCall /\ UNCHANGED status
           \/ call' = NoCall /\ status' = [status EXCEPT ![t] = "RECONCILIATION_REQUIRED"]
    BY <1>10 DEF OutcomeStep, Settle, Record, Note, Settles, OutcomeFails, Uncertain, Ends, worker
  <2>2. call.step \in Outcome /\ work = NoWork /\ NoWork.task # t /\ NoCall.task # t
    BY <2>1, <1>3, CallOf DEF CallInv, NoWork, NoCall, Outcome, Ends
  <2>3. /\ lease[t] = "RELEASED" /\ t \notin torn
        /\ call.step = "COMPLETED" => ran[t] = "well" /\ Noted \subseteq evidence[t]
    BY <2>1, <2>2 DEF ExecutionInv, TornInv, CopiedInv, Ends, Outcome
  <2>4. RanInv(t)'
    BY <1>2, <2>1 DEF ExecutionInv, RanInv
  <2>5. CASE call' = NoCall
    <3>1. status'[t] \in { status[t], "RECONCILIATION_REQUIRED" }
      <4>1. UNCHANGED status \/ status' = [status EXCEPT ![t] = "RECONCILIATION_REQUIRED"]
        <5>1. \A x \in Ends : [call EXCEPT !.op = x].task = t
          BY <2>1, NextCall DEF Ends
        <5> QED
          BY <2>1, <2>2, <2>5, <5>1 DEF Ends
      <4> QED
        BY <2>1, <4>1 DEF ExecutionOK
    <3> QED
      BY <1>2, <2>1, <2>2, <2>3, <2>4, <2>5, <3>1 DEF ExecutionInv, TornInv, BegunInv, AnsweredInv,
         CopiedInv, SettledInv
  <2>6. CASE call.op = "settle" /\ call' = [call EXCEPT !.op = "record"] /\ UNCHANGED status
    <3>1. call'.task = t /\ call'.op = "record" /\ call'.step = call.step
      BY <2>1, <2>6, NextCall DEF Ends
    <3> QED
      BY <1>2, <2>1, <2>2, <2>3, <2>4, <2>6, <3>1 DEF ExecutionInv, TornInv, BegunInv,
         AnsweredInv, CopiedInv, SettledInv, Ends
  <2>7. CASE call' = [call EXCEPT !.op = "note"] /\ status' = [status EXCEPT ![t] = call.step]
    <3>1. call'.task = t /\ call'.op = "note" /\ call'.step = call.step
      BY <2>1, <2>7, NextCall DEF Ends
    <3>2. status'[t] = call.step
      BY <2>7 DEF ExecutionOK
    <3> QED
      BY <1>2, <2>1, <2>2, <2>3, <2>4, <3>1, <3>2 DEF ExecutionInv, TornInv, BegunInv,
         AnsweredInv, CopiedInv, SettledInv, Ends, Outcome
  <2> QED
    BY <2>1, <2>5, <2>6, <2>7
<1>11. CASE DispatchRefused(t) \/ DispatchGivesUp(t)
  <2>1. /\ call.task = t /\ call' = NoCall /\ call'.task # t /\ NoWork.task # t
        /\ work' \in { work, NoWork } /\ UNCHANGED ran
        /\ status'[t] \in { "FAILED", "RECONCILIATION_REQUIRED" }
    <3>1. call.task = t /\ (Failed(t) \/ Uncertain(t))
      BY <1>11 DEF DispatchRefused, DispatchGivesUp, IsAt
    <3>2. work' \in { work, NoWork } /\ UNCHANGED ran
      BY <1>11 DEF DispatchRefused, DispatchGivesUp, worker
    <3>3. call' = NoCall /\ status'[t] \in { "FAILED", "RECONCILIATION_REQUIRED" }
      BY <3>1 DEF Failed, Uncertain, ExecutionOK
    <3> QED
      BY <1>3, <3>1, <3>2, <3>3 DEF NoCall, NoWork
  <2> QED
    BY <1>2, <2>1 DEF ExecutionInv, TornInv, BegunInv, AnsweredInv, RanInv, CopiedInv,
       SettledInv
<1> QED
  BY <1>4, <1>5, <1>6, <1>7, <1>8, <1>9, <1>10, <1>11 DEF DispatchersStep

(* The dispatcher reads an answer, and finds the lines that were written   *)
(* before it was given.                                                    *)
LEMMA ReadersKeep ==
  ASSUME ExecutionOK, CallInv, EvidenceOK, NEW t \in Task, ReadersStep(t), ExecutionInv(t),
         UNCHANGED answer
  PROVE  ExecutionInv(t)'
<1>1. CASE ReadsAnswer(t)
  <2>1. /\ call.task = t /\ call.step = "answered" /\ call' = [call EXCEPT !.step = "reading"]
        /\ UNCHANGED <<status, lease, work, ran, lines, torn, evidence>>
        /\ ingest' = [ingest EXCEPT ![t]["dispatch"] = [left |-> lines[t], next |-> NoEvent]]
    BY <1>1 DEF ReadsAnswer, IsAt, ReadsInbox, worker
  <2>2. call.op \in Operation
    BY <2>1, CallOf DEF Outcome, Ends
  <2>3. call'.task = t /\ call'.op = call.op /\ call'.step = "reading"
    BY <2>1, <2>2, NextCall DEF Steps
  <2>4. Written(t)' = Written(t)
    BY <2>1 DEF Written
  <2>5. Written(t) \subseteq InHand(t)'
    BY <2>1 DEF Written, InHand, EvidenceOK, Thread
  <2> QED
    BY <2>1, <2>2, <2>3, <2>4, <2>5 DEF Answered, Operation, ExecutionInv, TornInv, BegunInv,
       AnsweredInv, RanInv, CopiedInv, SettledInv
<1>2. CASE DispatchCollides(t)
  <2>1. /\ call.task = t /\ call' = NoCall /\ UNCHANGED <<lease, work, ran, lines, torn, evidence>>
        /\ status' = [status EXCEPT ![t] = "RECONCILIATION_REQUIRED"]
    BY <1>2 DEF DispatchCollides, IsAt, Collides, Uncertain, worker
  <2>2. call'.task # t /\ status'[t] = "RECONCILIATION_REQUIRED"
    BY <2>1, QualificationAssumption DEF NoCall, ExecutionOK
  <2>3. Written(t)' = Written(t)
    BY <2>1 DEF Written
  <2> QED
    BY <2>1, <2>2, <2>3 DEF ExecutionInv, TornInv, BegunInv, AnsweredInv, RanInv, CopiedInv,
       SettledInv
<1> QED
  BY <1>1, <1>2 DEF ReadersStep

(* While the Worker works for a Task, its dispatch waits or has given up.  *)
AnswerFits(t) ==
  \/ call' = call /\ work' \in { work, NoWork }
  \/ /\ work' = NoWork /\ call'.task = t /\ call'.op = work.op
     /\ call.task = t /\ call.op = work.op /\ call.step = "asked"
     /\ call'.step \in { "answered", "refused" }
     /\ call'.step = "answered" =>
          /\ call'.op = "PREPARE" => "PREPARED" \in Written(t)'
          /\ call'.op = "PLAN" => "PLAN_ACK" \in Written(t)'
          /\ call'.op = "EXECUTE" /\ ran'[t] = "well" => Noted \subseteq Written(t)'

LEMMA WorkKeeps ==
  ASSUME CallInv, NEW t \in Task, work.task = t, ExecutionInv(t), Grown(t), torn' = torn,
         UNCHANGED <<status, lease>>, AnswerFits(t), RanInv(t)'
  PROVE  ExecutionInv(t)'
<1>1. /\ work.op \in Operation /\ NoWork.task # t
      /\ call = NoCall \/ (call.task = t /\ call.step = "asked" /\ call.op = work.op)
  BY WorkOf, QualificationAssumption DEF Jobs, NoWork
<1>2. NoCall.task # t
  BY QualificationAssumption DEF NoCall
<1> USE DEF ExecutionInv, AnswerFits, Grown, Operation
<1>3. TornInv(t)' /\ BegunInv(t)'
  BY <1>1, <1>2 DEF TornInv, BegunInv
<1>4. AnsweredInv(t)'
  BY <1>1, <1>2 DEF AnsweredInv, Answered
<1>5. CopiedInv(t)' /\ SettledInv(t)'
  BY <1>1, <1>2 DEF CopiedInv, SettledInv, BegunInv
<1> QED
  BY <1>3, <1>4, <1>5

LEMMA AuditGrows ==
  ASSUME EvidenceOK, NEW t \in Task, NEW e \in Event, Audit(t, e), t \notin torn
  PROVE  Grown(t) /\ Written(t)' = Written(t) \cup {e} /\ torn' = torn
<1>1. ToSet(Append(lines[t], e)) = ToSet(lines[t]) \cup {e}
  BY AppendSet DEF EvidenceOK
<1>2. lines'[t] = Append(lines[t], e) /\ UNCHANGED <<torn, evidence>>
  BY DEF Audit, EvidenceOK
<1> QED
  BY <1>1, <1>2 DEF Grown, Written

LEMMA WorkersKeep ==
  ASSUME ExecutionOK, CallInv, EvidenceOK, NEW t \in Task, WorkersStep(t), ExecutionInv(t),
         UNCHANGED answer
  PROVE  ExecutionInv(t)'
<1>1. work.task = t /\ UNCHANGED <<status, lease>>
  BY DEF WorkersStep, HandlePrepare, HandlePlan, Refuse, ControlRaised, AuditFails, Inspect,
     Start, Started, Run, Cleanup, Finish, Executing, Works, dispatcher
<1>2. /\ call = NoCall \/ (call.task = t /\ call.step = "asked" /\ call.op = work.op)
      /\ NoCall.task # t /\ NoWork.task # t /\ t \notin torn
  BY <1>1, WorkOf, QualificationAssumption DEF ExecutionInv, TornInv, NoCall, NoWork
<1>3. Executing(t) => answer[t]["worker-controller"] = "returned"
  BY DEF Executing
<1>4. RanInv(t)
  BY DEF ExecutionInv
<1>5. ASSUME NEW op \in Operation, Works(t, op), Answers(t, "answered")
      PROVE  /\ work.op = op /\ work' = NoWork
             /\ \/ call' = call /\ call.task # t
                \/ /\ call.task = t /\ call.step = "asked" /\ call.op = op
                   /\ call'.task = t /\ call'.op = op /\ call'.step = "answered"
  BY <1>5, AnswersMoves DEF Works
<1>6. CASE HandlePrepare(t)
  <2>1. /\ Works(t, "PREPARE") /\ Answers(t, "answered") /\ Audit(t, "PREPARED") /\ UNCHANGED ran
        /\ "PREPARE" \in Operation /\ "PREPARED" \in Event
    BY <1>6 DEF HandlePrepare, Operation, Event
  <2>2. Grown(t) /\ Written(t)' = Written(t) \cup { "PREPARED" } /\ torn' = torn
    BY <1>2, <2>1, AuditGrows
  <2>3. AnswerFits(t)
    BY <1>5, <2>1, <2>2 DEF AnswerFits
  <2>4. RanInv(t)'
    BY <1>4, <2>1, <2>2 DEF RanInv
  <2> QED
    BY <1>1, <2>2, <2>3, <2>4, WorkKeeps
<1>7. CASE HandlePlan(t)
  <2>1. /\ Works(t, "PLAN") /\ Answers(t, "answered") /\ Audit(t, "PLAN_ACK") /\ UNCHANGED ran
        /\ "PLAN" \in Operation /\ "PLAN_ACK" \in Event
    BY <1>7 DEF HandlePlan, Operation, Event
  <2>2. Grown(t) /\ Written(t)' = Written(t) \cup { "PLAN_ACK" } /\ torn' = torn
    BY <1>2, <2>1, AuditGrows
  <2>3. AnswerFits(t)
    BY <1>5, <2>1, <2>2 DEF AnswerFits
  <2>4. RanInv(t)'
    BY <1>4, <2>1, <2>2 DEF RanInv
  <2> QED
    BY <1>1, <2>2, <2>3, <2>4, WorkKeeps
<1>8. CASE Refuse(t)
  <2>1. PICK op \in { "PREPARE", "PLAN" } : Works(t, op)
    BY <1>8 DEF Refuse
  <2>2. Answers(t, "refused") /\ UNCHANGED <<ran, lines, torn, evidence>> /\ op \in Operation
    BY <1>8 DEF Refuse, Operation, evidenceVars
  <2>3. /\ work.op = op /\ work' = NoWork
        /\ \/ call' = call /\ call.task # t
           \/ /\ call.task = t /\ call.step = "asked" /\ call.op = op
              /\ call'.task = t /\ call'.op = op /\ call'.step = "refused"
    BY <2>1, <2>2, AnswersMoves DEF Works
  <2>4. Grown(t) /\ Written(t)' = Written(t)
    BY <2>2 DEF Grown, Written
  <2>5. AnswerFits(t)
    BY <2>3 DEF AnswerFits
  <2>6. RanInv(t)'
    BY <1>4, <2>2, <2>4 DEF RanInv
  <2> QED
    BY <1>1, <2>2, <2>4, <2>5, <2>6, WorkKeeps
<1>9. CASE ControlRaised(t)
  <2>1. /\ work' = NoWork /\ UNCHANGED <<call, ran, lines, torn, evidence>>
    BY <1>9 DEF ControlRaised, dispatcher, evidenceVars
  <2>2. Grown(t) /\ Written(t)' = Written(t)
    BY <2>1 DEF Grown, Written
  <2>3. AnswerFits(t) /\ RanInv(t)'
    BY <1>4, <2>1, <2>2 DEF AnswerFits, RanInv
  <2> QED
    BY <1>1, <2>1, <2>2, <2>3, WorkKeeps
<1>10. CASE AuditFails(t)
  <2>1. /\ work' = NoWork /\ UNCHANGED <<call, ran, lines, evidence, ingest>>
        /\ torn' \in { torn, torn \cup {t} }
    BY <1>10 DEF AuditFails, dispatcher, evidenceVars, AuditTears
  <2>2. Written(t)' = Written(t) /\ InHand(t)' = InHand(t)
    BY <2>1 DEF Written, InHand
  <2> QED
    BY <1>1, <1>2, <2>1, <2>2 DEF ExecutionInv, TornInv, BegunInv, AnsweredInv, RanInv, CopiedInv,
       SettledInv
<1>11. CASE Inspect(t) \/ Start(t) \/ Started(t) \/ Run(t) \/ Cleanup(t)
  <2>1. Executing(t) /\ UNCHANGED <<call, work>>
    BY <1>11 DEF Inspect, Start, Started, Run, Cleanup, dispatcher, worker
  <2>2. Grown(t) /\ torn' = torn
    <3>1. \/ UNCHANGED evidenceVars
          \/ \E e \in Event : Audit(t, e)
      BY <1>11 DEF Inspect, Start, Started, Run, Cleanup, Event, Required
    <3>2. CASE UNCHANGED evidenceVars
      BY <3>2 DEF Grown, Written, evidenceVars
    <3> QED
      BY <1>2, <3>1, <3>2, AuditGrows
  <2>3. RanInv(t)'
    <3>1. Inspect(t) => ran'[t] \in { ran[t], "refused" } /\ ran[t] = "no"
      BY DEF Inspect, ExecutionOK
    <3>2. Start(t) => /\ ran'[t] \in { "started", "badly" } /\ "DOCKER_INSPECT_PRE" \in Written(t)
      BY DEF Start, ExecutionOK
    <3>3. Started(t) => ran'[t] = ran[t]
      BY DEF Started, worker
    <3>4. Run(t) => /\ ran'[t] \in { "well", "badly" } /\ ran[t] = "started"
                    /\ "DOCKER_START_CONFIRMED" \in Written(t)
      BY DEF Run, ExecutionOK
    <3>5. Cleanup(t) => ran'[t] \in { ran[t], "unclean" }
      BY DEF Cleanup, ExecutionOK
    <3> QED
      BY <1>3, <1>4, <1>11, <2>1, <2>2, <3>1, <3>2, <3>3, <3>4, <3>5 DEF RanInv, Grown
  <2> QED
    BY <1>1, <2>1, <2>2, <2>3, WorkKeeps DEF AnswerFits
<1>12. CASE Finish(t)
  <2>1. /\ Works(t, "EXECUTE") /\ Answers(t, "answered") /\ Audit(t, "EXECUTION_FINISHED")
        /\ UNCHANGED ran /\ "EXECUTE" \in Operation /\ "EXECUTION_FINISHED" \in Event
        /\ ran[t] = "well" => "DOCKER_CLEANUP_INSPECTED" \in Written(t)
    BY <1>12 DEF Finish, Executing, Operation, Event, Required
  <2>2. Grown(t) /\ Written(t)' = Written(t) \cup { "EXECUTION_FINISHED" } /\ torn' = torn
    BY <1>2, <2>1, AuditGrows
  <2>3. call.task = t /\ call.op = "EXECUTE" => { "PREPARED", "PLAN_ACK" } \subseteq Written(t)
    BY DEF ExecutionInv, AnsweredInv
  <2>4. ran[t] = "well" => { "DOCKER_INSPECT_PRE", "DOCKER_START_CONFIRMED" } \subseteq Written(t)
    BY <1>4 DEF RanInv
  <2>5. AnswerFits(t)
    BY <1>5, <2>1, <2>2, <2>3, <2>4 DEF AnswerFits, Noted, Required
  <2>6. RanInv(t)'
    BY <1>4, <2>1, <2>2 DEF RanInv
  <2> QED
    BY <1>1, <2>2, <2>5, <2>6, WorkKeeps
<1> QED
  BY <1>6, <1>7, <1>8, <1>9, <1>10, <1>11, <1>12 DEF WorkersStep

(* A line that the dispatch has in hand is copied, or was copied before.   *)
LEMMA CopiesInHand ==
  ASSUME EvidenceOK, NEW t \in Task, Looks(t, "dispatch") \/ WritesEvidence(t, "dispatch")
  PROVE  Noted \cap InHand(t) \subseteq InHand(t)'
<1>0. "dispatch" \in Thread /\ NoEvent \notin Noted /\ ToSet(<< >>) = {}
  BY DEF Thread, NoEvent, Noted, Required, ToSet
<1>1. PICK left \in Seq(Event) : left = ingest[t]["dispatch"].left
  BY <1>0 DEF EvidenceOK
<1>2. CASE WritesEvidence(t, "dispatch")
  <2>1. /\ ingest'[t]["dispatch"].left = left
        /\ evidence'[t] = evidence[t] \cup { ingest[t]["dispatch"].next }
    <3>1. evidence' = [evidence EXCEPT ![t] = @ \cup { ingest[t]["dispatch"].next }]
      BY <1>2 DEF WritesEvidence
    <3>2. PICK e \in Entry : e = ingest[t]["dispatch"]
      BY <1>0 DEF EvidenceOK, Entry
    <3>3. ingest' = [ingest EXCEPT ![t] = [ingest[t] EXCEPT !["dispatch"] =
                       [e EXCEPT !.next = NoEvent]]]
      BY <1>2, <3>2 DEF WritesEvidence
    <3>4. ingest'[t]["dispatch"] = [e EXCEPT !.next = NoEvent]
      BY <1>0, <3>3 DEF EvidenceOK
    <3>5. [e EXCEPT !.next = NoEvent].left = e.left
      BY DEF Entry
    <3>6. evidence'[t] = evidence[t] \cup { ingest[t]["dispatch"].next }
      BY <3>1 DEF EvidenceOK
    <3> QED
      BY <1>1, <3>2, <3>4, <3>5, <3>6
  <2> QED
    BY <1>1, <2>1 DEF InHand
<1>3. CASE Looks(t, "dispatch")
  <2>1. /\ evidence' = evidence /\ ingest[t]["dispatch"].next = NoEvent
        /\ InHand(t) = evidence[t] \cup ToSet(left) \cup { NoEvent }
    BY <1>1, <1>3 DEF Looks, InHand
  <2>2. CASE \A i \in 1 .. Len(left) : left[i] \in evidence[t]
    <3>1. ToSet(left) \subseteq evidence[t]
      BY <2>2 DEF ToSet
    <3> QED
      BY <1>0, <2>1, <3>1 DEF InHand
  <2>3. ASSUME NEW i \in 1 .. Len(left), \A j \in 1 .. i - 1 : left[j] \in evidence[t],
               ingest' = [ingest EXCEPT ![t]["dispatch"] =
                    [left |-> SubSeq(left, i + 1, Len(left)), next |-> left[i]]]
        PROVE  Noted \cap InHand(t) \subseteq InHand(t)'
    <3>1. PICK rest : rest = SubSeq(left, i + 1, Len(left))
      OBVIOUS
    <3>2. \A e \in ToSet(left) : \/ e \in ToSet(rest) \cup { left[i] }
                                 \/ \E j \in 1 .. i - 1 : e = left[j]
      BY <3>1, LookSet
    <3>3. ingest'[t]["dispatch"] = [left |-> rest, next |-> left[i]]
      BY <1>0, <2>3, <3>1 DEF EvidenceOK
    <3>4. InHand(t)' = evidence[t] \cup ToSet(rest) \cup { left[i] }
      BY <2>1, <3>3 DEF InHand
    <3> QED
      BY <1>0, <2>1, <2>3, <3>2, <3>4
  <2> QED
    BY <1>1, <1>3, <2>2, <2>3 DEF Looks
<1> QED
  BY <1>2, <1>3

LEMMA AsideKeeps ==
  ASSUME ExecutionOK, CallInv, EvidenceOK, NEW t \in Task, AsideStep(t), ExecutionInv(t),
         Grown(t), UNCHANGED answer
  PROVE  ExecutionInv(t)'
<1>0. "dispatch" \in Thread /\ "cancel" \in Thread /\ "dispatch" # "cancel"
  BY DEF Thread
<1>1. UNCHANGED <<status, lease, call, work, ran>>
  BY AsideTypes
<1>2. torn' = torn
  BY DEF AsideStep, Copies, Looks, WritesEvidence, Cancel, HandleCancel, Audit, CancelReads,
     ReadsInbox, CancelEnds, CancelGivesUp, CancelCollides, Collides, CancelMisreads, evidenceVars
<1>3. Noted \cap InHand(t) \subseteq InHand(t)'
  <2>1. CASE Copies(t, "dispatch")
    BY <2>1, CopiesInHand DEF Copies
  <2>2. CASE ingest'[t]["dispatch"] = ingest[t]["dispatch"]
    BY <2>2 DEF InHand, Grown
  <2>3. CASE Copies(t, "cancel")
    <3>1. ingest'[t]["dispatch"] = ingest[t]["dispatch"]
      BY <1>0, <2>3 DEF Copies, Looks, WritesEvidence, EvidenceOK
    <3> QED
      BY <2>2, <3>1
  <2>4. CASE CancelReads(t) \/ CancelCollides(t)
    <3>1. ingest'[t]["dispatch"] = ingest[t]["dispatch"]
      BY <1>0, <2>4, ZenonT(40) DEF CancelReads, CancelCollides, ReadsInbox, Collides, EvidenceOK
    <3> QED
      BY <2>2, <3>1
  <2>5. CASE ~(Copies(t, "dispatch") \/ Copies(t, "cancel") \/ CancelReads(t) \/ CancelCollides(t))
    <3>1. ingest' = ingest
      BY <2>5 DEF AsideStep, Cancel, HandleCancel, Audit, CancelEnds, CancelGivesUp,
         CancelMisreads, evidenceVars
    <3> QED
      BY <2>2, <3>1
  <2> QED
    BY <2>1, <2>3, <2>4, <2>5
<1> QED
  BY <1>1, <1>2, <1>3, GrownKeeps

(* Once the event of COMPLETED is in the stream no step is about the Task. *)
LEMMA StreamStays ==
  ASSUME ExecutionOK, CallInv, NEW t \in Task, ExecutionStep(t), ExecutionInv(t), Streamed(t)
  PROVE  Streamed(t)'
<1>1. status[t] = "COMPLETED" /\ call.task # t /\ work.task # t
  BY DEF Streamed, ExecutionInv, BegunInv
<1>2. CASE DispatchersStep(t)
  BY <1>1, <1>2 DEF DispatchersStep, Enqueue, Dispatch, Prepared, PlanAcknowledged, Executed,
     Release, OutcomeStep, Settle, Record, Note, Settles, OutcomeFails, DispatchRefused,
     DispatchGivesUp, Received, IsAt
<1>3. CASE ReadersStep(t)
  BY <1>1, <1>3 DEF ReadersStep, ReadsAnswer, DispatchCollides, IsAt
<1>4. CASE WorkersStep(t)
  BY <1>1, <1>4 DEF WorkersStep, HandlePrepare, HandlePlan, Refuse, ControlRaised, AuditFails,
     Inspect, Start, Started, Run, Cleanup, Finish, Executing, Works
<1>5. CASE AsideStep(t)
  BY <1>1, <1>5, AsideTypes DEF Streamed
<1> QED
  BY <1>2, <1>3, <1>4, <1>5 DEF ExecutionStep

(* All that the dispatcher, the Worker and a cancel do for one Task.       *)
LEMMA ExecutionNext ==
  ASSUME ExecutionOK, CallInv, EvidenceOK, \A s \in Task : IngestInv(s) /\ ExecutionInv(s),
         NEW t \in Task, ExecutionStep(t)
  PROVE  /\ ExecutionOK' /\ CallInv' /\ EvidenceOK'
         /\ \A s \in Task : /\ IngestInv(s)' /\ ExecutionInv(s)'
                            /\ Streamed(s) => Streamed(s)'
<1>1. EvidenceMove(t) /\ UNCHANGED answer
  BY Moves, ExecutionLeaves DEF harnessVars
<1>2. EvidenceOK' /\ \A s \in Task : IngestInv(s)' /\ Grown(s)
  BY <1>1, EvidenceNext
<1>3. OnlyLines(t)
  BY <1>1, MovesOne
<1>4. OneTask(t) /\ CallMove(t)
  BY DispatchersTypes, ReadersTypes, WorkersTypes, AsideTypes DEF ExecutionStep, CallMove
<1>5. ExecutionInv(t)'
  <2>1. CASE AsideStep(t)
    BY <1>1, <1>2, <2>1, AsideKeeps, AsideTypes
  <2> QED
    BY <1>1, <2>1, DispatchersKeep, ReadersKeep, WorkersKeep DEF ExecutionStep
<1>6. \A s \in Task : s # t => ExecutionInv(s)'
  BY <1>1, <1>3, <1>4, OthersKeep
<1>7. ExecutionOK' /\ CallInv'
  BY <1>4, CallMoves DEF OneTask
<1>8. \A s \in Task : s # t /\ Streamed(s) => Streamed(s)'
  BY <1>4, CallMoves DEF OneTask, Streamed
<1> QED
  BY <1>2, <1>5, <1>6, <1>7, <1>8, StreamStays

-----------------------------------------------------------------------------
(* The runner.                                                             *)

RunnerOK ==
  /\ phase \in Phase /\ agent \in { "none", "running", "zero", "nonzero", "killed" }
  /\ compiled \subseteq Task /\ verified \subseteq compiled /\ late \in BOOLEAN
  /\ early \in BOOLEAN
  /\ seen \in [Task -> TaskState \cup { "unread" }]

LEMMA RunnerNext ==
  ASSUME RunnerOK, RunnerInv, status \in [Task -> TaskState], RunnersStep
  PROVE  RunnerOK' /\ RunnerInv'
<1>1. UNCHANGED <<card, proposal, status, call>>
  BY RunnersLeave DEF proposals, dispatcher
<1> USE DEF RunnerOK, RunnerInv, Phase, Goto, OneOfEach, CardsOf, Streamed
<1>2. CASE Gates
  BY <1>1, <1>2 DEF Gates
<1>3. CASE AgentExits
  BY <1>1, <1>3 DEF AgentExits
<1>4. CASE AgentTimesOut
  BY <1>1, <1>4 DEF AgentTimesOut
<1>5. CASE ReadsProposals
  BY <1>1, <1>5 DEF ReadsProposals
<1>6. CASE Judges
  BY <1>1, <1>6 DEF Judges
<1>7. CASE Concludes
  BY <1>1, <1>7 DEF Concludes
<1>8. ASSUME NEW t \in Task, ReadsStatus(t)
      PROVE  RunnerOK' /\ RunnerInv'
  BY <1>1, <1>8 DEF ReadsStatus
<1>9. ASSUME NEW t \in Task, VerifiesItem(t)
      PROVE  RunnerOK' /\ RunnerInv'
  BY <1>1, <1>9 DEF VerifiesItem, ItemHolds
<1>10. CASE OtherCheckFails
  BY <1>1, <1>10 DEF OtherCheckFails
<1> QED
  BY <1>2, <1>3, <1>4, <1>5, <1>6, <1>7, <1>8, <1>9, <1>10 DEF RunnersStep, RunnerStep

(* What it has read does not change behind its back.                       *)
LEMMA ReadStays ==
  ASSUME RunnerOK, RunnerInv, UNCHANGED runner,
         \A s \in Task : proposal[s] = "COMPILED" => proposal'[s] = "COMPILED" /\ card'[s] = card[s],
         \A s \in Task : Streamed(s) => Streamed(s)'
  PROVE  RunnerOK' /\ RunnerInv'
<1>1. UNCHANGED <<phase, agent, compiled, seen, verified, late, early>>
  BY DEF runner
<1>2. RunnerOK'
  BY <1>1 DEF RunnerOK
<1>3. \A s \in compiled : proposal'[s] = "COMPILED" /\ card'[s] = card[s]
  BY DEF RunnerOK, RunnerInv
<1>4. CardsOf(compiled)' = CardsOf(compiled)
  BY <1>1, <1>3 DEF CardsOf
<1>5. OneOfEach(compiled) => OneOfEach(compiled)'
  BY <1>1, <1>4 DEF OneOfEach
<1>6. RunnerInv'
  BY <1>1, <1>3, <1>5 DEF RunnerInv, RunnerOK
<1> QED
  BY <1>2, <1>6

-----------------------------------------------------------------------------

(* Faults are only added.                                                 *)
LEMMA FaultsNext ==
  ASSUME faults \in 0 .. MaxFault, [Next]_vars
  PROVE  faults' \in 0 .. MaxFault /\ faults <= faults'
<1> USE QualificationAssumption DEF Fault, FaultUnless
<1>1. CASE UNCHANGED vars
  BY <1>1 DEF vars
<1>2. CASE RunnersStep
  BY <1>2 DEF RunnersStep, RunnerStep, AgentExits, AgentTimesOut, Gates, ReadsProposals,
     Judges, OtherCheckFails, Concludes, ReadsStatus, VerifiesItem
<1>3. ASSUME NEW t \in Task, MakersStep(t)
      PROVE  faults' \in 0 .. MaxFault /\ faults <= faults'
  BY <1>3 DEF MakersStep, Confirm, Reply, Submit, Processed, Reviewed, Compile, Control,
     HarnessAttempt
<1>4. ASSUME NEW t \in Task, DispatchersStep(t) \/ ReadersStep(t)
      PROVE  faults' \in 0 .. MaxFault /\ faults <= faults'
  BY <1>4 DEF DispatchersStep, Enqueue, Dispatch, Prepared, PlanAcknowledged, Executed, Release,
     OutcomeStep, Settle, Record, Note, Settles, OutcomeFails, DispatchRefused, DispatchGivesUp, ReadersStep, ReadsAnswer, DispatchCollides
<1>5. ASSUME NEW t \in Task, WorkersStep(t)
      PROVE  faults' \in 0 .. MaxFault /\ faults <= faults'
  <2>1. CASE HandlePrepare(t) \/ HandlePlan(t) \/ Refuse(t) \/ ControlRaised(t) \/ AuditFails(t)
    BY <2>1 DEF HandlePrepare, HandlePlan, Refuse, ControlRaised, AuditFails
  <2>2. CASE Inspect(t) \/ Start(t) \/ Started(t)
    BY <2>2 DEF Inspect, Start, Started
  <2>3. CASE Run(t) \/ Cleanup(t) \/ Finish(t)
    BY <2>3 DEF Run, Cleanup, Finish
  <2> QED
    BY <1>5, <2>1, <2>2, <2>3 DEF WorkersStep
<1>6. ASSUME NEW t \in Task, AsideStep(t)
      PROVE  faults' \in 0 .. MaxFault /\ faults <= faults'
  <2>1. CASE HandleCancel(t)
    BY <2>1 DEF HandleCancel
  <2>2. CASE Copies(t, "dispatch") \/ Copies(t, "cancel") \/ Cancel(t) \/ CancelGivesUp(t)
    BY <2>2 DEF Copies, Cancel, CancelGivesUp
  <2>3. CASE CancelReads(t) \/ CancelEnds(t) \/ CancelCollides(t) \/ CancelMisreads(t)
    <3>1. faults' = faults
      BY <2>3 DEF CancelReads, CancelEnds, CancelCollides, CancelMisreads
    <3> QED
      BY <3>1
  <2> QED
    BY <1>6, <2>1, <2>2, <2>3 DEF AsideStep
<1> QED
  BY <1>1, <1>2, <1>3, <1>4, <1>5, <1>6, StepsOf DEF ExecutionStep

(* The type invariant by its parts.                                        *)
LEMMA TypeParts ==
  /\ TypeOK => /\ RunnerOK /\ ProposalsOK /\ ExecutionOK /\ faults \in 0 .. MaxFault
               /\ HarnessOK /\ EvidenceOK
  /\ /\ RunnerOK /\ ProposalsOK /\ ExecutionOK /\ CallInv /\ faults \in 0 .. MaxFault
     /\ HarnessOK /\ EvidenceOK
     => TypeOK
BY DEF TypeOK, RunnerOK, ProposalsOK, ExecutionOK, CallInv, Calls, Jobs, NoCall, NoWork

LEMMA AgentsStay ==
  ASSUME HarnessOK, ProposalsOK, \A s \in Task : AgentsInv(s), UNCHANGED <<proposals, harnessVars>>
  PROVE  HarnessOK' /\ ProposalsOK' /\ \A s \in Task : AgentsInv(s)'
BY DEF HarnessOK, ProposalsOK, AgentsInv, HarnessInv, ExitZeroInv, ProposalInv, proposals,
       harnessVars

LEMMA ExecutionStays ==
  ASSUME ExecutionOK, CallInv, EvidenceOK, \A s \in Task : IngestInv(s) /\ ExecutionInv(s),
         UNCHANGED <<dispatcher, cancelling, worker, evidenceVars>>,
         \A s \in Task : answer[s]["worker-controller"] # "none" =>
            answer'[s]["worker-controller"] = answer[s]["worker-controller"]
  PROVE  /\ ExecutionOK' /\ CallInv' /\ EvidenceOK'
         /\ \A s \in Task : IngestInv(s)' /\ ExecutionInv(s)'
<1>1. UNCHANGED <<status, lease, call, cancel, flagged, work, owner, container, ran,
                  lines, torn, evidence, ingest>>
  BY DEF dispatcher, cancelling, worker, evidenceVars
<1>2. ExecutionOK' /\ CallInv'
  BY <1>1 DEF ExecutionOK, CallInv
<1>3. \A s \in Task : Written(s)' = Written(s) /\ InHand(s)' = InHand(s)
  BY <1>1 DEF Written, InHand
<1>4. EvidenceOK' /\ \A s \in Task : IngestInv(s)'
  BY <1>1, <1>3 DEF EvidenceOK, IngestInv
<1>5. ASSUME NEW s \in Task
      PROVE  ExecutionInv(s)'
  BY <1>1, <1>3 DEF ExecutionInv, TornInv, BegunInv, AnsweredInv, RanInv, CopiedInv, SettledInv
<1> QED
  BY <1>2, <1>4, <1>5

LEMMA QInit ==
  Init => QInv
<1> SUFFICES ASSUME Init PROVE QInv
  OBVIOUS
<1> USE QualificationAssumption, HarnessAssumption DEF Init, HarnessInit, EvidenceInit
<1>1. TypeOK
  <2>1. RunnerOK
    BY DEF RunnerOK, Phase
  <2>2. ProposalsOK
    BY DEF ProposalsOK, ProposalState
  <2>3. ExecutionOK
    BY DEF ExecutionOK, TaskState
  <2>4. HarnessOK
    BY DEF HarnessOK
  <2>5. EvidenceOK
    <3>1. /\ lines \in [Task -> Seq(Event)] /\ torn \subseteq Task
          /\ evidence \in [Task -> SUBSET Event]
          /\ \A t \in Task : evidence[t] \subseteq Written(t)
      OBVIOUS
    <3>2. Idle \in Entry
      BY DEF Idle, Entry
    <3>3. ingest \in [Task -> [Thread -> Entry]]
      BY <3>2
    <3> QED
      BY <3>1, <3>3 DEF EvidenceOK, Entry
  <2>6. CallInv
    BY DEF CallInv
  <2> QED
    BY <2>1, <2>2, <2>3, <2>4, <2>5, <2>6, TypeParts
<1>2. CallInv /\ RunnerInv
  BY DEF CallInv, RunnerInv
<1>3. ASSUME NEW t \in Task
      PROVE  IngestInv(t) /\ AgentsInv(t) /\ ExecutionInv(t)
  <2>1. ToSet(<< >>) = {}
    BY DEF ToSet
  <2>2. IngestInv(t)
    BY <2>1 DEF IngestInv, Idle
  <2>3. AgentsInv(t)
    BY DEF AgentsInv, HarnessInv, ExitZeroInv, ProposalInv, Role
  <2>4. ExecutionInv(t)
    BY DEF ExecutionInv, TornInv, BegunInv, AnsweredInv, RanInv, CopiedInv, SettledInv, NoCall,
       NoWork
  <2> QED
    BY <2>2, <2>3, <2>4
<1> QED
  BY <1>1, <1>2, <1>3 DEF QInv

LEMMA QNext ==
  QInv /\ [Next]_vars => QInv'
<1> SUFFICES ASSUME QInv, [Next]_vars PROVE QInv'
  OBVIOUS
<1>0. /\ RunnerOK /\ ProposalsOK /\ ExecutionOK /\ faults \in 0 .. MaxFault
      /\ HarnessOK /\ EvidenceOK /\ CallInv /\ RunnerInv /\ status \in [Task -> TaskState]
      /\ \A s \in Task : IngestInv(s) /\ AgentsInv(s) /\ ExecutionInv(s)
  BY TypeParts DEF QInv, ExecutionOK
<1>a. faults' \in 0 .. MaxFault
  BY <1>0, FaultsNext
<1>b. RunnerOK' /\ ProposalsOK' /\ ExecutionOK' /\ CallInv' /\ HarnessOK' /\ EvidenceOK' => TypeOK'
  BY <1>a DEF TypeOK, RunnerOK, ProposalsOK, ExecutionOK, CallInv, Calls, Jobs, NoCall, NoWork
<1>1. CASE UNCHANGED vars
  <2>1. UNCHANGED <<runner, proposals, dispatcher, cancelling, worker, harnessVars, evidenceVars>>
    BY <1>1 DEF vars
  <2>2. UNCHANGED <<proposal, card, status, call, answer>>
    BY <2>1 DEF proposals, dispatcher, harnessVars
  <2>3. RunnerOK' /\ RunnerInv'
    BY <1>0, <2>1, <2>2, ReadStays DEF Streamed
  <2> QED
    BY <1>0, <1>b, <2>1, <2>2, <2>3, AgentsStay, ExecutionStays DEF QInv
<1>2. CASE RunnersStep
  <2>1. UNCHANGED <<proposals, dispatcher, cancelling, worker, harnessVars, evidenceVars>>
    BY <1>2, RunnersLeave
  <2>2. UNCHANGED answer
    BY <2>1 DEF harnessVars
  <2>3. RunnerOK' /\ RunnerInv'
    BY <1>0, <1>2, RunnerNext
  <2> QED
    BY <1>0, <1>b, <2>1, <2>2, <2>3, AgentsStay, ExecutionStays DEF QInv
<1>3. ASSUME NEW t \in Task, MakersStep(t)
      PROVE  QInv'
  <2>1. UNCHANGED <<runner, dispatcher, cancelling, worker, evidenceVars>>
    BY <1>3, MakersLeave
  <2>2. HarnessOK' /\ ProposalsOK' /\ (\A s \in Task : AgentsInv(s)') /\ AgentsKeep
    BY <1>0, <1>3, AgentsNext
  <2>3. UNCHANGED <<status, call>>
    BY <2>1 DEF dispatcher
  <2>4. RunnerOK' /\ RunnerInv'
    BY <1>0, <2>1, <2>2, <2>3, ReadStays DEF AgentsKeep, Streamed
  <2>5. /\ ExecutionOK' /\ CallInv' /\ EvidenceOK'
        /\ \A s \in Task : IngestInv(s)' /\ ExecutionInv(s)'
    BY <1>0, <2>1, <2>2, ExecutionStays DEF AgentsKeep
  <2> QED
    BY <1>b, <2>2, <2>4, <2>5 DEF QInv
<1>4. ASSUME NEW t \in Task, ExecutionStep(t)
      PROVE  QInv'
  <2>1. UNCHANGED <<runner, proposals, harnessVars>>
    BY <1>4, ExecutionLeaves
  <2>2. HarnessOK' /\ ProposalsOK' /\ \A s \in Task : AgentsInv(s)'
    BY <1>0, <2>1, AgentsStay
  <2>3. UNCHANGED <<proposal, card>>
    BY <2>1 DEF proposals
  <2>4. /\ ExecutionOK' /\ CallInv' /\ EvidenceOK'
        /\ \A s \in Task : /\ IngestInv(s)' /\ ExecutionInv(s)'
                           /\ Streamed(s) => Streamed(s)'
    BY <1>0, <1>4, ExecutionNext
  <2>5. RunnerOK' /\ RunnerInv'
    BY <1>0, <2>1, <2>3, <2>4, ReadStays
  <2> QED
    BY <1>b, <2>2, <2>4, <2>5 DEF QInv
<1> QED
  BY <1>1, <1>2, <1>3, <1>4, StepsOf

-----------------------------------------------------------------------------
(* A run in which nothing went wrong.                                      *)

LEMMA OnceNext ==
  ASSUME HarnessOK, \A s \in Task : OnceInv(s), faults \in Nat, faults' = 0, NEW t \in Task,
         MakersStep(t), faults = 0
  PROVE  \A s \in Task : OnceInv(s)'
<1>a. { "processor", "reviewer", "worker-controller" } = Role
  BY DEF Role
<1>1. ASSUME NEW r \in Role, Invoke(t, r)
      PROVE  \A s \in Task : OnceInv(s)'
  <2>1. exitZero'[t][r] = 0 /\ answer'[t][r] = "none" /\ OnlyInvocation(t, r)
    BY <1>1 DEF Invoke, HarnessOK, OnlyInvocation
  <2> QED
    BY <2>1 DEF OnceInv, OnlyInvocation
<1>2. CASE UNCHANGED harnessVars
  BY <1>2 DEF OnceInv, harnessVars
<1>3. ASSUME NEW r \in Role, HarnessAttempt(t, r)
      PROVE  \A s \in Task : OnceInv(s)'
  <2>1. Attempt(t, r, "valid")
    BY <1>3 DEF HarnessAttempt, Fault
  <2>2. /\ exitZero' = [exitZero EXCEPT ![t][r] = exitZero[t][r] + 1]
        /\ invoked' = [invoked EXCEPT ![t][r] = 0]
        /\ answer' = [answer EXCEPT ![t][r] = "returned"]
        /\ invoked[t][r] > 0
    BY <2>1 DEF Attempt, Retried
  <2>3. exitZero[t][r] = 0
    <3>1. invoked[t][r] > 0
      BY <2>2
    <3> QED
      BY <3>1 DEF OnceInv
  <2>4. exitZero'[t][r] = 1 /\ invoked'[t][r] = 0 /\ OnlyInvocation(t, r)
    BY <2>2, <2>3 DEF HarnessOK, OnlyInvocation
  <2> QED
    BY <2>4 DEF OnceInv, OnlyInvocation
<1>4. CASE Confirm(t) \/ Reply(t) \/ Control(t) \/ \E c \in Card : Submit(t, c)
  BY <1>a, <1>1, <1>4 DEF Confirm, Reply, Control, Submit
<1>5. CASE Processed(t) \/ Reviewed(t) \/ Compile(t)
  BY <1>2, <1>5 DEF Processed, Reviewed, Compile
<1> QED
  BY <1>3, <1>4, <1>5 DEF MakersStep

(* The steps of the Worker that change what a command did, or that write   *)
(* that it was cleaned up after.                                           *)
LEMMA RanChanges ==
  ASSUME ExecutionOK, CallInv, NEW t \in Task, ExecutionStep(t)
  PROVE  /\ ran'[t] # ran[t] => work.task = t
         /\ ran' = ran \/ Inspect(t) \/ Start(t) \/ Run(t) \/ Cleanup(t)
         /\ status[t] # "CREATED" => status'[t] # "CREATED"
         /\ status'[t] # status[t] =>
              status[t] = "QUEUED" \/ call.task = t \/ proposal[t] = "COMPILED"
<1>1. CASE DispatchersStep(t)
  <2>1. ran' = ran
    BY <1>1 DEF DispatchersStep, Enqueue, Dispatch, Prepared, PlanAcknowledged, Executed, Release,
       OutcomeStep, Settle, Record, Note, Settles, OutcomeFails, DispatchRefused, DispatchGivesUp, Asks, worker
  <2>2. CASE Enqueue(t)
    BY <2>1, <2>2 DEF Enqueue, ExecutionOK
  <2>3. CASE Dispatch(t)
    BY <2>1, <2>3 DEF Dispatch, ExecutionOK
  <2>4. CASE Prepared(t)
    BY <2>1, <2>4 DEF Prepared, Received, IsAt, ExecutionOK
  <2>5. CASE PlanAcknowledged(t)
    <3>1. call.task = t /\ \E x \in { "FINALIZING", "RUNNING" } : status' = [status EXCEPT ![t] = x]
      BY <2>5 DEF PlanAcknowledged, Received, IsAt
    <3> QED
      BY <2>1, <3>1 DEF ExecutionOK
  <2>6. CASE Executed(t)
    <3>1. /\ call.task = t
          /\ \E x \in { "FINALIZING", "CLEANUP_FAILED" } : status' = [status EXCEPT ![t] = x]
      BY <2>6 DEF Executed, Received, IsAt
    <3> QED
      BY <2>1, <3>1 DEF ExecutionOK
  <2>7. CASE Release(t)
    BY <2>1, <2>7 DEF Release
  <2>8. CASE OutcomeStep(t)
    <3>1. /\ call.task = t /\ call.op \in Ends
          /\ status' \in { status } \cup { [status EXCEPT ![t] = x] :
                                             x \in { call.step, "RECONCILIATION_REQUIRED" } }
      BY <2>8 DEF OutcomeStep, Settle, Record, Note, Settles, OutcomeFails, Uncertain, Ends
    <3>2. call.step \in Outcome
      BY <3>1, CallOf
    <3> QED
      BY <2>1, <3>1, <3>2 DEF Outcome, ExecutionOK
  <2>9. CASE DispatchRefused(t) \/ DispatchGivesUp(t)
    <3>1. call.task = t /\ (Failed(t) \/ Uncertain(t))
      BY <2>9 DEF DispatchRefused, DispatchGivesUp, IsAt
    <3>2. \E x \in { "FAILED", "RECONCILIATION_REQUIRED" } : status' = [status EXCEPT ![t] = x]
      BY <3>1 DEF Failed, Uncertain
    <3> QED
      BY <2>1, <3>1, <3>2 DEF ExecutionOK
  <2> QED
    BY <1>1, <2>2, <2>3, <2>4, <2>5, <2>6, <2>7, <2>8, <2>9 DEF DispatchersStep
<1>2. CASE ReadersStep(t)
  <2>1. /\ call.task = t /\ ran' = ran
        /\ status' = status \/ status' = [status EXCEPT ![t] = "RECONCILIATION_REQUIRED"]
    BY <1>2 DEF ReadersStep, ReadsAnswer, DispatchCollides, Uncertain, IsAt, worker
  <2> QED
    BY <2>1 DEF ExecutionOK
<1>3. CASE WorkersStep(t)
  <2>1. work.task = t /\ status' = status
    BY <1>3 DEF WorkersStep, HandlePrepare, HandlePlan, Refuse, ControlRaised, AuditFails, Inspect,
       Start, Started, Run, Cleanup, Finish, Executing, Works, dispatcher
  <2>2. ran' = ran \/ Inspect(t) \/ Start(t) \/ Run(t) \/ Cleanup(t)
    BY <1>3 DEF WorkersStep, HandlePrepare, HandlePlan, Refuse, ControlRaised, AuditFails, Started,
       Finish, worker
  <2> QED
    BY <2>1, <2>2
<1>4. CASE AsideStep(t)
  BY <1>4 DEF AsideStep, Copies, Cancel, HandleCancel, CancelReads, CancelEnds, CancelGivesUp,
     CancelCollides, CancelMisreads, dispatcher, worker
<1> QED
  BY <1>1, <1>2, <1>3, <1>4 DEF ExecutionStep

LEMMA CleanupWritten ==
  ASSUME EvidenceOK, NEW t \in Task, ExecutionStep(t), ~Cleanup(t), NEW s \in Task,
         "DOCKER_CLEANUP_INSPECTED" \notin Written(s)
  PROVE  "DOCKER_CLEANUP_INSPECTED" \notin Written(s)'
<1>1. lines' = lines \/ \E e \in Event \ { "DOCKER_CLEANUP_INSPECTED" } : Audit(t, e)
  <2> USE DEF Event, Required, evidenceVars
  <2>1. CASE DispatchersStep(t)
    BY <2>1 DEF DispatchersStep, Enqueue, Dispatch, Prepared, PlanAcknowledged, Executed, Release,
       OutcomeStep, Settle, Record, Note, Settles, OutcomeFails, DispatchRefused, DispatchGivesUp
  <2>2. CASE ReadersStep(t)
    BY <2>2 DEF ReadersStep, ReadsAnswer, DispatchCollides, ReadsInbox, Collides
  <2>3. CASE WorkersStep(t)
    BY <2>3 DEF WorkersStep, HandlePrepare, HandlePlan, Refuse, ControlRaised, AuditFails, Inspect,
       Start, Started, Run, Finish, AuditTears
  <2>4. CASE AsideStep(t)
    BY <2>4 DEF AsideStep, Copies, Looks, WritesEvidence, Cancel, HandleCancel, CancelReads,
       ReadsInbox, CancelEnds, CancelGivesUp, CancelCollides, Collides, CancelMisreads
  <2> QED
    BY <2>1, <2>2, <2>3, <2>4 DEF ExecutionStep
<1>2. CASE lines'[s] = lines[s]
  BY <1>2 DEF Written
<1>3. ASSUME NEW e \in Event \ { "DOCKER_CLEANUP_INSPECTED" }, lines'[s] = Append(lines[s], e)
      PROVE  "DOCKER_CLEANUP_INSPECTED" \notin Written(s)'
  <2>1. ToSet(Append(lines[s], e)) = ToSet(lines[s]) \cup {e}
    BY AppendSet DEF EvidenceOK
  <2> QED
    BY <1>3, <2>1 DEF Written
<1>4. \A e \in Event : Audit(t, e) => lines'[s] \in { lines[s], Append(lines[s], e) }
  BY DEF Audit, EvidenceOK
<1> QED
  BY <1>1, <1>2, <1>3, <1>4

LEMMA BegunNext ==
  ASSUME ExecutionOK, CallInv, EvidenceOK, NEW t \in Task, ExecutionStep(t),
         \A s \in Task : ExecutionInv(s) /\ BegunCompiled(s) /\ CleanedInv(s),
         UNCHANGED proposal
  PROVE  \A s \in Task : BegunCompiled(s)' /\ CleanedInv(s)'
<1> TAKE s \in Task
<1>1. OneTask(t)
  BY DispatchersTypes, ReadersTypes, WorkersTypes, AsideTypes DEF ExecutionStep
<1>2. BegunCompiled(s)'
  <2>1. status[s] # "CREATED" => proposal[s] = "COMPILED" /\ status'[s] # "CREATED"
    BY <1>1, RanChanges DEF BegunCompiled, OneTask
  <2>2. status'[s] # "CREATED" => proposal[s] = "COMPILED"
    <3>1. CASE s = t
      <4>1. call.task = t => status[t] # "CREATED"
        BY DEF ExecutionInv, BegunInv
      <4> QED
        BY <2>1, <3>1, <4>1, RanChanges
    <3>2. CASE s # t
      BY <1>1, <2>1, <3>2 DEF OneTask
    <3> QED
      BY <3>1, <3>2
  <2>3. ran'[s] # "no" => status'[s] # "CREATED"
    <3>1. CASE ran'[s] = ran[s]
      BY <2>1, <3>1 DEF BegunCompiled
    <3>2. CASE ran'[s] # ran[s]
      <4>1. s = t /\ work.task = t
        BY <1>1, <3>2, RanChanges DEF OneTask
      <4>2. status[s] # "CREATED"
        BY <4>1 DEF ExecutionInv, BegunInv
      <4> QED
        BY <2>1, <4>2
    <3> QED
      BY <3>1, <3>2
  <2> QED
    BY <2>2, <2>3 DEF BegunCompiled
<1>3. CleanedInv(s)'
  <2>1. CASE Cleanup(t) /\ s = t
    <3>1. ran'[t] \in { "well", "badly", "unclean" }
      BY <2>1 DEF Cleanup, ExecutionOK
    <3> QED
      BY <2>1, <3>1 DEF CleanedInv
  <2>2. CASE Cleanup(t) /\ s # t
    <3>1. lines'[s] = lines[s] /\ ran'[s] = ran[s]
      BY <2>2 DEF Cleanup, Audit, EvidenceOK, ExecutionOK
    <3> QED
      BY <3>1 DEF CleanedInv, Written
  <2>3. CASE ~Cleanup(t)
    <3>1. "DOCKER_CLEANUP_INSPECTED" \notin Written(s) => CleanedInv(s)'
      BY <2>3, CleanupWritten DEF CleanedInv
    <3>2. ASSUME "DOCKER_CLEANUP_INSPECTED" \in Written(s)
          PROVE  ran'[s] \in { "well", "badly", "unclean" }
      <4>1. ran[s] \in { "well", "badly", "unclean" }
        BY <3>2 DEF CleanedInv
      <4>2. CASE ran' = ran
        BY <4>1, <4>2
      <4>3. CASE s # t
        BY <1>1, <4>1, <4>3 DEF OneTask
      <4>4. CASE s = t /\ (Inspect(t) \/ Start(t) \/ Run(t))
        BY <4>1, <4>4 DEF Inspect, Start, Run
      <4> QED
        BY <2>3, <4>2, <4>3, <4>4, RanChanges
    <3> QED
      BY <3>1, <3>2 DEF CleanedInv
  <2> QED
    BY <2>1, <2>2, <2>3
<1> QED
  BY <1>2, <1>3

(* Without a fault nobody cancels, and nobody copies lines but a dispatch. *)
LEMMA CancelNext ==
  ASSUME EvidenceOK, NEW t \in Task, ExecutionStep(t), CancelInv, faults = 0, faults' = 0
  PROVE  /\ CancelInv' /\ ~HandleCancel(t)
         /\ AsideStep(t) => Copies(t, "dispatch")
<1>0. ~Fault /\ \A s \in Task : cancel[s] = "none" /\ ingest[s]["cancel"] = Idle
  BY DEF Fault, CancelInv
<1>a. Idle.left = << >> /\ Idle.next = NoEvent /\ NoEvent \notin Event /\ "dispatch" # "cancel"
      /\ "dispatch" \in Thread /\ "cancel" \in Thread
  BY DEF Idle, NoEvent, Event, Required, Thread
<1>1. ~Copies(t, "cancel")
  <2>1. ~Looks(t, "cancel")
    BY <1>0, <1>a DEF Looks
  <2>2. ~WritesEvidence(t, "cancel")
    BY <1>0, <1>a DEF WritesEvidence
  <2> QED
    BY <2>1, <2>2 DEF Copies
<1>2. ~Cancel(t) /\ ~CancelGivesUp(t)
  BY <1>0 DEF Cancel, CancelGivesUp
<1>3. \A from \in { "asked", "confirmed", "unconfirmed", "reading yes", "reading no" } :
         \A to : ~CancelAt(t, from, to)
  BY <1>0 DEF CancelAt
<1>4. ~HandleCancel(t) /\ ~CancelReads(t) /\ ~CancelEnds(t) /\ ~CancelMisreads(t)
  BY <1>3 DEF HandleCancel, CancelReads, CancelEnds, CancelMisreads
<1>5. ~CancelCollides(t)
  BY <1>0, <1>a DEF CancelCollides, Collides, EvidenceOK
<1>6. AsideStep(t) => Copies(t, "dispatch")
  BY <1>1, <1>2, <1>4, <1>5 DEF AsideStep
<1>7. cancel' = cancel
  <2>1. CASE DispatchersStep(t)
    BY <2>1 DEF DispatchersStep, Enqueue, Dispatch, Prepared, PlanAcknowledged, Executed, Release,
       OutcomeStep, Settle, Record, Note, Settles, OutcomeFails, DispatchRefused, DispatchGivesUp, cancelling
  <2>2. CASE ReadersStep(t)
    BY <2>2 DEF ReadersStep, ReadsAnswer, DispatchCollides, cancelling
  <2>3. CASE WorkersStep(t)
    BY <2>3 DEF WorkersStep, HandlePrepare, HandlePlan, Refuse, ControlRaised, AuditFails, Inspect,
       Start, Started, Run, Cleanup, Finish, cancelling
  <2>4. CASE AsideStep(t)
    BY <1>6, <2>4 DEF Copies, cancelling
  <2> QED
    BY <2>1, <2>2, <2>3, <2>4 DEF ExecutionStep
<1>8. \A s \in Task : ingest'[s]["cancel"] = ingest[s]["cancel"]
  <2>1. CASE DispatchersStep(t)
    BY <2>1 DEF DispatchersStep, Enqueue, Dispatch, Prepared, PlanAcknowledged, Executed, Release,
       OutcomeStep, Settle, Record, Note, Settles, OutcomeFails, DispatchRefused, DispatchGivesUp, evidenceVars
  <2>0. ASSUME NEW x, ingest' = [ingest EXCEPT ![t]["dispatch"] = x]
        PROVE  \A s \in Task : ingest'[s]["cancel"] = ingest[s]["cancel"]
    BY <1>a, <2>0 DEF EvidenceOK
  <2>2. CASE ReadersStep(t)
    <3>1. CASE ReadsAnswer(t)
      BY <2>0, <3>1 DEF ReadsAnswer, ReadsInbox
    <3>2. CASE DispatchCollides(t)
      BY <2>0, <3>2 DEF DispatchCollides, Collides
    <3> QED
      BY <2>2, <3>1, <3>2 DEF ReadersStep
  <2>3. CASE WorkersStep(t)
    BY <2>3 DEF WorkersStep, HandlePrepare, HandlePlan, Refuse, ControlRaised, AuditFails, Inspect,
       Start, Started, Run, Cleanup, Finish, Audit, AuditTears, evidenceVars
  <2>4. CASE AsideStep(t)
    <3>1. CASE Looks(t, "dispatch")
      BY <2>0, <3>1 DEF Looks
    <3>2. CASE WritesEvidence(t, "dispatch")
      BY <1>a, <3>2 DEF WritesEvidence, EvidenceOK
    <3> QED
      BY <1>6, <2>4, <3>1, <3>2 DEF Copies
  <2> QED
    BY <2>1, <2>2, <2>3, <2>4 DEF ExecutionStep
<1> QED
  BY <1>0, <1>4, <1>6, <1>7, <1>8 DEF CancelInv

(* The container runs for one command, between its start and its cleanup.  *)
LEMMA ContainerNext ==
  ASSUME ExecutionOK, CallInv, EvidenceOK, NEW t \in Task, ExecutionStep(t),
         \A s \in Task : CleanedInv(s), CancelInv, ContainerInv, faults = 0, faults' = 0
  PROVE  ContainerInv'
<1>0. ~Fault
  BY DEF Fault
<1>1. container' = container \/ Start(t) \/ Cleanup(t)
  <2>1. CASE DispatchersStep(t)
    BY <2>1 DEF DispatchersStep, Enqueue, Dispatch, Prepared, PlanAcknowledged, Executed, Release,
       OutcomeStep, Settle, Record, Note, Settles, OutcomeFails, DispatchRefused, DispatchGivesUp, worker, Asks
  <2>2. CASE ReadersStep(t)
    BY <2>2 DEF ReadersStep, ReadsAnswer, DispatchCollides, worker
  <2>3. CASE WorkersStep(t)
    BY <2>3 DEF WorkersStep, HandlePrepare, HandlePlan, Refuse, ControlRaised, AuditFails, Inspect,
       Started, Run, Finish, worker
  <2>4. CASE AsideStep(t)
    BY <2>4, CancelNext DEF Copies, worker
  <2> QED
    BY <2>1, <2>2, <2>3, <2>4 DEF ExecutionStep
<1>2. OneTask(t)
  BY DispatchersTypes, ReadersTypes, WorkersTypes, AsideTypes DEF ExecutionStep
<1>3. CASE Cleanup(t)
  <2>1. container' = "stopped"
    BY <1>0, <1>3 DEF Cleanup
  <2> QED
    BY <2>1 DEF ContainerInv
<1>4. CASE Start(t)
  <2>1. ran[t] = "no" /\ ran'[t] = "started"
    BY <1>0, <1>4 DEF Start, ExecutionOK
  <2>2. ~Cleanup(t)
    BY <2>1 DEF Cleanup
  <2>3. "DOCKER_CLEANUP_INSPECTED" \notin Written(t)
    BY <2>1 DEF CleanedInv
  <2>4. Unclean(t)'
    BY <2>1, <2>2, <2>3, CleanupWritten DEF Unclean
  <2> QED
    BY <2>4 DEF ContainerInv
<1>5. CASE container' = container /\ ~Cleanup(t) /\ ~Start(t)
  <2>1. SUFFICES ASSUME container' = "running" PROVE \E s \in Task : Unclean(s)'
    BY DEF ContainerInv
  <2>2. PICK s \in Task : Unclean(s)
    BY <1>5, <2>1 DEF ContainerInv
  <2>3. "DOCKER_CLEANUP_INSPECTED" \notin Written(s)'
    BY <1>5, <2>2, CleanupWritten DEF Unclean
  <2>4. ran'[s] \in { "started", "well" }
    <3>1. CASE ran' = ran \/ s # t
      BY <1>2, <2>2, <3>1 DEF OneTask, Unclean
    <3>2. CASE s = t /\ Run(t)
      BY <1>0, <1>5, <2>1, <3>2 DEF Run, FaultUnless, ExecutionOK
    <3>3. CASE s = t /\ Inspect(t)
      BY <2>2, <3>3 DEF Unclean, Inspect
    <3> QED
      BY <1>5, <3>1, <3>2, <3>3, RanChanges
  <2> QED
    BY <2>3, <2>4 DEF Unclean
<1> QED
  BY <1>1, <1>3, <1>4, <1>5

(* Once the agent is done, every Task that was submitted is COMPLETED to   *)
(* the last write, and there is one for each card count.                   *)
LEMMA AllDone ==
  ASSUME QInv, CInv, faults = 0, AgentDone
  PROVE  /\ \A t \in Task : card[t] # 0 => Streamed(t)
         /\ { t \in Task : proposal[t] = "COMPILED" } = Recorded
         /\ OneOfEach(Recorded)
<1>1. ASSUME NEW t \in Task, card[t] # 0
      PROVE  Streamed(t)
  <2>1. card[t] \in Card
    BY <1>1 DEF QInv, TypeOK
  <2>2. PICK s \in Recorded : card[s] = card[t]
    BY <2>1 DEF AgentDone, CardsOf
  <2>3. s = t
    BY <1>1, <2>2 DEF CInv, CardsInv, Recorded
  <2> QED
    BY <2>2, <2>3 DEF Recorded
<1>2. \A t \in Task : proposal[t] = "COMPILED" => card[t] # 0
  BY DEF QInv, AgentsInv, ProposalInv
<1>3. \A t \in Task : Streamed(t) => proposal[t] = "COMPILED"
  BY DEF CInv, BegunCompiled, Streamed
<1>4. { t \in Task : proposal[t] = "COMPILED" } = Recorded
  BY <1>1, <1>2, <1>3 DEF Recorded
<1>5. \A t \in Recorded : t \in Task /\ card[t] \in Card
  BY <1>2, <1>3 DEF QInv, TypeOK, Recorded
<1>6. CardsOf(Recorded) = Card
  BY <1>5 DEF AgentDone, CardsOf
<1>7. PICK f : f = [t \in Recorded |-> card[t]]
  OBVIOUS
<1>8. f \in Bijection(Recorded, Card)
  <2>1. f \in [Recorded -> Card] /\ \A c \in Card : \E t \in Recorded : f[t] = c
    BY <1>5, <1>6, <1>7 DEF CardsOf
  <2>2. \A s, t \in Recorded : f[s] = f[t] => s = t
    BY <1>5, <1>7, QualificationAssumption DEF CInv, CardsInv
  <2> QED
    BY <2>1, <2>2 DEF Bijection, Injection, IsInjective, Surjection
<1>9. Cardinality(Recorded) = Cardinality(Card)
  <2>1. IsFiniteSet(Recorded)
    BY FS_Subset, QualificationAssumption DEF Recorded
  <2> QED
    BY <1>8, <2>1, FS_Bijection DEF ExistsBijection
<1> QED
  BY <1>1, <1>4, <1>6, <1>9 DEF OneOfEach

(* What is COMPLETED passes the checks of an item, and has left nothing.   *)
LEMMA CompletedHolds ==
  ASSUME QInv, CInv, faults = 0, NEW t \in Recorded
  PROVE  ItemHolds(t) /\ ~Active(t) /\ ~Unclean(t)
<1>1. t \in Task /\ status[t] = "COMPLETED" /\ Streamed(t)
  BY DEF Recorded, Streamed
<1>2. proposal[t] = "COMPILED"
  BY <1>1 DEF CInv, BegunCompiled
<1>3. lease[t] = "RELEASED" /\ ran[t] = "well" /\ Noted \subseteq evidence[t]
  BY <1>1 DEF QInv, ExecutionInv, SettledInv
<1>4. answer[t]["processor"] = "returned" /\ answer[t]["reviewer"] = "returned"
  BY <1>1, <1>2 DEF QInv, AgentsInv, ProposalInv
<1>5. answer[t]["worker-controller"] = "returned"
  BY <1>1, <1>3 DEF QInv, ExecutionInv, RanInv
<1>6. \A r \in Role : exitZero[t][r] = 1
  BY <1>1, <1>4, <1>5 DEF CInv, OnceInv, Role
<1>7. "DOCKER_CLEANUP_INSPECTED" \in Written(t)
  BY <1>1, <1>3 DEF QInv, TypeOK, EvidenceOK, Noted, Required
<1>8. exitZero[t]["processor"] = 1 /\ exitZero[t]["reviewer"] = 1
      /\ exitZero[t]["worker-controller"] = 1
  BY <1>6 DEF Role
<1> QED
  BY <1>1, <1>2, <1>3, <1>7, <1>8 DEF ItemHolds, Active, Unclean, Noted

LEMMA RunnersReason ==
  ASSUME QInv, CInv, RunnersStep, faults = 0, faults' = 0, ~late', ~early'
  PROVE  ReasonInv'
<1>0. ~Fault /\ UNCHANGED <<card, proposal, status, call>>
  BY RunnersLeave DEF Fault, proposals, dispatcher
<1>1. AgentDone => (agent' = agent => AgentDone')
  BY <1>0 DEF AgentDone, Recorded, CardsOf, Streamed
<1> USE DEF Goto
<1>2. CASE Gates
  BY <1>0, <1>2 DEF Gates, CInv, ReasonInv
<1>3. CASE AgentExits
  <2>1. agent' = "zero" /\ Card \subseteq CardsOf(Recorded) /\ phase' = "proposals"
        /\ phase = "agent" /\ ~early /\ UNCHANGED <<compiled, seen, late>>
    BY <1>0, <1>3 DEF AgentExits, FaultUnless, Recorded, QInv, RunnerInv
  <2>2. AgentDone'
    BY <1>0, <2>1 DEF AgentDone, Recorded, CardsOf, Streamed
  <2> QED
    BY <2>1, <2>2 DEF CInv, ReasonInv
<1>4. CASE AgentTimesOut
  BY <1>4 DEF AgentTimesOut
<1>5. ASSUME phase \in { "proposals", "statuses", "verifying" }, UNCHANGED <<agent, late, early>>
      PROVE  /\ AgentDone /\ AgentDone'
             /\ phase \in { "statuses", "verifying" } => compiled = Recorded
             /\ { t \in Task : proposal[t] = "COMPILED" } = Recorded /\ OneOfEach(Recorded)
             /\ \A t \in Task : seen[t] \in { "unread", "COMPLETED" }
  BY <1>1, <1>5, AllDone DEF CInv, ReasonInv
<1>6. CASE ReadsProposals
  BY <1>0, <1>5, <1>6 DEF ReadsProposals, ReasonInv
<1>7. CASE Judges
  <2>1. phase = "statuses" /\ UNCHANGED <<agent, compiled, seen, late, early>>
    BY <1>7 DEF Judges
  <2>2. AgentDone' /\ compiled = Recorded /\ OneOfEach(compiled) /\ agent = "zero"
    BY <1>5, <2>1 DEF AgentDone
  <2>3. \A t \in compiled : seen[t] = "COMPLETED"
    BY <1>5, <1>7, <2>1, <2>2 DEF Judges
  <2>4. phase' = "verifying"
    BY <1>7, <2>2, <2>3 DEF Judges
  <2> QED
    BY <1>0, <1>5, <2>1, <2>2, <2>4 DEF ReasonInv
<1>8. CASE Concludes
  <2>1. phase = "verifying" /\ UNCHANGED <<agent, compiled, seen, late, early>>
    BY <1>8 DEF Concludes
  <2>2. AgentDone' /\ compiled = Recorded
    BY <1>5, <2>1
  <2>3. \A t \in compiled : ~Active(t)
    BY <2>2, CompletedHolds
  <2>4. container = "stopped"
    <3>1. SUFFICES ASSUME container = "running" PROVE FALSE
      BY DEF QInv, TypeOK
    <3>2. PICK t \in Task : Unclean(t)
      BY <3>1 DEF CInv, ContainerInv
    <3>3. proposal[t] = "COMPILED"
      BY <3>2 DEF CInv, BegunCompiled, Unclean
    <3>4. t \in Recorded
      BY <1>5, <2>1, <3>3
    <3> QED
      BY <3>2, <3>4, CompletedHolds
  <2>5. phase' = "COMPLETED"
    BY <1>8, <2>3, <2>4 DEF Concludes
  <2> QED
    BY <1>0, <1>5, <2>1, <2>2, <2>5 DEF ReasonInv
<1>9. ASSUME NEW t \in Task, ReadsStatus(t)
      PROVE  ReasonInv'
  <2>1. phase = "statuses" /\ t \in compiled /\ UNCHANGED <<phase, agent, compiled, late, early>>
        /\ seen' = [seen EXCEPT ![t] = status[t]]
    BY <1>9 DEF ReadsStatus
  <2>2. AgentDone' /\ compiled = Recorded
    BY <1>5, <2>1
  <2>3. \A s \in Task : seen'[s] \in { "unread", "COMPLETED" }
    BY <1>5, <2>1, <2>2 DEF Recorded, Streamed, QInv, TypeOK
  <2> QED
    BY <1>0, <1>5, <2>1, <2>2, <2>3 DEF ReasonInv
<1>10. ASSUME NEW t \in Task, VerifiesItem(t)
       PROVE  ReasonInv'
  <2>1. phase = "verifying" /\ t \in compiled /\ UNCHANGED <<agent, compiled, seen, late, early>>
    BY <1>10 DEF VerifiesItem
  <2>2. AgentDone' /\ compiled = Recorded
    BY <1>5, <2>1
  <2>3. ItemHolds(t)
    BY <2>1, <2>2, CompletedHolds
  <2>4. phase' = phase
    BY <1>10, <2>3 DEF VerifiesItem
  <2> QED
    BY <1>0, <1>5, <2>1, <2>2, <2>4 DEF ReasonInv
<1>11. ~OtherCheckFails
  BY <1>0 DEF OtherCheckFails
<1> QED
  BY <1>2, <1>3, <1>4, <1>6, <1>7, <1>8, <1>9, <1>10, <1>11 DEF RunnersStep, RunnerStep

(* Whatever the others still do, nothing of what was read changes.         *)
LEMMA OthersReason ==
  ASSUME QInv, CInv, UNCHANGED runner, faults = 0, faults' = 0,
         \A s \in Task : proposal[s] = "COMPILED" => proposal'[s] = "COMPILED" /\ card'[s] = card[s],
         \A s \in Task : proposal'[s] = "COMPILED" => proposal[s] \in { "COMPILED", "COMPILING" },
         \A s \in Task : Streamed(s) => Streamed(s)'
  PROVE  ReasonInv'
<1>1. UNCHANGED <<phase, agent, compiled, seen, verified, late, early>>
  BY DEF runner
<1>2. \A s \in Recorded : s \in Recorded' /\ card'[s] = card[s]
  BY DEF Recorded, CInv, BegunCompiled, Streamed
<1>3. AgentDone => AgentDone'
  BY <1>1, <1>2 DEF AgentDone, CardsOf
<1>4. ASSUME AgentDone
      PROVE  { t \in Task : proposal'[t] = "COMPILED" } = { t \in Task : proposal[t] = "COMPILED" }
  <2>1. ASSUME NEW t \in Task, proposal[t] = "COMPILING"
        PROVE  FALSE
    <3>1. card[t] # 0
      BY <2>1 DEF QInv, AgentsInv, ProposalInv
    <3> QED
      BY <1>4, <2>1, <3>1, AllDone DEF CInv, BegunCompiled, Streamed
  <2> QED
    BY <2>1
<1> QED
  BY <1>1, <1>3, <1>4 DEF CInv, ReasonInv

LEMMA CardsNext ==
  ASSUME ProposalsOK, CardsInv, faults = 0, faults' = 0, NEW t \in Task, MakersStep(t)
  PROVE  CardsInv'
<1>1. CASE UNCHANGED card
  BY <1>1 DEF CardsInv
<1>2. ASSUME NEW c \in Card, Submit(t, c)
      PROVE  CardsInv'
  <2>1. card' = [card EXCEPT ![t] = c] /\ \A s \in Task : card[s] # c
    BY <1>2 DEF Submit, FaultUnless, Fault
  <2> QED
    BY <2>1 DEF CardsInv, ProposalsOK
<1>3. CASE ~\E c \in Card : Submit(t, c)
  <2>1. UNCHANGED card
    BY <1>3 DEF MakersStep, Confirm, Reply, Processed, Reviewed, Compile, Control, HarnessAttempt,
       proposals
  <2> QED
    BY <1>1, <2>1
<1> QED
  BY <1>2, <1>3

LEMMA MakersCompile ==
  ASSUME ProposalsOK, NEW t \in Task, MakersStep(t)
  PROVE  \A s \in Task : proposal'[s] = "COMPILED" => proposal[s] \in { "COMPILED", "COMPILING" }
<1>1. \/ UNCHANGED proposal \/ Compile(t)
      \/ \E p \in ProposalState \ { "COMPILED" } : proposal' = [proposal EXCEPT ![t] = p]
  BY DEF MakersStep, Confirm, Reply, Submit, Processed, Reviewed, Control, HarnessAttempt,
     proposals, ProposalState
<1> QED
  BY <1>1 DEF Compile, ProposalsOK

LEMMA CInit ==
  Init => CInv
<1> SUFFICES ASSUME Init PROVE CInv
  OBVIOUS
<1> USE DEF Init, HarnessInit, EvidenceInit
<1>1. CancelInv /\ ContainerInv /\ CardsInv /\ ReasonInv
  BY DEF CancelInv, ContainerInv, CardsInv, ReasonInv, Thread
<1>2. \A t \in Task : OnceInv(t) /\ BegunCompiled(t)
  BY DEF OnceInv, BegunCompiled
<1>3. ToSet(<< >>) = {}
  BY DEF ToSet
<1>4. \A t \in Task : CleanedInv(t)
  BY <1>3 DEF CleanedInv, Written
<1> QED
  BY <1>1, <1>2, <1>4 DEF CInv

LEMMA CNext ==
  QInv /\ CInv /\ [Next]_vars => CInv'
<1> SUFFICES ASSUME QInv, CInv, [Next]_vars PROVE CInv'
  OBVIOUS
<1>0. /\ RunnerOK /\ ProposalsOK /\ ExecutionOK /\ faults \in 0 .. MaxFault
      /\ HarnessOK /\ EvidenceOK /\ CallInv
      /\ \A s \in Task : AgentsInv(s) /\ IngestInv(s) /\ ExecutionInv(s)
      /\ CancelInv /\ ContainerInv /\ CardsInv /\ ReasonInv
      /\ \A t \in Task : OnceInv(t) /\ BegunCompiled(t) /\ CleanedInv(t)
  BY TypeParts DEF QInv, CInv
<1>a. faults' = 0 => faults = 0
  BY <1>0, FaultsNext, QualificationAssumption
<1>1. CASE UNCHANGED <<runner, proposals, dispatcher, cancelling, worker, harnessVars,
                       evidenceVars, faults>>
  <2>1. UNCHANGED <<phase, agent, compiled, seen, verified, late, early, card, proposal, status,
                    lease, call, cancel, container, ran, invoked, exitZero, answer, lines, ingest, faults>>
    BY <1>1 DEF runner, proposals, dispatcher, cancelling, worker, harnessVars, evidenceVars
  <2>2. /\ Recorded' = Recorded /\ CardsOf(Recorded)' = CardsOf(Recorded)
        /\ \A t \in Task : Written(t)' = Written(t)
    BY <2>1 DEF Recorded, CardsOf, Streamed, Written
  <2> QED
    BY <1>0, <2>1, <2>2 DEF CInv, CancelInv, ContainerInv, CardsInv, ReasonInv, AgentDone, OnceInv,
       BegunCompiled, CleanedInv, Unclean
<1>2. CASE RunnersStep
  <2>1. UNCHANGED <<card, proposal, status, cancel, container, ran, invoked, exitZero, answer,
                    lines, ingest>>
    BY <1>2, RunnersLeave DEF proposals, dispatcher, cancelling, worker, harnessVars, evidenceVars
  <2>2. \A t \in Task : Written(t)' = Written(t)
    BY <2>1 DEF Written
  <2>3. (late => late') /\ (early => early')
    BY <1>2 DEF QInv, RunnerInv, Goto, RunnersStep, RunnerStep, AgentExits, AgentTimesOut, Gates, ReadsProposals, Judges,
       OtherCheckFails, Concludes, ReadsStatus, VerifiesItem
  <2>4. ReasonInv'
    <3>1. CASE faults' = 0 /\ ~late' /\ ~early'
      BY <1>2, <1>a, <3>1, RunnersReason
    <3> QED
      BY <3>1 DEF ReasonInv
  <2> QED
    BY <1>0, <1>a, <2>1, <2>2, <2>4 DEF CInv, CancelInv, ContainerInv, CardsInv, OnceInv,
       BegunCompiled, CleanedInv, Unclean
<1>3. ASSUME NEW t \in Task, MakersStep(t)
      PROVE  CInv'
  <2>1. UNCHANGED <<runner, dispatcher, cancelling, worker, evidenceVars>>
    BY <1>3, MakersLeave
  <2>2. UNCHANGED <<phase, late, early, status, call, cancel, container, ran, lines, ingest>>
    BY <2>1 DEF runner, dispatcher, cancelling, worker, evidenceVars
  <2>3. AgentsKeep
    BY <1>0, <1>3, AgentsNext
  <2>4. \A s \in Task : OnceInv(s)'
    <3>1. CASE faults' = 0
      BY <1>0, <1>3, <1>a, <3>1, OnceNext
    <3> QED
      BY <3>1 DEF OnceInv
  <2>5. CardsInv'
    <3>1. CASE faults' = 0
      BY <1>0, <1>3, <1>a, <3>1, CardsNext
    <3> QED
      BY <3>1 DEF CardsInv
  <2>6. ReasonInv'
    <3>1. CASE faults' = 0
      BY <1>0, <1>3, <1>a, <2>1, <2>2, <2>3, <3>1, MakersCompile, OthersReason
         DEF AgentsKeep, Streamed
    <3> QED
      BY <3>1 DEF ReasonInv
  <2>7. \A s \in Task : Written(s)' = Written(s)
    BY <2>2 DEF Written
  <2>8. CancelInv' /\ ContainerInv'
    BY <1>0, <1>a, <2>2, <2>7 DEF CancelInv, ContainerInv, Unclean
  <2>9. \A s \in Task : BegunCompiled(s)' /\ CleanedInv(s)'
    BY <1>0, <2>2, <2>3, <2>7 DEF BegunCompiled, CleanedInv, AgentsKeep
  <2> QED
    BY <2>4, <2>5, <2>6, <2>8, <2>9 DEF CInv
<1>4. ASSUME NEW t \in Task, ExecutionStep(t)
      PROVE  CInv'
  <2>1. UNCHANGED <<runner, proposals, harnessVars>>
    BY <1>4, ExecutionLeaves
  <2>2. UNCHANGED <<phase, late, early, card, proposal, invoked, exitZero, answer>>
    BY <2>1 DEF runner, proposals, harnessVars
  <2>3. \A s \in Task : OnceInv(s)'
    BY <1>0, <1>a, <2>2 DEF OnceInv
  <2>4. CardsInv'
    BY <1>0, <1>a, <2>2 DEF CardsInv
  <2>5. \A s \in Task : BegunCompiled(s)' /\ CleanedInv(s)'
    BY <1>0, <1>4, <2>2, BegunNext
  <2>6. CancelInv' /\ ContainerInv'
    <3>1. CASE faults' = 0
      BY <1>0, <1>4, <1>a, <3>1, CancelNext, ContainerNext
    <3> QED
      BY <3>1 DEF CancelInv, ContainerInv
  <2>7. \A s \in Task : Streamed(s) => Streamed(s)'
    BY <1>0, <1>4, ExecutionNext
  <2>8. ReasonInv'
    <3>1. CASE faults' = 0
      BY <1>0, <1>a, <2>1, <2>2, <2>7, <3>1, OthersReason
    <3> QED
      BY <3>1 DEF ReasonInv
  <2> QED
    BY <2>3, <2>4, <2>5, <2>6, <2>8 DEF CInv
<1> QED
  BY <1>1, <1>2, <1>3, <1>4, StepsOf DEF vars

-----------------------------------------------------------------------------
(* The theorems.                                                           *)

(* Every variable of a qualification run and of the system it is about     *)
(* keeps to its kind; above all, no thread copies a line into the evidence *)
(* that the Worker has not written.                                        *)
THEOREM TypeCorrect == Spec => []TypeOK
<1>1. QInv => TypeOK
  BY DEF QInv
<1> QED
  BY QInit, QNext, <1>1, PTL DEF Spec

(* A Task is COMPLETED only when every line the Worker had to write about  *)
(* its execution is with the master, whatever a cancel copied meanwhile,   *)
(* and wherever a line was cut off (execute ingests before it returns).    *)
THEOREM OutcomesHaveEvidence == Spec => []OutcomeHasEvidence
<1>1. QInv => OutcomeHasEvidence
  BY DEF QInv, ExecutionInv, SettledInv, OutcomeHasEvidence, Noted
<1> QED
  BY QInit, QNext, <1>1, PTL DEF Spec

(* As many items as card counts, and one at least of each count: exactly   *)
(* one of each.                                                            *)
LEMMA ExactlyOne ==
  ASSUME NEW items \in SUBSET Task, OneOfEach(items), NEW c \in Card
  PROVE  \E t \in items : { s \in items : card[s] = c } = {t}
<1>1. IsFiniteSet(items) /\ Cardinality(items) = Cardinality(Card)
  BY FS_Subset, QualificationAssumption DEF OneOfEach
<1>2. PICK f : f = [t \in items |-> card[t]]
  OBVIOUS
<1>3. \A d \in Card : \E t \in items : card[t] = d
  BY DEF OneOfEach, CardsOf
<1>4. \A t \in items : card[t] \in Card
  BY DEF OneOfEach, CardsOf
<1>5. f \in Surjection(items, Card)
  BY <1>2, <1>3, <1>4 DEF Surjection
<1>6. f \in Injection(items, Card)
  BY <1>1, <1>5, FS_SurjSameCardinalityImpliesInj
<1>7. \A s, t \in items : card[s] = card[t] => s = t
  BY <1>2, <1>6 DEF Injection, IsInjective
<1> QED
  BY <1>3, <1>7

(* A verdict of COMPLETED is true: one item of each card count, every one  *)
(* of them processed, reviewed and controlled by an agent that returned,   *)
(* run to a good end, released, and with all of the Worker's notes in the  *)
(* evidence.  _verify_item looks at records only, long after the fact, and *)
(* while the master and a cancel go on (verify_qualification).             *)
THEOREM VerdictsAreTrue == Spec => []VerdictIsTrue
<1>1. QInv => VerdictIsTrue
  <2> SUFFICES ASSUME QInv, phase = "COMPLETED"
               PROVE  /\ \A c \in Card : \E t \in compiled : { s \in compiled : card[s] = c } = {t}
                      /\ \A t \in compiled :
                           /\ \A r \in Role : answer[t][r] = "returned"
                           /\ ran[t] = "well" /\ status[t] = "COMPLETED" /\ ~Active(t)
                           /\ Written(t) \ { "CANCELLED_BY_MASTER" } \subseteq evidence[t]
    BY DEF VerdictIsTrue
  <2>1. /\ compiled \in SUBSET Task /\ OneOfEach(compiled) /\ verified = compiled
        /\ \A t \in Task : lines[t] \in Seq(Event)
    BY DEF QInv, RunnerInv, TypeOK, EvidenceOK
  <2>2. ASSUME NEW t \in compiled
        PROVE  /\ \A r \in Role : answer[t][r] = "returned"
               /\ ran[t] = "well" /\ status[t] = "COMPLETED" /\ ~Active(t)
               /\ Written(t) \ { "CANCELLED_BY_MASTER" } \subseteq evidence[t]
    <3>1. t \in Task /\ proposal[t] = "COMPILED" /\ status[t] = "COMPLETED"
      BY <2>1 DEF QInv, RunnerInv, Streamed
    <3>2. /\ answer[t]["processor"] = "returned" /\ answer[t]["reviewer"] = "returned"
      BY <3>1 DEF QInv, AgentsInv, ProposalInv
    <3>3. lease[t] = "RELEASED" /\ ran[t] = "well" /\ Noted \subseteq evidence[t]
      BY <3>1 DEF QInv, ExecutionInv, SettledInv
    <3>4. answer[t]["worker-controller"] = "returned"
      BY <3>1, <3>3 DEF QInv, ExecutionInv, RanInv
    <3>5. Written(t) \subseteq Event
      BY <2>1, <3>1 DEF Written, ToSet
    <3>6. Written(t) \ { "CANCELLED_BY_MASTER" } \subseteq evidence[t]
      BY <3>3, <3>5 DEF Event, Noted
    <3> QED
      BY <3>1, <3>2, <3>3, <3>4, <3>6 DEF Role, Active
  <2> QED
    BY <2>1, <2>2, ExactlyOne
<1> QED
  BY QInit, QNext, <1>1, PTL DEF Spec

(* The second half of QualificationConcludes.                              *)
BlockedForAReason == phase = "BLOCKED" => faults > 0 \/ late \/ early

(* A run is BLOCKED only for a reason: a fault, an agent that is not done  *)
(* in time, or one that get_status told of an outcome while _transition    *)
(* was still writing it.  Without these, what the master and the Worker    *)
(* recorded passes the checks of verify_qualification and _verify_item     *)
(* that ItemHolds and Concludes state.                                     *)
THEOREM BlockedOnlyForAReason == Spec => []BlockedForAReason
<1>1. QInv /\ CInv => BlockedForAReason
  <2>1. QInv => faults \in 0 .. MaxFault
    BY DEF QInv, TypeOK
  <2> QED
    BY <2>1, QualificationAssumption DEF CInv, ReasonInv, BlockedForAReason
<1>2. Init => QInv /\ CInv
  BY QInit, CInit
<1>3. QInv /\ CInv /\ [Next]_vars => QInv' /\ CInv'
  BY QNext, CNext
<1> QED
  BY <1>1, <1>2, <1>3, PTL DEF Spec
=============================================================================
