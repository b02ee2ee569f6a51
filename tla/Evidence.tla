------------------------------ MODULE Evidence ------------------------------
(***************************************************************************)
(* How the evidence of an execution gets from the Worker to the master:    *)
(* DockerWorkerDriver._audit appends lines to the inbox of the execution,  *)
(* and after an answered call RemoteWorkerDriver copies the lines it finds *)
(* there into worker-evidence, one file per line, in the thread of the     *)
(* call.  A dispatch and a cancel do so at the same time.  The actions     *)
(* here are steps of Qualification.                                        *)
(***************************************************************************)
EXTENDS Naturals, Sequences, SequencesExt

CONSTANT Task

(* The lines of an execution, named by their event_type.  The line         *)
(* DOCKER_INSPECT_PRE is written just before TASK_VERIFIED_PRE_DOCKER and  *)
(* stands for itself and for it.                                           *)
Required == { "DOCKER_INSPECT_PRE", "DOCKER_START_CONFIRMED",
              "DOCKER_CLEANUP_INSPECTED", "EXECUTION_FINISHED" }
Event == Required \cup { "PREPARED", "PLAN_ACK", "CANCELLED_BY_MASTER" }

Thread == { "dispatch", "cancel" }

VARIABLES
  lines,     \* what the inbox of each Task's execution holds, in order
  torn,      \* Tasks with a line in it that was cut off
  evidence,  \* what is in worker-evidence
  ingest     \* what each thread has still to copy, and what it writes next

Written(t) == ToSet(lines[t])
NoEvent == "NONE"
Idle == [left |-> << >>, next |-> NoEvent]

EvidenceInit ==
  /\ lines = [t \in Task |-> << >>] /\ torn = {}
  /\ evidence = [t \in Task |-> {}]
  /\ ingest = [t \in Task |-> [k \in Thread |-> Idle]]

EvidenceOK ==
  /\ lines \in [Task -> Seq(Event)] /\ torn \subseteq Task
  /\ evidence \in [Task -> SUBSET Event] /\ \A t \in Task : evidence[t] \subseteq Written(t)
  /\ ingest \in [Task -> [Thread -> [left : Seq(Event), next : Event \cup {NoEvent}]]]

(* _audit: one write, which may stop in the middle of the line.  Whatever  *)
(* is appended afterwards continues that line.                             *)
Audit(t, e) ==
  /\ lines' = [lines EXCEPT ![t] = IF t \in torn THEN @ ELSE Append(@, e)]
  /\ UNCHANGED <<torn, evidence, ingest>>
AuditTears(t) ==
  /\ torn' = torn \cup {t}
  /\ UNCHANGED <<lines, evidence, ingest>>

(* _ingest_worker_evidence reads the whole file ...                        *)
ReadsInbox(t, k) ==
  /\ ingest' = [ingest EXCEPT ![t][k] = [left |-> lines[t], next |-> NoEvent]]
  /\ UNCHANGED <<lines, torn, evidence>>

(* ... passes over the lines that have been copied ...                     *)
Looks(t, k) ==
  LET left == ingest[t][k].left
      Copied(i) == left[i] \in evidence[t]
  IN  /\ left # << >> /\ ingest[t][k].next = NoEvent
      /\ \/ /\ \A i \in 1 .. Len(left) : Copied(i)
            /\ ingest' = [ingest EXCEPT ![t][k] = Idle]
         \/ \E i \in 1 .. Len(left) :
              /\ ~Copied(i) /\ \A j \in 1 .. i - 1 : Copied(j)
              /\ ingest' = [ingest EXCEPT ![t][k] =
                    [left |-> SubSeq(left, i + 1, Len(left)), next |-> left[i]]]
      /\ UNCHANGED <<lines, torn, evidence>>

(* ... and writes the first that was not.                                  *)
WritesEvidence(t, k) ==
  /\ ingest[t][k].next \in Event \ evidence[t]
  /\ evidence' = [evidence EXCEPT ![t] = @ \cup { ingest[t][k].next }]
  /\ ingest' = [ingest EXCEPT ![t][k].next = NoEvent]
  /\ UNCHANGED <<lines, torn>>

(* Another thread has written it since: FileExistsError, for the caller.   *)
Collides(t, k) ==
  /\ ingest[t][k].next \in evidence[t]
  /\ ingest' = [ingest EXCEPT ![t][k] = Idle]
  /\ UNCHANGED <<lines, torn, evidence>>

Ingested(t, k) == ingest[t][k] = Idle
=============================================================================
