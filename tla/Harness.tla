------------------------------- MODULE Harness -------------------------------
(***************************************************************************)
(* ClaudeCodeAdapter (adapters/harness.py): one invocation of an external  *)
(* agent, with its retries and the record of every attempt.  The master    *)
(* invokes the processor and the reviewer of a Proposal, one at a time     *)
(* under the lock of the service; the Worker invokes the controller before *)
(* it executes a plan.  The actions here are steps of Qualification.       *)
(*                                                                         *)
(* What an attempt can do to its caller:                                   *)
(*   valid      exit code 0, and the output validates                      *)
(*   unbound    the same, but the identifiers are not the ones supplied    *)
(*   invalid    exit code 0, and the output does not validate: next try    *)
(*   retryable  timeout, or a failure that speaks of a rate limit          *)
(*   fatal      any other exit code, or nothing was launched               *)
(*   unwritten  valid, but the record cannot be written: the OSError is    *)
(*              taken for a failed launch and the record written again     *)
(***************************************************************************)
EXTENDS Integers

CONSTANTS Task, MaxAttempts   \* the Proposals and their Tasks; 4 attempts

Role == { "processor", "reviewer", "worker-controller" }
Faulty == { "unbound", "invalid", "retryable", "fatal", "unwritten" }
Retried == { "invalid", "retryable" }

ASSUME HarnessAssumption == MaxAttempts \in Nat \ {0}

VARIABLES
  invoked,   \* the attempt each invocation is at, 0 when there is none
  exitZero,  \* the records that have exit code 0 and name what it is about
  answer     \* what the last invocation did: "returned", "raised" or "none"

harnessVars == <<invoked, exitZero, answer>>

HarnessInit ==
  /\ invoked  = [t \in Task |-> [r \in Role |-> 0]]
  /\ exitZero = [t \in Task |-> [r \in Role |-> 0]]
  /\ answer   = [t \in Task |-> [r \in Role |-> "none"]]

HarnessOK ==
  /\ invoked  \in [Task -> [Role -> 0 .. MaxAttempts]]
  /\ exitZero \in [Task -> [Role -> 0 .. MaxAttempts]]
  /\ answer   \in [Task -> [Role -> { "none", "returned", "raised" }]]

(* _invoke begins.  The records of an earlier invocation of the role name  *)
(* another revision, and so another thing than this one is about.          *)
Invoke(t, r) ==
  /\ invoked' = [invoked EXCEPT ![t][r] = 1]
  /\ answer' = [answer EXCEPT ![t][r] = "none"]
  /\ exitZero' = [exitZero EXCEPT ![t][r] = 0]

AttemptOnceMore(t, r, kind) ==   \* mutant: the attempts are counted from 0
  /\ invoked[t][r] > 0
  /\ exitZero' = [exitZero EXCEPT ![t][r] = IF kind = "valid" THEN @ + 1 ELSE @]
  /\ IF kind \in Retried /\ invoked[t][r] <= MaxAttempts
       THEN invoked' = [invoked EXCEPT ![t][r] = @ + 1] /\ UNCHANGED answer
       ELSE /\ invoked' = [invoked EXCEPT ![t][r] = 0]
            /\ answer' = [answer EXCEPT ![t][r] =
                            IF kind = "valid" THEN "returned" ELSE "raised"]

(* One attempt.  Each leaves a record, of which a verdict reads the role,  *)
(* the exit code and the identifiers in the prompt.  The exit code is in   *)
(* it before the output is looked at.                                      *)
Attempt(t, r, kind) ==
  /\ invoked[t][r] > 0
  /\ exitZero' = [exitZero EXCEPT ![t][r] =
                    IF kind \in { "retryable", "fatal" } THEN @ ELSE @ + 1]
  /\ IF kind \in Retried /\ invoked[t][r] < MaxAttempts
       THEN /\ invoked' = [invoked EXCEPT ![t][r] = @ + 1]
            /\ UNCHANGED answer
       ELSE /\ invoked' = [invoked EXCEPT ![t][r] = 0]
            /\ answer' = [answer EXCEPT ![t][r] =
                            IF kind = "valid" THEN "returned" ELSE "raised"]
=============================================================================
