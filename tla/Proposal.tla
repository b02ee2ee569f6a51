------------------------------ MODULE Proposal ------------------------------
(* One Proposal in the hands of ProposalService (proposal/service.py), from *)
(* its creation to the Task that leaves for the scheduler.                  *)
(*                                                                          *)
(* The service holds one lock for the whole of every call, so calls do not  *)
(* interleave; what does happen inside a call is that the master stops.     *)
(* Every call is therefore cut where it has written something to disk, and  *)
(* Crash may happen at each cut.  The master assigns a Proposal and writes  *)
(* it in one breath: the two are one variable here.  Two Proposals share    *)
(* nothing but the lock, so the module is about one.                        *)
(*                                                                          *)
(* Revisions are numbered in the order of creation; so are Compilation      *)
(* Contexts, and a Task has the number of its context (the task_id is part  *)
(* of it).  What the harness answers, what a revision says and when a       *)
(* deadline passes are choices.                                             *)
(*                                                                          *)
(* The code orders by the clock what is ordered by its number here: Tasks by*)
(* file names that begin with a time, Proposals by updated_at, contexts by  *)
(* created_at.  The module is about a clock that does not step back.        *)
EXTENDS Integers, Sequences

CONSTANTS
  Key,         \* idempotency keys the submitter uses
  MaxRounds,   \* processor_rounds never exceeds it (8 in the code)
  MaxReviews,  \* nor review_count this (4 in the code)
  NoKey,       \* the admin's retry has no key
  Faults       \* "crash", "time": what may happen in this instance

ASSUME ProposalAssumption ==
  /\ MaxRounds \in Nat \ {0}
  /\ MaxReviews \in Nat
  /\ NoKey \notin Key

VARIABLES
  state,       \* proposal.state, "NONE" before create
  rounds,      \* proposal.processor_rounds
  reviewCount, \* proposal.review_count
  rev,         \* proposal.current_revision_id, 0 when there is none
  lastRev,     \* the newest revision
  timer,       \* proposal.submitter_deadline: "none", "running" or "passed"
  aged,        \* proposal.expires_at has passed
  idem,        \* _idempotency, in memory and on disk
  contexts,    \* compilation-contexts: the revision of each
  written,     \* tasks on disk
  loaded,      \* record.task, 0 when there is none
  stage,       \* where the call that holds the lock is
  call,        \* and what it is: its operation, key and revision
  reviewed,    \* every answer of harness.review, in order (history)
  leaving,     \* Tasks returned by a call, not yet given to enqueue
  queue        \* Tasks given to Scheduler.enqueue

doc     == <<state, rounds, reviewCount, rev, timer>>
disk    == <<lastRev, idem, contexts, written, reviewed>>
holder  == <<stage, call>>
outside == <<leaving, queue>>
vars    == <<doc, disk, aged, loaded, holder, outside>>

States == {"NONE", "CLARIFYING", "AWAITING_CONFIRMATION", "IN_REVIEW",
           "CHANGES_REQUESTED", "REJECTED", "EXPIRED", "CANCELLED",
           "COMPILING", "COMPILED", "COMPILE_FAILED", "PROCESSING_ERROR"}
TerminalNotCompiled == {"REJECTED", "EXPIRED", "CANCELLED"}   \* mutant
Terminal == {"REJECTED", "EXPIRED", "CANCELLED", "COMPILED"}
Operations == {"create", "reply", "confirm", "resume", "retry"}
Outcomes == {"DONE", "PROCESSING_ERROR", "CHANGES_REQUESTED", "REJECTED",
             "COMPILE_FAILED", "COMPILED"}
Decisions == {"APPROVE", "REQUEST_CHANGES", "REJECT", "ERROR"}
Tasks == 1 .. Len(contexts)

NoCall == [op |-> "none", key |-> NoKey, rev |-> 0, outcome |-> "DONE"]

Init ==
  /\ state = "NONE" /\ rounds = 0 /\ reviewCount = 0 /\ rev = 0 /\ timer = "none"
  /\ lastRev = 0 /\ idem = {} /\ contexts = <<>> /\ written = {} /\ reviewed = <<>>
  /\ aged = FALSE /\ loaded = 0
  /\ stage = "idle" /\ call = NoCall
  /\ leaving = {} /\ queue = {}

-----------------------------------------------------------------------------
(* The lock, the keys and the clock.                                        *)

Recorded(op, key) == \E i \in idem : i.op = op /\ i.key = key

(* The call comes to an end by recording its outcome under its key ...      *)
Saving(op, key, outcome) ==
  /\ stage' = "saving"
  /\ call' = [op |-> op, key |-> key, rev |-> call.rev, outcome |-> outcome]

(* ... which is the last write of a call; a compiled Task is then returned. *)
SaveIdempotency ==
  /\ stage = "saving"
  /\ idem' = IF call.key = NoKey THEN idem
             ELSE idem \cup {[op |-> call.op, key |-> call.key, outcome |-> call.outcome]}
  /\ leaving' = IF call.outcome = "COMPILED" THEN leaving \cup {loaded} ELSE leaving
  /\ stage' = "idle" /\ call' = NoCall
  /\ UNCHANGED <<doc, lastRev, contexts, written, reviewed, aged, loaded, queue>>

(* _check_lifetime looks at the two deadlines, not at the state.            *)
Overdue == aged \/ timer = "passed"

Expire ==
  /\ stage = "idle" /\ state # "NONE" /\ Overdue
  /\ state' = "EXPIRED"
  /\ UNCHANGED <<rounds, reviewCount, rev, timer, disk, aged, loaded, holder, outside>>

DeadlinePasses ==
  /\ "time" \in Faults /\ timer = "running"
  /\ timer' = "passed"
  /\ UNCHANGED <<state, rounds, reviewCount, rev, disk, aged, loaded, holder, outside>>

LifetimePasses ==
  /\ "time" \in Faults /\ state # "NONE" /\ ~aged
  /\ aged' = TRUE
  /\ UNCHANGED <<doc, disk, loaded, holder, outside>>

-----------------------------------------------------------------------------
(* The clarifying dialogue.                                                 *)

(* The first revision.  Facts that do not fit the policy undo everything,   *)
(* which is no step; a Processor that fails leaves a Proposal behind.       *)
Create(key) ==
  /\ stage = "idle" /\ state = "NONE"
  /\ rounds' = 1 /\ lastRev' = 1
  /\ \/ state' = "AWAITING_CONFIRMATION" /\ rev' = 1 /\ timer' = "running"
     \/ state' = "PROCESSING_ERROR" /\ rev' = 0 /\ timer' = "none"
  /\ Saving("create", key, "DONE")
  /\ UNCHANGED <<reviewCount, idem, contexts, written, reviewed, aged, loaded, outside>>

(* A further revision, from any state that is not terminal.                 *)
MayReplyUnlimited(key) ==   \* mutant: rounds are counted, not limited
  stage = "idle" /\ state \notin {"NONE"} \cup Terminal /\ ~Overdue /\ ~Recorded("reply", key)
MayReplyClosed(key) ==      \* mutant: the state is not looked at
  stage = "idle" /\ state # "NONE" /\ ~Overdue /\ ~Recorded("reply", key) /\ rounds < MaxRounds
MayReply(key) ==
  /\ stage = "idle" /\ state # "NONE" /\ ~Overdue
  /\ ~Recorded("reply", key)
  /\ state \notin Terminal
  /\ rounds + 1 <= MaxRounds

Reply(key) ==
  /\ MayReply(key)
  /\ state' = "AWAITING_CONFIRMATION"
  /\ rounds' = rounds + 1
  /\ lastRev' = lastRev + 1 /\ rev' = lastRev'
  /\ timer' = "running"
  /\ Saving("reply", key, "DONE")
  /\ UNCHANGED <<reviewCount, idem, contexts, written, reviewed, aged, loaded, outside>>

(* The Processor fails: the round is not counted, the key not recorded.     *)
ReplyFails(key) ==
  /\ MayReply(key)
  /\ state' = "PROCESSING_ERROR"
  /\ UNCHANGED <<rounds, reviewCount, rev, timer, disk, aged, loaded, holder, outside>>

(* No deadline is looked at here.                                           *)
ResumeFresh(key) ==   \* mutant: the count of reviews starts again
  /\ stage = "idle" /\ ~Recorded("resume", key) /\ state = "PROCESSING_ERROR"
  /\ state' = "CLARIFYING" /\ reviewCount' = 0
  /\ Saving("resume", key, "DONE")
  /\ UNCHANGED <<rounds, rev, timer, disk, aged, loaded, outside>>
Resume(key) ==
  /\ stage = "idle"
  /\ ~Recorded("resume", key)
  /\ state = "PROCESSING_ERROR"
  /\ state' = "CLARIFYING"
  /\ Saving("resume", key, "DONE")
  /\ UNCHANGED <<rounds, reviewCount, rev, timer, disk, aged, loaded, outside>>

CancelAnyway ==   \* mutant: a compiled Proposal is cancelled too
  /\ stage = "idle" /\ state # "NONE"
  /\ state' = "CANCELLED"
  /\ UNCHANGED <<rounds, reviewCount, rev, timer, disk, aged, loaded, holder, outside>>
Cancel ==
  /\ stage = "idle" /\ state # "NONE"
  /\ state \notin Terminal
  /\ state' = "CANCELLED"
  /\ UNCHANGED <<rounds, reviewCount, rev, timer, disk, aged, loaded, holder, outside>>

-----------------------------------------------------------------------------
(* Confirmation, review and compilation: one call, five writes.             *)

MayConfirmAny(key, r) ==   \* mutant: an older revision is confirmed
  /\ stage = "idle" /\ ~Overdue /\ ~Recorded("confirm", key)
  /\ state = "AWAITING_CONFIRMATION" /\ reviewCount < MaxReviews
MayConfirm(key, r) ==
  /\ stage = "idle" /\ state # "NONE" /\ ~Overdue
  /\ ~Recorded("confirm", key)
  /\ state = "AWAITING_CONFIRMATION"
  /\ r = rev
  /\ reviewCount + 1 <= MaxReviews

EnterReview ==
  state' = "IN_REVIEW" /\ reviewCount' = reviewCount + 1 /\ timer' = "none"

(* The review is counted, on disk, before the Reviewer is asked.            *)
Confirm(key, r) ==
  /\ MayConfirm(key, r)
  /\ EnterReview
  /\ stage' = "reviewing"
  /\ call' = [op |-> "confirm", key |-> key, rev |-> r, outcome |-> "DONE"]
  /\ UNCHANGED <<rounds, rev, disk, aged, loaded, outside>>

(* harness.review answers, and the review is written.                       *)
Review ==
  /\ stage = "reviewing"
  /\ \E decision \in Decisions :
       reviewed' = Append(reviewed, [rev |-> call.rev, decision |-> decision])
  /\ stage' = "reviewed"
  /\ UNCHANGED <<doc, lastRev, idem, contexts, written, aged, loaded, call, outside>>

Decision == reviewed[Len(reviewed)].decision

(* The decision becomes the Proposal's state.                               *)
Decide ==
  /\ stage = "reviewed"
  /\ \/ /\ Decision = "APPROVE"
        /\ state' = "COMPILING" /\ stage' = "approved"
        /\ UNCHANGED <<timer, call>>
     \/ /\ Decision = "ERROR"
        /\ state' = "PROCESSING_ERROR" /\ UNCHANGED timer
        /\ Saving("confirm", call.key, "PROCESSING_ERROR")
     \/ /\ Decision = "REQUEST_CHANGES"
        /\ state' = "CHANGES_REQUESTED" /\ timer' = "running"
        /\ Saving("confirm", call.key, "CHANGES_REQUESTED")
     \/ /\ Decision = "REJECT"
        /\ state' = "REJECTED" /\ UNCHANGED timer
        /\ Saving("confirm", call.key, "REJECTED")
  /\ UNCHANGED <<rounds, reviewCount, rev, disk, aged, loaded, outside>>

(* The context with the ids and the time of the Task is frozen on disk.     *)
Freeze ==
  /\ stage = "approved"
  /\ contexts' = Append(contexts, call.rev)
  /\ stage' = "frozen"
  /\ UNCHANGED <<doc, lastRev, idem, written, reviewed, aged, loaded, call, outside>>

CompileFails ==
  /\ stage = "frozen"
  /\ state' = "COMPILE_FAILED"
  /\ Saving("confirm", call.key, "COMPILE_FAILED")
  /\ UNCHANGED <<rounds, reviewCount, rev, timer, disk, aged, loaded, outside>>

(* The Task of the newest context is written, if it is not there already.   *)
WriteTask ==
  /\ written' = written \cup {Len(contexts)}
  /\ stage' = "written"
  /\ UNCHANGED <<doc, lastRev, idem, contexts, reviewed, aged, loaded, outside>>

Compile == stage = "frozen" /\ WriteTask /\ UNCHANGED call

(* The admin compiles the newest frozen context again.                      *)
RetryCompilation ==
  /\ stage = "idle"
  /\ state = "COMPILE_FAILED"
  /\ contexts # <<>>
  /\ call' = [op |-> "retry", key |-> NoKey, rev |-> contexts[Len(contexts)],
              outcome |-> "DONE"]
  /\ WriteTask

Publish ==
  /\ stage = "written"
  /\ loaded' = Len(contexts)
  /\ state' = "COMPILED"
  /\ Saving(call.op, call.key, "COMPILED")
  /\ UNCHANGED <<rounds, reviewCount, rev, timer, disk, aged, outside>>

(* A confirm that is repeated with its key returns the Task once more.      *)
ConfirmAgain(key) ==
  /\ stage = "idle" /\ state # "NONE" /\ ~Overdue
  /\ \E i \in idem : i.op = "confirm" /\ i.key = key /\ i.outcome = "COMPILED"
  /\ loaded # 0
  /\ leaving' = leaving \cup {loaded}
  /\ UNCHANGED <<doc, disk, aged, loaded, holder, queue>>

-----------------------------------------------------------------------------
(* The API layer hands the Task over after the lock is released.            *)
HandOver ==
  /\ \E t \in leaving :
       /\ queue' = queue \cup {t}
       /\ leaving' = leaving \ {t}
  /\ UNCHANGED <<doc, disk, aged, loaded, holder>>

(* The last in the order of files, which is the order of writes as long as  *)
(* the clock goes forward.                                                  *)
Newest(tasks) == CHOOSE t \in tasks : \A u \in tasks : u <= t

(* The master stops at any point and reads its files; the newest state by   *)
(* updated_at is, with such a clock, the one written last.                  *)
Crash ==
  /\ "crash" \in Faults
  /\ stage' = "idle" /\ call' = NoCall
  /\ leaving' = {}
  /\ loaded' = IF written = {} THEN 0 ELSE Newest(written)
  /\ UNCHANGED <<doc, disk, aged, queue>>

-----------------------------------------------------------------------------
Next ==
  \/ SaveIdempotency \/ Expire \/ DeadlinePasses \/ LifetimePasses \/ Cancel
  \/ Review \/ Decide \/ Freeze \/ CompileFails \/ Compile \/ RetryCompilation
  \/ Publish \/ HandOver \/ Crash
  \/ \E key \in Key :
       \/ Create(key) \/ Reply(key) \/ ReplyFails(key) \/ Resume(key)
       \/ ConfirmAgain(key)
       \/ \E r \in 1 .. lastRev : Confirm(key, r)

Spec == Init /\ [][Next]_vars

-----------------------------------------------------------------------------
(* What must hold.                                                          *)

Calls == [op : Operations, key : Key \cup {NoKey}, rev : Nat, outcome : Outcomes]
Records == [op : Operations, key : Key, outcome : Outcomes]
Stages == {"idle", "reviewing", "reviewed", "approved", "frozen", "written", "saving"}

(* Every variable stays in its range, and the rounds stay within the limit  *)
(* of eight that reply enforces.                                            *)
TypeOK ==
  /\ state \in States /\ rounds \in 0 .. MaxRounds /\ reviewCount \in 0 .. MaxReviews
  /\ lastRev \in Nat /\ rev \in 0 .. lastRev /\ timer \in {"none", "running", "passed"}
  /\ aged \in BOOLEAN /\ idem \subseteq Records
  /\ contexts \in Seq(Nat) /\ written \subseteq Tasks
  /\ loaded \in {0} \cup written /\ stage \in Stages
  /\ call \in Calls \cup {NoCall}
  /\ reviewed \in Seq([rev : Nat, decision : Decisions])
  /\ leaving \subseteq Tasks /\ queue \subseteq Tasks

Returned == leaving \cup queue
Approved(r) == \E i \in 1 .. Len(reviewed) : reviewed[i] = [rev |-> r, decision |-> "APPROVE"]

(* The Reviewer is never asked more than four times about a Proposal, even  *)
(* if the master stops while it waits for the answer (confirm persists the  *)
(* count first).                                                            *)
ReviewsWithinLimit == Len(reviewed) <= reviewCount /\ reviewCount <= MaxReviews

(* A Proposal yields one Task: whatever confirm or retry_compilation has    *)
(* ever returned is the Task the service still answers with, across         *)
(* restarts and contexts that were frozen and then abandoned; and a confirm *)
(* recorded as COMPILED can always be answered again (it raises when        *)
(* record.task is None).                                                    *)
OneTask ==
  /\ Returned \subseteq {loaded}
  /\ (\E i \in idem : i.outcome = "COMPILED") => loaded # 0

(* A returned Task was compiled from the current revision, and the Reviewer *)
(* approved exactly that revision.                                          *)
ApprovedOnly == \A t \in Returned : contexts[t] = rev /\ Approved(rev)

(* No Task of a Proposal that was rejected, cancelled or is open again is   *)
(* out: only the lifetime can close a Proposal whose Task was returned.     *)
TaskMeansCompiled == Returned # {} => state \in {"COMPILED", "EXPIRED"}

(* No call leaves a terminal state, except that _check_lifetime turns any   *)
(* of them into EXPIRED.                                                    *)
ClosedForGood == [][(state \in Terminal) => (state' \in {state, "EXPIRED"})]_vars
-----------------------------------------------------------------------------
(* The induction behind the invariants above.                               *)

Compiling == contexts # <<>> /\ contexts[Len(contexts)] = rev /\ Approved(rev)
Compiled  == Compiling /\ Len(contexts) \in written /\ loaded = Len(contexts)

(* What a call has established when it reaches each of its writes: confirm  *)
(* carries the current revision from the review to the context, and a Task  *)
(* on its way out, or recorded under a key, is the Task of the newest       *)
(* context of a Proposal that nothing will open again.                      *)
CallInv ==
  /\ stage \in {"reviewing", "reviewed"} => state = "IN_REVIEW"
  /\ stage \in {"approved", "frozen"} => state = "COMPILING" /\ Approved(rev)
  /\ stage \in {"reviewing", "reviewed", "approved", "frozen"} => call.rev = rev /\ rev # 0
  /\ stage = "reviewed" => reviewed # <<>> /\ reviewed[Len(reviewed)].rev = rev
  /\ stage = "frozen" \/ state = "COMPILE_FAILED" => Compiling
  /\ stage = "written" => /\ Compiling /\ Len(contexts) \in written
                          /\ state \in {"COMPILING", "COMPILE_FAILED"}
  /\ stage = "saving" /\ call.outcome = "COMPILED" => state = "COMPILED"
  /\ state = "COMPILED" => Compiled
  /\ Returned # {} \/ (\E i \in idem : i.outcome = "COMPILED") =>
       Compiled /\ state \in {"COMPILED", "EXPIRED"}
  /\ Returned \subseteq {loaded}
  /\ stage # "idle" => call \in Calls
  /\ state = "AWAITING_CONFIRMATION" => rev # 0
  /\ written # {} => \E t \in written : \A u \in written : u <= t
  /\ Len(reviewed) <= reviewCount
  /\ stage = "reviewing" => Len(reviewed) < reviewCount
=============================================================================
