--------------------------- MODULE ProposalProofs ---------------------------
(* Proofs about Proposal: for any limits, any keys and any order of calls,  *)
(* answers, deadlines and restarts, at most one Task leaves a Proposal, it  *)
(* is compiled from the approved current revision, and the Reviewer is not  *)
(* asked beyond the limit.                                                  *)
EXTENDS Proposal, SequenceTheorems, TLAPS

USE ProposalAssumption

Inv == TypeOK /\ CallInv

LEMMA LastOfContexts ==
  ASSUME NEW s \in Seq(Nat), s # <<>>
  PROVE  Len(s) \in 1 .. Len(s) /\ s[Len(s)] \in Nat
<1>1. Len(s) \in Nat /\ Len(s) # 0
  BY EmptySeq
<1> QED BY <1>1

LEMMA InitType == Init => TypeOK
<1> SUFFICES ASSUME Init PROVE TypeOK
  OBVIOUS
<1>1. contexts \in Seq(Nat) /\ reviewed \in Seq([rev : Nat, decision : Decisions])
  BY DEF Init
<1>2. Len(contexts) = 0
  BY DEF Init
<1>3. call \in Calls \cup {NoCall} /\ 0 \in 0 .. MaxRounds /\ 0 \in 0 .. MaxReviews
  BY DEF Init
<1>4. written \subseteq Tasks /\ leaving \subseteq Tasks /\ queue \subseteq Tasks
  BY DEF Init
<1>5. rev \in 0 .. lastRev /\ lastRev \in Nat /\ loaded \in {0} \cup written
  BY DEF Init
<1>6. state \in States /\ timer \in {"none", "running", "passed"} /\ stage \in Stages
  BY DEF Init, States, Stages
<1>7. rounds \in 0 .. MaxRounds /\ reviewCount \in 0 .. MaxReviews
  BY <1>3 DEF Init
<1>8. aged \in BOOLEAN /\ idem \subseteq Records
  BY DEF Init
<1> QED BY <1>1, <1>3, <1>4, <1>5, <1>6, <1>7, <1>8 DEF TypeOK

(* Every step keeps every variable in its range.                            *)
LEMMA StepType == Inv /\ [Next]_vars => TypeOK'
<1> SUFFICES ASSUME Inv, [Next]_vars PROVE TypeOK'
  OBVIOUS
<1> USE DEF Inv
<1> USE DEF TypeOK, States, Stages, Tasks, Calls, NoCall, Records, Operations, Outcomes,
            Decisions, doc, disk, holder, outside
<1>1. CASE SaveIdempotency
  <2>1. idem' \subseteq Records
    BY <1>1 DEF SaveIdempotency
  <2>2. leaving' \subseteq Tasks
    BY <1>1 DEF SaveIdempotency, CallInv, Compiled
  <2> QED BY <1>1, <2>1, <2>2 DEF SaveIdempotency
<1>2. CASE Expire BY <1>2 DEF Expire
<1>3. CASE DeadlinePasses BY <1>3 DEF DeadlinePasses
<1>4. CASE LifetimePasses BY <1>4 DEF LifetimePasses
<1>5. CASE Cancel BY <1>5 DEF Cancel
<1>6. CASE Review BY <1>6, SMTT(30) DEF Review
<1>7. CASE Decide BY <1>7, SMTT(30) DEF Decide, Saving
<1>8. CASE Freeze BY <1>8, SMTT(30) DEF Freeze
<1>9. CASE CompileFails BY <1>9, SMTT(30) DEF CompileFails, Saving
<1>10. CASE Compile 
  BY <1>10, LastOfContexts DEF Compile, WriteTask, CallInv, Compiling
<1>11. CASE RetryCompilation 
  BY <1>11, LastOfContexts DEF RetryCompilation, WriteTask
<1>12. CASE Publish
  <2>1. call' \in Calls
    BY <1>12 DEF Publish, Saving, CallInv
  <2> QED BY <1>12, <2>1, SMTT(30) DEF Publish, Saving, CallInv
<1>13. CASE HandOver BY <1>13 DEF HandOver
<1>14. CASE Crash
  <2>1. written # {} => Newest(written) \in written
    BY DEF CallInv, Newest
  <2> QED BY <1>14, <2>1, SMTT(30) DEF Crash
<1>15. ASSUME NEW key \in Key, Create(key) PROVE TypeOK'
  BY <1>15, SMTT(30) DEF Create, Saving
<1>16. ASSUME NEW key \in Key, Reply(key) PROVE TypeOK'
  BY <1>16, SMTT(30) DEF Reply, MayReply, Saving
<1>17. ASSUME NEW key \in Key, ReplyFails(key) PROVE TypeOK'
  BY <1>17 DEF ReplyFails
<1>18. ASSUME NEW key \in Key, Resume(key) PROVE TypeOK'
  BY <1>18, SMTT(30) DEF Resume, Saving
<1>19. ASSUME NEW key \in Key, ConfirmAgain(key) PROVE TypeOK'
  BY <1>19 DEF ConfirmAgain
<1>20. ASSUME NEW key \in Key, NEW r \in 1 .. lastRev, Confirm(key, r) PROVE TypeOK'
  BY <1>20, SMTT(30) DEF Confirm, MayConfirm, EnterReview
<1>21. CASE UNCHANGED vars BY <1>21 DEF vars
<1> QED BY <1>1, <1>2, <1>3, <1>4, <1>5, <1>6, <1>7, <1>8, <1>9, <1>10, <1>11, <1>12,
           <1>13, <1>14, <1>15, <1>16, <1>17, <1>18, <1>19, <1>20, <1>21 DEF Next

-----------------------------------------------------------------------------
(* What a call establishes.  Most steps leave the contexts, the reviews,    *)
(* the Tasks and the current revision alone.                                *)
Papers == <<rev, contexts, written, loaded, reviewed>>

LEMMA ApprovedStays ==
  ASSUME TypeOK, NEW r, Approved(r),
         \/ UNCHANGED reviewed
         \/ \E d \in Decisions : reviewed' = Append(reviewed, [rev |-> call.rev, decision |-> d])
  PROVE  Approved(r)'
<1>1. PICK i \in 1 .. Len(reviewed) : reviewed[i] = [rev |-> r, decision |-> "APPROVE"]
  BY DEF Approved
<1>2. i \in 1 .. Len(reviewed') /\ reviewed'[i] = reviewed[i]
  <2>1. CASE UNCHANGED reviewed
    BY <2>1
  <2>2. ASSUME NEW d \in Decisions,
               reviewed' = Append(reviewed, [rev |-> call.rev, decision |-> d])
        PROVE  i \in 1 .. Len(reviewed') /\ reviewed'[i] = reviewed[i]
    BY <1>1, <2>2, SMTT(30) DEF TypeOK
  <2> QED BY <2>1, <2>2
<1> QED BY <1>1, <1>2 DEF Approved

LEMMA PapersStay ==
  ASSUME UNCHANGED Papers
  PROVE  /\ Compiling <=> Compiling'
         /\ Compiled <=> Compiled'
         /\ \A r : Approved(r) <=> Approved(r)'
BY DEF Papers, Compiling, Compiled, Approved

LEMMA SavingTyped ==
  ASSUME TypeOK, NEW op \in Operations, NEW key \in Key \cup {NoKey},
         NEW outcome \in Outcomes, Saving(op, key, outcome)
  PROVE  call' \in Calls
<1>1. call.rev \in Nat
  BY DEF TypeOK, Calls, NoCall
<1> QED BY <1>1 DEF Saving, Calls

LEMMA InitCall == Init => CallInv
BY DEF Init, CallInv, Returned

LEMMA TaskWritten ==
  ASSUME TypeOK, CallInv, WriteTask, Compiling
  PROVE  /\ Compiling' /\ Len(contexts') \in written'
         /\ Compiled => Compiled'
         /\ \A r : Approved(r) <=> Approved(r)'
         /\ \E t \in written' : \A u \in written' : u <= t
<1>1. UNCHANGED <<contexts, rev, reviewed, loaded>> /\ written' = written \cup {Len(contexts)}
  BY DEF WriteTask, doc
<1>2. Len(contexts) \in Nat /\ \A u \in written' : u <= Len(contexts)
  BY <1>1 DEF TypeOK, Tasks
<1> QED BY <1>1, <1>2 DEF Compiling, Compiled, Approved

LEMMA StepCall == Inv /\ [Next]_vars => CallInv'
<1> SUFFICES ASSUME Inv, [Next]_vars PROVE CallInv'
  OBVIOUS
<1>0. TypeOK' /\ TypeOK /\ CallInv
  BY StepType DEF Inv
<1> USE DEF CallInv, Returned, doc, disk, holder, outside
<1>1. CASE SaveIdempotency
  <2>1. UNCHANGED Papers BY <1>1 DEF SaveIdempotency, Papers
  <2> QED BY <1>0, <1>1, <2>1, PapersStay DEF SaveIdempotency, NoCall
<1>2. CASE Expire
  <2>1. UNCHANGED Papers BY <1>2 DEF Expire, Papers
  <2> QED BY <1>0, <1>2, <2>1, PapersStay DEF Expire
<1>3. CASE DeadlinePasses
  <2>1. UNCHANGED Papers BY <1>3 DEF DeadlinePasses, Papers
  <2> QED BY <1>0, <1>3, <2>1, PapersStay DEF DeadlinePasses
<1>4. CASE LifetimePasses
  <2>1. UNCHANGED Papers BY <1>4 DEF LifetimePasses, Papers
  <2> QED BY <1>0, <1>4, <2>1, PapersStay DEF LifetimePasses
<1>5. CASE Cancel
  <2>1. UNCHANGED Papers BY <1>5 DEF Cancel, Papers
  <2> QED BY <1>0, <1>5, <2>1, PapersStay DEF Cancel, Terminal
<1>6. CASE Review
  <2>1. PICK d \in Decisions : reviewed' = Append(reviewed, [rev |-> call.rev, decision |-> d])
    BY <1>6 DEF Review
  <2>2. UNCHANGED <<rev, contexts, written, loaded, idem, leaving, queue, state, call, reviewCount>>
    BY <1>6 DEF Review
  <2>3. stage = "reviewing" /\ stage' = "reviewed" /\ call.rev = rev
    BY <1>0, <1>6 DEF Review
  <2>4. Len(reviewed') = Len(reviewed) + 1 /\ reviewed'[Len(reviewed')].rev = rev /\ reviewed' # <<>>
    BY <2>1, <2>3, <1>0, SMTT(30) DEF TypeOK
  <2>5. \A r : Approved(r) => Approved(r)'
    BY <1>0, <2>1, ApprovedStays
  <2>6. (Compiling => Compiling') /\ (Compiled => Compiled')
    BY <2>2, <2>5 DEF Compiling, Compiled
  <2>7. Len(reviewed) \in Nat /\ reviewCount \in Nat
    BY <1>0 DEF TypeOK
  <2> QED BY <1>0, <2>2, <2>3, <2>4, <2>5, <2>6, <2>7
<1>7. CASE Decide
  <2>1. UNCHANGED Papers BY <1>7 DEF Decide, Papers
  <2>2. CASE Decision = "APPROVE" /\ state' = "COMPILING" /\ stage' = "approved" /\ UNCHANGED <<timer, call>>
    <3>1. Approved(rev)
      <4>1. stage = "reviewed" /\ reviewed # <<>>
        BY <1>0, <1>7 DEF Decide
      <4>2. Len(reviewed) \in 1 .. Len(reviewed)
        BY <1>0, <4>1, EmptySeq DEF TypeOK
      <4>3. reviewed[Len(reviewed)] \in [rev : Nat, decision : Decisions]
        BY <1>0, <4>2, ElementOfSeq DEF TypeOK
      <4>4. reviewed[Len(reviewed)] = [rev |-> rev, decision |-> "APPROVE"]
        BY <1>0, <2>2, <4>1, <4>3 DEF Decision
      <4> QED BY <4>2, <4>4 DEF Approved
    <3> QED BY <1>0, <1>7, <2>1, <2>2, <3>1, PapersStay DEF Decide
  <2>3. ASSUME NEW outcome \in {"PROCESSING_ERROR", "CHANGES_REQUESTED", "REJECTED"},
               Saving("confirm", call.key, outcome), state' = outcome
        PROVE  CallInv'
    <3>1. call.key \in Key \cup {NoKey}
      BY <1>0 DEF TypeOK, Calls, NoCall
    <3>2. call' \in Calls
      BY <1>0, <2>3, <3>1, SavingTyped DEF Operations, Outcomes
    <3> QED BY <1>0, <1>7, <2>1, <2>3, <3>2, PapersStay DEF Decide, Saving
  <2> QED BY <1>7, <2>2, <2>3 DEF Decide
<1>8. CASE Freeze
  <2>1. contexts' = Append(contexts, rev) /\ contexts \in Seq(Nat) /\ rev \in Nat
    BY <1>0, <1>8 DEF Freeze, TypeOK
  <2>2. contexts' # <<>> /\ contexts'[Len(contexts')] = rev
    BY <2>1, SMTT(30)
  <2>3. UNCHANGED <<rev, reviewed, written, loaded, idem, leaving, queue, state, call, reviewCount>>
    BY <1>8 DEF Freeze
  <2>4. stage = "approved" /\ stage' = "frozen" /\ state = "COMPILING"
    BY <1>0, <1>8 DEF Freeze
  <2>5. \A r : Approved(r) <=> Approved(r)'
    BY <2>3 DEF Approved
  <2>6. Compiling'
    BY <1>0, <2>2, <2>3, <2>4, <2>5 DEF Compiling
  <2> QED BY <1>0, <2>3, <2>4, <2>5, <2>6
<1>9. CASE CompileFails
  <2>1. UNCHANGED Papers BY <1>9 DEF CompileFails, Papers
  <2>2. call.key \in Key \cup {NoKey}
    BY <1>0 DEF TypeOK, Calls, NoCall
  <2>3. call' \in Calls
    BY <1>0, <1>9, <2>2, SavingTyped DEF CompileFails, Operations, Outcomes
  <2> QED BY <1>0, <1>9, <2>1, <2>3, PapersStay DEF CompileFails, Saving
<1>10. CASE Compile
  <2> QED BY <1>0, <1>10, TaskWritten DEF Compile, WriteTask
<1>11. CASE RetryCompilation
  <2>1. contexts[Len(contexts)] \in Nat
    BY <1>0, <1>11, LastOfContexts DEF RetryCompilation, TypeOK
  <2>2. call' \in Calls
    BY <1>11, <2>1 DEF RetryCompilation, Calls, Operations, Outcomes
  <2> QED BY <1>0, <1>11, <2>2, TaskWritten DEF RetryCompilation, WriteTask
<1>12. CASE Publish
  <2>1. call.key \in Key \cup {NoKey} /\ call.op \in Operations
    BY <1>0, <1>12 DEF Publish, Calls
  <2>2. call' \in Calls
    BY <1>0, <1>12, <2>1, SavingTyped DEF Publish, Outcomes
  <2>3. Compiled' /\ \A r : Approved(r) <=> Approved(r)'
    BY <1>0, <1>12 DEF Publish, Compiling, Compiled, Approved
  <2>4. Compiling'
    BY <2>3 DEF Compiled
  <2> QED BY <1>0, <1>12, <2>2, <2>3, <2>4 DEF Publish, Saving
<1>13. CASE HandOver
  <2>1. UNCHANGED Papers BY <1>13 DEF HandOver, Papers
  <2>2. Returned' # {} => Returned # {} BY <1>13 DEF HandOver
  <2> QED BY <1>0, <1>13, <2>1, <2>2, PapersStay DEF HandOver
<1>14. CASE Crash
  <2>1. UNCHANGED <<state, rev, contexts, written, reviewed, reviewCount, idem, queue>>
    BY <1>14 DEF Crash
  <2>2. (\A r : Approved(r) <=> Approved(r)') /\ (Compiling <=> Compiling')
    BY <2>1 DEF Approved, Compiling
  <2>3. ASSUME Compiled PROVE Compiled'
    <3>1. Len(contexts) \in written /\ written \subseteq 1 .. Len(contexts) /\ Len(contexts) \in Nat
      BY <1>0, <2>3 DEF Compiled, TypeOK, Tasks
    <3>2. \A t \in written : (\A u \in written : u <= t) => t = Len(contexts)
      BY <3>1
    <3>3. Newest(written) = Len(contexts)
      <4>1. \A u \in written : u <= Len(contexts)
        BY <3>1
      <4> QED BY <3>1, <3>2, <4>1 DEF Newest
    <3> QED BY <1>14, <2>1, <2>2, <2>3, <3>1, <3>3 DEF Crash, Compiled
  <2>4. Returned' # {} => Returned # {}
    BY <1>14 DEF Crash
  <2>5. Returned' \subseteq {loaded'}
    BY <1>0, <1>14, <2>1, <2>3 DEF Crash, Compiled
  <2> QED BY <1>0, <1>14, <2>1, <2>2, <2>3, <2>4, <2>5 DEF Crash
<1>15. ASSUME NEW key \in Key, Create(key) PROVE CallInv'
  <2>1. call' \in Calls
    BY <1>0, <1>15, SavingTyped DEF Create, Operations, Outcomes
  <2>2. Returned' = Returned /\ idem' = idem /\ Len(reviewed') = Len(reviewed)
    BY <1>15 DEF Create
  <2> QED BY <1>0, <1>15, <2>1, <2>2 DEF Create, Saving
<1>16. ASSUME NEW key \in Key, Reply(key) PROVE CallInv'
  <2>1. call' \in Calls
    BY <1>0, <1>16, SavingTyped DEF Reply, Operations, Outcomes
  <2>2. rev' # 0
    BY <1>0, <1>16 DEF Reply, TypeOK
  <2>3. Returned' = {} /\ ~ \E i \in idem' : i.outcome = "COMPILED"
    BY <1>0, <1>16 DEF Reply, MayReply, Terminal
  <2> QED BY <1>0, <1>16, <2>1, <2>2, <2>3 DEF Reply, MayReply, Saving
<1>17. ASSUME NEW key \in Key, ReplyFails(key) PROVE CallInv'
  <2>1. UNCHANGED Papers BY <1>17 DEF ReplyFails, Papers
  <2> QED BY <1>0, <1>17, <2>1, PapersStay DEF ReplyFails, MayReply, Terminal
<1>18. ASSUME NEW key \in Key, Resume(key) PROVE CallInv'
  <2>1. UNCHANGED Papers BY <1>18 DEF Resume, Papers
  <2>2. call' \in Calls
    BY <1>0, <1>18, SavingTyped DEF Resume, Operations, Outcomes
  <2> QED BY <1>0, <1>18, <2>1, <2>2, PapersStay DEF Resume, Saving
<1>19. ASSUME NEW key \in Key, ConfirmAgain(key) PROVE CallInv'
  <2>1. UNCHANGED Papers BY <1>19 DEF ConfirmAgain, Papers
  <2> QED BY <1>0, <1>19, <2>1, PapersStay DEF ConfirmAgain
<1>20. ASSUME NEW key \in Key, NEW r \in 1 .. lastRev, Confirm(key, r) PROVE CallInv'
  <2>1. UNCHANGED Papers BY <1>20 DEF Confirm, Papers
  <2>2. call' \in Calls
    BY <1>20 DEF Confirm, Calls, Operations, Outcomes
  <2>3. r = rev /\ call'.rev = rev /\ rev' = rev /\ rev # 0
    BY <1>0, <1>20 DEF Confirm, MayConfirm
  <2>4. reviewCount' = reviewCount + 1 /\ reviewed' = reviewed /\ Len(reviewed) \in Nat /\ reviewCount \in Nat
    BY <1>0, <1>20 DEF Confirm, EnterReview, TypeOK
  <2>5. state = "AWAITING_CONFIRMATION" /\ state' = "IN_REVIEW" /\ stage' = "reviewing"
    BY <1>20 DEF Confirm, MayConfirm, EnterReview
  <2>6. UNCHANGED <<written, idem, leaving, queue>>
    BY <1>20 DEF Confirm
  <2> QED BY <1>0, <2>1, <2>2, <2>3, <2>4, <2>5, <2>6, PapersStay
<1>21. CASE UNCHANGED vars
  <2>1. UNCHANGED Papers BY <1>21 DEF vars, Papers
  <2> QED BY <1>0, <1>21, <2>1, PapersStay DEF vars
<1> QED BY <1>1, <1>2, <1>3, <1>4, <1>5, <1>6, <1>7, <1>8, <1>9, <1>10, <1>11, <1>12,
           <1>13, <1>14, <1>15, <1>16, <1>17, <1>18, <1>19, <1>20, <1>21 DEF Next

-----------------------------------------------------------------------------
THEOREM Invariance == Spec => []Inv
<1>1. Init => Inv
  BY InitType, InitCall DEF Inv
<1>2. Inv /\ [Next]_vars => Inv'
  BY StepType, StepCall DEF Inv
<1> QED BY <1>1, <1>2, PTL DEF Spec

LEMMA InvImplies ==
  Inv => /\ TypeOK /\ ReviewsWithinLimit /\ OneTask /\ ApprovedOnly
         /\ TaskMeansCompiled
<1> SUFFICES ASSUME Inv
             PROVE  /\ TypeOK /\ ReviewsWithinLimit /\ OneTask /\ ApprovedOnly
                    /\ TaskMeansCompiled
  OBVIOUS
<1>1. TypeOK /\ CallInv
  BY DEF Inv
<1>2. ReviewsWithinLimit
  BY <1>1 DEF TypeOK, CallInv, ReviewsWithinLimit
<1>3. TaskMeansCompiled
  BY <1>1 DEF CallInv, TaskMeansCompiled
<1>4. OneTask
  BY <1>1 DEF TypeOK, CallInv, Compiled, Compiling, OneTask
<1>5. ApprovedOnly
  BY <1>1 DEF CallInv, Compiled, Compiling, ApprovedOnly
<1> QED BY <1>1, <1>2, <1>3, <1>4, <1>5

LEMMA StepCloses ==
  ASSUME Inv, [Next]_vars, state \in Terminal
  PROVE  state' \in {state, "EXPIRED"}
<1>1. CallInv /\ stage \notin {"reviewing", "reviewed", "approved", "frozen", "written"}
  BY DEF Inv, CallInv, Terminal
<1> USE DEF doc
<1>2. CASE \/ SaveIdempotency \/ Expire \/ DeadlinePasses \/ LifetimePasses \/ Cancel
           \/ HandOver \/ Crash \/ RetryCompilation \/ UNCHANGED vars
  BY <1>2 DEF SaveIdempotency, Expire, DeadlinePasses, LifetimePasses, Cancel, HandOver,
              Crash, RetryCompilation, WriteTask, vars, Terminal
<1>3. CASE \/ Review \/ Decide \/ Freeze \/ CompileFails \/ Compile \/ Publish
  BY <1>1, <1>3 DEF Review, Decide, Freeze, CompileFails, Compile, Publish
<1>4. ASSUME NEW key \in Key,
             \/ Create(key) \/ Reply(key) \/ ReplyFails(key) \/ Resume(key)
             \/ ConfirmAgain(key) \/ \E r \in 1 .. lastRev : Confirm(key, r)
      PROVE  state' \in {state, "EXPIRED"}
  BY <1>4 DEF Create, Reply, ReplyFails, MayReply, Resume, ConfirmAgain, Confirm,
              MayConfirm, Terminal
<1> QED BY <1>2, <1>3, <1>4 DEF Next

(* No call sequence leads out of a variable's range; in particular the      *)
(* rounds and reviews stay within their limits.                             *)
THEOREM TypeCorrect == Spec => []TypeOK
BY Invariance, InvImplies, PTL

(* The Reviewer is never asked more often than the limit, whatever fails    *)
(* and whenever the master stops.                                           *)
THEOREM ReviewsBounded == Spec => []ReviewsWithinLimit
BY Invariance, InvImplies, PTL

(* One Task per Proposal, the same one at every call and after a restart.   *)
THEOREM OneTaskLeaves == Spec => []OneTask
BY Invariance, InvImplies, PTL

(* What leaves was compiled from the revision the Reviewer approved and     *)
(* which is still the current one.                                          *)
THEOREM OnlyApprovedLeaves == Spec => []ApprovedOnly
BY Invariance, InvImplies, PTL

(* A rejected, cancelled or open Proposal has no Task in the scheduler.     *)
THEOREM TaskOnlyIfCompiled == Spec => []TaskMeansCompiled
BY Invariance, InvImplies, PTL

(* No call leaves a terminal state except for EXPIRED.                      *)
THEOREM ClosedStaysClosed == Spec => ClosedForGood
<1>1. Inv /\ [Next]_vars => [(state \in Terminal) => (state' \in {state, "EXPIRED"})]_vars
  BY StepCloses
<1> QED BY <1>1, Invariance, PTL DEF Spec, ClosedForGood
=============================================================================
