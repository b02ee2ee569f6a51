------------------------- MODULE WorkerDriverProofs -------------------------
(* Proofs about WorkerDriver: for any number of assignments, calls under    *)
(* way and GPUs, and any order of failing docker commands, restarts and     *)
(* calls given up, the container runs only under the lease of its           *)
(* assignment, can be stopped, and no superseded assignment acts on it.     *)
EXTENDS WorkerDriver, TLAPS

USE DriverAssumption

Call(c, a) == [call |-> c, a |-> a]
Sent(c, a) == \E i \in 1 .. Len(mail) : mail[i] = Call(c, a)
Handled(c, a) == loop.call = c /\ loop.a = a
Pending(c, a) == Sent(c, a) \/ Handled(c, a)

-----------------------------------------------------------------------------
(* The parts of the invariant.                                              *)

(* What the receive loop may be doing.                                      *)
LoopInv ==
  \/ loop = Resting
  \/ /\ loop.at # "idle" /\ loop.a \in Assignment
     /\ loop.call \in Calls \ { "EXECUTE" }
     /\ loop.at = "save" => loop.call \in { "PREPARE", "PLAN" }
     /\ loop.at \in Cleaning \cup { "clean", "unclean" } => loop.call = "CANCEL"

(* An assignment that has not been leased yet has left no trace.            *)
NumberInv ==
  /\ lease < next
  /\ asked.call \in { "none", "CANCEL", "RECONCILE" }
  /\ \A a \in Assignment :
       /\ \A c \in Calls : Pending(c, a) => a < next
       /\ thread[a] # "idle" => a < next
       /\ a \in written => a < next
       /\ stage[a] # "free" => a < next
       /\ Pending("RECONCILE", a) => a \in written

(* The memory and the file: the file is what the memory was before the call *)
(* that is being saved, and the container's epoch is the newest.            *)
Memory == [fence : [Resource -> 0 .. MaxAssignment], prepared : SUBSET Assignment,
           plans : SUBSET Assignment]
MemoryInv ==
  /\ mem \in Memory /\ saved \in Memory
  /\ loop.at # "save" => mem = saved
  /\ saved.prepared \subseteq mem.prepared /\ saved.plans \subseteq mem.plans
  /\ saved.fence[Box] <= mem.fence[Box]
  /\ loop.call # "PREPARE" => mem.fence = saved.fence
  /\ \A a \in mem.prepared : a <= mem.fence[Box]
  /\ \A a \in saved.prepared : a <= saved.fence[Box]
  /\ loop.call = "PLAN" /\ loop.at = "save" => loop.a \in mem.plans
  /\ loop.call = "PLAN" /\ loop.at = "yes" => loop.a \in saved.plans

(* PREPARE and EXECUTE are sent once, and a query stands behind its PREPARE. *)
MailInv ==
  /\ \A i, j \in 1 .. Len(mail) :
       mail[i] = mail[j] /\ mail[i].call \in { "PREPARE", "EXECUTE" } => i = j
  /\ \A i, j \in 1 .. Len(mail) :
       mail[i].call = "STATUS_QUERY" /\ mail[j] = Call("PREPARE", mail[i].a) => j < i
  /\ \A a \in Assignment :
       Handled("PREPARE", a) \/ Handled("STATUS_QUERY", a) => ~Sent("PREPARE", a)

(* What has come how far in the protocol of one assignment.                 *)
Begun(a) == Sent("EXECUTE", a) \/ thread[a] # "idle"
ProtocolInv ==
  \A a \in Assignment :
    /\ Sent("EXECUTE", a) => thread[a] = "idle"
    /\ Begun(a) => a \in written \cap saved.plans /\ stage[a] \in { "EXECUTE", "kept", "free" }
    /\ a \in written =>
         ~Pending("PREPARE", a) /\ stage[a] \notin { "PREPARE", "STATUS_QUERY", "prepared" }
    /\ Pending("PREPARE", a) => stage[a] \in { "PREPARE", "STATUS_QUERY", "kept" }
    /\ stage[a] \in { "PLAN", "planned", "EXECUTE" } => a \in written
    /\ stage[a] \in { "planned", "EXECUTE" } => a \in saved.plans

(* What the lease covers, as long as no RECONCILE has come too early.       *)
Underway(a) == Busy(a) \/ Sent("EXECUTE", a)
LeaseInv ==
  /\ \A a \in Assignment :
       /\ Underway(a) \/ Pending("PREPARE", a) => a = lease
       /\ stage[a] \notin { "free", "kept" } => a = lease
       /\ Pending("RECONCILE", a) => ~Underway(a) /\ stage[a] \in { "kept", "free" }
       /\ thread[a] \in { "validate", "start" } => Current(saved, a)
  /\ loop.call = "RECONCILE" /\ loop.at = "yes" /\ loop.a = lease => box = "stopped"
  /\ box = "running" =>
       /\ lease # 0 /\ stage[lease] \in { "EXECUTE", "kept" }
       /\ thread[lease] \notin { "idle", "check", "validate", "start", "clean" }
       /\ Current(saved, lease)
  /\ inside \subseteq { lease }

Inv ==
  /\ TypeOK /\ LoopInv /\ NumberInv /\ MemoryInv /\ MailInv /\ ProtocolInv
  /\ early = 0 => LeaseInv

-----------------------------------------------------------------------------
(* The mail.                                                                *)

Message == [call : Calls, a : Assignment]

LEMMA MailAppended ==
  ASSUME mail \in Seq(Message), NEW m \in Message, mail' = Append(mail, m)
  PROVE  /\ mail' \in Seq(Message) /\ Len(mail') = Len(mail) + 1 /\ Len(mail) \in Nat
         /\ \A i \in 1 .. Len(mail) : mail'[i] = mail[i]
         /\ mail'[Len(mail) + 1] = m
         /\ \A c, a : Sent(c, a)' <=> Sent(c, a) \/ m = Call(c, a)
<1>1. /\ mail' \in Seq(Message) /\ Len(mail') = Len(mail) + 1 /\ Len(mail) \in Nat
      /\ \A i \in 1 .. Len(mail) : mail'[i] = mail[i]
      /\ mail'[Len(mail) + 1] = m
  OBVIOUS
<1>2. ASSUME NEW c, NEW a PROVE Sent(c, a)' <=> Sent(c, a) \/ m = Call(c, a)
  <2>1. \A i \in 1 .. Len(mail') : i \in 1 .. Len(mail) \/ i = Len(mail) + 1
    BY <1>1
  <2>2. Len(mail) + 1 \in 1 .. Len(mail') /\ 1 .. Len(mail) \subseteq 1 .. Len(mail')
    BY <1>1
  <2> QED BY <1>1, <2>1, <2>2 DEF Sent, Call
<1> QED BY <1>1, <1>2

LEMMA MailTaken ==
  ASSUME mail \in Seq(Message), mail # <<>>, mail' = Tail(mail)
  PROVE  /\ mail' \in Seq(Message) /\ Len(mail) \in Nat \ {0} /\ Len(mail') = Len(mail) - 1
         /\ \A i \in 1 .. Len(mail') : mail'[i] = mail[i + 1] /\ i + 1 \in 1 .. Len(mail)
         /\ Head(mail) \in Message /\ Head(mail) = mail[1] /\ 1 \in 1 .. Len(mail)
         /\ \A c, a : Sent(c, a)' => Sent(c, a)
<1>1. /\ mail' \in Seq(Message) /\ Len(mail) \in Nat \ {0} /\ Len(mail') = Len(mail) - 1
      /\ \A i \in 1 .. Len(mail') : mail'[i] = mail[i + 1]
      /\ Head(mail) \in Message /\ Head(mail) = mail[1]
  OBVIOUS
<1>2. \A i \in 1 .. Len(mail') : i + 1 \in 1 .. Len(mail)
  BY <1>1
<1>3. 1 \in 1 .. Len(mail)
  BY <1>1
<1>4. ASSUME NEW c, NEW a, Sent(c, a)' PROVE Sent(c, a)
  BY <1>1, <1>2, <1>4 DEF Sent, Call
<1> QED BY <1>1, <1>2, <1>3, <1>4

(* A call that is sent: PREPARE and EXECUTE for the first time, and PREPARE *)
(* before its query.                                                        *)
LEMMA CallSent ==
  ASSUME TypeOK, MailInv, loop' = loop, NEW c \in Calls, NEW a \in Assignment, Send(c, a),
         c \in { "PREPARE", "EXECUTE" } => ~Sent(c, a),
         c = "PREPARE" => /\ ~Handled("PREPARE", a) /\ ~Handled("STATUS_QUERY", a)
                          /\ ~Sent("STATUS_QUERY", a)
  PROVE  /\ mail' \in Seq(Message) /\ MailInv'
         /\ \A d, b : Sent(d, b)' <=> Sent(d, b) \/ (d = c /\ b = a)
<1>1. mail \in Seq(Message) /\ Call(c, a) \in Message /\ mail' = Append(mail, Call(c, a))
  BY DEF TypeOK, Message, Call, Send
<1>2. /\ mail' \in Seq(Message) /\ Len(mail') = Len(mail) + 1 /\ Len(mail) \in Nat
      /\ \A i \in 1 .. Len(mail) : mail'[i] = mail[i]
      /\ mail'[Len(mail) + 1] = Call(c, a)
      /\ \A d, b : Sent(d, b)' <=> Sent(d, b) \/ Call(c, a) = Call(d, b)
  BY <1>1, MailAppended
<1>3. \A d, b : Call(c, a) = Call(d, b) <=> d = c /\ b = a
  BY DEF Call
<1>4. \A i \in 1 .. Len(mail') : i \in 1 .. Len(mail) \/ i = Len(mail) + 1
  BY <1>2
<1>5. \A i \in 1 .. Len(mail) : mail[i] \in Message
  BY <1>1
<1>6. ASSUME NEW i \in 1 .. Len(mail'), NEW j \in 1 .. Len(mail'), mail'[i] = mail'[j],
             mail'[i].call \in { "PREPARE", "EXECUTE" }
      PROVE  i = j
  <2>1. CASE i \in 1 .. Len(mail) /\ j \in 1 .. Len(mail)
    BY <1>2, <1>6, <2>1 DEF MailInv
  <2>2. ASSUME NEW k \in 1 .. Len(mail), mail[k] = Call(c, a), c \in { "PREPARE", "EXECUTE" }
        PROVE  FALSE
    BY <2>2 DEF Sent
  <2>3. Call(c, a).call = c
    BY DEF Call
  <2>4. CASE i \in 1 .. Len(mail) /\ j = Len(mail) + 1
    <3>1. mail[i] = Call(c, a) /\ c \in { "PREPARE", "EXECUTE" }
      BY <1>2, <1>6, <2>3, <2>4
    <3> QED BY <2>2, <2>4, <3>1
  <2>5. CASE i = Len(mail) + 1 /\ j \in 1 .. Len(mail)
    <3>1. mail[j] = Call(c, a) /\ c \in { "PREPARE", "EXECUTE" }
      BY <1>2, <1>6, <2>3, <2>5
    <3> QED BY <2>2, <2>5, <3>1
  <2> QED BY <1>4, <2>1, <2>4, <2>5
<1>7. ASSUME NEW i \in 1 .. Len(mail'), NEW j \in 1 .. Len(mail'),
             mail'[i].call = "STATUS_QUERY", mail'[j] = Call("PREPARE", mail'[i].a)
      PROVE  j < i
  <2>1. CASE i \in 1 .. Len(mail) /\ j \in 1 .. Len(mail)
    BY <1>2, <1>7, <2>1 DEF MailInv, Call
  <2>2. CASE i \in 1 .. Len(mail) /\ j = Len(mail) + 1
    <3>1. mail[i].call = "STATUS_QUERY" /\ Call(c, a) = Call("PREPARE", mail[i].a)
      BY <1>2, <1>7, <2>2 DEF Call
    <3>2. c = "PREPARE" /\ mail[i].a = a
      BY <3>1 DEF Call
    <3>3. mail[i] = Call("STATUS_QUERY", a)
      BY <1>5, <2>2, <3>1, <3>2 DEF Message, Call
    <3> QED BY <2>2, <3>2, <3>3 DEF Sent
  <2>3. CASE i = Len(mail) + 1
    <3>1. mail'[i] = Call(c, a) /\ Call(c, a).call = c
      BY <1>2, <2>3 DEF Call
    <3>2. c = "STATUS_QUERY" /\ mail'[i].a = a
      BY <1>7, <3>1 DEF Call
    <3>3. mail'[j].call = "PREPARE"
      BY <1>7 DEF Call
    <3>4. j # i
      BY <1>7, <3>1, <3>2, <3>3
    <3> QED BY <1>2, <1>4, <2>3, <3>4
  <2> QED BY <1>4, <2>1, <2>2, <2>3
<1>8. ASSUME NEW b \in Assignment, loop.call \in { "PREPARE", "STATUS_QUERY" }, loop.a = b
      PROVE  ~Sent("PREPARE", b)'
  BY <1>2, <1>3, <1>8 DEF MailInv, Handled
<1> QED BY <1>2, <1>3, <1>6, <1>7, <1>8 DEF MailInv, Handled, Call

(* The first call is taken: it was sent, and a PREPARE or EXECUTE is not on *)
(* its way any more, nor a PREPARE when its query is taken.                 *)
LEMMA CallTaken ==
  ASSUME TypeOK, MailInv, NEW c, Take(c)
  PROVE  \E a \in Assignment :
           /\ Head(mail) = Call(c, a) /\ Caller = a /\ c \in Calls /\ Sent(c, a)
           /\ mail' \in Seq(Message) /\ (\A d, b : Sent(d, b)' => Sent(d, b))
           /\ c \in { "PREPARE", "EXECUTE" } => ~Sent(c, a)'
           /\ c = "STATUS_QUERY" => ~Sent("PREPARE", a)'
           /\ loop' = loop \/ (\E at : loop' = [call |-> c, a |-> a, at |-> at]) => MailInv'
<1>1. mail \in Seq(Message) /\ mail # <<>> /\ mail' = Tail(mail) /\ Head(mail).call = c
      /\ loop = Resting
  BY DEF TypeOK, Message, Take
<1>2. /\ mail' \in Seq(Message) /\ Len(mail) \in Nat \ {0} /\ Len(mail') = Len(mail) - 1
      /\ \A i \in 1 .. Len(mail') : mail'[i] = mail[i + 1] /\ i + 1 \in 1 .. Len(mail)
      /\ Head(mail) \in Message /\ Head(mail) = mail[1] /\ 1 \in 1 .. Len(mail)
      /\ \A d, b : Sent(d, b)' => Sent(d, b)
  BY <1>1, MailTaken
<1>3. PICK a \in Assignment : Head(mail) = Call(c, a)
  BY <1>1, <1>2 DEF Message, Call
<1>4. Caller = a /\ c \in Calls /\ Sent(c, a)
  BY <1>1, <1>2, <1>3 DEF Message, Call, Caller, Sent
<1>5. ASSUME c \in { "PREPARE", "EXECUTE" }, Sent(c, a)' PROVE FALSE
  <2>1. PICK i \in 1 .. Len(mail') : mail'[i] = Call(c, a)
    BY <1>5 DEF Sent, Call
  <2>2. mail[i + 1] = mail[1] /\ i + 1 \in 1 .. Len(mail) /\ mail[1].call = c
    BY <1>1, <1>2, <1>3, <2>1
  <2>3. i + 1 = 1
    BY <1>2, <1>5, <2>2 DEF MailInv
  <2> QED BY <2>3
<1>6. ASSUME c = "STATUS_QUERY", Sent("PREPARE", a)' PROVE FALSE
  <2>1. PICK i \in 1 .. Len(mail') : mail'[i] = Call("PREPARE", a)
    BY <1>6 DEF Sent, Call
  <2>2. /\ mail[i + 1] = Call("PREPARE", mail[1].a) /\ i + 1 \in 1 .. Len(mail)
        /\ mail[1].call = "STATUS_QUERY"
    BY <1>1, <1>2, <1>3, <1>6, <2>1 DEF Call
  <2>3. i + 1 < 1
    BY <1>2, <2>2 DEF MailInv
  <2> QED BY <2>3
<1>7. ASSUME loop' = loop \/ (\E at : loop' = [call |-> c, a |-> a, at |-> at])
      PROVE  MailInv'
  <2>1. ASSUME NEW i \in 1 .. Len(mail'), NEW j \in 1 .. Len(mail'), mail'[i] = mail'[j],
               mail'[i].call \in { "PREPARE", "EXECUTE" }
        PROVE  i = j
    <3>1. i + 1 = j + 1
      BY <1>2, <2>1, ZenonT(40) DEF MailInv
    <3> QED BY <3>1
  <2>2. ASSUME NEW i \in 1 .. Len(mail'), NEW j \in 1 .. Len(mail'),
               mail'[i].call = "STATUS_QUERY", mail'[j] = Call("PREPARE", mail'[i].a)
        PROVE  j < i
    <3>1. mail[i + 1].call = "STATUS_QUERY" /\ mail[j + 1] = Call("PREPARE", mail[i + 1].a)
      BY <1>2, <2>2 DEF Call
    <3>2. i + 1 \in 1 .. Len(mail) /\ j + 1 \in 1 .. Len(mail)
      BY <1>2
    <3>3. j + 1 < i + 1
      BY <3>1, <3>2 DEF MailInv
    <3> QED BY <3>3
  <2>3. ASSUME NEW b \in Assignment, loop'.call \in { "PREPARE", "STATUS_QUERY" }, loop'.a = b
        PROVE  ~Sent("PREPARE", b)'
    <3>1. loop.call = "none"
      BY <1>1 DEF Resting
    <3>2. loop'.call = c /\ b = a
      BY <1>7, <2>3, <3>1
    <3>3. c = "PREPARE" => ~Sent("PREPARE", a)'
      BY <1>5
    <3> QED BY <1>6, <2>3, <3>2, <3>3
  <2> QED BY <2>1, <2>2, <2>3 DEF MailInv, Handled, Call
<1> QED BY <1>2, <1>3, <1>4, <1>5, <1>6, <1>7

-----------------------------------------------------------------------------
(* The steps of the master.                                                 *)

(* A dispatch that moves on; the lease stays or, where it ends, goes.       *)
LEMMA MovesDoes ==
  ASSUME TypeOK, NEW a \in Assignment, NEW from, NEW to \in Stage, Moves(a, from, to)
  PROVE  /\ stage[a] = from /\ stage' \in [Assignment -> Stage] /\ stage'[a] = to
         /\ \A b \in Assignment : b # a => stage'[b] = stage[b]
         /\ lease' \in 0 .. MaxAssignment /\ lease' \in { 0, lease }
         /\ to # "free" => lease' = lease
         /\ lease' # lease => lease = a /\ lease' = 0 /\ to = "free"
         /\ \A b \in Assignment : b = lease' => b = lease
         /\ from # "free" => \A b \in Assignment : b = lease' => stage'[b] # "free"
<1>1. /\ stage[a] = from /\ stage' \in [Assignment -> Stage] /\ stage'[a] = to
      /\ \A b \in Assignment : b # a => stage'[b] = stage[b]
  BY DEF TypeOK, Moves
<1>2. /\ lease' \in 0 .. MaxAssignment /\ lease' \in { 0, lease }
      /\ to # "free" => lease' = lease
      /\ lease' # lease => lease = a /\ lease' = 0 /\ to = "free"
      /\ to = "free" => lease' # a
  BY DEF TypeOK, Moves, Assignment
<1>3. \A b \in Assignment : b = lease' => b = lease
  BY <1>2 DEF Assignment
<1>4. ASSUME NEW b \in Assignment, b = lease' PROVE stage'[b] # "free"
  BY <1>1, <1>2, <1>3, <1>4 DEF TypeOK
<1> QED BY <1>1, <1>2, <1>3, <1>4

LEMMA LeaseKeeps ==
  ASSUME Inv, Lease
  PROVE  Inv'
<1>1. /\ lease = 0 /\ next \in Assignment /\ lease' = next /\ next' = next + 1
      /\ stage' = [stage EXCEPT ![next] = "PREPARE"] /\ Send("PREPARE", next)
      /\ UNCHANGED <<mem, saved, attached, thread, loop, box, inside, written, asked, early>>
  BY DEF Inv, TypeOK, Lease, workerMemory, container
<1>2. /\ \A c \in Calls : ~Sent(c, next) /\ ~Handled(c, next)
      /\ thread[next] = "idle" /\ next \notin written
  BY <1>1 DEF Inv, NumberInv, Pending, Assignment
<1>3. /\ mail' \in Seq(Message) /\ MailInv'
      /\ \A d, b : Sent(d, b)' <=> Sent(d, b) \/ (d = "PREPARE" /\ b = next)
  BY <1>1, <1>2, CallSent DEF Inv, Calls
<1>4. /\ stage' \in [Assignment -> Stage] /\ stage'[next] = "PREPARE"
      /\ \A b \in Assignment : b # next => stage'[b] = stage[b]
  BY <1>1 DEF Inv, TypeOK, Stage, Waiting
<1>5. TypeOK'
  BY <1>1, <1>3, <1>4 DEF Inv, TypeOK, Message, Assignment
<1>6. LoopInv' /\ MemoryInv'
  BY <1>1 DEF Inv, LoopInv, MemoryInv
<1>7. NumberInv'
  BY <1>1, <1>3, <1>4 DEF Inv, NumberInv, Pending, Handled, Assignment
<1>8. ProtocolInv'
  BY <1>1, <1>2, <1>3, <1>4 DEF Inv, ProtocolInv, Pending, Handled, Begun, Calls, Assignment
<1>9. ASSUME early' = 0 PROVE LeaseInv'
  <2>1. LeaseInv
    BY <1>1, <1>9 DEF Inv
  <2>2. \A b \in Assignment : ~Underway(b) /\ ~Pending("PREPARE", b) /\ stage[b] \in { "free", "kept" }
    BY <1>1, <2>1 DEF LeaseInv, Assignment
  <2>3. box # "running" /\ inside = {}
    BY <1>1, <2>1 DEF Inv, TypeOK, LeaseInv
  <2> QED BY <1>1, <1>2, <1>3, <1>4, <2>1, <2>2, <2>3
          DEF LeaseInv, Underway, Busy, Ended, Pending, Handled, Current, Calls
<1> QED BY <1>3, <1>5, <1>6, <1>7, <1>8, <1>9 DEF Inv

LEMMA SendPlanKeeps ==
  ASSUME Inv, NEW a \in Assignment, SendPlan(a)
  PROVE  Inv'
<1>1. /\ Moves(a, "prepared", "PLAN") /\ written' = written \cup { a } /\ Send("PLAN", a)
      /\ UNCHANGED <<mem, saved, attached, thread, loop, box, inside, next, asked, early>>
  BY DEF SendPlan, workerMemory, container
<1>2. /\ stage[a] = "prepared" /\ stage' \in [Assignment -> Stage] /\ stage'[a] = "PLAN"
      /\ \A b \in Assignment : b # a => stage'[b] = stage[b]
      /\ lease' = lease
  BY <1>1, MovesDoes DEF Inv, Stage, Waiting
<1>3. /\ mail' \in Seq(Message) /\ MailInv'
      /\ \A d, b : Sent(d, b)' <=> Sent(d, b) \/ (d = "PLAN" /\ b = a)
  BY <1>1, CallSent DEF Inv, Calls
<1>4. TypeOK'
  BY <1>1, <1>2, <1>3 DEF Inv, TypeOK, Message
<1>5. LoopInv' /\ MemoryInv'
  BY <1>1 DEF Inv, LoopInv, MemoryInv
<1>6. NumberInv'
  BY <1>1, <1>2, <1>3 DEF Inv, NumberInv, Pending, Handled
<1>7. ProtocolInv'
  BY <1>1, <1>2, <1>3 DEF Inv, ProtocolInv, Pending, Handled, Begun
<1>8. ASSUME early' = 0 PROVE LeaseInv'
  BY <1>1, <1>2, <1>3, <1>8 DEF Inv, LeaseInv, Underway, Busy, Ended, Pending, Handled, Current
<1> QED BY <1>3, <1>4, <1>5, <1>6, <1>7, <1>8 DEF Inv

LEMMA SendExecuteKeeps ==
  ASSUME Inv, NEW a \in Assignment, SendExecute(a)
  PROVE  Inv'
<1>1. /\ Moves(a, "planned", "EXECUTE") /\ Send("EXECUTE", a)
      /\ UNCHANGED <<mem, saved, attached, thread, loop, box, inside, next, written, asked, early>>
  BY DEF SendExecute, workerMemory, container
<1>2. /\ stage[a] = "planned" /\ stage' \in [Assignment -> Stage] /\ stage'[a] = "EXECUTE"
      /\ \A b \in Assignment : b # a => stage'[b] = stage[b]
      /\ lease' = lease
  BY <1>1, MovesDoes DEF Inv, Stage, Waiting
<1>3. ~Sent("EXECUTE", a) /\ thread[a] = "idle" /\ a \in written \cap saved.plans
  BY <1>2 DEF Inv, ProtocolInv, Begun
<1>4. /\ mail' \in Seq(Message) /\ MailInv'
      /\ \A d, b : Sent(d, b)' <=> Sent(d, b) \/ (d = "EXECUTE" /\ b = a)
  BY <1>1, <1>3, CallSent DEF Inv, Calls
<1>5. TypeOK'
  BY <1>1, <1>2, <1>4 DEF Inv, TypeOK, Message
<1>6. LoopInv' /\ MemoryInv'
  BY <1>1 DEF Inv, LoopInv, MemoryInv
<1>7. NumberInv'
  BY <1>1, <1>2, <1>3, <1>4 DEF Inv, NumberInv, Pending, Handled
<1>8. ProtocolInv'
  BY <1>1, <1>2, <1>3, <1>4 DEF Inv, ProtocolInv, Pending, Handled, Begun
<1>9. ASSUME early' = 0 PROVE LeaseInv'
  BY <1>1, <1>2, <1>4, <1>9 DEF Inv, LeaseInv, Underway, Busy, Ended, Pending, Handled, Current
<1> QED BY <1>4, <1>5, <1>6, <1>7, <1>8, <1>9 DEF Inv

(* A dispatch that ends before it has sent EXECUTE has nothing under way.   *)
LEMMA WithdrawKeeps ==
  ASSUME Inv, NEW a \in Assignment, Withdraw(a)
  PROVE  Inv'
<1>1. UNCHANGED <<mem, saved, attached, thread, loop, box, inside, mail, next, written, asked, early>>
  BY DEF Withdraw, workerMemory, container
<1>2. PICK from \in { "prepared", "planned" }, to \in { "free", "kept" } : Moves(a, from, to)
  BY DEF Withdraw
<1>3. /\ stage[a] = from /\ stage' \in [Assignment -> Stage] /\ stage'[a] = to
      /\ \A b \in Assignment : b # a => stage'[b] = stage[b]
      /\ lease' \in 0 .. MaxAssignment /\ lease' \in { 0, lease }
      /\ lease' # lease => lease = a /\ lease' = 0 /\ to = "free"
      /\ \A b \in Assignment : b = lease' => b = lease /\ stage'[b] # "free"
  BY <1>2, MovesDoes DEF Inv, Stage
<1>4. \A d, b : Sent(d, b)' <=> Sent(d, b)
  BY <1>1 DEF Sent, Call
<1>5. ~Begun(a) /\ ~Pending("PREPARE", a)
  BY <1>2, <1>3 DEF Inv, ProtocolInv
<1>6. TypeOK'
  BY <1>1, <1>3 DEF Inv, TypeOK
<1>7. LoopInv' /\ MemoryInv' /\ MailInv'
  BY <1>1, <1>4 DEF Inv, LoopInv, MemoryInv, MailInv, Handled, Call
<1>8. NumberInv'
  BY <1>1, <1>2, <1>3, <1>4 DEF Inv, TypeOK, NumberInv, Pending, Handled
<1>9. ProtocolInv'
  BY <1>1, <1>2, <1>3, <1>4, <1>5 DEF Inv, ProtocolInv, Pending, Handled, Begun
<1>10. ASSUME early' = 0 PROVE LeaseInv'
  <2>1. LeaseInv /\ ~Underway(a)
    BY <1>1, <1>5, <1>10 DEF Inv, Underway, Begun, Busy, Ended
  <2>2. lease = a /\ box # "running" /\ inside = {}
    BY <1>2, <1>3, <2>1 DEF Inv, TypeOK, LeaseInv
  <2>3. \A b \in Assignment : ~Underway(b)' /\ ~Pending("PREPARE", b)'
    BY <1>1, <1>4, <1>5, <2>1, <2>2 DEF LeaseInv, Underway, Busy, Pending, Handled
  <2>4. \A b \in Assignment : Pending("RECONCILE", b)' => stage'[b] \in { "kept", "free" }
    BY <1>1, <1>2, <1>3, <1>4, <2>1 DEF LeaseInv, Pending, Handled
  <2>5. \A b \in Assignment : stage'[b] \in { "free", "kept" }
    BY <1>2, <1>3, <2>1, <2>2 DEF LeaseInv
  <2>6. \A b \in Assignment : thread'[b] \notin { "validate", "start" }
    BY <2>3 DEF Underway, Busy, Ended
  <2> QED BY <1>1, <2>2, <2>3, <2>4, <2>5, <2>6 DEF Inv, TypeOK, LeaseInv
<1> QED BY <1>6, <1>7, <1>8, <1>9, <1>10 DEF Inv

LEMMA GiveUpKeeps ==
  ASSUME Inv, NEW a \in Assignment, GiveUp(a)
  PROVE  Inv'
<1>1. UNCHANGED <<mem, saved, attached, thread, loop, box, inside, next, written, asked, early>>
  BY DEF GiveUp, workerMemory, container
<1>2. PICK from \in Waiting, to \in { "STATUS_QUERY", "kept" } :
        /\ Moves(a, from, to)
        /\ \/ from = "PREPARE" /\ to = "STATUS_QUERY" /\ Send("STATUS_QUERY", a)
           \/ to = "kept" /\ mail' = mail
  BY DEF GiveUp, Waiting
<1>3. /\ stage[a] = from /\ stage' \in [Assignment -> Stage] /\ stage'[a] = to
      /\ \A b \in Assignment : b # a => stage'[b] = stage[b]
      /\ lease' = lease
  BY <1>2, MovesDoes DEF Inv, Stage, Waiting
<1>4. /\ mail' \in Seq(Message) /\ MailInv'
      /\ \A d, b : Sent(d, b)' => Sent(d, b) \/ (d = "STATUS_QUERY" /\ b = a)
  <2>1. CASE Send("STATUS_QUERY", a)
    BY <1>1, <2>1, CallSent DEF Inv, Calls
  <2>2. CASE mail' = mail
    BY <1>1, <2>2, ZenonT(40) DEF Inv, TypeOK, MailInv, Message, Sent, Handled, Call
  <2> QED BY <1>2, <2>1, <2>2
<1>5. TypeOK'
  BY <1>1, <1>2, <1>3, <1>4 DEF Inv, TypeOK, Message
<1>6. LoopInv' /\ MemoryInv'
  BY <1>1 DEF Inv, LoopInv, MemoryInv
<1>7. NumberInv'
  BY <1>1, <1>2, <1>3, <1>4 DEF Inv, NumberInv, Pending, Handled, Waiting
<1>8. ProtocolInv'
  BY <1>1, <1>2, <1>3, <1>4 DEF Inv, ProtocolInv, Pending, Handled, Begun, Waiting
<1>9. ASSUME early' = 0 PROVE LeaseInv'
  BY <1>1, <1>2, <1>3, <1>4, <1>9
     DEF Inv, LeaseInv, Underway, Busy, Ended, Pending, Handled, Current, Waiting
<1> QED BY <1>4, <1>5, <1>6, <1>7, <1>8, <1>9 DEF Inv

LEMMA AskCancelKeeps ==
  ASSUME Inv, NEW a \in Assignment, AskCancel(a)
  PROVE  Inv'
<1>1. /\ a \in written /\ asked' = [call |-> "CANCEL", a |-> a] /\ Send("CANCEL", a)
      /\ UNCHANGED <<mem, saved, attached, thread, loop, box, inside, lease, next, stage, written,
                     early>>
  BY DEF AskCancel, workerMemory, container
<1>2. /\ mail' \in Seq(Message) /\ MailInv'
      /\ \A d, b : Sent(d, b)' <=> Sent(d, b) \/ (d = "CANCEL" /\ b = a)
  BY <1>1, CallSent DEF Inv, Calls
<1>3. TypeOK'
  BY <1>1, <1>2 DEF Inv, TypeOK, Message, Calls, Assignment
<1>4. LoopInv' /\ MemoryInv'
  BY <1>1 DEF Inv, LoopInv, MemoryInv
<1>5. NumberInv'
  BY <1>1, <1>2 DEF Inv, NumberInv, Pending, Handled
<1>6. ProtocolInv'
  BY <1>1, <1>2 DEF Inv, ProtocolInv, Pending, Handled, Begun
<1>7. ASSUME early' = 0 PROVE LeaseInv'
  BY <1>1, <1>2, <1>7 DEF Inv, LeaseInv, Underway, Busy, Ended, Pending, Handled, Current
<1> QED BY <1>2, <1>3, <1>4, <1>5, <1>6, <1>7 DEF Inv

(* A RECONCILE in time finds nothing of its assignment under way.           *)
LEMMA AskReconcileKeeps ==
  ASSUME Inv, NEW a \in Assignment, AskReconcile(a)
  PROVE  Inv'
<1>1. /\ lease = a /\ a \in written /\ early \in Nat /\ early' \in 0 .. MaxEarly
      /\ early' = 0 => early = 0 /\ InTime(a)
      /\ asked' = [call |-> "RECONCILE", a |-> a] /\ Send("RECONCILE", a)
      /\ UNCHANGED <<mem, saved, attached, thread, loop, box, inside, lease, next, stage, written>>
  BY DEF Inv, TypeOK, AskReconcile, workerMemory, container
<1>2. /\ mail' \in Seq(Message) /\ MailInv'
      /\ \A d, b : Sent(d, b)' <=> Sent(d, b) \/ (d = "RECONCILE" /\ b = a)
  BY <1>1, CallSent DEF Inv, Calls
<1>3. TypeOK'
  BY <1>1, <1>2 DEF Inv, TypeOK, Message, Calls, Assignment
<1>4. LoopInv' /\ MemoryInv'
  BY <1>1 DEF Inv, LoopInv, MemoryInv
<1>5. NumberInv'
  BY <1>1, <1>2 DEF Inv, NumberInv, Pending, Handled
<1>6. ProtocolInv'
  BY <1>1, <1>2 DEF Inv, ProtocolInv, Pending, Handled, Begun
<1>7. ASSUME early' = 0 PROVE LeaseInv'
  <2>1. early = 0 /\ stage[a] = "kept" /\ ~Underway(a)
    BY <1>1, <1>7 DEF InTime, Quiet, Underway, Sent, Call
  <2> QED BY <1>1, <1>2, <2>1 DEF Inv, LeaseInv, Underway, Busy, Ended, Pending, Handled, Current
<1> QED BY <1>2, <1>3, <1>4, <1>5, <1>6, <1>7 DEF Inv

LEMMA AskingEndsKeeps ==
  ASSUME Inv, AskingEnds
  PROVE  Inv'
<1>1. /\ asked' = Nothing
      /\ UNCHANGED <<mem, saved, attached, thread, loop, box, inside, mail, lease, next, stage,
                     written, early>>
  BY DEF AskingEnds, workerMemory, container
<1>2. \A d, b : Sent(d, b)' <=> Sent(d, b)
  BY <1>1 DEF Sent, Call
<1>3. TypeOK'
  BY <1>1 DEF Inv, TypeOK, Nothing
<1>4. LoopInv' /\ MemoryInv' /\ MailInv'
  BY <1>1, <1>2 DEF Inv, LoopInv, MemoryInv, MailInv, Handled, Call
<1>5. NumberInv'
  BY <1>1, <1>2 DEF Inv, NumberInv, Pending, Handled, Nothing
<1>6. ProtocolInv'
  BY <1>1, <1>2 DEF Inv, ProtocolInv, Pending, Handled, Begun
<1>7. ASSUME early' = 0 PROVE LeaseInv'
  BY <1>1, <1>2, <1>7 DEF Inv, LeaseInv, Underway, Busy, Ended, Pending, Handled, Current
<1> QED BY <1>3, <1>4, <1>5, <1>6, <1>7 DEF Inv

-----------------------------------------------------------------------------
(* The steps of the receive loop.                                           *)

LEMMA TakePrepareKeeps ==
  ASSUME Inv, TakePrepare
  PROVE  Inv'
<1>1. /\ loop = Resting
      /\ UNCHANGED <<saved, attached, thread, box, inside, lease, next, stage, written, asked, early>>
  BY DEF TakePrepare, Take, container, master
<1>2. PICK a \in Assignment :
        /\ Head(mail) = Call("PREPARE", a) /\ Caller = a /\ Sent("PREPARE", a)
        /\ mail' \in Seq(Message) /\ (\A d, b : Sent(d, b)' => Sent(d, b))
        /\ ~Sent("PREPARE", a)'
        /\ (\E at : loop' = [call |-> "PREPARE", a |-> a, at |-> at]) => MailInv'
  BY CallTaken DEF Inv, TakePrepare
<1>3. \/ /\ MayPrepare(a) /\ loop' = [call |-> "PREPARE", a |-> a, at |-> "save"]
         /\ mem' = [mem EXCEPT !.fence = [r \in Resource |->
                                            IF r \in Resources(a) THEN a ELSE mem.fence[r]],
                               !.prepared = mem.prepared \cup { a }]
      \/ loop' = [call |-> "PREPARE", a |-> a, at |-> "no"] /\ mem' = mem
  BY <1>2 DEF TakePrepare, Handling, Call
<1>4. MailInv'
  BY <1>2, <1>3
<1>5. mem = saved /\ mem \in Memory
  BY <1>1 DEF Inv, MemoryInv, Resting
<1>6. /\ mem'.fence \in [Resource -> 0 .. MaxAssignment] /\ mem'.plans = mem.plans
      /\ mem'.prepared \subseteq mem.prepared \cup { a } /\ mem.prepared \subseteq mem'.prepared
      /\ mem' \in Memory
  <2> DEFINE f == [r \in Resource |-> IF r \in Resources(a) THEN a ELSE mem.fence[r]]
  <2>1. f \in [Resource -> 0 .. MaxAssignment]
    BY <1>5 DEF Memory, Assignment
  <2> HIDE DEF f
  <2>2. CASE mem' = mem
    BY <1>5, <2>2 DEF Memory
  <2>3. CASE mem' = [mem EXCEPT !.fence = f, !.prepared = mem.prepared \cup { a }]
    <3>1. mem' = [fence |-> f, prepared |-> mem.prepared \cup { a }, plans |-> mem.plans]
      BY <1>5, <2>3 DEF Memory
    <3> QED BY <1>5, <2>1, <3>1 DEF Memory
  <2> QED BY <1>3, <2>2, <2>3 DEF f
<1>7. TypeOK'
  BY <1>1, <1>2, <1>3, <1>6, SMTT(30) DEF Inv, TypeOK, Message, Calls, Assignment
<1>8. LoopInv'
  BY <1>3 DEF LoopInv, Calls, Cleaning
<1>9. NumberInv'
  BY <1>1, <1>2, <1>3 DEF Inv, NumberInv, Pending, Handled, Calls
<1>10. MemoryInv'
  <2>1. CASE mem' = mem
    BY <1>1, <1>3, <1>5, <2>1 DEF Inv, MemoryInv, Resting
  <2>2. CASE /\ MayPrepare(a) /\ loop' = [call |-> "PREPARE", a |-> a, at |-> "save"]
             /\ mem' = [mem EXCEPT !.fence = [r \in Resource |->
                                            IF r \in Resources(a) THEN a ELSE mem.fence[r]],
                                   !.prepared = mem.prepared \cup { a }]
    <3>1. Box \in Resource /\ Box \in Resources(a)
      BY DEF Resource, Resources
    <3>2. mem'.fence[Box] = a /\ mem.fence[Box] <= a /\ mem.fence[Box] \in 0 .. MaxAssignment
      BY <1>5, <2>2, <3>1 DEF Memory, MayPrepare
    <3>3. \A b \in mem'.prepared : b <= a
      <4>1. \A b \in mem.prepared : b \in Assignment /\ b <= mem.fence[Box]
        BY <1>5 DEF Inv, MemoryInv, Memory
      <4> QED BY <1>6, <3>2, <4>1 DEF Assignment
    <3>4. saved' = mem
      BY <1>1, <1>5
    <3> QED BY <1>5, <1>6, <2>2, <3>2, <3>3, <3>4 DEF Inv, MemoryInv
  <2> QED BY <1>3, <2>1, <2>2
<1>11. ProtocolInv'
  BY <1>1, <1>2, <1>3 DEF Inv, ProtocolInv, Pending, Handled, Begun
<1>12. ASSUME early' = 0 PROVE LeaseInv'
  BY <1>1, <1>2, <1>3, <1>12 DEF Inv, LeaseInv, Underway, Busy, Ended, Pending, Handled, Current
<1> QED BY <1>4, <1>7, <1>8, <1>9, <1>10, <1>11, <1>12 DEF Inv

LEMMA TakePlanKeeps ==
  ASSUME Inv, TakePlan
  PROVE  Inv'
<1>1. /\ loop = Resting
      /\ UNCHANGED <<saved, attached, thread, box, inside, lease, next, stage, written, asked, early>>
  BY DEF TakePlan, Take, container, master
<1>2. PICK a \in Assignment :
        /\ Head(mail) = Call("PLAN", a) /\ Caller = a /\ Sent("PLAN", a)
        /\ mail' \in Seq(Message) /\ (\A d, b : Sent(d, b)' => Sent(d, b))
        /\ (\E at : loop' = [call |-> "PLAN", a |-> a, at |-> at]) => MailInv'
  BY CallTaken DEF Inv, TakePlan
<1>3. \/ /\ a \in mem.prepared /\ loop' = [call |-> "PLAN", a |-> a, at |-> "save"]
         /\ mem' = [mem EXCEPT !.plans = mem.plans \cup { a }]
      \/ loop' = [call |-> "PLAN", a |-> a, at |-> "no"] /\ mem' = mem
  BY <1>2 DEF TakePlan, Handling, Call
<1>4. MailInv'
  BY <1>2, <1>3
<1>5. mem = saved /\ mem \in Memory /\ mem.plans \subseteq mem.prepared
  BY <1>1 DEF Inv, TypeOK, MemoryInv, Resting
<1>6. /\ mem'.fence = mem.fence /\ mem'.prepared = mem.prepared /\ mem.plans \subseteq mem'.plans
      /\ mem'.plans \subseteq mem.prepared
      /\ mem' \in Memory
  BY <1>3, <1>5 DEF Memory
<1>7. TypeOK'
  BY <1>1, <1>2, <1>3, <1>5, <1>6, SMTT(30) DEF Inv, TypeOK, Message, Calls, Memory, Assignment
<1>8. LoopInv'
  BY <1>3 DEF LoopInv, Calls, Cleaning
<1>9. NumberInv'
  BY <1>1, <1>2, <1>3 DEF Inv, NumberInv, Pending, Handled, Calls
<1>10. MemoryInv'
  BY <1>1, <1>3, <1>5, <1>6 DEF Inv, MemoryInv, Memory
<1>11. ProtocolInv'
  BY <1>1, <1>2, <1>3 DEF Inv, ProtocolInv, Pending, Handled, Begun
<1>12. ASSUME early' = 0 PROVE LeaseInv'
  BY <1>1, <1>2, <1>3, <1>12 DEF Inv, LeaseInv, Underway, Busy, Ended, Pending, Handled, Current
<1> QED BY <1>4, <1>7, <1>8, <1>9, <1>10, <1>11, <1>12 DEF Inv

LEMMA TakeQueryKeeps ==
  ASSUME Inv, TakeQuery
  PROVE  Inv'
<1>1. /\ loop = Resting
      /\ UNCHANGED <<mem, saved, attached, thread, box, inside, lease, next, stage, written, asked,
                     early>>
  BY DEF TakeQuery, Take, container, master
<1>2. PICK a \in Assignment :
        /\ Head(mail) = Call("STATUS_QUERY", a) /\ Caller = a /\ Sent("STATUS_QUERY", a)
        /\ mail' \in Seq(Message) /\ (\A d, b : Sent(d, b)' => Sent(d, b))
        /\ (\E at : loop' = [call |-> "STATUS_QUERY", a |-> a, at |-> at]) => MailInv'
  BY CallTaken DEF Inv, TakeQuery
<1>3. PICK at \in { "yes", "no" } : loop' = [call |-> "STATUS_QUERY", a |-> a, at |-> at]
  BY <1>2 DEF TakeQuery, Handling, Call
<1>4. MailInv'
  BY <1>2, <1>3
<1>5. TypeOK'
  <2>1. loop' \in [call : Calls \cup { "none" }, a : 0 .. MaxAssignment,
                   at : Cleaning \cup { "idle", "save", "yes", "no", "clean", "unclean" }]
    BY <1>3 DEF Calls, Cleaning, Assignment
  <2> QED BY <1>1, <1>2, <2>1 DEF Inv, TypeOK, Message
<1>6. LoopInv'
  BY <1>3 DEF LoopInv, Calls, Cleaning
<1>7. NumberInv'
  BY <1>1, <1>2, <1>3 DEF Inv, NumberInv, Pending, Handled, Calls
<1>8. MemoryInv'
  BY <1>1, <1>3 DEF Inv, MemoryInv, Resting
<1>9. ProtocolInv'
  BY <1>1, <1>2, <1>3 DEF Inv, ProtocolInv, Pending, Handled, Begun
<1>10. ASSUME early' = 0 PROVE LeaseInv'
  BY <1>1, <1>2, <1>3, <1>10 DEF Inv, LeaseInv, Underway, Busy, Ended, Pending, Handled, Current
<1> QED BY <1>4, <1>5, <1>6, <1>7, <1>8, <1>9, <1>10 DEF Inv

LEMMA TakeCancelKeeps ==
  ASSUME Inv, TakeCancel
  PROVE  Inv'
<1>1. /\ loop = Resting
      /\ UNCHANGED <<mem, saved, attached, thread, box, inside, lease, next, stage, written, asked,
                     early>>
  BY DEF TakeCancel, Take, container, master
<1>2. PICK a \in Assignment :
        /\ Head(mail) = Call("CANCEL", a) /\ Caller = a /\ Sent("CANCEL", a)
        /\ mail' \in Seq(Message) /\ (\A d, b : Sent(d, b)' => Sent(d, b))
        /\ (\E at : loop' = [call |-> "CANCEL", a |-> a, at |-> at]) => MailInv'
  BY CallTaken DEF Inv, TakeCancel
<1>3. PICK at \in { "stop", "no" } : loop' = [call |-> "CANCEL", a |-> a, at |-> at]
  BY <1>2 DEF TakeCancel, Handling, Call
<1>4. MailInv'
  BY <1>2, <1>3
<1>5. TypeOK'
  <2>1. loop' \in [call : Calls \cup { "none" }, a : 0 .. MaxAssignment,
                   at : Cleaning \cup { "idle", "save", "yes", "no", "clean", "unclean" }]
    BY <1>3 DEF Calls, Cleaning, Assignment
  <2> QED BY <1>1, <1>2, <2>1 DEF Inv, TypeOK, Message
<1>6. LoopInv'
  BY <1>3 DEF LoopInv, Calls, Cleaning
<1>7. NumberInv'
  BY <1>1, <1>2, <1>3 DEF Inv, NumberInv, Pending, Handled, Calls
<1>8. MemoryInv'
  BY <1>1, <1>3 DEF Inv, MemoryInv, Resting
<1>9. ProtocolInv'
  BY <1>1, <1>2, <1>3 DEF Inv, ProtocolInv, Pending, Handled, Begun
<1>10. ASSUME early' = 0 PROVE LeaseInv'
  BY <1>1, <1>2, <1>3, <1>10 DEF Inv, LeaseInv, Underway, Busy, Ended, Pending, Handled, Current
<1> QED BY <1>4, <1>5, <1>6, <1>7, <1>8, <1>9, <1>10 DEF Inv

LEMMA TakeReconcileKeeps ==
  ASSUME Inv, TakeReconcile
  PROVE  Inv'
<1>1. /\ loop = Resting
      /\ UNCHANGED <<mem, saved, attached, thread, box, inside, lease, next, stage, written, asked,
                     early>>
  BY DEF TakeReconcile, Take, container, master
<1>2. PICK a \in Assignment :
        /\ Head(mail) = Call("RECONCILE", a) /\ Caller = a /\ Sent("RECONCILE", a)
        /\ mail' \in Seq(Message) /\ (\A d, b : Sent(d, b)' => Sent(d, b))
        /\ (\E at : loop' = [call |-> "RECONCILE", a |-> a, at |-> at]) => MailInv'
  BY CallTaken DEF Inv, TakeReconcile
<1>3. PICK at \in { "yes", "no" } : /\ loop' = [call |-> "RECONCILE", a |-> a, at |-> at]
                                    /\ at = "yes" => box = "stopped"
  BY <1>2 DEF TakeReconcile, Handling, Call
<1>4. MailInv'
  BY <1>2, <1>3
<1>5. TypeOK'
  <2>1. loop' \in [call : Calls \cup { "none" }, a : 0 .. MaxAssignment,
                   at : Cleaning \cup { "idle", "save", "yes", "no", "clean", "unclean" }]
    BY <1>3 DEF Calls, Cleaning, Assignment
  <2> QED BY <1>1, <1>2, <2>1 DEF Inv, TypeOK, Message
<1>6. LoopInv'
  BY <1>3 DEF LoopInv, Calls, Cleaning
<1>7. NumberInv'
  BY <1>1, <1>2, <1>3 DEF Inv, NumberInv, Pending, Handled, Calls
<1>8. MemoryInv'
  BY <1>1, <1>3 DEF Inv, MemoryInv, Resting
<1>9. ProtocolInv'
  BY <1>1, <1>2, <1>3 DEF Inv, ProtocolInv, Pending, Handled, Begun
<1>10. ASSUME early' = 0 PROVE LeaseInv'
  BY <1>1, <1>2, <1>3, <1>10 DEF Inv, LeaseInv, Underway, Busy, Ended, Pending, Handled, Current
<1> QED BY <1>4, <1>5, <1>6, <1>7, <1>8, <1>9, <1>10 DEF Inv

(* EXECUTE is sent once, so that its thread begins from nothing.            *)
LEMMA TakeExecuteKeeps ==
  ASSUME Inv, TakeExecute
  PROVE  Inv'
<1>1. /\ UNCHANGED <<mem, saved, attached, loop, box, inside, lease, next, stage, written, asked,
                     early>>
  BY DEF TakeExecute, container, master
<1>2. PICK a \in Assignment :
        /\ Caller = a /\ Sent("EXECUTE", a) /\ ~Sent("EXECUTE", a)'
        /\ mail' \in Seq(Message) /\ (\A d, b : Sent(d, b)' => Sent(d, b))
        /\ MailInv'
  BY <1>1, CallTaken DEF Inv, TakeExecute
<1>3. thread[a] = "idle"
  BY <1>2 DEF Inv, ProtocolInv
<1>4. PICK n \in { "check", "gone" } : thread' = [thread EXCEPT ![a] = n]
  BY <1>2 DEF TakeExecute
<1>5. /\ thread \in [Assignment -> Thread] /\ thread' \in [Assignment -> Thread] /\ thread'[a] = n
      /\ \A b \in Assignment : b # a => thread'[b] = thread[b]
  BY <1>4 DEF Inv, TypeOK, Thread, Ended
<1>6. TypeOK'
  BY <1>1, <1>2, <1>3, <1>5, ZenonT(40) DEF Inv, TypeOK, Message, Phase
<1>7. LoopInv' /\ MemoryInv'
  BY <1>1 DEF Inv, LoopInv, MemoryInv
<1>8. NumberInv'
  BY <1>1, <1>2, <1>5 DEF Inv, NumberInv, Pending, Handled, Calls
<1>9. ProtocolInv'
  BY <1>1, <1>2, <1>3, <1>5 DEF Inv, ProtocolInv, Pending, Handled, Begun
<1>10. ASSUME early' = 0 PROVE LeaseInv'
  BY <1>1, <1>2, <1>3, <1>5, <1>10
     DEF Inv, LeaseInv, Underway, Busy, Ended, Pending, Handled, Current
<1> QED BY <1>2, <1>6, <1>7, <1>8, <1>9, <1>10 DEF Inv

(* What a docker command leaves of the container.                           *)
LEMMA CleanupEffect ==
  ASSUME TypeOK, NEW s, NEW n, CleanupStep(s, n)
  PROVE  /\ s \in Cleaning /\ n \in (Cleaning \cup { "clean", "unclean" }) \ { "stop" }
         /\ \/ box' = box /\ inside' = inside
            \/ box' = "stopped" /\ inside' = {}
         /\ n = "clean" => box' = "stopped"
<1>1. StopBox => \/ box' = "stopped" /\ inside' = {}
                 \/ box' = box /\ inside' = inside
  BY DEF StopBox, container
<1> QED BY <1>1 DEF CleanupStep, Cleaning, container, TypeOK

LEMMA CancelStepKeeps ==
  ASSUME Inv, CancelStep
  PROVE  Inv'
<1>1. /\ loop.at \in Cleaning
      /\ UNCHANGED <<mem, saved, attached, thread, mail, lease, next, stage, written, asked, early>>
  BY DEF CancelStep, master
<1>2. PICK n : CleanupStep(loop.at, n) /\ loop' = [loop EXCEPT !.at = n]
  BY DEF CancelStep
<1>3. /\ n \in Cleaning \cup { "clean", "unclean" }
      /\ (box' = box /\ inside' = inside) \/ (box' = "stopped" /\ inside' = {})
  BY <1>2, CleanupEffect DEF Inv
<1>4. /\ loop.call = "CANCEL" /\ loop.a \in Assignment
      /\ loop' = [call |-> "CANCEL", a |-> loop.a, at |-> n]
  BY <1>1, <1>2 DEF Inv, TypeOK, LoopInv, Resting, Cleaning
<1>5. \A d, b : Sent(d, b)' <=> Sent(d, b)
  BY <1>1 DEF Sent, Call
<1>6. TypeOK'
  BY <1>1, <1>3, <1>4, ZenonT(40) DEF Inv, TypeOK, Calls, Assignment
<1>7. LoopInv'
  BY <1>3, <1>4 DEF LoopInv, Calls, Cleaning
<1>8. NumberInv' /\ MailInv'
  BY <1>1, <1>4, <1>5 DEF Inv, NumberInv, MailInv, Pending, Handled, Calls, Call
<1>9. MemoryInv'
  BY <1>1, <1>3, <1>4 DEF Inv, MemoryInv, Cleaning
<1>10. ProtocolInv'
  BY <1>1, <1>4, <1>5 DEF Inv, ProtocolInv, Pending, Handled, Begun
<1>11. ASSUME early' = 0 PROVE LeaseInv'
  BY <1>1, <1>3, <1>4, <1>5, <1>11
     DEF Inv, LeaseInv, Underway, Busy, Ended, Pending, Handled, Current
<1> QED BY <1>6, <1>7, <1>8, <1>9, <1>10, <1>11 DEF Inv

(* What is being saved is not what the lease rests on: a PREPARE that is    *)
(* being handled is that of an assignment without a plan.                   *)
LEMMA CurrentIsSaved ==
  ASSUME Inv, early = 0, NEW a \in Assignment, a = lease, a \in written
  PROVE  Current(mem, a) <=> Current(saved, a)
<1>1. loop.call # "PREPARE" \/ loop.at # "save"
  <2>1. ASSUME loop.call = "PREPARE" PROVE FALSE
    <3>1. loop.a \in Assignment /\ Pending("PREPARE", loop.a)
      BY <2>1 DEF Inv, LoopInv, Resting, Handled, Pending
    <3>2. loop.a = lease
      BY <3>1 DEF Inv, LeaseInv
    <3> QED BY <3>1, <3>2 DEF Inv, ProtocolInv
  <2> QED BY <2>1
<1>2. mem.fence = saved.fence
  BY <1>1 DEF Inv, MemoryInv
<1> QED BY <1>2 DEF Current

LEMMA SaveKeeps ==
  ASSUME Inv, Save
  PROVE  Inv'
<1>1. /\ loop.at = "save" /\ saved' = mem
      /\ UNCHANGED <<mem, attached, thread, box, inside, mail, lease, next, stage, written, asked,
                     early>>
  BY DEF Save, container, master
<1>2. /\ loop.call \in { "PREPARE", "PLAN" } /\ loop.a \in Assignment
      /\ loop' = [call |-> loop.call, a |-> loop.a, at |-> "yes"]
  BY <1>1 DEF Inv, TypeOK, LoopInv, Resting, Save
<1>3. \A d, b : Sent(d, b)' <=> Sent(d, b)
  BY <1>1 DEF Sent, Call
<1>4. TypeOK'
  BY <1>1, <1>2 DEF Inv, TypeOK, Calls, Assignment
<1>5. LoopInv'
  BY <1>2 DEF LoopInv, Calls, Cleaning
<1>6. NumberInv' /\ MailInv'
  BY <1>1, <1>2, <1>3 DEF Inv, NumberInv, MailInv, Pending, Handled, Calls, Call
<1>7. MemoryInv'
  <2>1. mem.fence[Box] \in 0 .. MaxAssignment
    BY DEF Inv, MemoryInv, Memory, Resource
  <2> QED BY <1>1, <1>2, <2>1 DEF Inv, MemoryInv
<1>8. ProtocolInv'
  BY <1>1, <1>2, <1>3 DEF Inv, MemoryInv, ProtocolInv, Pending, Handled, Begun
<1>9. ASSUME early' = 0 PROVE LeaseInv'
  <2>1. ASSUME NEW a \in Assignment, Begun(a), a = lease, Current(saved, a)
        PROVE  Current(saved', a)
    <3>1. a \in written
      BY <2>1 DEF Inv, ProtocolInv
    <3> QED BY <1>1, <1>9, <2>1, <3>1, CurrentIsSaved
  <2>2. \A a \in Assignment : Underway(a) => a = lease
    BY <1>1, <1>9 DEF Inv, LeaseInv
  <2>3. ASSUME NEW a \in Assignment, thread[a] \in { "validate", "start" }
        PROVE  Current(saved', a)
    <3>1. Begun(a) /\ Underway(a)
      BY <2>3 DEF Begun, Underway, Busy, Ended
    <3>2. Current(saved, a)
      BY <1>1, <1>9, <2>3 DEF Inv, LeaseInv
    <3> QED BY <2>1, <2>2, <3>1, <3>2
  <2>4. ASSUME box = "running" PROVE Current(saved', lease)
    <3>1. lease \in Assignment /\ Begun(lease) /\ Current(saved, lease)
      BY <1>1, <1>9, <2>4 DEF Inv, TypeOK, LeaseInv, Begun, Assignment
    <3> QED BY <2>1, <3>1
  <2> QED BY <1>1, <1>2, <1>3, <1>9, <2>3, <2>4
          DEF Inv, LeaseInv, Underway, Busy, Ended, Pending, Handled
<1> QED BY <1>4, <1>5, <1>6, <1>7, <1>8, <1>9 DEF Inv

(* What an answer does: the dispatch that waits for it moves on, or an      *)
(* answered RECONCILE takes the leases away.                                *)
LEMMA AnswerDoes ==
  ASSUME TypeOK, NEW c \in Calls, NEW a \in Assignment, NEW yes \in BOOLEAN, Answer(c, a, yes)
  PROVE  /\ asked' \in { asked, Nothing } /\ next' = next /\ written' = written /\ early' = early
         /\ \/ stage' = stage /\ lease' = lease
            \/ /\ c = "RECONCILE" /\ yes /\ lease = a /\ lease' = 0 /\ stage' = stage
            \/ /\ stage[a] = c /\ c \in Waiting
               /\ \E to \in Stage \cap After(c, yes) : Moves(a, c, to)
<1>1. CASE stage[a] = c /\ \E to \in After(c, yes) : Moves(a, c, to)
  <2>1. c \in Waiting
    BY <1>1 DEF TypeOK, Calls, Stage, Waiting
  <2>2. After(c, yes) \subseteq Stage
    BY <2>1 DEF After, Stage, Waiting
  <2> QED BY <1>1, <2>1, <2>2 DEF Answer
<1>2. CASE asked = [call |-> c, a |-> a] /\ c = "RECONCILE" /\ Reconciled(a, yes)
  BY <1>2 DEF Answer, Reconciled
<1>3. CASE UNCHANGED <<stage, lease>>
  BY <1>3 DEF Answer
<1> QED BY <1>1, <1>2, <1>3 DEF Answer

(* What is left to do once an answer is out: an answer that frees the lease *)
(* finds the container stopped and nothing of the assignment under way.     *)
LEMMA ReplyKeeps ==
  ASSUME Inv, Reply
  PROVE  Inv'
<1> DEFINE c == loop.call
           a == loop.a
           yes == loop.at \in { "yes", "clean" }
<1>1. /\ loop.at \in { "yes", "no", "clean", "unclean" } /\ Answer(c, a, yes) /\ loop' = Resting
      /\ UNCHANGED <<mem, saved, attached, thread, box, inside, mail, next, written, early>>
  BY DEF Reply, Answer, container
<1>2. /\ a \in Assignment /\ c \in Calls \ { "EXECUTE" } /\ Handled(c, a) /\ yes \in BOOLEAN
      /\ loop.at \in { "clean", "unclean" } => c = "CANCEL"
      /\ c = "PLAN" /\ yes => a \in saved.plans
  BY <1>1 DEF Inv, LoopInv, MemoryInv, Resting, Handled
<1>3. \A d, b : Sent(d, b)' <=> Sent(d, b)
  BY <1>1 DEF Sent, Call
<1>4. c = "RECONCILE" /\ yes => loop.at = "yes"
  BY <1>2
<1> HIDE DEF c, a, yes
<1>5. /\ asked' \in { asked, Nothing }
      /\ \/ stage' = stage /\ lease' = lease
         \/ /\ c = "RECONCILE" /\ yes /\ lease = a /\ lease' = 0 /\ stage' = stage
         \/ /\ stage[a] = c /\ c \in Waiting
            /\ \E to \in Stage \cap After(c, yes) : Moves(a, c, to)
  BY <1>1, <1>2, AnswerDoes DEF Inv
<1>6. LoopInv'
  BY <1>1 DEF LoopInv
<1>7. MemoryInv' /\ MailInv'
  BY <1>1, <1>3 DEF Inv, MemoryInv, MailInv, Handled, Resting, Call
<1>8. /\ loop' \in [call : Calls \cup { "none" }, a : 0 .. MaxAssignment,
                   at : Cleaning \cup { "idle", "save", "yes", "no", "clean", "unclean" }]
      /\ asked' \in [call : Calls \cup { "none" }, a : 0 .. MaxAssignment]
      /\ asked'.call \in { "none", "CANCEL", "RECONCILE" }
  BY <1>1, <1>5 DEF Inv, TypeOK, NumberInv, Resting, Nothing
<1>9. \A d \in Calls, b \in Assignment : Pending(d, b)' => Sent(d, b)
  BY <1>1, <1>3 DEF Pending, Handled, Resting, Calls
<1>10. \A b \in Assignment : (Begun(b)' <=> Begun(b)) /\ (Underway(b)' <=> Underway(b))
  BY <1>1, <1>3 DEF Begun, Underway, Busy, Ended
<1>11. early' = 0 => LeaseInv
  BY <1>1 DEF Inv
<1>12. CASE stage' = stage /\ lease' = lease
  <2>1. TypeOK'
    BY <1>1, <1>8, <1>12 DEF Inv, TypeOK
  <2>2. NumberInv'
    BY <1>1, <1>8, <1>9, <1>12 DEF Inv, NumberInv, Pending, Calls
  <2>3. ProtocolInv'
    BY <1>1, <1>3, <1>9, <1>10, <1>12 DEF Inv, ProtocolInv, Pending, Calls
  <2>4. ASSUME early' = 0 PROVE LeaseInv'
    <3>1. LeaseInv
      BY <1>11, <2>4
    <3> QED BY <1>1, <1>9, <1>10, <1>12, <3>1 DEF LeaseInv, Pending, Current, Resting, Calls
  <2> QED BY <1>6, <1>7, <2>1, <2>2, <2>3, <2>4 DEF Inv
<1>13. CASE c = "RECONCILE" /\ yes /\ lease = a /\ lease' = 0 /\ stage' = stage
  <2>1. \A b \in Assignment : b # lease'
    BY <1>13 DEF Assignment
  <2>2. TypeOK'
    BY <1>1, <1>8, <1>13, <2>1 DEF Inv, TypeOK
  <2>3. NumberInv'
    <3>1. lease' < next'
      BY <1>1, <1>13 DEF Inv, TypeOK
    <3> QED BY <1>1, <1>8, <1>9, <1>13, <3>1 DEF Inv, NumberInv, Pending, Calls
  <2>4. ProtocolInv'
    BY <1>1, <1>3, <1>9, <1>10, <1>13 DEF Inv, ProtocolInv, Pending, Calls
  <2>5. ASSUME early' = 0 PROVE LeaseInv'
    <3>1. LeaseInv
      BY <1>11, <2>5
    <3>2. Pending("RECONCILE", a) /\ ~Underway(a) /\ stage[a] \in { "kept", "free" }
      BY <1>2, <1>13, <3>1 DEF LeaseInv, Pending
    <3>3. a \in written
      BY <1>2, <3>2 DEF Inv, NumberInv
    <3>4. box = "stopped"
      BY <1>4, <1>13, <3>1 DEF LeaseInv, a, c
    <3>5. inside = {}
      BY <3>4 DEF Inv, TypeOK
    <3>6. \A b \in Assignment : ~Underway(b) /\ ~Pending("PREPARE", b)
      BY <1>2, <1>13, <3>1, <3>2, <3>3 DEF Inv, LeaseInv, ProtocolInv
    <3>7. \A b \in Assignment : ~Underway(b)' /\ ~Pending("PREPARE", b)'
      BY <1>9, <1>10, <3>6 DEF Pending, Calls
    <3>8. \A b \in Assignment : Pending("RECONCILE", b)' => stage'[b] \in { "kept", "free" }
      BY <1>9, <1>13, <3>1 DEF LeaseInv, Pending, Calls
    <3>9. \A b \in Assignment : stage'[b] \in { "free", "kept" }
      BY <1>2, <1>13, <3>1, <3>2 DEF LeaseInv
    <3>10. \A b \in Assignment : thread'[b] \notin { "validate", "start" }
      BY <3>7 DEF Underway, Busy, Ended
    <3> QED BY <1>1, <3>4, <3>5, <3>7, <3>8, <3>9, <3>10 DEF LeaseInv, Resting
  <2> QED BY <1>6, <1>7, <2>2, <2>3, <2>4, <2>5 DEF Inv
<1>14. CASE /\ stage[a] = c /\ c \in Waiting
            /\ \E to \in Stage \cap After(c, yes) : Moves(a, c, to)
  <2>1. PICK to \in Stage \cap After(c, yes) : Moves(a, c, to)
    BY <1>14
  <2>2. /\ stage' \in [Assignment -> Stage] /\ stage'[a] = to
        /\ \A b \in Assignment : b # a => stage'[b] = stage[b]
        /\ lease' \in 0 .. MaxAssignment /\ lease' \in { 0, lease }
        /\ lease' # lease => lease = a /\ lease' = 0 /\ to = "free"
        /\ \A b \in Assignment : b = lease' => b = lease /\ stage'[b] # "free"
    BY <1>2, <1>14, <2>1, MovesDoes DEF Inv, Waiting
  <2>3. \/ c = "PREPARE" /\ to \in { "prepared", "free" }
        \/ c = "STATUS_QUERY" /\ to \in { "free", "kept" }
        \/ c = "PLAN" /\ to = "planned" /\ a \in saved.plans
        \/ c = "PLAN" /\ to = "kept"
    BY <1>2, <1>14, <2>1 DEF After, Waiting
  <2>4. ~Sent("PREPARE", a) /\ ~Begun(a)
    <3>1. c \in { "PREPARE", "STATUS_QUERY" } => ~Sent("PREPARE", a)
      BY <1>2 DEF Inv, MailInv
    <3>2. c = "PLAN" => ~Sent("PREPARE", a)
      BY <1>2, <1>14 DEF Inv, ProtocolInv, Pending
    <3> QED BY <1>2, <1>14, <2>3, <3>1, <3>2 DEF Inv, ProtocolInv
  <2>5. a \in written => c = "PLAN"
    BY <1>2, <1>14, <2>3 DEF Inv, ProtocolInv
  <2>6. c = "PLAN" => a \in written
    BY <1>2, <1>14 DEF Inv, ProtocolInv
  <2>7. TypeOK'
    BY <1>1, <1>8, <2>2 DEF Inv, TypeOK
  <2>8. NumberInv'
    <3>1. lease' < next'
      BY <1>1, <2>2 DEF Inv, TypeOK, NumberInv
    <3>2. \A b \in Assignment : stage'[b] # "free" => stage[b] # "free"
      BY <1>14, <2>2 DEF Waiting
    <3> QED BY <1>1, <1>8, <1>9, <3>1, <3>2 DEF Inv, NumberInv, Pending, Calls
  <2>9. ProtocolInv'
    <3>1. ASSUME NEW b \in Assignment, b # a
          PROVE  /\ stage'[b] = stage[b] /\ (Pending("PREPARE", b)' => Pending("PREPARE", b))
                 /\ Begun(b)' <=> Begun(b)
      BY <1>9, <1>10, <2>2, <3>1 DEF Pending, Calls
    <3>2. \A b \in Assignment : b = a => ~Begun(b)' /\ ~Pending("PREPARE", b)'
      BY <1>9, <1>10, <2>4 DEF Calls
    <3>3. \A b \in Assignment : b = a => ~Sent("EXECUTE", b)'
      BY <3>2 DEF Begun
    <3>4. \A b \in Assignment : Sent("EXECUTE", b)' <=> Sent("EXECUTE", b)
      BY <1>3
    <3>5. /\ a \in written => stage'[a] \notin { "PREPARE", "STATUS_QUERY", "prepared" }
          /\ stage'[a] \in { "PLAN", "planned", "EXECUTE" } => a \in written
          /\ stage'[a] \in { "planned", "EXECUTE" } => a \in saved.plans
      BY <2>2, <2>3, <2>5, <2>6
    <3> QED BY <1>1, <3>1, <3>2, <3>3, <3>4, <3>5 DEF Inv, ProtocolInv
  <2>10. ASSUME early' = 0 PROVE LeaseInv'
    <3>1. LeaseInv
      BY <1>11, <2>10
    <3>2. lease = a
      BY <1>2, <1>14, <3>1 DEF LeaseInv, Waiting
    <3>3. ~Underway(a) /\ stage[a] \notin { "EXECUTE", "kept" }
      BY <1>14, <2>3, <2>4 DEF Underway, Begun, Busy, Ended
    <3>4. box # "running" /\ inside = {}
      BY <3>1, <3>2, <3>3 DEF Inv, TypeOK, LeaseInv
    <3>5. \A b \in Assignment : ~Underway(b)' /\ ~Pending("PREPARE", b)'
      BY <1>2, <1>9, <1>10, <2>4, <3>1, <3>2, <3>3 DEF LeaseInv, Pending, Calls
    <3>6. \A b \in Assignment : Pending("RECONCILE", b)' => stage'[b] \in { "kept", "free" }
      <4>1. ~Pending("RECONCILE", a)
        BY <1>2, <1>14, <3>1 DEF LeaseInv, Waiting
      <4> QED BY <1>9, <2>2, <3>1, <4>1 DEF LeaseInv, Pending, Calls
    <3>7. \A b \in Assignment : stage'[b] \notin { "free", "kept" } => b = lease'
      BY <1>2, <2>2, <3>1, <3>2 DEF LeaseInv
    <3>8. \A b \in Assignment : thread'[b] \notin { "validate", "start" }
      BY <3>5 DEF Underway, Busy, Ended
    <3> QED BY <1>1, <3>4, <3>5, <3>6, <3>7, <3>8 DEF LeaseInv, Resting
  <2> QED BY <1>6, <1>7, <2>7, <2>8, <2>9, <2>10 DEF Inv
<1> QED BY <1>5, <1>12, <1>13, <1>14

-----------------------------------------------------------------------------
(* The steps of the threads.                                                *)

(* A thread that has begun goes on, and the lease stays as it is.           *)
LEMMA ThreadGoes ==
  ASSUME Inv, NEW a \in Assignment, NEW n \in Thread \ { "idle" },
         thread[a] # "idle", thread' = [thread EXCEPT ![a] = n],
         UNCHANGED <<mem, saved, loop, mail, master>>
  PROVE  /\ thread' \in [Assignment -> Thread] /\ thread'[a] = n
         /\ \A b \in Assignment : b # a => thread'[b] = thread[b]
         /\ \A d, b : Sent(d, b)' <=> Sent(d, b)
         /\ UNCHANGED <<lease, next, stage, written, asked, early>>
         /\ LoopInv' /\ NumberInv' /\ MemoryInv' /\ MailInv' /\ ProtocolInv'
<1>1. /\ thread' \in [Assignment -> Thread] /\ thread'[a] = n
      /\ \A b \in Assignment : b # a => thread'[b] = thread[b]
  BY DEF Inv, TypeOK
<1>2. \A d, b : Sent(d, b)' <=> Sent(d, b)
  BY DEF Sent, Call
<1>3. UNCHANGED <<mem, saved, loop, mail, lease, next, stage, written, asked, early>>
  BY DEF master
<1>4. LoopInv' /\ MemoryInv' /\ MailInv'
  BY <1>2, <1>3 DEF Inv, LoopInv, MemoryInv, MailInv, Handled, Call
<1>5. NumberInv'
  BY <1>1, <1>2, <1>3 DEF Inv, NumberInv, Pending, Handled
<1>6. ProtocolInv'
  BY <1>1, <1>2, <1>3 DEF Inv, ProtocolInv, Pending, Handled, Begun
<1> QED BY <1>1, <1>2, <1>3, <1>4, <1>5, <1>6

(* What is known of a thread that is under way, as long as no RECONCILE has *)
(* come too early: its assignment has the lease and no RECONCILE about.     *)
LEMMA BusyThread ==
  ASSUME Inv, early = 0, NEW a \in Assignment, Busy(a)
  PROVE  /\ a = lease /\ stage[a] \in { "EXECUTE", "kept" } /\ a \in written \cap saved.plans
         /\ ~Pending("RECONCILE", a) /\ LeaseInv
BY DEF Inv, TypeOK, LeaseInv, ProtocolInv, Underway, Begun, Busy, Ended

(* A thread that goes on, and the container it leaves.                      *)
LEMMA LeaseGoes ==
  ASSUME Inv, early = 0, NEW a \in Assignment, Busy(a),
         NEW n \in Thread \ { "idle" }, thread'[a] = n,
         \A b \in Assignment : b # a => thread'[b] = thread[b],
         \A d, b : Sent(d, b)' <=> Sent(d, b),
         UNCHANGED <<saved, loop, lease, stage>>,
         n \in { "validate", "start" } => Current(saved, a),
         box' = "running" =>
            n \notin { "idle", "check", "validate", "start", "clean" } /\ Current(saved, a),
         inside' \subseteq { a }
  PROVE  LeaseInv'
<1>1. /\ a = lease /\ stage[a] \in { "EXECUTE", "kept" } /\ ~Pending("RECONCILE", a) /\ LeaseInv
  BY BusyThread
<1>2. \A b \in Assignment : Underway(b)' \/ Pending("PREPARE", b)' => b = lease
  BY <1>1 DEF LeaseInv, Underway, Busy, Pending, Handled
<1>3. \A b \in Assignment : Pending("RECONCILE", b)' => Pending("RECONCILE", b) /\ b # a
  BY <1>1 DEF Pending, Handled
<1>4. ~(loop.call = "RECONCILE" /\ loop.a = lease)
  BY <1>1 DEF Pending, Handled
<1>5. \A b \in Assignment : thread'[b] \in { "validate", "start" } => Current(saved, b)
  BY <1>1 DEF LeaseInv
<1>6. lease # 0
  BY <1>1 DEF Assignment
<1> QED BY <1>1, <1>2, <1>3, <1>4, <1>5, <1>6 DEF LeaseInv, Current

LEMMA CheckKeeps ==
  ASSUME Inv, NEW a \in Assignment, Check(a)
  PROVE  Inv'
<1>1. PICK n \in { "validate", "clean" } :
        /\ thread[a] = "check" /\ thread' = [thread EXCEPT ![a] = n]
        /\ n = "validate" => Current(mem, a)
  BY DEF Check, Goes, CurrentPlan
<1>2. UNCHANGED <<mem, saved, attached, loop, box, inside, mail, master>>
  BY DEF Check, container
<1>3. n \in Thread \ { "idle" } /\ n \notin Phase
  BY <1>1 DEF Thread, Phase
<1>4. /\ thread' \in [Assignment -> Thread] /\ thread'[a] = n
      /\ \A b \in Assignment : b # a => thread'[b] = thread[b]
      /\ \A d, b : Sent(d, b)' <=> Sent(d, b)
      /\ UNCHANGED <<lease, next, stage, written, asked, early>>
      /\ LoopInv' /\ NumberInv' /\ MemoryInv' /\ MailInv' /\ ProtocolInv'
  BY <1>1, <1>2, <1>3, ThreadGoes
<1>5. TypeOK'
  BY <1>1, <1>2, <1>3, <1>4 DEF Inv, TypeOK, Phase
<1>6. ASSUME early' = 0 PROVE LeaseInv'
  <2>1. early = 0 /\ Busy(a)
    BY <1>1, <1>4, <1>6 DEF Busy, Ended
  <2>2. a = lease /\ a \in written /\ LeaseInv
    BY <2>1, BusyThread
  <2>3. box # "running" /\ inside \subseteq { a }
    BY <1>1, <2>2 DEF LeaseInv
  <2>4. n = "validate" => Current(saved, a)
    BY <1>1, <2>1, <2>2, CurrentIsSaved
  <2> QED BY <1>1, <1>2, <1>3, <1>4, <2>1, <2>3, <2>4, LeaseGoes
<1> QED BY <1>4, <1>5, <1>6 DEF Inv

LEMMA ValidateKeeps ==
  ASSUME Inv, NEW a \in Assignment, Validate(a)
  PROVE  Inv'
<1>1. PICK n \in { "start", "clean" } :
        thread[a] = "validate" /\ thread' = [thread EXCEPT ![a] = n]
  BY DEF Validate, Goes
<1>2. UNCHANGED <<mem, saved, attached, loop, box, inside, mail, master>>
  BY DEF Validate, container
<1>3. n \in Thread \ { "idle" } /\ n \notin Phase
  BY <1>1 DEF Thread, Phase
<1>4. /\ thread' \in [Assignment -> Thread] /\ thread'[a] = n
      /\ \A b \in Assignment : b # a => thread'[b] = thread[b]
      /\ \A d, b : Sent(d, b)' <=> Sent(d, b)
      /\ UNCHANGED <<lease, next, stage, written, asked, early>>
      /\ LoopInv' /\ NumberInv' /\ MemoryInv' /\ MailInv' /\ ProtocolInv'
  BY <1>1, <1>2, <1>3, ThreadGoes
<1>5. TypeOK'
  BY <1>1, <1>2, <1>3, <1>4 DEF Inv, TypeOK, Phase
<1>6. ASSUME early' = 0 PROVE LeaseInv'
  <2>1. early = 0 /\ Busy(a)
    BY <1>1, <1>4, <1>6 DEF Busy, Ended
  <2>2. a = lease /\ LeaseInv
    BY <2>1, BusyThread
  <2>3. box # "running" /\ inside \subseteq { a } /\ Current(saved, a)
    BY <1>1, <2>2 DEF LeaseInv
  <2> QED BY <1>1, <1>2, <1>3, <1>4, <2>1, <2>3, LeaseGoes
<1> QED BY <1>4, <1>5, <1>6 DEF Inv

(* The container starts for the assignment that has the lease, whose plan   *)
(* is on the disk.                                                          *)
LEMMA StartKeeps ==
  ASSUME Inv, NEW a \in Assignment, Start(a)
  PROVE  Inv'
<1>1. PICK n \in { "confirm", "stop" } :
        thread[a] = "start" /\ thread' = [thread EXCEPT ![a] = n]
  BY DEF Start, Goes
<1>2. /\ UNCHANGED <<mem, saved, attached, inside, loop, mail, master>>
      /\ box' \in { box, "running" }
  BY DEF Start
<1>3. n \in Thread \ { "idle" } /\ n \notin Phase
  BY <1>1 DEF Thread, Cleaning, Phase
<1>4. /\ thread' \in [Assignment -> Thread] /\ thread'[a] = n
      /\ \A b \in Assignment : b # a => thread'[b] = thread[b]
      /\ \A d, b : Sent(d, b)' <=> Sent(d, b)
      /\ UNCHANGED <<lease, next, stage, written, asked, early>>
      /\ LoopInv' /\ NumberInv' /\ MemoryInv' /\ MailInv' /\ ProtocolInv'
  BY <1>1, <1>2, <1>3, ThreadGoes
<1>5. TypeOK'
  BY <1>1, <1>2, <1>3, <1>4 DEF Inv, TypeOK, Phase
<1>6. ASSUME early' = 0 PROVE LeaseInv'
  <2>1. early = 0 /\ Busy(a)
    BY <1>1, <1>4, <1>6 DEF Busy, Ended
  <2>2. a = lease /\ LeaseInv
    BY <2>1, BusyThread
  <2>3. inside \subseteq { a } /\ Current(saved, a)
    BY <1>1, <2>2 DEF LeaseInv
  <2> QED BY <1>1, <1>2, <1>3, <1>4, <2>1, <2>3, LeaseGoes
<1> QED BY <1>4, <1>5, <1>6 DEF Inv

(* A thread past the start runs under a lease that the running container    *)
(* may be stopped by.                                                       *)
LEMMA RunningThread ==
  ASSUME Inv, early = 0, NEW a \in Assignment, Busy(a)
  PROVE  /\ inside \subseteq { a }
         /\ box = "running" => /\ Current(saved, a)
                               /\ thread[a] \notin { "check", "validate", "start", "clean" }
<1>1. a = lease /\ LeaseInv
  BY BusyThread
<1> QED BY <1>1 DEF LeaseInv

LEMMA ConfirmKeeps ==
  ASSUME Inv, NEW a \in Assignment, Confirm(a)
  PROVE  Inv'
<1>1. PICK n \in { "setup", "stop" } :
        thread[a] = "confirm" /\ thread' = [thread EXCEPT ![a] = n]
  BY DEF Confirm, Goes
<1>2. UNCHANGED <<mem, saved, attached, loop, box, inside, mail, master>>
  BY DEF Confirm, container
<1>3. n \in Thread \ { "idle" }
  BY <1>1 DEF Thread, Cleaning, Phase
<1>4. /\ thread' \in [Assignment -> Thread] /\ thread'[a] = n
      /\ \A b \in Assignment : b # a => thread'[b] = thread[b]
      /\ \A d, b : Sent(d, b)' <=> Sent(d, b)
      /\ UNCHANGED <<lease, next, stage, written, asked, early>>
      /\ LoopInv' /\ NumberInv' /\ MemoryInv' /\ MailInv' /\ ProtocolInv'
  BY <1>1, <1>2, <1>3, ThreadGoes
<1>5. TypeOK'
  BY <1>1, <1>2, <1>3, <1>4 DEF Inv, TypeOK, Phase
<1>6. ASSUME early' = 0 PROVE LeaseInv'
  <2>1. early = 0 /\ Busy(a)
    BY <1>1, <1>4, <1>6 DEF Busy, Ended
  <2>2. inside \subseteq { a } /\ (box = "running" => Current(saved, a))
    BY <2>1, RunningThread
  <2> QED BY <1>1, <1>2, <1>3, <1>4, <2>1, <2>2, LeaseGoes
<1> QED BY <1>4, <1>5, <1>6 DEF Inv

(* A phase that could not begin, or has ended, is followed by another.      *)
LEMMA FollowedByThread ==
  ASSUME NEW p \in Phase, NEW ok \in BOOLEAN
  PROVE  FollowedBy(p, ok) \in { "run", "teardown", "stop" }
BY DEF FollowedBy, Phase

LEMMA ExecBeginsKeeps ==
  ASSUME Inv, NEW a \in Assignment, ExecBegins(a)
  PROVE  Inv'
<1>1. /\ thread[a] \in Phase /\ a \notin attached
      /\ UNCHANGED <<mem, saved, box, loop, mail, master>>
  BY DEF ExecBegins
<1>2. PICK n \in Thread \ { "idle" } :
        /\ thread' = [thread EXCEPT ![a] = n] /\ n \notin { "check", "validate", "start", "clean" }
        /\ \/ /\ box = "running" /\ n = thread[a]
              /\ inside' = inside \cup { a } /\ attached' = attached \cup { a }
           \/ inside' = inside /\ attached' = attached
  <2>1. CASE /\ box = "running" /\ thread' = thread
             /\ inside' = inside \cup { a } /\ attached' = attached \cup { a }
    <3>1. thread' = [thread EXCEPT ![a] = thread[a]]
      BY <2>1 DEF Inv, TypeOK
    <3>2. thread[a] \in Thread \ { "idle", "check", "validate", "start", "clean" }
      BY <1>1 DEF Thread, Phase
    <3> QED BY <2>1, <3>1, <3>2
  <2>2. CASE /\ Goes(a, thread[a], FollowedBy(thread[a], FALSE))
             /\ UNCHANGED <<inside, attached>>
    <3>1. FollowedBy(thread[a], FALSE) \in { "run", "teardown", "stop" }
      BY <1>1, FollowedByThread
    <3> QED BY <2>2, <3>1 DEF Goes, Thread, Phase, Cleaning
  <2> QED BY <2>1, <2>2 DEF ExecBegins
<1>3. thread[a] # "idle"
  BY <1>1 DEF Phase
<1>4. /\ thread' \in [Assignment -> Thread] /\ thread'[a] = n
      /\ \A b \in Assignment : b # a => thread'[b] = thread[b]
      /\ \A d, b : Sent(d, b)' <=> Sent(d, b)
      /\ UNCHANGED <<lease, next, stage, written, asked, early>>
      /\ LoopInv' /\ NumberInv' /\ MemoryInv' /\ MailInv' /\ ProtocolInv'
  BY <1>1, <1>2, <1>3, ThreadGoes
<1>5. TypeOK'
  BY <1>1, <1>2, <1>4 DEF Inv, TypeOK
<1>6. ASSUME early' = 0 PROVE LeaseInv'
  <2>1. early = 0 /\ Busy(a)
    BY <1>1, <1>4, <1>6 DEF Busy, Ended, Phase
  <2>2. inside \subseteq { a } /\ (box = "running" => Current(saved, a))
    BY <2>1, RunningThread
  <2>3. inside' \subseteq { a }
    BY <1>2, <2>2
  <2> QED BY <1>1, <1>2, <1>4, <2>1, <2>2, <2>3, LeaseGoes
<1> QED BY <1>4, <1>5, <1>6 DEF Inv

LEMMA ExecEndsKeeps ==
  ASSUME Inv, NEW a \in Assignment, ExecEnds(a)
  PROVE  Inv'
<1>1. /\ a \in attached /\ attached' = attached \ { a } /\ thread[a] \in Phase
      /\ UNCHANGED <<mem, saved, box, loop, mail, master>>
  BY DEF Inv, TypeOK, ExecEnds
<1>2. PICK n \in { "run", "teardown", "stop" } : thread' = [thread EXCEPT ![a] = n]
  BY <1>1, FollowedByThread DEF ExecEnds, Goes
<1>3. inside' \subseteq inside
  BY DEF ExecEnds
<1>4. n \in Thread \ { "idle" } /\ thread[a] # "idle"
  BY <1>1, <1>2 DEF Thread, Phase, Cleaning
<1>5. /\ thread' \in [Assignment -> Thread] /\ thread'[a] = n
      /\ \A b \in Assignment : b # a => thread'[b] = thread[b]
      /\ \A d, b : Sent(d, b)' <=> Sent(d, b)
      /\ UNCHANGED <<lease, next, stage, written, asked, early>>
      /\ LoopInv' /\ NumberInv' /\ MemoryInv' /\ MailInv' /\ ProtocolInv'
  BY <1>1, <1>2, <1>4, ThreadGoes
<1>6. TypeOK'
  BY <1>1, <1>2, <1>3, <1>5 DEF Inv, TypeOK
<1>7. ASSUME early' = 0 PROVE LeaseInv'
  <2>1. early = 0 /\ Busy(a)
    BY <1>1, <1>5, <1>7 DEF Busy, Ended, Phase
  <2>2. inside' \subseteq { a } /\ (box = "running" => Current(saved, a))
    BY <1>3, <2>1, RunningThread
  <2> QED BY <1>1, <1>2, <1>4, <1>5, <2>1, <2>2, LeaseGoes
<1> QED BY <1>5, <1>6, <1>7 DEF Inv

(* A cleanup is clean only if it leaves the container stopped.              *)
LEMMA CleanupKeeps ==
  ASSUME Inv, NEW a \in Assignment, Cleanup(a)
  PROVE  Inv'
<1>1. PICK s \in Cleaning, n \in Thread : Goes(a, s, n) /\ CleanupStep(s, n)
  BY DEF Cleanup
<1>2. /\ thread[a] \in Cleaning /\ thread' = [thread EXCEPT ![a] = n]
      /\ UNCHANGED <<mem, saved, attached, loop, mail, master>>
  BY <1>1 DEF Cleanup, Goes
<1>3. /\ n \in Cleaning \cup { "clean", "unclean" }
      /\ (box' = box /\ inside' = inside) \/ (box' = "stopped" /\ inside' = {})
      /\ n = "clean" => box' = "stopped"
  BY <1>1, CleanupEffect DEF Inv
<1>4. n \in Thread \ { "idle" } /\ thread[a] # "idle" /\ thread[a] \notin Phase
  BY <1>2, <1>3 DEF Thread, Phase, Cleaning
<1>5. /\ thread' \in [Assignment -> Thread] /\ thread'[a] = n
      /\ \A b \in Assignment : b # a => thread'[b] = thread[b]
      /\ \A d, b : Sent(d, b)' <=> Sent(d, b)
      /\ UNCHANGED <<lease, next, stage, written, asked, early>>
      /\ LoopInv' /\ NumberInv' /\ MemoryInv' /\ MailInv' /\ ProtocolInv'
  BY <1>2, <1>4, ThreadGoes
<1>6. TypeOK'
  BY <1>2, <1>3, <1>4, <1>5 DEF Inv, TypeOK
<1>7. ASSUME early' = 0 PROVE LeaseInv'
  <2>1. early = 0 /\ Busy(a)
    BY <1>2, <1>5, <1>7 DEF Busy, Ended, Cleaning
  <2>2. inside \subseteq { a } /\ (box = "running" => Current(saved, a))
    BY <2>1, RunningThread
  <2>3. /\ n \notin { "check", "validate", "start" } /\ inside' \subseteq { a }
        /\ box' = "running" => n # "clean" /\ Current(saved, a)
    BY <1>3, <2>2 DEF Cleaning
  <2> QED BY <1>2, <1>4, <1>5, <2>1, <2>3, LeaseGoes
<1> QED BY <1>5, <1>6, <1>7 DEF Inv

(* The result of an execution frees the lease only with a clean container,  *)
(* and ends the one thread that the lease covers.                           *)
LEMMA FinishKeeps ==
  ASSUME Inv, NEW a \in Assignment, Finish(a)
  PROVE  Inv'
<1>1. PICK s \in { "clean", "unclean" } :
        /\ thread[a] = s /\ thread' = [thread EXCEPT ![a] = "done"]
        /\ Answer("EXECUTE", a, s = "clean")
  BY DEF Finish, Goes
<1>2. UNCHANGED <<mem, saved, attached, box, inside, loop, mail, next, written, early>>
  BY <1>1 DEF Finish, Answer, container
<1>3. /\ asked' \in { asked, Nothing }
      /\ \/ stage' = stage /\ lease' = lease
         \/ /\ stage[a] = "EXECUTE"
            /\ \E to \in { "free", "kept" } : Moves(a, "EXECUTE", to) /\ (s = "unclean" => to = "kept")
  <2>1. /\ asked' \in { asked, Nothing }
        /\ \/ stage' = stage /\ lease' = lease
           \/ /\ stage[a] = "EXECUTE"
              /\ \E to \in Stage \cap After("EXECUTE", s = "clean") : Moves(a, "EXECUTE", to)
    BY <1>1, AnswerDoes DEF Inv, Calls
  <2>2. After("EXECUTE", s = "clean") = IF s = "clean" THEN { "free", "kept" } ELSE { "kept" }
    BY DEF After
  <2> QED BY <1>1, <2>1, <2>2
<1>4. /\ thread' \in [Assignment -> Thread] /\ thread'[a] = "done"
      /\ \A b \in Assignment : b # a => thread'[b] = thread[b]
  BY <1>1 DEF Inv, TypeOK, Thread, Ended
<1>5. \A d, b : Sent(d, b)' <=> Sent(d, b)
  BY <1>2 DEF Sent, Call
<1>6. /\ stage' \in [Assignment -> Stage]
      /\ \A b \in Assignment : b # a => stage'[b] = stage[b]
      /\ stage'[a] = stage[a] \/ (stage[a] = "EXECUTE" /\ stage'[a] \in { "free", "kept" })
      /\ lease' \in 0 .. MaxAssignment /\ lease' \in { 0, lease }
      /\ lease' # lease => lease = a /\ lease' = 0 /\ s = "clean" /\ stage'[a] = "free"
      /\ \A b \in Assignment : b = lease' => b = lease /\ stage'[b] # "free"
  <2>1. CASE stage' = stage /\ lease' = lease
    BY <2>1 DEF Inv, TypeOK
  <2>2. CASE /\ stage[a] = "EXECUTE"
             /\ \E to \in { "free", "kept" } : Moves(a, "EXECUTE", to) /\ (s = "unclean" => to = "kept")
    <3>1. PICK to \in { "free", "kept" } : Moves(a, "EXECUTE", to) /\ (s = "unclean" => to = "kept")
      BY <2>2
    <3>2. to \in Stage
      BY DEF Stage
    <3> QED BY <1>1, <2>2, <3>1, <3>2, MovesDoes DEF Inv
  <2> QED BY <1>3, <2>1, <2>2
<1>7. TypeOK'
  <2>1. asked' \in [call : Calls \cup { "none" }, a : 0 .. MaxAssignment]
    BY <1>3 DEF Inv, TypeOK, Nothing
  <2>2. attached' \subseteq { b \in Assignment : thread'[b] \in Phase }
    BY <1>1, <1>2, <1>4 DEF Inv, TypeOK, Phase
  <2> QED BY <1>2, <1>4, <1>6, <2>1, <2>2 DEF Inv, TypeOK
<1>8. LoopInv' /\ MemoryInv' /\ MailInv'
  BY <1>2, <1>5 DEF Inv, LoopInv, MemoryInv, MailInv, Handled, Call
<1>9. NumberInv'
  <2>1. lease' < next'
    BY <1>2, <1>6 DEF Inv, TypeOK, NumberInv
  <2>2. asked'.call \in { "none", "CANCEL", "RECONCILE" }
    BY <1>3 DEF Inv, NumberInv, Nothing
  <2> QED BY <1>1, <1>2, <1>4, <1>5, <1>6, <2>1, <2>2 DEF Inv, NumberInv, Pending, Handled
<1>10. ProtocolInv'
  <2>1. \A b \in Assignment :
          /\ Begun(b)' <=> Begun(b)
          /\ Sent("EXECUTE", b)' => thread'[b] = "idle"
          /\ Pending("PREPARE", b)' <=> Pending("PREPARE", b)
    BY <1>1, <1>2, <1>4, <1>5 DEF Inv, ProtocolInv, Begun, Pending, Handled
  <2>2. Begun(a)
    BY <1>1 DEF Begun
  <2>3. a \in written \cap saved.plans /\ stage[a] \in { "EXECUTE", "kept", "free" }
    BY <2>2 DEF Inv, ProtocolInv
  <2>4. stage'[a] \in { "EXECUTE", "kept", "free" }
    BY <1>6, <2>3
  <2>5. ~Pending("PREPARE", a)
    BY <2>3 DEF Inv, ProtocolInv
  <2>6. stage'[a] = "EXECUTE" => stage[a] = "EXECUTE"
    BY <1>6
  <2>7. ASSUME NEW b \in Assignment, b # a
        PROVE  /\ stage'[b] = stage[b]
               /\ Begun(b)' <=> Begun(b)
               /\ Pending("PREPARE", b)' <=> Pending("PREPARE", b)
    BY <1>6, <2>1, <2>7
  <2>8. /\ Begun(a)' => a \in written \cap saved.plans
        /\ ~Pending("PREPARE", a)'
    BY <2>1, <2>3, <2>5
  <2> QED BY <1>2, <2>1, <2>3, <2>4, <2>6, <2>7, <2>8 DEF Inv, ProtocolInv
<1>11. ASSUME early' = 0 PROVE LeaseInv'
  <2>1. early = 0 /\ Busy(a)
    BY <1>1, <1>2, <1>11 DEF Busy, Ended
  <2>2. a = lease /\ stage[a] \in { "EXECUTE", "kept" } /\ ~Pending("RECONCILE", a) /\ LeaseInv
        /\ a \in written
    BY <2>1, BusyThread
  <2>3. inside \subseteq { a } /\ (box = "running" => Current(saved, a) /\ s = "unclean")
    BY <1>1, <2>1, RunningThread
  <2>4. ~Sent("EXECUTE", a) /\ ~Pending("PREPARE", a)
    BY <1>1, <2>2 DEF Inv, ProtocolInv
  <2>5. \A b \in Assignment : ~Underway(b)' /\ ~Pending("PREPARE", b)'
    BY <1>2, <1>4, <1>5, <2>2, <2>4 DEF LeaseInv, Underway, Busy, Ended, Pending, Handled
  <2>6. \A b \in Assignment : thread'[b] \notin { "validate", "start" }
    BY <2>5 DEF Underway, Busy, Ended
  <2>7. \A b \in Assignment : Pending("RECONCILE", b)' => stage'[b] \in { "kept", "free" }
    BY <1>2, <1>5, <1>6, <2>2 DEF LeaseInv, Pending, Handled
  <2>8. \A b \in Assignment : stage'[b] \notin { "free", "kept" } => b = lease'
    BY <1>3, <1>6, <2>2 DEF LeaseInv
  <2>9. box = "running" => lease' = a /\ a # 0 /\ stage'[a] \in { "EXECUTE", "kept" }
    BY <1>6, <2>2, <2>3 DEF Assignment
  <2>10. inside \subseteq { lease' }
    BY <2>3, <2>9 DEF Inv, TypeOK
  <2>11. loop.call = "RECONCILE" => loop.a \in Assignment /\ Pending("RECONCILE", loop.a)
    BY DEF Inv, LoopInv, Resting, Pending, Handled
  <2>12. ~(loop.call = "RECONCILE" /\ loop.a = lease')
    BY <1>6, <2>2, <2>11
  <2>13. box' = "running" =>
           /\ lease' # 0 /\ stage'[lease'] \in { "EXECUTE", "kept" }
           /\ thread'[lease'] \notin { "idle", "check", "validate", "start", "clean" }
           /\ Current(saved', lease')
    BY <1>2, <1>4, <2>3, <2>9
  <2> QED BY <1>2, <2>5, <2>6, <2>7, <2>8, <2>10, <2>12, <2>13 DEF LeaseInv
<1> QED BY <1>7, <1>8, <1>9, <1>10, <1>11 DEF Inv

-----------------------------------------------------------------------------
(* The Worker restarts, and all together.                                   *)

LEMMA RestartKeeps ==
  ASSUME Inv, Restart
  PROVE  Inv'
<1>1. /\ mem' = saved /\ attached' = {} /\ loop' = Resting /\ mail' = <<>>
      /\ UNCHANGED <<saved, box, inside, lease, next, stage, written, asked, early>>
  BY DEF Restart, container, master
<1>2. /\ thread' \in [Assignment -> Thread]
      /\ \A a \in Assignment : thread'[a] = IF Busy(a) THEN "gone" ELSE thread[a]
  BY DEF Inv, TypeOK, Restart, Thread, Ended
<1>3. \A a \in Assignment : /\ thread'[a] = "idle" <=> thread[a] = "idle"
                            /\ ~Busy(a)' /\ thread'[a] \in Ended
  BY <1>2 DEF Busy, Ended
<1>4. \A c, a : ~Sent(c, a)'
  BY <1>1 DEF Sent
<1>5. TypeOK'
  BY <1>1, <1>2 DEF Inv, TypeOK, Resting
<1>6. LoopInv' /\ MailInv'
  BY <1>1, <1>4 DEF LoopInv, MailInv, Handled, Resting
<1>7. NumberInv'
  BY <1>1, <1>3, <1>4 DEF Inv, NumberInv, Pending, Handled, Resting, Calls
<1>8. MemoryInv'
  <2>1. saved.fence[Box] \in 0 .. MaxAssignment
    BY DEF Inv, MemoryInv, Memory, Resource
  <2> QED BY <1>1, <2>1 DEF Inv, MemoryInv, Resting
<1>9. ProtocolInv'
  BY <1>1, <1>3, <1>4 DEF Inv, ProtocolInv, Pending, Handled, Begun, Resting
<1>10. ASSUME early' = 0 PROVE LeaseInv'
  <2>1. LeaseInv
    BY <1>1, <1>10 DEF Inv
  <2>2. box = "running" => lease \in Assignment
    BY <2>1 DEF Inv, TypeOK, LeaseInv, Assignment
  <2> QED BY <1>1, <1>3, <1>4, <2>1, <2>2
          DEF LeaseInv, Underway, Pending, Handled, Ended, Current, Resting
<1> QED BY <1>5, <1>6, <1>7, <1>8, <1>9, <1>10 DEF Inv

LEMMA StutterKeeps ==
  ASSUME Inv, UNCHANGED vars
  PROVE  Inv'
<1>1. UNCHANGED <<mem, saved, attached, thread, loop, box, inside, mail, lease, next, stage, written,
                  asked, early>>
  BY DEF vars, workerMemory, container, master
<1>2. \A d, b : Sent(d, b)' <=> Sent(d, b)
  BY <1>1 DEF Sent, Call
<1>3. TypeOK' /\ LoopInv' /\ MemoryInv'
  BY <1>1 DEF Inv, TypeOK, LoopInv, MemoryInv
<1>4. NumberInv' /\ MailInv'
  BY <1>1, <1>2 DEF Inv, NumberInv, MailInv, Pending, Handled, Call
<1>5. ProtocolInv'
  BY <1>1, <1>2 DEF Inv, ProtocolInv, Pending, Handled, Begun
<1>6. ASSUME early' = 0 PROVE LeaseInv'
  BY <1>1, <1>2, <1>6 DEF Inv, LeaseInv, Underway, Busy, Pending, Handled, Current
<1> QED BY <1>3, <1>4, <1>5, <1>6 DEF Inv

(* At first nothing is leased, sent or known, and the container is stopped. *)
THEOREM InitInv == Init => Inv
<1> SUFFICES ASSUME Init PROVE Inv
  OBVIOUS
<1>1. /\ thread \in [Assignment -> Thread] /\ \A a \in Assignment : thread[a] = "idle"
      /\ stage \in [Assignment -> Stage] /\ \A a \in Assignment : stage[a] = "free"
  BY DEF Init, Thread, Ended, Stage
<1>2. /\ mem = [fence |-> [r \in Resource |-> 0], prepared |-> {}, plans |-> {}] /\ saved = mem
      /\ loop = Resting /\ mail = <<>> /\ lease = 0 /\ next = 1
      /\ written = {} /\ asked = Nothing /\ box = "stopped" /\ inside = {} /\ attached = {}
      /\ early = 0
  BY DEF Init
<1>3. \A c, a : ~Sent(c, a)
  BY <1>2 DEF Sent
<1>4. /\ mem \in Memory /\ mem.fence \in [Resource -> 0 .. MaxAssignment]
      /\ mem.fence[Box] = 0
  BY <1>2 DEF Memory, Resource
<1>5. TypeOK
  <2>1. mail \in Seq([call : Calls, a : Assignment])
    BY <1>2
  <2>2. \A m \in { mem, saved } :
          /\ m.fence \in [Resource -> 0 .. MaxAssignment]
          /\ m.plans \subseteq m.prepared /\ m.prepared \subseteq Assignment
    BY <1>2, <1>4
  <2>3. /\ lease \in 0 .. MaxAssignment /\ next \in 1 .. MaxAssignment + 1
        /\ \A a \in Assignment : a # lease
    BY <1>2 DEF Assignment
  <2>4. /\ loop \in [call : Calls \cup { "none" }, a : 0 .. MaxAssignment,
                    at : Cleaning \cup { "idle", "save", "yes", "no", "clean", "unclean" }]
        /\ asked \in [call : Calls \cup { "none" }, a : 0 .. MaxAssignment]
    BY <1>2 DEF Resting, Nothing
  <2> QED BY <1>1, <1>2, <2>1, <2>2, <2>3, <2>4 DEF TypeOK
<1>6. LoopInv /\ MailInv
  BY <1>2, <1>3 DEF LoopInv, MailInv, Handled, Resting
<1>7. NumberInv /\ ProtocolInv
  BY <1>1, <1>2, <1>3 DEF NumberInv, ProtocolInv, Begun, Pending, Handled, Resting, Nothing, Calls
<1>8. MemoryInv
  BY <1>2, <1>4 DEF MemoryInv, Resting
<1>9. LeaseInv
  BY <1>1, <1>2, <1>3 DEF LeaseInv, Underway, Busy, Ended, Pending, Handled, Resting
<1> QED BY <1>5, <1>6, <1>7, <1>8, <1>9 DEF Inv

(* Every step of the master, the receive loop, the threads and a restart    *)
(* keeps the invariant.                                                     *)
THEOREM NextInv == Inv /\ [Next]_vars => Inv'
<1> SUFFICES ASSUME Inv, [Next]_vars PROVE Inv'
  OBVIOUS
<1>1. CASE \E a \in Assignment : SendPlan(a) \/ SendExecute(a) \/ Withdraw(a) \/ GiveUp(a)
  BY <1>1, SendPlanKeeps, SendExecuteKeeps, WithdrawKeeps, GiveUpKeeps
<1>2. CASE Lease \/ AskingEnds \/ \E a \in Assignment : AskCancel(a) \/ AskReconcile(a)
  BY <1>2, LeaseKeeps, AskCancelKeeps, AskReconcileKeeps, AskingEndsKeeps
<1>3. CASE Loop
  BY <1>3, TakePrepareKeeps, TakePlanKeeps, TakeQueryKeeps, TakeExecuteKeeps, TakeReconcileKeeps,
     TakeCancelKeeps, CancelStepKeeps, SaveKeeps, ReplyKeeps DEF Loop
<1>4. CASE \E a \in Assignment : Execution(a)
  BY <1>4, CheckKeeps, ValidateKeeps, StartKeeps, ConfirmKeeps, ExecBeginsKeeps, ExecEndsKeeps,
     CleanupKeeps, FinishKeeps DEF Execution
<1>5. CASE Restart
  BY <1>5, RestartKeeps
<1>6. CASE UNCHANGED vars
  BY <1>6, StutterKeeps
<1> QED BY <1>1, <1>2, <1>3, <1>4, <1>5, <1>6 DEF Next

(* The invariant holds always.                                              *)
THEOREM DriverCorrect == Spec => []Inv
BY InitInv, NextInv, PTL DEF Spec

-----------------------------------------------------------------------------
(* What it is for.                                                          *)

(* Every variable keeps its type: what the Worker remembers and has saved   *)
(* about each resource, the container, the threads, the calls on their way  *)
(* and the dispatch of the master.                                          *)
THEOREM TypeCorrect == Spec => []TypeOK
<1>1. Inv => TypeOK
  BY DEF Inv
<1> QED BY <1>1, DriverCorrect, PTL

(* The container runs only for the assignment that has the lease, however   *)
(* many assignments there are and whatever fails.                           *)
THEOREM RunsCovered == Spec => []RunsUnderLease
<1>1. Inv => RunsUnderLease
  BY DEF Inv, LeaseInv, RunsUnderLease
<1> QED BY <1>1, DriverCorrect, PTL

(* No thread outlives the lease of its assignment.                          *)
THEOREM ThreadsCovered == Spec => []ThreadsUnderLease
<1>1. Inv => ThreadsUnderLease
  BY DEF Inv, LeaseInv, Underway, ThreadsUnderLease
<1> QED BY <1>1, DriverCorrect, PTL

(* A running container can be stopped by a cancel of the assignment that    *)
(* has the lease, also after a restart of the Worker.                       *)
THEOREM AlwaysStoppable == Spec => []Stoppable
<1>1. ASSUME Inv, early = 0, box = "running"
      PROVE  lease \in saved.plans \cap written /\ Current(saved, lease)
  <2>1. lease \in Assignment /\ Current(saved, lease) /\ thread[lease] # "idle"
    BY <1>1 DEF Inv, TypeOK, LeaseInv, Assignment
  <2> QED BY <1>1, <2>1 DEF Inv, ProtocolInv, Begun
<1>2. Inv => Stoppable
  BY <1>1 DEF Stoppable
<1> QED BY <1>2, DriverCorrect, PTL

(* Only a current plan is acted on.                                         *)
Acts(a) == \/ thread[a] = "check" /\ thread'[a] = "validate"
           \/ loop.at = "idle" /\ loop'.at = "stop" /\ loop'.a = a

(* A step of a thread changes that thread only.                             *)
LEMMA OneThread ==
  ASSUME Inv, NEW a \in Assignment, NEW b \in Assignment, Execution(b), thread'[a] # thread[a]
  PROVE  a = b
<1>1. PICK n : Goes(b, thread[b], n)
  <2>1. \/ \E s, n : Goes(b, s, n)
        \/ thread' = thread
    BY DEF Execution, Check, Validate, Start, Confirm, ExecBegins, ExecEnds, Cleanup, Finish
  <2> QED BY <2>1 DEF Goes
<1> QED BY <1>1 DEF Goes, Inv, TypeOK

LEMMA ActsOnCurrent ==
  ASSUME Inv, Next, NEW a \in Assignment, Acts(a)
  PROVE  CurrentPlan(a)
<1>1. CASE thread[a] = "check" /\ thread'[a] = "validate"
  <2>1. thread \in [Assignment -> Thread]
    BY DEF Inv, TypeOK
  <2>2. ~(Lease \/ AskingEnds)
    BY <1>1 DEF Lease, AskingEnds, workerMemory
  <2>3. ASSUME NEW b \in Assignment
        PROVE  ~(SendPlan(b) \/ SendExecute(b) \/ Withdraw(b) \/ GiveUp(b)
                   \/ AskCancel(b) \/ AskReconcile(b))
    BY <1>1 DEF SendPlan, SendExecute, Withdraw, GiveUp, AskCancel, AskReconcile, workerMemory
  <2>4. ~(TakePrepare \/ TakePlan \/ TakeQuery \/ TakeReconcile \/ TakeCancel \/ CancelStep
            \/ Save \/ Reply)
    BY <1>1 DEF TakePrepare, TakePlan, TakeQuery, TakeReconcile, TakeCancel, CancelStep, Save, Reply
  <2>5. ~TakeExecute
    BY <1>1, <2>1 DEF TakeExecute
  <2>6. ~Restart
    BY <1>1 DEF Restart, Busy, Ended
  <2>7. PICK b \in Assignment : Execution(b)
    BY <2>2, <2>3, <2>4, <2>5, <2>6 DEF Next, Loop
  <2>8. b = a
    BY <1>1, <2>7, OneThread
  <2>9. ~(Validate(a) \/ Start(a) \/ Confirm(a) \/ Finish(a) \/ ExecBegins(a))
    BY <1>1 DEF Validate, Start, Confirm, Finish, ExecBegins, Goes, Phase
  <2>10. ~Cleanup(a)
    BY <1>1 DEF Cleanup, Goes, Cleaning
  <2>11. ~ExecEnds(a)
    BY <1>1 DEF Inv, TypeOK, ExecEnds, Phase
  <2>12. Check(a)
    BY <2>7, <2>8, <2>9, <2>10, <2>11 DEF Execution
  <2> QED BY <1>1, <2>1, <2>12 DEF Check, Goes
<1>2. CASE loop.at = "idle" /\ loop'.at = "stop" /\ loop'.a = a
  <2>1. ~(Lease \/ AskingEnds)
    BY <1>2 DEF Lease, AskingEnds, workerMemory
  <2>2. ASSUME NEW b \in Assignment
        PROVE  ~(SendPlan(b) \/ SendExecute(b) \/ Withdraw(b) \/ GiveUp(b)
                   \/ AskCancel(b) \/ AskReconcile(b))
    BY <1>2 DEF SendPlan, SendExecute, Withdraw, GiveUp, AskCancel, AskReconcile, workerMemory
  <2>3. ~(TakePrepare \/ TakePlan \/ TakeQuery \/ TakeReconcile)
    BY <1>2 DEF TakePrepare, TakePlan, TakeQuery, TakeReconcile, Handling
  <2>4. ~(TakeExecute \/ CancelStep \/ Save \/ Reply \/ Restart)
    BY <1>2 DEF TakeExecute, CancelStep, Save, Reply, Restart, Resting, Cleaning
  <2>5. ASSUME NEW b \in Assignment PROVE ~Execution(b)
    BY <1>2 DEF Execution, Check, Validate, Start, Confirm, ExecBegins, ExecEnds, Cleanup, Finish
  <2>6. TakeCancel
    BY <2>1, <2>2, <2>3, <2>4, <2>5 DEF Next, Loop
  <2> QED BY <1>2, <2>6 DEF TakeCancel, Handling
<1> QED BY <1>1, <1>2 DEF Acts

(* Fencing: only the newest assignment that was ever answered as prepared   *)
(* begins to execute or cancels, also when a RECONCILE came too early and   *)
(* the dispatch that lost its leases goes on to send its EXECUTE.           *)
THEOREM OnlyNewest == Spec => OnlyNewestActs
<1>1. ASSUME Inv, NEW a \in Assignment, CurrentPlan(a) PROVE Newest(a)
  <2>1. mem.fence[Box] = a
    BY <1>1 DEF CurrentPlan, Current, Resources
  <2>2. \A b \in saved.prepared : b <= mem.fence[Box]
    BY <1>1 DEF Inv, MemoryInv
  <2> QED BY <2>1, <2>2 DEF Newest
<1>2. Inv /\ [Next]_vars =>
        [\A a \in Assignment : (\/ thread[a] = "check" /\ thread'[a] = "validate"
                                \/ loop.at = "idle" /\ loop'.at = "stop" /\ loop'.a = a)
                               => Newest(a)]_vars
  BY <1>1, ActsOnCurrent DEF Acts
<1> QED BY <1>2, DriverCorrect, PTL DEF Spec, OnlyNewestActs
=============================================================================
