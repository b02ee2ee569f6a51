-------------------------- MODULE StateStoreProofs --------------------------
(* Proofs about StateStore, for any number of Tasks, leases, writes,       *)
(* crashes, torn lines and steps of the clock: a start of the master       *)
(* without the snapshots rebuilds what a start with them does, and what it *)
(* rebuilds is what was written last.                                      *)
EXTENDS StateStore, SequenceTheorems, TLAPS

USE StoreAssumption

Has(files, e) == \E i \in 1 .. Len(files) : files[i] = e

StatusEntry == [value : TaskState, nth : Nat]
LeaseEntry  == [value : LeaseAction, nth : Nat]
Steps == { "idle", "history", "snapshot", "event", "lease_history", "lease_snapshot" }
Ops == [step : Steps, of : Task \cup Lease \cup { None },
        value : TaskState \cup LeaseAction \cup { None }]

-----------------------------------------------------------------------------
(* The parts of the invariant.                                             *)

(* What the master has in memory, which is nothing while it is down.       *)
MemoryInv ==
  /\ mode \in { "down", "loading", "up" }
  /\ statuses \in [Task -> TaskState] /\ thread \in [Task -> Threads]
  /\ leases \in [Lease -> { None, "HELD", "COMMITTED" }]
  /\ queue \subseteq Task /\ (mode # "up" => queue = {})

(* Files and snapshots hold what can be written.                           *)
DiskInv ==
  /\ statusFiles \in [Task -> Seq(StatusEntry)] /\ leaseFiles \in [Lease -> Seq(LeaseEntry)]
  /\ \A t \in Task : IsFile(statusFiles[t], TaskState)
  /\ \A l \in Lease : IsFile(leaseFiles[l], LeaseAction)
  /\ statusSnap \in [Task -> StatusEntry]
  /\ leaseSnap \in [Lease -> { None, "HELD", "COMMITTED" }]
  /\ taskFiles \subseteq Task /\ torn \subseteq Task /\ lines \in [Task -> Nat]
  /\ crashes \in 0 .. MaxCrash /\ skews \in 0 .. MaxSkew

(* The write under way: a snapshot follows the file of the same change.    *)
WriteInv(t, o) ==
  /\ o.step \in { "history", "snapshot" } => o.value \in TaskState
  /\ o.step \in { "lease_history", "lease_snapshot" } => o.of \in Lease /\ o.value \in LeaseAction
  /\ o.step = "snapshot" =>
       Has(statusFiles[t], [value |-> o.value, nth |-> Len(statusFiles[t])])
  /\ o.step = "lease_snapshot" => leaseFiles[o.of] # <<>>
OpInv == op \in [Task -> Ops] /\ \A t \in Task : WriteInv(t, op[t])

(* A snapshot is a copy of a file that is there.                           *)
SnapInv ==
  /\ \A t \in Task : statusSnap[t] = NoSnap \/ Has(statusFiles[t], statusSnap[t])
  /\ \A l \in Lease : leaseSnap[l] # None => leaseFiles[l] # <<>>

Inv == MemoryInv /\ DiskInv /\ OpInv /\ SnapInv

-----------------------------------------------------------------------------
(* Files.                                                                  *)

(* A file that is added somewhere is there, and all others still are.      *)
Inserts(files, i, e, r) ==
  /\ Len(r) = Len(files) + 1 /\ r[i] = e
  /\ \A j \in 1 .. Len(files) + 1 :
        r[j] = IF j < i THEN files[j] ELSE IF j = i THEN e ELSE files[j - 1]
  /\ \A j \in 1 .. Len(files) : r[j] = files[j] \/ r[j + 1] = files[j]
  /\ \A j \in 1 .. Len(files) + 1 :
        r[j] = e \/ \E k \in 1 .. Len(files) : r[j] = files[k]

(* InsertAt is such an addition.                                           *)
LEMMA Inserted ==
  ASSUME NEW S, NEW files \in Seq(S), NEW i \in 1 .. Len(files) + 1, NEW e \in S,
         NEW r, r = InsertAt(files, i, e)
  PROVE  r \in Seq(S) /\ Inserts(files, i, e, r)
<1> DEFINE front == SubSeq(files, 1, i - 1)
           back  == SubSeq(files, i, Len(files))
           first == front \o <<e>>
<1>1. Len(files) \in Nat /\ \A j \in 1 .. Len(files) : files[j] \in S
  OBVIOUS
<1>2. /\ front \in Seq(S) /\ Len(front) = i - 1
      /\ \A j \in 1 .. i - 1 : front[j] = files[j]
  <2>1. \A j \in 1 .. i - 1 : files[j] \in S
    BY <1>1
  <2>2. Len(front) = IF 1 <= i - 1 THEN (i - 1) - 1 + 1 ELSE 0
    BY <1>1, <2>1, SubSeqProperties
  <2>3. front \in Seq(S) /\ \A j \in 1 .. (i - 1) - 1 + 1 : front[j] = files[1 + j - 1]
    BY <1>1, <2>1, SubSeqProperties
  <2>4. \A j \in 1 .. i - 1 : j \in 1 .. (i - 1) - 1 + 1 /\ 1 + j - 1 = j
    BY <1>1
  <2> HIDE DEF front
  <2>5. Len(front) = i - 1
    BY <1>1, <2>2
  <2>6. \A j \in 1 .. i - 1 : front[j] = files[j]
    BY <2>3, <2>4
  <2> QED BY <2>3, <2>5, <2>6
<1>3. /\ back \in Seq(S) /\ Len(back) = Len(files) + 1 - i
      /\ \A j \in 1 .. Len(files) + 1 - i : back[j] = files[i + j - 1]
  <2>1. \A j \in i .. Len(files) : files[j] \in S
    BY <1>1
  <2>2. Len(back) = IF i <= Len(files) THEN Len(files) - i + 1 ELSE 0
    BY <1>1, <2>1, SubSeqProperties
  <2>3. back \in Seq(S) /\ \A j \in 1 .. Len(files) - i + 1 : back[j] = files[i + j - 1]
    BY <1>1, <2>1, SubSeqProperties
  <2>4. \A j \in 1 .. Len(files) + 1 - i : j \in 1 .. Len(files) - i + 1
    BY <1>1
  <2> HIDE DEF back
  <2> QED BY <1>1, <2>2, <2>3, <2>4
<1>4. r = first \o back
  BY DEF InsertAt
<1> HIDE DEF front, back
<1>5. /\ first \in Seq(S) /\ Len(first) = i /\ first[i] = e
      /\ \A j \in 1 .. i - 1 : first[j] = files[j]
  <2>1. <<e>> \in Seq(S) /\ Len(<<e>>) = 1 /\ <<e>>[1] = e
    OBVIOUS
  <2>2. first \in Seq(S) /\ Len(first) = Len(front) + Len(<<e>>)
    BY <1>2, <2>1, ConcatProperties
  <2>3. \A j \in 1 .. Len(front) + Len(<<e>>) :
           first[j] = IF j <= Len(front) THEN front[j] ELSE <<e>>[j - Len(front)]
    BY <1>2, <2>1, ConcatProperties
  <2> HIDE DEF first
  <2>4. first[i] = e
    <3>1. i \in 1 .. Len(front) + Len(<<e>>) /\ ~(i <= Len(front)) /\ i - Len(front) = 1
      BY <1>1, <1>2, <2>1
    <3> QED BY <2>1, <2>3, <3>1
  <2>5. \A j \in 1 .. i - 1 : first[j] = files[j]
    BY <1>1, <1>2, <2>1, <2>3
  <2> QED BY <1>1, <1>2, <2>1, <2>2, <2>4, <2>5
<1> HIDE DEF first
<1>6. /\ first \o back \in Seq(S) /\ Len(first \o back) = Len(files) + 1
      /\ \A j \in 1 .. Len(files) + 1 :
            (first \o back)[j] = IF j <= i THEN first[j] ELSE back[j - i]
  <2>1. first \in Seq(S) /\ back \in Seq(S)
    BY <1>3, <1>5
  <2>2. first \o back \in Seq(S) /\ Len(first \o back) = Len(first) + Len(back)
    BY <2>1, ConcatProperties
  <2>3. \A j \in 1 .. Len(first) + Len(back) :
           (first \o back)[j] = IF j <= Len(first) THEN first[j] ELSE back[j - Len(first)]
    BY <2>1, ConcatProperties
  <2>4. Len(first) + Len(back) = Len(files) + 1
    BY <1>1, <1>3, <1>5
  <2> QED BY <1>5, <2>2, <2>3, <2>4
<1>7. ASSUME NEW j \in 1 .. Len(files) + 1
      PROVE  (first \o back)[j] = IF j < i THEN files[j] ELSE IF j = i THEN e ELSE files[j - 1]
  <2>1. CASE j < i
    BY <1>1, <1>5, <1>6, <2>1
  <2>2. CASE j = i
    BY <1>1, <1>5, <1>6, <2>2
  <2>3. CASE j > i
    <3>1. j - i \in 1 .. Len(files) + 1 - i /\ i + (j - i) - 1 = j - 1 /\ ~(j <= i)
      BY <1>1, <2>3
    <3>2. (first \o back)[j] = files[j - 1]
      BY <1>3, <1>6, <3>1
    <3> QED BY <2>3, <3>1, <3>2
  <2>4. j < i \/ j = i \/ j > i
    BY <1>1
  <2> QED BY <2>1, <2>2, <2>3, <2>4
<1>8. /\ r \in Seq(S) /\ Len(r) = Len(files) + 1
      /\ \A j \in 1 .. Len(files) + 1 :
            r[j] = IF j < i THEN files[j] ELSE IF j = i THEN e ELSE files[j - 1]
  BY <1>4, <1>6, <1>7
<1>9. r[i] = e
  BY <1>1, <1>8
<1>10. \A j \in 1 .. Len(files) : r[j] = files[j] \/ r[j + 1] = files[j]
  BY <1>1, <1>8
<1>11. ASSUME NEW j \in 1 .. Len(files) + 1
       PROVE  r[j] = e \/ \E k \in 1 .. Len(files) : r[j] = files[k]
  <2>1. CASE j < i
    <3>1. j \in 1 .. Len(files)
      BY <1>1, <2>1
    <3> QED BY <1>8, <2>1, <3>1
  <2>2. CASE j = i
    BY <1>8, <2>2
  <2>3. CASE j > i
    <3>1. j - 1 \in 1 .. Len(files) /\ r[j] = files[j - 1]
      BY <1>1, <1>8, <2>3
    <3> QED BY <3>1
  <2> QED BY <1>1, <2>1, <2>2, <2>3
<1> QED BY <1>8, <1>9, <1>10, <1>11 DEF Inserts

(* What is written is what it was meant to be, is numbered by its write,   *)
(* and takes nothing away; it counts as a step of the clock only if one is *)
(* left.                                                                   *)
LEMMA Added ==
  ASSUME NEW V, NEW files \in Seq([value : V, nth : Nat]), IsFile(files, V), NEW v \in V,
         NEW new \in Additions(files, v), skews \in 0 .. MaxSkew, CountSkew(new)
  PROVE  /\ new \in Seq([value : V, nth : Nat]) /\ IsFile(new, V)
         /\ Len(new) = Len(files) + 1 /\ new # <<>>
         /\ Has(new, [value |-> v, nth |-> Len(new)])
         /\ \A e : Has(files, e) => Has(new, e)
         /\ skews' \in 0 .. MaxSkew
<1> DEFINE S == [value : V, nth : Nat]
           e == [value |-> v, nth |-> Len(files) + 1]
<1>1. Len(files) \in Nat /\ e \in S /\ files \in Seq(S)
  OBVIOUS
<1>2. PICK i \in 1 .. Len(files) + 1 : /\ new = InsertAt(files, i, e)
                                       /\ skews < MaxSkew \/ i = Len(files) + 1
  BY <1>1 DEF Additions, Entry
<1>3. /\ new \in Seq(S) /\ Len(new) = Len(files) + 1 /\ new[i] = e
      /\ \A j \in 1 .. Len(files) : new[j] = files[j] \/ new[j + 1] = files[j]
      /\ \A j \in 1 .. Len(files) + 1 :
            new[j] = e \/ \E k \in 1 .. Len(files) : new[j] = files[k]
  <2> HIDE DEF S, e
  <2>1. new \in Seq(S) /\ Inserts(files, i, e, new)
    BY <1>1, <1>2, Inserted
  <2> QED BY <2>1 DEF Inserts
<1>4. IsFile(new, V)
  <2> SUFFICES ASSUME NEW j \in 1 .. Len(new)
               PROVE  new[j].value \in V /\ new[j].nth \in 1 .. Len(new)
    BY DEF IsFile
  <2>1. CASE new[j] = e
    BY <1>1, <1>3, <2>1
  <2>2. ASSUME NEW k \in 1 .. Len(files), new[j] = files[k]
        PROVE  new[j].value \in V /\ new[j].nth \in 1 .. Len(new)
    BY <1>1, <1>3, <2>2 DEF IsFile
  <2> QED BY <1>3, <2>1, <2>2
<1>5. Has(new, [value |-> v, nth |-> Len(new)])
  BY <1>1, <1>2, <1>3 DEF Has
<1>6. ASSUME NEW x, Has(files, x) PROVE Has(new, x)
  <2>1. PICK j \in 1 .. Len(files) : files[j] = x
    BY <1>6 DEF Has
  <2>2. j \in 1 .. Len(new) /\ j + 1 \in 1 .. Len(new)
    BY <1>1, <1>3
  <2> QED BY <1>3, <2>1, <2>2 DEF Has
<1>7. skews' \in 0 .. MaxSkew
  <2>1. CASE skews < MaxSkew
    BY <2>1 DEF CountSkew
  <2>2. CASE i = Len(files) + 1
    <3>1. WrittenLast(new)
      BY <1>1, <1>3, <2>2 DEF WrittenLast, Last
    <3> QED BY <3>1 DEF CountSkew
  <2> QED BY <1>2, <2>1, <2>2
<1>8. new # <<>>
  BY <1>1, <1>3
<1> QED BY <1>3, <1>4, <1>5, <1>6, <1>7, <1>8

(* The last file of some files is one of theirs.                           *)
LEMMA LastIsOne ==
  ASSUME NEW S, NEW files \in Seq(S), files # <<>>
  PROVE  Last(files) \in S /\ Len(files) \in Nat \ {0}
BY DEF Last

(* What a start reads is a status, and a lease that is held or is not.     *)
LEMMA Rebuilt ==
  ASSUME DiskInv
  PROVE  /\ RebuiltStatuses \in [Task -> TaskState]
         /\ RebuiltLeases \in [Lease -> { None, "HELD", "COMMITTED" }]
<1>1. ASSUME NEW t \in Task PROVE LatestStatus(statusFiles[t], statusSnap[t]) \in TaskState
  <2>1. statusFiles[t] \in Seq(StatusEntry) /\ statusSnap[t].value \in TaskState
    BY DEF DiskInv, StatusEntry
  <2>2. statusFiles[t] # <<>> => Last(statusFiles[t]).value \in TaskState
    <3>1. statusFiles[t] # <<>> => Last(statusFiles[t]) \in StatusEntry
      BY <2>1, LastIsOne
    <3> QED BY <3>1 DEF StatusEntry
  <2> QED BY <2>1, <2>2 DEF LatestStatus
<1>2. ASSUME NEW l \in Lease
      PROVE  RebuiltLease(leaseFiles[l], leaseSnap[l]) \in { None, "HELD", "COMMITTED" }
  <2>1. leaseFiles[l] \in Seq(LeaseEntry) /\ leaseSnap[l] \in { None, "HELD", "COMMITTED" }
    BY DEF DiskInv
  <2>2. leaseFiles[l] # <<>> => Last(leaseFiles[l]).value \in LeaseAction
    <3>1. leaseFiles[l] # <<>> => Last(leaseFiles[l]) \in LeaseEntry
      BY <2>1, LastIsOne
    <3> QED BY <3>1 DEF LeaseEntry
  <2> QED BY <2>1, <2>2 DEF RebuiltLease, LeaseAction
<1> QED BY <1>1, <1>2 DEF RebuiltStatuses, RebuiltLeases

LEMMA TargetsAreStates ==
  ASSUME NEW s \in TaskState
  PROVE  TaskTargets(s) \subseteq TaskState
BY DEF TaskTargets, TaskState

LEMMA StateSets == OutcomeStates \subseteq TaskState /\ ActiveStates \subseteq TaskState
BY DEF OutcomeStates, ActiveStates, TaskState

(* A write of one call leaves those of the others in order.                *)
LEMMA OneWrite ==
  ASSUME OpInv, NEW t \in Task, NEW o \in Ops, op' = [op EXCEPT ![t] = o], WriteInv(t, o)',
         \A u \in Task : u # t => statusFiles'[u] = statusFiles[u],
         \A l \in Lease : leaseFiles[l] # <<>> => leaseFiles'[l] # <<>>
  PROVE  OpInv'
<1>1. op' \in [Task -> Ops] /\ op'[t] = o /\ \A u \in Task : u # t => op'[u] = op[u]
  BY DEF OpInv
<1>2. ASSUME NEW u \in Task, u # t PROVE WriteInv(u, op[u])'
  BY <1>1, <1>2 DEF OpInv, WriteInv
<1>3. WriteInv(t, op[t])'
  BY <1>1 DEF WriteInv
<1> QED BY <1>1, <1>2, <1>3 DEF OpInv

(* No write is under way.                                                  *)
LEMMA Rest ==
  /\ Idle \in Ops /\ [Idle EXCEPT !.step = "event"] \in Ops
  /\ \A t \in Task : WriteInv(t, Idle) /\ WriteInv(t, [Idle EXCEPT !.step = "event"])
BY DEF Idle, Ops, Steps, WriteInv

LEMMA ForgetKeeps ==
  ASSUME Inv, Forget
  PROVE  MemoryInv' /\ OpInv'
<1>1. MemoryInv'
  BY DEF Inv, MemoryInv, Forget, TaskState, Threads
<1>2. op' = [t \in Task |-> Idle]
  BY DEF Forget
<1> QED BY <1>1, <1>2, Rest DEF OpInv, WriteInv, Idle, Ops, Steps

-----------------------------------------------------------------------------
(* The writes.                                                             *)

(* A write goes to its next file.                                          *)
LEMMA NextFile ==
  ASSUME OpInv, NEW t \in Task, NEW s \in Steps, op' = [op EXCEPT ![t].step = s]
  PROVE  \E o \in Ops : /\ o.step = s /\ o.of = op[t].of /\ o.value = op[t].value
                        /\ op' = [op EXCEPT ![t] = o]
<1> DEFINE o == [op[t] EXCEPT !.step = s]
<1>1. op[t] \in Ops
  BY DEF OpInv
<1>2. o \in Ops /\ o.step = s /\ o.of = op[t].of /\ o.value = op[t].value
  BY <1>1 DEF Ops
<1>3. op' = [op EXCEPT ![t] = o]
  OBVIOUS
<1> QED BY <1>2, <1>3

LEMMA WriteStatusKeeps ==
  ASSUME Inv, NEW t \in Task, WriteStatus(t)
  PROVE  Inv'
<1>1. PICK new \in Additions(statusFiles[t], op[t].value) :
        statusFiles' = [statusFiles EXCEPT ![t] = new] /\ CountSkew(new)
  BY DEF WriteStatus
<1>2. /\ op[t].step = "history" /\ op' = [op EXCEPT ![t].step = "snapshot"]
      /\ UNCHANGED <<taskFiles, leaseFiles, statusSnap, leaseSnap, lines, torn, mode, statuses, queue,
                     leases, thread, crashes>>
  BY DEF WriteStatus, Step, snapVars, eventVars, memoryVars
<1>3. /\ statusFiles[t] \in Seq([value : TaskState, nth : Nat])
      /\ IsFile(statusFiles[t], TaskState) /\ skews \in 0 .. MaxSkew
  BY DEF Inv, DiskInv, StatusEntry
<1>4. op[t].value \in TaskState /\ op[t] \in Ops
  BY <1>2 DEF Inv, OpInv, WriteInv
<1>5. /\ new \in Seq(StatusEntry) /\ IsFile(new, TaskState) /\ skews' \in 0 .. MaxSkew
      /\ Has(new, [value |-> op[t].value, nth |-> Len(new)])
      /\ \A e : Has(statusFiles[t], e) => Has(new, e)
  <2>1. PICK s \in TaskState : s = op[t].value
    BY <1>4
  <2>2. new \in Additions(statusFiles[t], s) /\ CountSkew(new)
    BY <1>1, <2>1
  <2>3. /\ new \in Seq([value : TaskState, nth : Nat]) /\ IsFile(new, TaskState)
        /\ skews' \in 0 .. MaxSkew
    BY <1>3, <2>2, Added
  <2>4. Has(new, [value |-> s, nth |-> Len(new)])
    BY <1>3, <2>2, Added
  <2>5. \A e : Has(statusFiles[t], e) => Has(new, e)
    BY <1>3, <2>2, Added
  <2> QED BY <2>1, <2>3, <2>4, <2>5 DEF StatusEntry
<1>6. /\ statusFiles' \in [Task -> Seq(StatusEntry)] /\ statusFiles'[t] = new
      /\ \A u \in Task : u # t => statusFiles'[u] = statusFiles[u]
  BY <1>1, <1>5 DEF Inv, DiskInv
<1>7. MemoryInv'
  BY <1>2 DEF Inv, MemoryInv
<1>8. DiskInv'
  <2>1. \A u \in Task : IsFile(statusFiles[u], TaskState)'
    BY <1>5, <1>6 DEF Inv, DiskInv, IsFile
  <2> QED BY <1>2, <1>5, <1>6, <2>1 DEF Inv, DiskInv, IsFile
<1>9. OpInv'
  <2>1. "snapshot" \in Steps
    BY DEF Steps
  <2>2. PICK o \in Ops : /\ o.step = "snapshot" /\ o.value = op[t].value
                         /\ op' = [op EXCEPT ![t] = o]
    BY <1>2, <2>1, NextFile DEF Inv
  <2>3. WriteInv(t, o)'
    BY <1>4, <1>5, <1>6, <2>2 DEF WriteInv, Has
  <2> QED BY <1>2, <1>6, <2>2, <2>3, OneWrite DEF Inv
<1>10. SnapInv'
  <2>1. \A u \in Task : Has(statusFiles[u], statusSnap[u]) => Has(statusFiles'[u], statusSnap[u])
    BY <1>5, <1>6
  <2>2. \A u \in Task : statusSnap'[u] = NoSnap \/ Has(statusFiles'[u], statusSnap'[u])
    BY <1>2, <2>1 DEF Inv, SnapInv
  <2> QED BY <1>2, <2>2 DEF Inv, SnapInv, Has
<1> QED BY <1>7, <1>8, <1>9, <1>10 DEF Inv

LEMMA WriteStatusSnapshotKeeps ==
  ASSUME Inv, NEW t \in Task, WriteStatusSnapshot(t)
  PROVE  Inv'
<1> DEFINE snap == [value |-> op[t].value, nth |-> Len(statusFiles[t])]
<1>1. /\ op[t].step = "snapshot" /\ op' = [op EXCEPT ![t].step = "event"]
      /\ statusSnap' = [statusSnap EXCEPT ![t] = snap]
      /\ UNCHANGED <<taskFiles, statusFiles, leaseFiles, leaseSnap, lines, torn, mode, statuses, queue,
                     leases, thread, crashes, skews>>
  BY DEF WriteStatusSnapshot, Step, historyVars, eventVars, memoryVars
<1>2. op[t] \in Ops /\ op[t].value \in TaskState /\ Has(statusFiles[t], snap)
  BY <1>1 DEF Inv, OpInv, WriteInv
<1>3. snap \in StatusEntry
  <2>1. Len(statusFiles[t]) \in Nat
    BY DEF Inv, DiskInv
  <2> QED BY <1>2, <2>1 DEF StatusEntry
<1> HIDE DEF snap
<1>4. MemoryInv'
  BY <1>1 DEF Inv, MemoryInv
<1>5. DiskInv'
  BY <1>1, <1>3 DEF Inv, DiskInv, IsFile
<1>6. OpInv'
  <2>1. "event" \in Steps
    BY DEF Steps
  <2>2. PICK o \in Ops : o.step = "event" /\ op' = [op EXCEPT ![t] = o]
    BY <1>1, <2>1, NextFile DEF Inv
  <2>3. WriteInv(t, o)'
    BY <2>2 DEF WriteInv
  <2> QED BY <1>1, <2>2, <2>3, OneWrite DEF Inv
<1>7. SnapInv'
  <2>1. /\ statusSnap'[t] = snap
        /\ \A u \in Task : u # t => statusSnap'[u] = statusSnap[u]
    BY <1>1 DEF Inv, DiskInv
  <2>2. \A u \in Task : statusSnap'[u] = NoSnap \/ Has(statusFiles[u], statusSnap'[u])
    BY <1>2, <2>1 DEF Inv, SnapInv
  <2> QED BY <1>1, <2>2 DEF Inv, SnapInv, Has
<1> QED BY <1>4, <1>5, <1>6, <1>7 DEF Inv

LEMMA AppendEventKeeps ==
  ASSUME Inv, NEW t \in Task, AppendEvent(t)
  PROVE  Inv'
<1>1. /\ op' = [op EXCEPT ![t] = Idle] /\ lines' = [lines EXCEPT ![t] = @ + 1]
      /\ thread' \in { thread, [thread EXCEPT ![t] = None] }
      /\ UNCHANGED <<taskFiles, statusFiles, leaseFiles, statusSnap, leaseSnap, torn, mode, statuses,
                     queue, leases, crashes, skews>>
  BY DEF AppendEvent, Over, historyVars, snapVars
<1>2. MemoryInv'
  BY <1>1 DEF Inv, MemoryInv, Threads
<1>3. DiskInv'
  BY <1>1 DEF Inv, DiskInv, IsFile
<1>4. OpInv'
  <2>1. WriteInv(t, Idle)'
    BY DEF WriteInv, Idle
  <2> QED BY <1>1, <2>1, Rest, OneWrite DEF Inv
<1>5. SnapInv'
  BY <1>1 DEF Inv, SnapInv, Has
<1> QED BY <1>2, <1>3, <1>4, <1>5 DEF Inv

LEMMA AppendFailsKeeps ==
  ASSUME Inv, NEW t \in Task, AppendFails(t)
  PROVE  Inv'
<1>1. /\ torn' \subseteq Task
      /\ UNCHANGED <<taskFiles, statusFiles, leaseFiles, statusSnap, leaseSnap, lines, crashes, skews>>
  BY DEF Inv, DiskInv, AppendFails, historyVars, snapVars
<1>2. MemoryInv' /\ OpInv'
  <2>1. CASE Forget
    BY <2>1, ForgetKeeps
  <2>2. CASE /\ thread' = [thread EXCEPT ![t] =
                   IF @ \in { "dispatch", "cancelled" } /\ op[t].value # "PREPARING"
                   THEN "unsure" ELSE None]
             /\ op' = [op EXCEPT ![t] = Idle]
             /\ UNCHANGED <<mode, statuses, queue, leases>>
    <3>1. MemoryInv'
      BY <2>2 DEF Inv, MemoryInv, Threads
    <3>2. WriteInv(t, Idle)'
      BY DEF WriteInv, Idle
    <3> QED BY <1>1, <2>2, <3>1, <3>2, Rest, OneWrite DEF Inv
  <2> QED BY <2>1, <2>2 DEF AppendFails, Raised, Over
<1>3. DiskInv'
  BY <1>1 DEF Inv, DiskInv, IsFile
<1>4. SnapInv'
  BY <1>1 DEF Inv, SnapInv, Has
<1> QED BY <1>2, <1>3, <1>4 DEF Inv

LEMMA WriteLeaseKeeps ==
  ASSUME Inv, NEW t \in Task, WriteLease(t)
  PROVE  Inv'
<1> DEFINE l == op[t].of
<1>1. PICK new \in Additions(leaseFiles[l], op[t].value) :
        leaseFiles' = [leaseFiles EXCEPT ![l] = new] /\ CountSkew(new)
  BY DEF WriteLease
<1>2. /\ op[t].step = "lease_history" /\ op' = [op EXCEPT ![t].step = "lease_snapshot"]
      /\ UNCHANGED <<taskFiles, statusFiles, statusSnap, leaseSnap, lines, torn, mode, statuses, queue,
                     leases, thread, crashes>>
  BY DEF WriteLease, Step, snapVars, eventVars, memoryVars
<1>3. l \in Lease /\ op[t].value \in LeaseAction /\ op[t] \in Ops
  BY <1>2 DEF Inv, OpInv, WriteInv
<1> HIDE DEF l
<1>4. /\ leaseFiles[l] \in Seq([value : LeaseAction, nth : Nat])
      /\ IsFile(leaseFiles[l], LeaseAction) /\ skews \in 0 .. MaxSkew
  BY <1>3 DEF Inv, DiskInv, LeaseEntry
<1>5. /\ new \in Seq(LeaseEntry) /\ IsFile(new, LeaseAction) /\ skews' \in 0 .. MaxSkew
      /\ new # <<>>
  <2>1. PICK a \in LeaseAction : a = op[t].value
    BY <1>3
  <2>2. new \in Additions(leaseFiles[l], a) /\ CountSkew(new)
    BY <1>1, <2>1
  <2>3. /\ new \in Seq([value : LeaseAction, nth : Nat]) /\ IsFile(new, LeaseAction)
        /\ skews' \in 0 .. MaxSkew
    BY <1>4, <2>2, Added
  <2>4. new # <<>>
    BY <1>4, <2>2, Added
  <2> QED BY <2>3, <2>4 DEF LeaseEntry
<1>6. /\ leaseFiles' \in [Lease -> Seq(LeaseEntry)] /\ leaseFiles'[l] = new
      /\ \A k \in Lease : k # l => leaseFiles'[k] = leaseFiles[k]
  BY <1>1, <1>3, <1>5 DEF Inv, DiskInv
<1>7. MemoryInv'
  BY <1>2 DEF Inv, MemoryInv
<1>8. DiskInv'
  <2>1. \A k \in Lease : IsFile(leaseFiles[k], LeaseAction)'
    BY <1>5, <1>6 DEF Inv, DiskInv, IsFile
  <2> QED BY <1>2, <1>5, <1>6, <2>1 DEF Inv, DiskInv, IsFile
<1>9. OpInv'
  <2>1. PICK o \in Ops : /\ o.step = "lease_snapshot" /\ o.of = l /\ o.value = op[t].value
                         /\ op' = [op EXCEPT ![t] = o]
    BY <1>2, NextFile DEF Inv, Steps, l
  <2>2. WriteInv(t, o)'
    BY <1>3, <1>5, <1>6, <2>1 DEF WriteInv
  <2> QED BY <1>2, <1>5, <1>6, <2>1, <2>2, OneWrite DEF Inv
<1>10. SnapInv'
  BY <1>2, <1>5, <1>6 DEF Inv, SnapInv, Has
<1> QED BY <1>7, <1>8, <1>9, <1>10 DEF Inv

LEMMA WriteLeaseSnapshotKeeps ==
  ASSUME Inv, NEW t \in Task, WriteLeaseSnapshot(t)
  PROVE  Inv'
<1> DEFINE l == op[t].of
           kept == IF op[t].value = "RELEASED" THEN None ELSE op[t].value
<1>1. /\ op[t].step = "lease_snapshot" /\ op' = [op EXCEPT ![t] = Idle]
      /\ leases' = [leases EXCEPT ![l] = kept] /\ leaseSnap' = [leaseSnap EXCEPT ![l] = kept]
      /\ UNCHANGED <<taskFiles, statusFiles, leaseFiles, statusSnap, lines, torn, mode, statuses, queue,
                     thread, crashes, skews>>
  BY DEF WriteLeaseSnapshot, Over, historyVars, eventVars
<1>2. l \in Lease /\ kept \in { None, "HELD", "COMMITTED" } /\ leaseFiles[l] # <<>>
  BY <1>1 DEF Inv, OpInv, WriteInv, LeaseAction
<1> HIDE DEF l, kept
<1>3. MemoryInv'
  BY <1>1, <1>2 DEF Inv, MemoryInv
<1>4. DiskInv'
  BY <1>1, <1>2 DEF Inv, DiskInv, IsFile
<1>5. OpInv'
  <2>1. WriteInv(t, Idle)'
    BY DEF WriteInv, Idle
  <2> QED BY <1>1, <2>1, Rest, OneWrite DEF Inv
<1>6. SnapInv'
  <2>1. \A k \in Lease : k # l => leaseSnap'[k] = leaseSnap[k]
    BY <1>1 DEF Inv, DiskInv
  <2> QED BY <1>1, <1>2, <2>1 DEF Inv, SnapInv, Has
<1> QED BY <1>3, <1>4, <1>5, <1>6 DEF Inv

-----------------------------------------------------------------------------
(* The calls.                                                              *)

(* What a call may begin to write.                                         *)
Begins(o) ==
  /\ o \in Ops /\ o.step \notin { "snapshot", "lease_snapshot" }
  /\ o.step = "history" => o.value \in TaskState
  /\ o.step = "lease_history" => o.of \in Lease /\ o.value \in LeaseAction

(* A call that begins a write, or none, and touches no file but the Task's.*)
LEMMA BeginKeeps ==
  ASSUME Inv, NEW t \in Task, MemoryInv', taskFiles' \subseteq Task,
         op' = op \/ \E o : Begins(o) /\ op' = [op EXCEPT ![t] = o],
         UNCHANGED <<statusFiles, leaseFiles, statusSnap, leaseSnap, lines, torn, crashes, skews>>
  PROVE  Inv'
<1>1. DiskInv'
  BY DEF Inv, DiskInv, IsFile
<1>2. SnapInv'
  BY DEF Inv, SnapInv, Has
<1>3. OpInv'
  <2>1. CASE op' = op
    BY <2>1 DEF Inv, OpInv, WriteInv, Has
  <2>2. ASSUME NEW o, Begins(o), op' = [op EXCEPT ![t] = o] PROVE OpInv'
    <3>1. o \in Ops /\ WriteInv(t, o)'
      BY <2>2 DEF Begins, WriteInv
    <3> QED BY <2>2, <3>1, OneWrite DEF Inv
  <2> QED BY <2>1, <2>2
<1> QED BY <1>1, <1>2, <1>3 DEF Inv

LEMMA ChangeBegins ==
  ASSUME Inv, NEW t \in Task, NEW s \in TaskState, Change(t, s)
  PROVE  /\ statuses' \in [Task -> TaskState]
         /\ \E o : Begins(o) /\ op' = [op EXCEPT ![t] = o]
<1>1. Begins(StatusWrite(t, s))
  BY DEF Begins, StatusWrite, Ops, Steps
<1> QED BY <1>1 DEF Inv, MemoryInv, Change

LEMMA TransitionBegins ==
  ASSUME Inv, NEW t \in Task, NEW s, Transition(t, s)
  PROVE  /\ statuses' \in [Task -> TaskState]
         /\ \E o : Begins(o) /\ op' = [op EXCEPT ![t] = o]
<1>1. statuses[t] \in TaskState
  BY DEF Inv, MemoryInv
<1>2. s \in TaskState /\ Change(t, s)
  BY <1>1, TargetsAreStates DEF Transition
<1> QED BY <1>2, ChangeBegins

LEMMA LeaseBegins ==
  ASSUME Inv, NEW t \in Task, NEW l \in LeasesOf[t], NEW a \in LeaseAction,
         op' = [op EXCEPT ![t] = LeaseWrite(l, a)]
  PROVE  \E o : Begins(o) /\ op' = [op EXCEPT ![t] = o]
<1>1. l \in Lease
  OBVIOUS
<1>2. Begins(LeaseWrite(l, a))
  BY <1>1 DEF Begins, LeaseWrite, Ops, Steps
<1> QED BY <1>2

(* Calls that change the Task's status, and no lease.                      *)
LEMMA StatusCallKeeps ==
  ASSUME Inv, NEW t \in Task,
         \/ Enqueue(t) \/ Dequeue(t) \/ Claim(t) \/ Advance(t) \/ CancelBeforeStart(t)
         \/ CleanupFailed(t) \/ Outcome(t) \/ ForceFailure(t) \/ Settle(t)
  PROVE  Inv'
<1>1. /\ UNCHANGED <<taskFiles, statusFiles, leaseFiles, statusSnap, leaseSnap, lines, torn, mode,
                     leases, crashes, skews>>
      /\ queue' \subseteq queue \cup { t } /\ mode = "up"
      /\ thread' = thread \/ \E h \in Threads : thread' = [thread EXCEPT ![t] = h]
  BY DEF Enqueue, Dequeue, Claim, Advance, CancelBeforeStart, CleanupFailed, Outcome, ForceFailure,
         Settle, Kept, historyVars, snapVars, eventVars, Ready, Threads
<1>2. \/ \E s : Transition(t, s)
      \/ \E s \in TaskState : Change(t, s)
      \/ op' = [op EXCEPT ![t] = [Idle EXCEPT !.step = "event"]] /\ statuses' = statuses
  BY StateSets DEF Enqueue, Dequeue, Claim, Advance, CancelBeforeStart, CleanupFailed, Outcome,
         ForceFailure, Settle, TaskState
<1>3. /\ statuses' \in [Task -> TaskState]
      /\ \E o : Begins(o) /\ op' = [op EXCEPT ![t] = o]
  <2>1. CASE (\E s : Transition(t, s)) \/ \E s \in TaskState : Change(t, s)
    BY <2>1, TransitionBegins, ChangeBegins
  <2>2. CASE op' = [op EXCEPT ![t] = [Idle EXCEPT !.step = "event"]] /\ statuses' = statuses
    <3>1. Begins([Idle EXCEPT !.step = "event"])
      BY DEF Begins, Idle, Ops, Steps
    <3> QED BY <2>2, <3>1 DEF Inv, MemoryInv
  <2> QED BY <1>2, <2>1, <2>2
<1>4. MemoryInv'
  BY <1>1, <1>3 DEF Inv, MemoryInv
<1>5. taskFiles' \subseteq Task
  BY <1>1 DEF Inv, DiskInv
<1> QED BY <1>1, <1>3, <1>4, <1>5, BeginKeeps

(* The others: the Task's own file, leases, and the way a dispatch goes.   *)
LEMMA OtherCallKeeps ==
  ASSUME Inv, NEW t \in Task,
         \/ Admit(t) \/ Fail(t) \/ Reconcile(t)
         \/ \E l \in LeasesOf[t] : Hold(t, l) \/ Commit(t, l) \/ Release(t, l)
  PROVE  Inv'
<1>1. /\ UNCHANGED <<statusFiles, leaseFiles, statusSnap, leaseSnap, lines, torn, mode, statuses, queue,
                     leases, crashes, skews>>
      /\ taskFiles' \subseteq taskFiles \cup { t }
      /\ thread' = thread \/ \E h \in Threads : thread' = [thread EXCEPT ![t] = h]
  BY DEF Admit, Fail, Reconcile, Hold, Commit, Release, Kept, historyVars, snapVars, eventVars,
         memoryVars, Threads
<1>2. \/ op' = op
      \/ \E l \in LeasesOf[t], a \in LeaseAction : op' = [op EXCEPT ![t] = LeaseWrite(l, a)]
  BY DEF Admit, Fail, Reconcile, Hold, Commit, Release, Kept, LeaseAction
<1>3. op' = op \/ \E o : Begins(o) /\ op' = [op EXCEPT ![t] = o]
  BY <1>2, LeaseBegins
<1>4. MemoryInv'
  BY <1>1 DEF Inv, MemoryInv
<1>5. taskFiles' \subseteq Task
  BY <1>1 DEF Inv, DiskInv
<1> QED BY <1>1, <1>3, <1>4, <1>5, BeginKeeps

-----------------------------------------------------------------------------
(* Starts and ends of the master, and all together.                        *)

LEMMA LoadKeeps ==
  ASSUME Inv, Load
  PROVE  Inv'
<1>1. CASE Start
  <2>1. /\ mode' = "loading" /\ statuses' = RebuiltStatuses /\ mode = "down"
        /\ UNCHANGED <<taskFiles, statusFiles, leaseFiles, statusSnap, leaseSnap, lines, torn, queue,
                       leases, thread, op, crashes, skews>>
    BY <1>1 DEF Start, historyVars, snapVars, eventVars
  <2>2. RebuiltStatuses \in [Task -> TaskState]
    BY Rebuilt DEF Inv
  <2>3. MemoryInv'
    BY <2>1, <2>2 DEF Inv, MemoryInv
  <2>4. DiskInv' /\ OpInv' /\ SnapInv'
    BY <2>1 DEF Inv, DiskInv, IsFile, OpInv, WriteInv, SnapInv, Has
  <2> QED BY <2>3, <2>4 DEF Inv
<1>2. CASE Loaded
  <2>1. /\ mode' = "up" /\ queue' \subseteq taskFiles /\ leases' = RebuiltLeases
        /\ UNCHANGED <<taskFiles, statusFiles, leaseFiles, statusSnap, leaseSnap, lines, torn,
                       statuses, thread, op, crashes, skews>>
    BY <1>2 DEF Loaded, Rebuilds, Marked, historyVars, snapVars, eventVars
  <2>2. RebuiltLeases \in [Lease -> { None, "HELD", "COMMITTED" }]
    BY Rebuilt DEF Inv
  <2>3. MemoryInv'
    BY <2>1, <2>2 DEF Inv, MemoryInv, DiskInv
  <2>4. DiskInv' /\ OpInv' /\ SnapInv'
    BY <2>1 DEF Inv, DiskInv, IsFile, OpInv, WriteInv, SnapInv, Has
  <2> QED BY <2>3, <2>4 DEF Inv
<1>3. CASE Refused
  <2>1. /\ Forget
        /\ UNCHANGED <<taskFiles, statusFiles, leaseFiles, statusSnap, leaseSnap, lines, torn,
                       crashes, skews>>
    BY <1>3 DEF Refused, historyVars, snapVars, eventVars
  <2>2. DiskInv' /\ SnapInv'
    BY <2>1 DEF Inv, DiskInv, IsFile, SnapInv, Has
  <2> QED BY <2>1, <2>2, ForgetKeeps DEF Inv
<1>4. ASSUME NEW t \in Task, Mark(t) PROVE Inv'
  <2>1. /\ Change(t, "RECONCILIATION_REQUIRED") /\ mode = "loading"
        /\ UNCHANGED <<taskFiles, statusFiles, leaseFiles, statusSnap, leaseSnap, lines, torn, mode,
                       queue, leases, thread, crashes, skews>>
    BY <1>4 DEF Mark, Kept, historyVars, snapVars, eventVars
  <2>2. /\ statuses' \in [Task -> TaskState]
        /\ \E o : Begins(o) /\ op' = [op EXCEPT ![t] = o]
    BY <2>1, ChangeBegins DEF TaskState
  <2>3. MemoryInv' /\ taskFiles' \subseteq Task
    BY <2>1, <2>2 DEF Inv, MemoryInv, DiskInv
  <2> QED BY <2>1, <2>2, <2>3, BeginKeeps
<1> QED BY <1>1, <1>2, <1>3, <1>4 DEF Load

LEMMA CrashKeeps ==
  ASSUME Inv, Crash
  PROVE  Inv'
<1>1. /\ Forget /\ crashes' \in 0 .. MaxCrash /\ torn' \subseteq Task
      /\ UNCHANGED <<taskFiles, statusFiles, leaseFiles, statusSnap, leaseSnap, lines, skews>>
  BY DEF Inv, DiskInv, Crash, historyVars, snapVars
<1>2. DiskInv' /\ SnapInv'
  BY <1>1 DEF Inv, DiskInv, IsFile, SnapInv, Has
<1> QED BY <1>1, <1>2, ForgetKeeps DEF Inv

LEMMA WipeKeeps ==
  ASSUME Inv, Wipe
  PROVE  Inv'
<1>1. /\ statusSnap' = [t \in Task |-> NoSnap] /\ leaseSnap' = [l \in Lease |-> None]
      /\ UNCHANGED <<taskFiles, statusFiles, leaseFiles, lines, torn, mode, statuses, queue, leases,
                     thread, op, crashes, skews>>
  BY DEF Wipe, historyVars, eventVars, memoryVars
<1>2. NoSnap \in StatusEntry
  BY DEF NoSnap, StatusEntry, TaskState
<1>3. DiskInv' /\ SnapInv'
  BY <1>1, <1>2 DEF Inv, DiskInv, IsFile, SnapInv
<1>4. MemoryInv' /\ OpInv'
  BY <1>1 DEF Inv, MemoryInv, OpInv, WriteInv, Has
<1> QED BY <1>3, <1>4 DEF Inv

LEMMA RepairKeeps ==
  ASSUME Inv, Repair
  PROVE  Inv'
<1>1. /\ torn' \subseteq torn
      /\ UNCHANGED <<taskFiles, statusFiles, leaseFiles, statusSnap, leaseSnap, lines, mode, statuses,
                     queue, leases, thread, op, crashes, skews>>
  BY DEF Repair, historyVars, snapVars, memoryVars
<1> QED BY <1>1 DEF Inv, MemoryInv, DiskInv, IsFile, OpInv, WriteInv, SnapInv, Has

(* At first there is nothing on the disk and the master is down.           *)
THEOREM InitInv == Init => Inv
<1> SUFFICES ASSUME Init PROVE Inv
  OBVIOUS
<1>1. MemoryInv
  BY DEF Init, MemoryInv, TaskState, Threads
<1>2. DiskInv
  <2>1. NoSnap \in StatusEntry
    BY DEF NoSnap, StatusEntry, TaskState
  <2>2. \A t \in Task : IsFile(statusFiles[t], TaskState)
    BY DEF Init, IsFile
  <2>3. \A l \in Lease : IsFile(leaseFiles[l], LeaseAction)
    BY DEF Init, IsFile
  <2>4. statusFiles \in [Task -> Seq(StatusEntry)] /\ leaseFiles \in [Lease -> Seq(LeaseEntry)]
    BY DEF Init
  <2> QED BY <2>1, <2>2, <2>3, <2>4 DEF Init, DiskInv
<1>3. OpInv
  BY Rest DEF Init, OpInv
<1>4. SnapInv
  BY DEF Init, SnapInv
<1> QED BY <1>1, <1>2, <1>3, <1>4 DEF Inv

(* Every write, call, start and end of the master keeps the invariant.     *)
THEOREM NextInv == Inv /\ [Next]_vars => Inv'
<1> SUFFICES ASSUME Inv, [Next]_vars PROVE Inv'
  OBVIOUS
<1>1. CASE Load \/ Crash \/ Wipe \/ Repair
  BY <1>1, LoadKeeps, CrashKeeps, WipeKeeps, RepairKeeps
<1>2. ASSUME NEW t \in Task, Write(t) PROVE Inv'
  BY <1>2, WriteStatusKeeps, WriteStatusSnapshotKeeps, AppendEventKeeps, AppendFailsKeeps,
     WriteLeaseKeeps, WriteLeaseSnapshotKeeps DEF Write
<1>3. ASSUME NEW t \in Task, Call(t) PROVE Inv'
  BY <1>3, StatusCallKeeps, OtherCallKeeps DEF Call
<1>4. CASE UNCHANGED vars
  <2>1. UNCHANGED <<taskFiles, statusFiles, leaseFiles, statusSnap, leaseSnap, lines, torn, mode,
                    statuses, queue, leases, thread, op, crashes, skews>>
    BY <1>4 DEF vars, historyVars, snapVars, eventVars, memoryVars
  <2> QED BY <2>1 DEF Inv, MemoryInv, DiskInv, IsFile, OpInv, WriteInv, SnapInv, Has
<1> QED BY <1>1, <1>2, <1>3, <1>4 DEF Next

(* The invariant holds always.                                             *)
THEOREM StoreCorrect == Spec => []Inv
BY InitInv, NextInv, PTL DEF Spec

-----------------------------------------------------------------------------
(* What it is for.                                                         *)

(* Every variable keeps its type: the files hold what was written, numbered*)
(* by their writes, and nothing is queued while the master is down.        *)
THEOREM TypeCorrect == Spec => []TypeOK
<1>1. Inv => TypeOK
  <2> SUFFICES ASSUME Inv PROVE TypeOK
    OBVIOUS
  <2>1. \A t \in Task : statusSnap[t].value \in TaskState
    BY DEF Inv, DiskInv, StatusEntry
  <2>2. \A t \in Task : op[t].step \in
           { "idle", "history", "snapshot", "event", "lease_history", "lease_snapshot" }
    BY DEF Inv, OpInv, Ops, Steps
  <2> QED BY <2>1, <2>2 DEF Inv, MemoryInv, DiskInv, TypeOK
<1> QED BY <1>1, StoreCorrect, PTL

(* docs/usage.md:46: the snapshots may be deleted at any moment, whatever  *)
(* was torn, however often the master crashed and the clock stepped back.  *)
THEOREM SnapshotsMayGo == Spec => []SnapshotsAreRedundant
<1>1. ASSUME Inv, NEW t \in Task
      PROVE  LatestStatus(statusFiles[t], statusSnap[t]) = LatestStatus(statusFiles[t], NoSnap)
  <2>1. CASE statusSnap[t] = NoSnap
    BY <2>1
  <2>2. CASE Has(statusFiles[t], statusSnap[t])
    <3>1. statusFiles[t] # <<>>
      BY <2>2 DEF Has
    <3> QED BY <2>2, <3>1 DEF LatestStatus, Has
  <2> QED BY <1>1, <2>1, <2>2 DEF Inv, SnapInv
<1>2. ASSUME Inv, NEW l \in Lease
      PROVE  RebuiltLease(leaseFiles[l], leaseSnap[l]) = RebuiltLease(leaseFiles[l], None)
  BY <1>2 DEF Inv, SnapInv, RebuiltLease
<1>3. Inv => SnapshotsAreRedundant
  BY <1>1, <1>2 DEF SnapshotsAreRedundant
<1> QED BY <1>3, StoreCorrect, PTL

-----------------------------------------------------------------------------
(* What was written last, for RebuiltAsWritten and ReleasedBeforeOutcome.  *)
(* A write of a lease begins after the file of the status it belongs to, and*)
(* an outcome is written after the files of all releases.                  *)

(* Every write has made one entry, the last one included.                  *)
Numbered(files) ==
  /\ \A i, j \in 1 .. Len(files) : files[i].nth = files[j].nth => i = j
  /\ files # <<>> => \E i \in 1 .. Len(files) : files[i].nth = Len(files)

LeaseSteps == { "lease_history", "lease_snapshot" }
Writing(t, l) == op[t].step \in LeaseSteps /\ op[t].of = l

(* A lease in memory, when no thread is about to change it: what a start   *)
(* read of its files, or what was written last.                            *)
LeaseInv(l) ==
  /\ Numbered(leaseFiles[l])
  /\ mode = "up" /\ (\A t \in Task : ~Writing(t, l)) =>
       /\ leases[l] = None => leaseFiles[l] = <<>> \/ Writes(l, "RELEASED")
       /\ leases[l] # None => leaseFiles[l] # <<>>
       /\ WrittenLast(leaseFiles[l]) => LeaseAsWritten(l)

WaitStates == { "CREATED", "QUEUED", "BLOCKED" }

(* The thread of a Task, its write and the Task's status in memory.        *)
ThreadInv(t) ==
  /\ mode # "up" => thread[t] = None /\ op[t].step \notin LeaseSteps
  /\ mode = "down" => op[t].step = "idle"
  /\ thread[t] \in Threads \ { None, "reconcile" } => statuses[t] \notin WaitStates
  /\ mode = "up" => (t \in queue <=> statuses[t] = "QUEUED")
  /\ statusFiles[t] # <<>> \/ statuses[t] # "CREATED" => t \in taskFiles
Preparing(t) == thread[t] = "dispatch" /\ statuses[t] = "PREPARING"

PendingInv(t) ==
  /\ op[t].step = "history" => op[t].value = statuses[t] /\ t \in taskFiles
  /\ op[t].step \in LeaseSteps => op[t].of \in LeasesOf[t]
  /\ op[t].step = "lease_snapshot" => NewestOf(leaseFiles[op[t].of]) = op[t].value
  /\ op[t].step = "lease_history" =>
       IF op[t].value = "RELEASED" THEN leaseFiles[op[t].of] # <<>> /\ ~Preparing(t)
       ELSE Preparing(t)

(* The status in memory is the one written last, unless the clock has      *)
(* stepped back.                                                           *)
StatusInv(t) ==
  /\ Numbered(statusFiles[t])
  /\ mode # "down" /\ op[t].step # "history" /\ WrittenLast(statusFiles[t]) =>
       statuses[t] = IF statusFiles[t] = <<>> THEN "CREATED" ELSE NewestOf(statusFiles[t])

(* Which leases a Task has files of while its status is s, or about to be. *)
Unused(t) == \A l \in LeasesOf[t] : leaseFiles[l] = <<>>
AllReleased(t) ==
  \A l \in LeasesOf[t] : leaseFiles[l] = <<>> \/ NewestOf(leaseFiles[l]) = "RELEASED"
Befits(t, s) ==
  /\ s \in WaitStates \cup { None } => Unused(t)
  /\ s \in OutcomeStates => AllReleased(t)

(* As long as the statuses were written by a clock that goes forward.      *)
OrderInv(t) ==
  InOrder(statusFiles[t]) =>
    /\ \A l \in LeasesOf[t] : Writes(l, "RELEASED") => NewestOf(leaseFiles[l]) = "RELEASED"
    /\ Preparing(t) => \A l \in LeasesOf[t] : ~Writes(l, "RELEASED")
    /\ Befits(t, NewestOf(statusFiles[t]))
    /\ op[t].step = "history" => Befits(t, op[t].value)

NewestInv ==
  /\ \A l \in Lease : LeaseInv(l)
  /\ \A t \in Task : ThreadInv(t) /\ PendingInv(t) /\ StatusInv(t) /\ OrderInv(t)

-----------------------------------------------------------------------------
(* The entry of the last write.                                            *)

LEMMA NewestIs ==
  ASSUME NEW S, NEW files \in Seq(S), Numbered(files),
         NEW i \in 1 .. Len(files), files[i].nth = Len(files)
  PROVE  files # <<>> /\ NewestOf(files) = files[i].value
<1> DEFINE newest == CHOOSE e \in ToSet(files) : e.nth = Len(files)
<1>1. Len(files) \in Nat /\ DOMAIN files = 1 .. Len(files) /\ files # <<>>
  OBVIOUS
<1>2. files[i] \in ToSet(files)
  BY <1>1 DEF ToSet
<1>3. newest \in ToSet(files) /\ newest.nth = Len(files)
  BY <1>2
<1>4. newest = files[i]
  <2> HIDE DEF newest
  <2>1. PICK j \in 1 .. Len(files) : newest = files[j]
    BY <1>1, <1>3 DEF ToSet
  <2> QED BY <1>3, <2>1 DEF Numbered
<1> QED BY <1>1, <1>4 DEF NewestOf

(* It is one of the entries, and the one that sorts last if no step of the *)
(* clock has put it before another.                                        *)
LEMMA NewestLast ==
  ASSUME NEW S, NEW files \in Seq(S), Numbered(files)
  PROVE  /\ files # <<>> => \E i \in 1 .. Len(files) : files[i].value = NewestOf(files)
         /\ files # <<>> /\ WrittenLast(files) => NewestOf(files) = Last(files).value
         /\ InOrder(files) => WrittenLast(files)
         /\ files = <<>> => NewestOf(files) = None
<1>1. Len(files) \in Nat /\ (files # <<>> => Len(files) \in 1 .. Len(files))
  OBVIOUS
<1>2. files # <<>> => \E i \in 1 .. Len(files) : files[i].value = NewestOf(files)
  <2> SUFFICES ASSUME files # <<>>
               PROVE  \E i \in 1 .. Len(files) : files[i].value = NewestOf(files)
    OBVIOUS
  <2>1. PICK i \in 1 .. Len(files) : files[i].nth = Len(files)
    BY DEF Numbered
  <2>2. files[i].value = NewestOf(files)
    BY <2>1, NewestIs
  <2> QED BY <2>2
<1>3. files # <<>> /\ WrittenLast(files) => NewestOf(files) = Last(files).value
  <2> SUFFICES ASSUME files # <<>>, WrittenLast(files)
               PROVE  NewestOf(files) = Last(files).value
    OBVIOUS
  <2>1. Last(files) = files[Len(files)] /\ files[Len(files)].nth = Len(files)
    BY DEF WrittenLast, Last
  <2> QED BY <1>1, <2>1, NewestIs
<1>4. InOrder(files) => WrittenLast(files)
  BY <1>1 DEF InOrder, WrittenLast, Last
<1> QED BY <1>2, <1>3, <1>4 DEF NewestOf

Says(files, a) == \E j \in 1 .. Len(files) : files[j].value = a

(* A write leaves the entries in order only if they were in order before.  *)
LEMMA AddedNewest ==
  ASSUME NEW V, NEW files \in Seq([value : V, nth : Nat]), IsFile(files, V),
         Numbered(files), NEW v \in V, NEW new \in Additions(files, v)
  PROVE  /\ Numbered(new) /\ new # <<>> /\ NewestOf(new) = v
         /\ InOrder(new) => InOrder(files)
         /\ \A a : Says(new, a) => a = v \/ Says(files, a)
<1> DEFINE S == [value : V, nth : Nat]
           e == [value |-> v, nth |-> Len(files) + 1]
<1>1. Len(files) \in Nat /\ e \in S /\ files \in Seq(S)
  OBVIOUS
<1>2. PICK i \in 1 .. Len(files) + 1 : new = InsertAt(files, i, e)
  BY <1>1 DEF Additions, Entry
<1>3. new \in Seq(S) /\ Inserts(files, i, e, new)
  <2> HIDE DEF S, e
  <2> QED BY <1>1, <1>2, Inserted
<1>4. /\ Len(new) = Len(files) + 1 /\ new[i] = e /\ i \in 1 .. Len(new) /\ new # <<>>
      /\ \A j \in 1 .. Len(new) :
            new[j] = IF j < i THEN files[j] ELSE IF j = i THEN e ELSE files[j - 1]
  <2> HIDE DEF e
  <2>1. /\ Len(new) = Len(files) + 1 /\ new[i] = e
        /\ \A j \in 1 .. Len(files) + 1 :
              new[j] = IF j < i THEN files[j] ELSE IF j = i THEN e ELSE files[j - 1]
    BY <1>3 DEF Inserts
  <2>2. new # <<>>
    BY <1>1, <2>1
  <2> QED BY <2>1, <2>2
<1>5. ASSUME NEW j \in 1 .. Len(new)
      PROVE  \/ j = i /\ new[j] = e
             \/ j < i /\ j \in 1 .. Len(files) /\ new[j] = files[j]
             \/ j > i /\ j - 1 \in 1 .. Len(files) /\ new[j] = files[j - 1]
  <2> HIDE DEF e
  <2> QED BY <1>1, <1>4
<1>6. \A k \in 1 .. Len(files) : files[k].nth \in 1 .. Len(files)
  BY DEF IsFile
<1>7. e.nth = Len(files) + 1 /\ e.value = v
  OBVIOUS
<1> HIDE DEF S, e
<1>8. ASSUME NEW j \in 1 .. Len(new), NEW k \in 1 .. Len(new), new[j].nth = new[k].nth
      PROVE  j = k
  <2>0. \A m \in 1 .. Len(new) : m # i => new[m].nth # e.nth
    <3> SUFFICES ASSUME NEW m \in 1 .. Len(new), m # i PROVE new[m].nth # e.nth
      OBVIOUS
    <3>1. PICK n \in 1 .. Len(files) : new[m] = files[n]
      BY <1>5
    <3>2. files[n].nth \in 1 .. Len(files)
      BY <1>6
    <3> QED BY <1>1, <1>7, <3>1, <3>2
  <2>1. CASE j = i
    BY <1>4, <1>8, <2>0, <2>1
  <2>2. CASE k = i
    BY <1>4, <1>8, <2>0, <2>2
  <2>3. CASE j # i /\ k # i
    <3> DEFINE jj == IF j < i THEN j ELSE j - 1
               kk == IF k < i THEN k ELSE k - 1
    <3>1. jj \in 1 .. Len(files) /\ kk \in 1 .. Len(files)
          /\ new[j] = files[jj] /\ new[k] = files[kk]
      BY <1>1, <1>5, <2>3
    <3>2. jj = kk
      <4> HIDE DEF jj, kk
      <4> QED BY <1>8, <3>1 DEF Numbered
    <3> QED BY <1>1, <1>4, <2>3, <3>2
  <2> QED BY <2>1, <2>2, <2>3
<1>9. Numbered(new)
  BY <1>1, <1>4, <1>7, <1>8 DEF Numbered
<1>10. NewestOf(new) = v
  <2>1. new[i].nth = Len(new)
    BY <1>1, <1>4, <1>7
  <2>2. NewestOf(new) = new[i].value
    BY <1>3, <1>4, <1>9, <2>1, NewestIs
  <2> QED BY <1>4, <1>7, <2>2
<1>11. InOrder(new) => InOrder(files)
  <2> SUFFICES ASSUME InOrder(new), NEW k \in 1 .. Len(files) PROVE files[k].nth = k
    BY DEF InOrder
  <2>1. i = Len(files) + 1
    BY <1>1, <1>4, <1>7 DEF InOrder
  <2>2. k \in 1 .. Len(new) /\ k < i /\ new[k] = files[k]
    BY <1>1, <1>4, <2>1
  <2> QED BY <2>2 DEF InOrder
<1>12. ASSUME NEW a, Says(new, a) PROVE a = v \/ Says(files, a)
  BY <1>5, <1>7, <1>12 DEF Says
<1> QED BY <1>4, <1>9, <1>10, <1>11, <1>12

-----------------------------------------------------------------------------
(* What a step of one Task leaves alone.                                   *)

TaskInv(t) == ThreadInv(t) /\ PendingInv(t) /\ StatusInv(t) /\ OrderInv(t)

(* A step of the master in one mode that works on t.                       *)
Only(t) ==
  /\ UNCHANGED mode
  /\ \A u \in Task : u # t =>
       /\ statuses'[u] = statuses[u] /\ thread'[u] = thread[u] /\ op'[u] = op[u]
       /\ statusFiles'[u] = statusFiles[u] /\ (u \in queue' <=> u \in queue)
       /\ (u \in taskFiles => u \in taskFiles')
  /\ \A l \in Lease \ LeasesOf[t] : leaseFiles'[l] = leaseFiles[l]

LEMMA OthersKeep ==
  ASSUME NEW t \in Task, Only(t), NEW u \in Task, u # t, TaskInv(u)
  PROVE  TaskInv(u)'
<1>1. /\ mode' = mode /\ statuses'[u] = statuses[u] /\ thread'[u] = thread[u]
      /\ op'[u] = op[u] /\ statusFiles'[u] = statusFiles[u] /\ (u \in queue' <=> u \in queue)
      /\ (u \in taskFiles => u \in taskFiles')
  BY DEF Only
<1>2. LeasesOf[u] \subseteq Lease /\ \A l \in LeasesOf[u] : l \notin LeasesOf[t]
  OBVIOUS
<1>3. \A l \in LeasesOf[u] : leaseFiles'[l] = leaseFiles[l]
  BY <1>2 DEF Only
<1>4. ThreadInv(u)'
  BY <1>1 DEF TaskInv, ThreadInv
<1>5. StatusInv(u)'
  BY <1>1 DEF TaskInv, StatusInv
<1>6. PendingInv(u)'
  BY <1>1, <1>3 DEF TaskInv, PendingInv, Preparing, LeaseSteps
<1>7. OrderInv(u)'
  BY <1>1, <1>3 DEF TaskInv, OrderInv, Preparing, Befits, Unused, AllReleased, Writes
<1> QED BY <1>4, <1>5, <1>6, <1>7 DEF TaskInv

(* A step of t that is not the write of a lease.                           *)
LEMMA LeasesKeep ==
  ASSUME NEW t \in Task, Only(t), op[t].step \notin LeaseSteps, UNCHANGED <<leases, leaseFiles>>,
         NEW l \in Lease, LeaseInv(l)
  PROVE  LeaseInv(l)'
<1>1. (\A u \in Task : ~Writing(u, l))' => \A u \in Task : ~Writing(u, l)
  <2> SUFFICES ASSUME (\A u \in Task : ~Writing(u, l))', NEW u \in Task PROVE ~Writing(u, l)
    OBVIOUS
  <2>1. CASE u = t
    BY <2>1 DEF Writing
  <2>2. CASE u # t
    BY <2>2 DEF Only, Writing
  <2> QED BY <2>1, <2>2
<1> QED BY <1>1 DEF Only, LeaseInv, LeaseAsWritten, Writes

(* All of it, once it is shown of t.                                       *)
LEMMA OneTaskKeeps ==
  ASSUME NewestInv, NEW t \in Task, Only(t), TaskInv(t)',
         op[t].step \notin LeaseSteps, UNCHANGED <<leases, leaseFiles>>
  PROVE  NewestInv'
<1>1. ASSUME NEW u \in Task PROVE TaskInv(u)'
  BY <1>1, OthersKeep DEF NewestInv, TaskInv
<1>2. ASSUME NEW l \in Lease PROVE LeaseInv(l)'
  BY <1>2, LeasesKeep DEF NewestInv
<1> QED BY <1>1, <1>2 DEF NewestInv, TaskInv

(* A master that is down has nothing to keep.                              *)
LEMMA ForgetsAll ==
  ASSUME Inv, NewestInv, Forget, UNCHANGED <<statusFiles, leaseFiles, taskFiles>>
  PROVE  NewestInv'
<1>1. /\ mode' = "down" /\ \A t \in Task : /\ statuses'[t] = "CREATED"
                                           /\ thread'[t] = None /\ op'[t] = Idle
  BY DEF Forget
<1>2. ASSUME NEW t \in Task PROVE TaskInv(t)'
  <2>1. op'[t].step = "idle" /\ thread'[t] = None /\ ~Preparing(t)'
    BY <1>1 DEF Idle, Preparing, None
  <2>2. ThreadInv(t)'
    BY <1>1, <2>1 DEF NewestInv, ThreadInv, LeaseSteps, Threads
  <2>3. PendingInv(t)' /\ StatusInv(t)'
    BY <1>1, <2>1 DEF NewestInv, PendingInv, StatusInv, LeaseSteps
  <2>4. OrderInv(t)'
    BY <1>1, <2>1 DEF NewestInv, OrderInv, Befits, Unused, AllReleased, Writes
  <2> QED BY <2>2, <2>3, <2>4 DEF TaskInv
<1>3. ASSUME NEW l \in Lease PROVE LeaseInv(l)'
  BY <1>1 DEF NewestInv, LeaseInv
<1> QED BY <1>2, <1>3 DEF NewestInv, TaskInv

-----------------------------------------------------------------------------
(* The writes.                                                             *)

LEMMA WriteStatusNewest ==
  ASSUME Inv, NewestInv, NEW t \in Task, WriteStatus(t)
  PROVE  NewestInv'
<1>1. PICK new \in Additions(statusFiles[t], op[t].value) :
        statusFiles' = [statusFiles EXCEPT ![t] = new]
  BY DEF WriteStatus
<1>2. /\ op[t].step = "history" /\ op' = [op EXCEPT ![t].step = "snapshot"]
      /\ UNCHANGED <<taskFiles, leaseFiles, mode, statuses, queue, leases, thread>>
  BY DEF WriteStatus, Step, snapVars, eventVars, memoryVars
<1>3. /\ statusFiles[t] \in Seq([value : TaskState, nth : Nat])
      /\ IsFile(statusFiles[t], TaskState) /\ Numbered(statusFiles[t])
      /\ op[t].value \in TaskState /\ op[t] \in Ops /\ op \in [Task -> Ops]
      /\ statusFiles \in [Task -> Seq(StatusEntry)]
  BY <1>2 DEF Inv, DiskInv, StatusEntry, OpInv, WriteInv, NewestInv, StatusInv
<1>4. /\ Numbered(new) /\ new # <<>> /\ NewestOf(new) = op[t].value
      /\ InOrder(new) => InOrder(statusFiles[t])
  <2>1. PICK s \in TaskState : s = op[t].value
    BY <1>3
  <2>2. new \in Additions(statusFiles[t], s)
    BY <1>1, <2>1
  <2>3. Numbered(new) /\ new # <<>> /\ NewestOf(new) = s
    BY <1>3, <2>2, AddedNewest
  <2>4. InOrder(new) => InOrder(statusFiles[t])
    BY <1>3, <2>2, AddedNewest
  <2> QED BY <2>1, <2>3, <2>4
<1>5. /\ op'[t].step = "snapshot" /\ op'[t].value = op[t].value /\ op'[t].of = op[t].of
      /\ \A u \in Task : u # t => op'[u] = op[u] /\ statusFiles'[u] = statusFiles[u]
      /\ statusFiles'[t] = new
  BY <1>1, <1>2, <1>3 DEF Ops
<1>6. Only(t) /\ op[t].step \notin LeaseSteps
  BY <1>2, <1>5 DEF Only, LeaseSteps
<1>7. /\ ThreadInv(t) /\ PendingInv(t) /\ OrderInv(t)
      /\ op[t].value = statuses[t] /\ mode # "down" /\ t \in taskFiles
  BY <1>2 DEF NewestInv, PendingInv, ThreadInv
<1>8. ThreadInv(t)'
  BY <1>2, <1>5, <1>7 DEF ThreadInv, LeaseSteps
<1>9. PendingInv(t)'
  BY <1>5 DEF PendingInv, LeaseSteps
<1>10. StatusInv(t)'
  BY <1>2, <1>4, <1>5, <1>7 DEF StatusInv
<1>11. OrderInv(t)'
  <2>1. Preparing(t)' <=> Preparing(t)
    BY <1>2 DEF Preparing
  <2> QED BY <1>2, <1>4, <1>5, <1>7, <2>1 DEF OrderInv, Befits, Unused, AllReleased, Writes
<1> QED BY <1>2, <1>6, <1>8, <1>9, <1>10, <1>11, OneTaskKeeps DEF TaskInv

(* The steps after it change nothing that is compared.                     *)
LEMMA LaterWritesNewest ==
  ASSUME Inv, NewestInv, NEW t \in Task, WriteStatusSnapshot(t) \/ AppendEvent(t)
  PROVE  NewestInv'
<1>1. /\ op[t].step \in { "snapshot", "event" } /\ op'[t].step \in { "event", "idle" }
      /\ \A u \in Task : u # t => op'[u] = op[u] /\ thread'[u] = thread[u]
      /\ thread'[t] \in { thread[t], None }
      /\ UNCHANGED <<taskFiles, statusFiles, leaseFiles, mode, statuses, queue, leases>>
  <2>1. op \in [Task -> Ops] /\ thread \in [Task -> Threads]
    BY DEF Inv, OpInv, MemoryInv
  <2>2. CASE WriteStatusSnapshot(t)
    BY <2>1, <2>2 DEF WriteStatusSnapshot, Step, historyVars, eventVars, memoryVars, Ops
  <2>3. CASE AppendEvent(t)
    <3>1. op' = [op EXCEPT ![t] = Idle] /\ op[t].step = "event"
          /\ (thread' = thread \/ thread' = [thread EXCEPT ![t] = None])
      BY <2>3 DEF AppendEvent, Over
    <3>2. op'[t].step = "idle" /\ \A u \in Task : u # t => op'[u] = op[u]
      BY <2>1, <3>1 DEF Idle
    <3>3. /\ \A u \in Task : u # t => thread'[u] = thread[u]
          /\ thread'[t] \in { thread[t], None }
      BY <2>1, <3>1
    <3> QED BY <2>3, <3>1, <3>2, <3>3 DEF AppendEvent, historyVars, snapVars
  <2> QED BY <2>2, <2>3
<1>2. Only(t) /\ op[t].step \notin LeaseSteps
  BY <1>1 DEF Only, LeaseSteps
<1>3. ThreadInv(t) /\ PendingInv(t) /\ StatusInv(t) /\ OrderInv(t)
  BY DEF NewestInv
<1>4. mode # "down"
  BY <1>1, <1>3 DEF ThreadInv
<1>5. ThreadInv(t)'
  BY <1>1, <1>3, <1>4 DEF ThreadInv, LeaseSteps, None
<1>6. PendingInv(t)' /\ StatusInv(t)'
  BY <1>1, <1>3 DEF PendingInv, StatusInv, LeaseSteps
<1>7. OrderInv(t)'
  <2>1. Preparing(t)' => Preparing(t)
    BY <1>1 DEF Preparing, None
  <2> QED BY <1>1, <1>3, <2>1 DEF OrderInv, Befits, Unused, AllReleased, Writes
<1> QED BY <1>1, <1>2, <1>5, <1>6, <1>7, OneTaskKeeps DEF TaskInv

LEMMA AppendFailsNewest ==
  ASSUME Inv, NewestInv, NEW t \in Task, AppendFails(t)
  PROVE  NewestInv'
<1>1. /\ op[t].step = "event"
      /\ UNCHANGED <<taskFiles, statusFiles, leaseFiles>>
  BY DEF AppendFails, historyVars
<1>2. CASE Forget
  BY <1>1, <1>2, ForgetsAll
<1>3. CASE /\ mode = "up"
           /\ thread' = [thread EXCEPT ![t] =
                 IF @ \in { "dispatch", "cancelled" } /\ op[t].value # "PREPARING"
                 THEN "unsure" ELSE None]
           /\ op' = [op EXCEPT ![t] = Idle]
           /\ UNCHANGED <<mode, statuses, queue, leases>>
  <2>1. op \in [Task -> Ops] /\ thread \in [Task -> Threads]
    BY DEF Inv, OpInv, MemoryInv
  <2>2. /\ op'[t].step = "idle"
        /\ \A u \in Task : u # t => op'[u] = op[u] /\ thread'[u] = thread[u]
        /\ \/ thread'[t] = None
           \/ thread'[t] = "unsure" /\ thread[t] \in { "dispatch", "cancelled" }
    BY <1>3, <2>1 DEF Idle
  <2>3. Only(t) /\ op[t].step \notin LeaseSteps
    BY <1>1, <1>3, <2>2 DEF Only, LeaseSteps
  <2>4. ThreadInv(t) /\ PendingInv(t) /\ StatusInv(t) /\ OrderInv(t)
    BY DEF NewestInv
  <2>5. ThreadInv(t)'
    BY <1>1, <1>3, <2>2, <2>4 DEF ThreadInv, LeaseSteps, Threads, None
  <2>6. PendingInv(t)' /\ StatusInv(t)'
    BY <1>1, <1>3, <2>2, <2>4 DEF PendingInv, StatusInv, LeaseSteps
  <2>7. OrderInv(t)'
    <3>1. ~Preparing(t)'
      BY <2>2 DEF Preparing, None
    <3> QED BY <1>1, <1>3, <2>2, <2>4, <3>1
        DEF OrderInv, Befits, Unused, AllReleased, Writes
  <2> QED BY <1>1, <1>3, <2>3, <2>5, <2>6, <2>7, OneTaskKeeps DEF TaskInv
<1> QED BY <1>2, <1>3 DEF AppendFails, Raised, Over

LEMMA WriteLeaseNewest ==
  ASSUME Inv, NewestInv, NEW t \in Task, WriteLease(t)
  PROVE  NewestInv'
<1>1. /\ op[t].step = "lease_history" /\ op' = [op EXCEPT ![t].step = "lease_snapshot"]
      /\ UNCHANGED <<taskFiles, statusFiles, mode, statuses, queue, leases, thread>>
  BY DEF WriteLease, Step, snapVars, eventVars, memoryVars
<1>2. ThreadInv(t) /\ PendingInv(t) /\ StatusInv(t) /\ OrderInv(t)
  BY DEF NewestInv
<1>3. PICK l \in LeasesOf[t], a \in LeaseAction : l = op[t].of /\ a = op[t].value
  BY <1>1, <1>2 DEF PendingInv, LeaseSteps, Inv, OpInv, WriteInv
<1>4. /\ l \in Lease /\ op \in [Task -> Ops] /\ leaseFiles \in [Lease -> Seq(LeaseEntry)]
      /\ leaseFiles[l] \in Seq([value : LeaseAction, nth : Nat])
      /\ IsFile(leaseFiles[l], LeaseAction) /\ Numbered(leaseFiles[l])
  BY DEF Inv, DiskInv, LeaseEntry, OpInv, NewestInv, LeaseInv
<1>5. op'[t].step = "lease_snapshot" /\ op'[t].of = l /\ op'[t].value = a
      /\ \A u \in Task : u # t => op'[u] = op[u]
  BY <1>1, <1>3, <1>4 DEF Ops
<1>6. \/ a = "RELEASED" /\ leaseFiles[l] # <<>> /\ ~Preparing(t)
      \/ a # "RELEASED" /\ Preparing(t)
  BY <1>1, <1>2, <1>3 DEF PendingInv
<1>7. PICK new \in Additions(leaseFiles[l], a) : leaseFiles' = [leaseFiles EXCEPT ![l] = new]
  BY <1>3 DEF WriteLease
<1>8. /\ Numbered(new) /\ new # <<>> /\ NewestOf(new) = a
      /\ \A b : Says(new, b) => b = a \/ Says(leaseFiles[l], b)
  <2>1. new \in Additions(leaseFiles[l], a) /\ a \in LeaseAction
    BY <1>7
  <2>2. Numbered(new) /\ new # <<>> /\ NewestOf(new) = a
    BY <1>4, <2>1, AddedNewest
  <2>3. \A b : Says(new, b) => b = a \/ Says(leaseFiles[l], b)
    BY <1>4, <2>1, AddedNewest
  <2> QED BY <2>2, <2>3
<1>9. leaseFiles'[l] = new /\ \A k \in Lease : k # l => leaseFiles'[k] = leaseFiles[k]
  BY <1>7, <1>4
<1>10. Only(t)
  BY <1>1, <1>4, <1>5, <1>9 DEF Only
<1>11. mode = "up"
  BY <1>1, <1>2 DEF ThreadInv, LeaseSteps, Inv, MemoryInv
<1>12. ASSUME NEW k \in Lease PROVE LeaseInv(k)'
  <2>1. CASE k = l
    <3>1. ~(\A u \in Task : ~Writing(u, l))'
      BY <1>5 DEF Writing, LeaseSteps
    <3>2. Numbered(leaseFiles'[l])
      BY <1>8, <1>9
    <3> QED BY <2>1, <3>1, <3>2 DEF LeaseInv
  <2>2. CASE k # l
    <3>1. (\A u \in Task : ~Writing(u, k))' => \A u \in Task : ~Writing(u, k)
      <4> SUFFICES ASSUME (\A u \in Task : ~Writing(u, k))', NEW u \in Task
                   PROVE  ~Writing(u, k)
        OBVIOUS
      <4>1. CASE u = t
        BY <1>3, <2>2, <4>1 DEF Writing
      <4>2. CASE u # t
        BY <1>5, <4>2 DEF Writing
      <4> QED BY <4>1, <4>2
    <3>2. LeaseInv(k) /\ leaseFiles'[k] = leaseFiles[k]
      BY <1>9, <2>2 DEF NewestInv
    <3> QED BY <1>1, <3>1, <3>2 DEF LeaseInv, LeaseAsWritten, Writes
  <2> QED BY <2>1, <2>2
<1>13. ThreadInv(t)'
  BY <1>1, <1>2, <1>5, <1>11 DEF ThreadInv
<1>14. PendingInv(t)'
  <2>1. NewestOf(leaseFiles'[op'[t].of]) = op'[t].value
    BY <1>5, <1>8, <1>9
  <2> QED BY <1>4, <1>5, <2>1 DEF PendingInv
<1>15. StatusInv(t)'
  BY <1>1, <1>2, <1>5 DEF StatusInv
<1>16. OrderInv(t)'
  <2> SUFFICES ASSUME InOrder(statusFiles[t])
               PROVE  /\ \A k \in LeasesOf[t] :
                            Writes(k, "RELEASED")' => NewestOf(leaseFiles'[k]) = "RELEASED"
                      /\ Preparing(t) => \A k \in LeasesOf[t] : ~Writes(k, "RELEASED")'
                      /\ Befits(t, NewestOf(statusFiles[t]))'
    BY <1>1, <1>5 DEF OrderInv, Preparing, Befits, Unused, AllReleased
  <2>1. /\ \A k \in LeasesOf[t] : Writes(k, "RELEASED") => NewestOf(leaseFiles[k]) = "RELEASED"
        /\ Preparing(t) => \A k \in LeasesOf[t] : ~Writes(k, "RELEASED")
        /\ Befits(t, NewestOf(statusFiles[t]))
    BY <1>2 DEF OrderInv
  <2>2. a # "RELEASED" => /\ ~Writes(l, "RELEASED") /\ ~Writes(l, "RELEASED")'
    BY <1>4, <1>8, <1>9, <1>6, <2>1 DEF Says, Writes
  <2>3. ASSUME NEW k \in LeasesOf[t], Writes(k, "RELEASED")'
        PROVE  NewestOf(leaseFiles'[k]) = "RELEASED"
    <3>1. CASE k = l
      BY <1>8, <1>9, <2>2, <2>3, <3>1
    <3>2. CASE k # l
      <4>1. leaseFiles'[k] = leaseFiles[k]
        BY <1>9, <3>2
      <4> QED BY <2>1, <2>3, <4>1 DEF Writes
    <3> QED BY <3>1, <3>2
  <2>4. ASSUME Preparing(t), NEW k \in LeasesOf[t] PROVE ~Writes(k, "RELEASED")'
    <3>1. CASE k = l
      BY <1>6, <2>2, <2>4, <3>1
    <3>2. CASE k # l
      <4>1. leaseFiles'[k] = leaseFiles[k]
        BY <1>9, <3>2
      <4> QED BY <2>1, <2>4, <4>1 DEF Writes
    <3> QED BY <3>1, <3>2
  <2>5. /\ NewestOf(statusFiles[t]) \notin WaitStates \cup { None }
        /\ NewestOf(statusFiles[t]) \in OutcomeStates => a = "RELEASED"
    <3>1. statusFiles[t] \in Seq(StatusEntry)
      BY DEF Inv, DiskInv
    <3>2. WrittenLast(statusFiles[t]) /\ (statusFiles[t] = <<>> => NewestOf(statusFiles[t]) = None)
      BY <1>2, <3>1, NewestLast DEF StatusInv
    <3>3. statuses[t] = IF statusFiles[t] = <<>> THEN "CREATED" ELSE NewestOf(statusFiles[t])
      BY <1>1, <1>2, <1>11, <3>2 DEF StatusInv
    <3>4. CASE a # "RELEASED"
      BY <1>6, <3>3, <3>4 DEF Preparing, WaitStates, OutcomeStates, None
    <3>5. CASE a = "RELEASED"
      <4>1. ~Unused(t)
        BY <1>4, <1>6, <3>5 DEF Unused
      <4> QED BY <2>1, <3>5, <4>1 DEF Befits
    <3> QED BY <3>4, <3>5
  <2>6. NewestOf(statusFiles[t]) \in OutcomeStates => AllReleased(t)'
    <3> SUFFICES ASSUME NewestOf(statusFiles[t]) \in OutcomeStates, NEW k \in LeasesOf[t]
                 PROVE  leaseFiles'[k] = <<>> \/ NewestOf(leaseFiles'[k]) = "RELEASED"
      BY DEF AllReleased
    <3>1. CASE k = l
      BY <1>8, <1>9, <2>5, <3>1
    <3>2. CASE k # l
      <4>1. leaseFiles'[k] = leaseFiles[k]
        BY <1>9, <3>2
      <4> QED BY <2>1, <4>1 DEF Befits, AllReleased
    <3> QED BY <3>1, <3>2
  <2>7. Befits(t, NewestOf(statusFiles[t]))'
    BY <1>1, <2>5, <2>6 DEF Befits
  <2> QED BY <2>3, <2>4, <2>7
<1>17. ASSUME NEW u \in Task PROVE TaskInv(u)'
  <2>1. CASE u = t
    BY <1>13, <1>14, <1>15, <1>16, <2>1 DEF TaskInv
  <2>2. CASE u # t
    BY <1>10, <2>2, OthersKeep DEF NewestInv, TaskInv
  <2> QED BY <2>1, <2>2
<1> QED BY <1>12, <1>17 DEF NewestInv, TaskInv

LEMMA WriteLeaseSnapshotNewest ==
  ASSUME Inv, NewestInv, NEW t \in Task, WriteLeaseSnapshot(t)
  PROVE  NewestInv'
<1>0. PICK l, kept : /\ l = op[t].of
                     /\ kept = IF op[t].value = "RELEASED" THEN None ELSE op[t].value
  OBVIOUS
<1>1. /\ op[t].step = "lease_snapshot" /\ op' = [op EXCEPT ![t] = Idle]
      /\ leases' = [leases EXCEPT ![l] = kept]
      /\ UNCHANGED <<taskFiles, statusFiles, leaseFiles, mode, statuses, queue, thread>>
  BY <1>0 DEF WriteLeaseSnapshot, Over, historyVars, eventVars
<1>2. ThreadInv(t) /\ PendingInv(t) /\ StatusInv(t) /\ OrderInv(t)
  BY DEF NewestInv
<1>3. /\ l \in LeasesOf[t] /\ l \in Lease /\ op[t].value \in LeaseAction
      /\ leaseFiles[l] # <<>> /\ leaseFiles[l] \in Seq(LeaseEntry) /\ Numbered(leaseFiles[l])
      /\ NewestOf(leaseFiles[l]) = op[t].value
      /\ op \in [Task -> Ops] /\ leases \in [Lease -> { None, "HELD", "COMMITTED" }]
  <2>1. /\ l \in LeasesOf[t] /\ l \in Lease /\ op[t].value \in LeaseAction
        /\ leaseFiles[l] # <<>> /\ NewestOf(leaseFiles[l]) = op[t].value
    BY <1>0, <1>1, <1>2 DEF PendingInv, LeaseSteps, Inv, OpInv, WriteInv
  <2> QED BY <2>1 DEF Inv, MemoryInv, DiskInv, OpInv, NewestInv, LeaseInv
<1>4. /\ op'[t].step = "idle" /\ \A u \in Task : u # t => op'[u] = op[u]
      /\ leases'[l] = kept /\ \A k \in Lease : k # l => leases'[k] = leases[k]
  <2>1. op'[t].step = "idle" /\ \A u \in Task : u # t => op'[u] = op[u]
    BY <1>1, <1>3 DEF Idle
  <2> QED BY <1>1, <1>3, <2>1
<1>5. Only(t)
  BY <1>1, <1>4 DEF Only
<1>6. /\ kept = None => Writes(l, "RELEASED")
      /\ kept = IF NewestOf(leaseFiles[l]) = "RELEASED" THEN None ELSE NewestOf(leaseFiles[l])
  <2>1. \E i \in 1 .. Len(leaseFiles[l]) : leaseFiles[l][i].value = op[t].value
    <3> QED BY <1>3, NewestLast
  <2>2. kept = None => op[t].value = "RELEASED"
    BY <1>0, <1>3 DEF LeaseAction, None
  <2> QED BY <1>0, <1>3, <2>1, <2>2 DEF Writes
<1>7. ASSUME NEW k \in Lease PROVE LeaseInv(k)'
  <2>1. CASE k = l
    <3> QED BY <1>1, <1>3, <1>4, <1>6, <2>1 DEF LeaseInv, LeaseAsWritten, Writes
  <2>2. CASE k # l
    <3>1. (\A u \in Task : ~Writing(u, k))' => \A u \in Task : ~Writing(u, k)
      <4> SUFFICES ASSUME (\A u \in Task : ~Writing(u, k))', NEW u \in Task
                   PROVE  ~Writing(u, k)
        OBVIOUS
      <4>1. CASE u = t
        BY <1>0, <2>2, <4>1 DEF Writing
      <4>2. CASE u # t
        BY <1>4, <4>2 DEF Writing
      <4> QED BY <4>1, <4>2
    <3>2. LeaseInv(k) /\ leases'[k] = leases[k]
      BY <1>4, <2>2 DEF NewestInv
    <3> QED BY <1>1, <3>1, <3>2 DEF LeaseInv, LeaseAsWritten, Writes
  <2> QED BY <2>1, <2>2
<1>8. TaskInv(t)'
  <2>1. ThreadInv(t)'
    BY <1>1, <1>2, <1>4 DEF ThreadInv, LeaseSteps
  <2>2. PendingInv(t)' /\ StatusInv(t)'
    BY <1>1, <1>2, <1>4 DEF PendingInv, StatusInv, LeaseSteps
  <2>3. OrderInv(t)'
    BY <1>1, <1>2, <1>4 DEF OrderInv, Preparing, Befits, Unused, AllReleased, Writes
  <2> QED BY <2>1, <2>2, <2>3 DEF TaskInv
<1>9. ASSUME NEW u \in Task PROVE TaskInv(u)'
  BY <1>5, <1>8, OthersKeep DEF NewestInv, TaskInv
<1> QED BY <1>7, <1>9 DEF NewestInv, TaskInv

-----------------------------------------------------------------------------
(* The calls.                                                              *)

(* Between two writes of a Task: its leases are what its status, and what  *)
(* the thread sees of them, say.                                           *)
LEMMA BetweenWrites ==
  ASSUME Inv, NewestInv, NEW t \in Task, Ready(t)
  PROVE  /\ InOrder(statusFiles[t]) => Befits(t, statuses[t])
         /\ InOrder(statusFiles[t]) /\ Held(t) = {} => AllReleased(t)
         /\ \A l \in Held(t) : leaseFiles[l] # <<>>
<1>1. /\ mode = "up" /\ op[t].step = "idle" /\ StatusInv(t) /\ OrderInv(t)
      /\ statusFiles[t] \in Seq(StatusEntry)
  BY DEF Ready, Idle, NewestInv, Inv, DiskInv
<1>2. ASSUME InOrder(statusFiles[t]) PROVE Befits(t, statuses[t])
  <2>1. WrittenLast(statusFiles[t]) /\ (statusFiles[t] = <<>> => NewestOf(statusFiles[t]) = None)
    BY <1>1, <1>2, NewestLast DEF StatusInv
  <2>2. statuses[t] = IF statusFiles[t] = <<>> THEN "CREATED" ELSE NewestOf(statusFiles[t])
    BY <1>1, <2>1 DEF StatusInv
  <2> QED BY <1>1, <1>2, <2>1, <2>2 DEF OrderInv, Befits, WaitStates, OutcomeStates
<1>3. ASSUME NEW l \in LeasesOf[t], NEW u \in Task PROVE ~Writing(u, l)
  <2>1. op[u].step \in LeaseSteps => op[u].of \in LeasesOf[u]
    BY DEF NewestInv, PendingInv
  <2> QED BY <1>1, <2>1 DEF Writing, LeaseSteps
<1>4. ASSUME NEW l \in LeasesOf[t]
      PROVE  /\ leases[l] = None => leaseFiles[l] = <<>> \/ Writes(l, "RELEASED")
             /\ leases[l] # None => leaseFiles[l] # <<>>
  <2>1. l \in Lease /\ LeaseInv(l)
    BY DEF NewestInv
  <2> QED BY <1>1, <1>3, <2>1 DEF LeaseInv
<1>5. ASSUME InOrder(statusFiles[t]), Held(t) = {} PROVE AllReleased(t)
  BY <1>1, <1>4, <1>5 DEF Held, OrderInv, AllReleased
<1> QED BY <1>2, <1>4, <1>5 DEF Held

(* A call that changes the status: what it sees of the leases, and what it *)
(* makes of the thread and the queue, must befit the new one.              *)
LEMMA ChangeNewest ==
  ASSUME Inv, NewestInv, NEW t \in Task, NEW s \in TaskState, Change(t, s),
         mode # "down", op[t] = Idle,
         UNCHANGED <<taskFiles, statusFiles, leaseFiles, mode, leases>>,
         \A u \in Task : u # t => thread'[u] = thread[u] /\ (u \in queue' <=> u \in queue),
         t \in taskFiles,
         mode # "up" => thread'[t] = None,
         mode = "up" => (t \in queue' <=> s = "QUEUED"),
         thread'[t] \in Threads \ { None, "reconcile" } => s \notin WaitStates,
         InOrder(statusFiles[t]) => Befits(t, s),
         InOrder(statusFiles[t]) /\ thread'[t] = "dispatch" /\ s = "PREPARING" => Unused(t)
  PROVE  NewestInv'
<1>1. /\ op \in [Task -> Ops] /\ statuses \in [Task -> TaskState]
      /\ statuses' = [statuses EXCEPT ![t] = s] /\ op' = [op EXCEPT ![t] = StatusWrite(t, s)]
  BY DEF Inv, OpInv, MemoryInv, Change
<1>2. /\ op'[t].step = "history" /\ op'[t].value = s /\ statuses'[t] = s
      /\ \A u \in Task : u # t => op'[u] = op[u] /\ statuses'[u] = statuses[u]
      /\ op[t].step = "idle"
  BY <1>1 DEF StatusWrite, Idle
<1>3. Only(t) /\ op[t].step \notin LeaseSteps
  BY <1>2 DEF Only, LeaseSteps
<1>4. ThreadInv(t) /\ StatusInv(t) /\ OrderInv(t)
  BY DEF NewestInv
<1>5. ThreadInv(t)'
  BY <1>2 DEF ThreadInv, LeaseSteps
<1>6. PendingInv(t)'
  BY <1>2 DEF PendingInv, LeaseSteps
<1>7. StatusInv(t)'
  BY <1>2, <1>4 DEF StatusInv
<1>8. OrderInv(t)'
  <2> SUFFICES ASSUME InOrder(statusFiles[t])
               PROVE  /\ \A l \in LeasesOf[t] :
                            Writes(l, "RELEASED") => NewestOf(leaseFiles[l]) = "RELEASED"
                      /\ Preparing(t)' => \A l \in LeasesOf[t] : ~Writes(l, "RELEASED")
                      /\ Befits(t, NewestOf(statusFiles[t])) /\ Befits(t, s)
    BY <1>2 DEF OrderInv, Befits, Unused, AllReleased, Writes
  <2>1. ASSUME Preparing(t)', NEW l \in LeasesOf[t] PROVE ~Writes(l, "RELEASED")
    <3>1. leaseFiles[l] = <<>>
      BY <1>2, <2>1 DEF Preparing, Unused
    <3>2. Len(leaseFiles[l]) = 0
      BY <3>1
    <3> QED BY <3>2 DEF Writes
  <2> QED BY <1>4, <2>1 DEF OrderInv
<1> QED BY <1>3, <1>5, <1>6, <1>7, <1>8, OneTaskKeeps DEF TaskInv

(* A call that changes no status: it may begin the write of a lease.       *)
LEMMA OtherNewest ==
  ASSUME Inv, NewestInv, NEW t \in Task, Ready(t), NEW h \in Threads,
         UNCHANGED <<statusFiles, leaseFiles, mode, leases, statuses, queue>>,
         taskFiles \subseteq taskFiles',
         thread' = [thread EXCEPT ![t] = h],
         h \in Threads \ { None, "reconcile" } => statuses[t] \notin WaitStates,
         h = "dispatch" => thread[t] = "dispatch",
         NEW o, op' = [op EXCEPT ![t] = o], o.step \in { "idle", "event", "lease_history" },
         o.step = "lease_history" =>
           /\ o.of \in LeasesOf[t]
           /\ IF o.value = "RELEASED"
              THEN leaseFiles[o.of] # <<>> /\ ~(h = "dispatch" /\ statuses[t] = "PREPARING")
              ELSE h = "dispatch" /\ statuses[t] = "PREPARING"
  PROVE  NewestInv'
<1>1. op \in [Task -> Ops] /\ thread \in [Task -> Threads] /\ mode = "up" /\ op[t].step = "idle"
  BY DEF Inv, OpInv, MemoryInv, Ready, Idle
<1>2. /\ op'[t] = o /\ thread'[t] = h
      /\ \A u \in Task : u # t => op'[u] = op[u] /\ thread'[u] = thread[u]
  BY <1>1
<1>3. Only(t) /\ op[t].step \notin LeaseSteps
  BY <1>1, <1>2 DEF Only, LeaseSteps
<1>4. ThreadInv(t) /\ StatusInv(t) /\ OrderInv(t)
  BY DEF NewestInv
<1>5. ThreadInv(t)'
  BY <1>1, <1>2, <1>4 DEF ThreadInv
<1>6. PendingInv(t)'
  BY <1>2 DEF PendingInv, LeaseSteps, Preparing
<1>7. StatusInv(t)'
  BY <1>1, <1>2, <1>4 DEF StatusInv
<1>8. OrderInv(t)'
  <2>1. Preparing(t)' => Preparing(t)
    BY <1>2 DEF Preparing
  <2> QED BY <1>2, <1>4, <2>1 DEF OrderInv, Befits, Unused, AllReleased, Writes
<1> QED BY <1>3, <1>5, <1>6, <1>7, <1>8, OneTaskKeeps DEF TaskInv

(* Enqueue, the expiry of a wait or its cancel, and the claim of a tick.   *)
LEMMA QueueCallNewest ==
  ASSUME Inv, NewestInv, NEW t \in Task, Enqueue(t) \/ Dequeue(t) \/ Claim(t)
  PROVE  NewestInv'
<1>1. /\ Ready(t) /\ mode = "up" /\ op[t] = Idle
      /\ UNCHANGED <<taskFiles, statusFiles, leaseFiles, mode, leases>>
      /\ statuses \in [Task -> TaskState] /\ thread \in [Task -> Threads] /\ queue \subseteq Task
  BY DEF Inv, MemoryInv, Enqueue, Dequeue, Claim, Ready, Kept, historyVars
<1>2. /\ ThreadInv(t)
      /\ InOrder(statusFiles[t]) => Befits(t, statuses[t])
  BY <1>1, BetweenWrites DEF NewestInv
<1>3. CASE Enqueue(t)
  <2>1. /\ statuses[t] = "CREATED" /\ t \in taskFiles /\ Change(t, "QUEUED")
        /\ queue' = queue \cup { t } /\ thread' = thread
    BY <1>3 DEF Enqueue
  <2>2. thread[t] \notin Threads \ { None, "reconcile" }
    BY <1>2, <2>1 DEF ThreadInv, WaitStates
  <2>3. InOrder(statusFiles[t]) => Befits(t, "QUEUED")
    BY <1>2, <2>1 DEF Befits, WaitStates, OutcomeStates
  <2> QED BY <1>1, <2>1, <2>2, <2>3, ChangeNewest DEF TaskState
<1>4. CASE Dequeue(t)
  <2>1. PICK s \in { "CANCELLED", "BLOCKED" } : Change(t, s)
    BY <1>4 DEF Dequeue, Transition
  <2>2. /\ statuses[t] \in { "QUEUED", "BLOCKED" } /\ thread[t] = None
        /\ queue' = queue \ { t } /\ thread' = thread
    BY <1>4 DEF Dequeue
  <2>3. t \in taskFiles
    BY <1>2, <2>2 DEF ThreadInv
  <2>4. InOrder(statusFiles[t]) => Befits(t, s)
    BY <1>2, <2>2 DEF Befits, WaitStates, OutcomeStates, Unused, AllReleased
  <2> QED BY <1>1, <2>1, <2>2, <2>3, <2>4, ChangeNewest DEF TaskState
<1>5. CASE Claim(t)
  <2>1. /\ t \in queue /\ Change(t, "PREPARING") /\ queue' = queue \ { t }
        /\ thread' = [thread EXCEPT ![t] = "dispatch"]
    BY <1>5 DEF Claim, Transition
  <2>2. statuses[t] = "QUEUED" /\ t \in taskFiles
    BY <1>1, <1>2, <2>1 DEF ThreadInv
  <2>3. InOrder(statusFiles[t]) => Befits(t, "PREPARING") /\ Unused(t)
    BY <1>2, <2>2 DEF Befits, WaitStates, OutcomeStates, None
  <2>4. "PREPARING" \in TaskState \ WaitStates
    BY DEF TaskState, WaitStates
  <2> QED BY <1>1, <2>1, <2>2, <2>3, <2>4, ChangeNewest
<1> QED BY <1>3, <1>4, <1>5

(* A dispatch goes on, or ends.                                            *)
LEMMA DispatchCallNewest ==
  ASSUME Inv, NewestInv, NEW t \in Task,
         \/ Advance(t) \/ CancelBeforeStart(t) \/ CleanupFailed(t) \/ Outcome(t)
         \/ ForceFailure(t)
  PROVE  NewestInv'
<1>1. /\ Ready(t) /\ mode = "up" /\ op[t] = Idle
      /\ UNCHANGED <<taskFiles, statusFiles, leaseFiles, mode, leases, queue>>
      /\ statuses \in [Task -> TaskState] /\ thread \in [Task -> Threads]
  BY DEF Inv, MemoryInv, Advance, CancelBeforeStart, CleanupFailed, Outcome, ForceFailure,
         Ready, Kept, historyVars
<1>2. /\ ThreadInv(t)
      /\ InOrder(statusFiles[t]) /\ Held(t) = {} => AllReleased(t)
  BY <1>1, BetweenWrites DEF NewestInv
<1>3. /\ thread[t] \in { "dispatch", "cancelled", "refused", "unsure" }
      /\ thread' = thread \/ thread' = [thread EXCEPT ![t] = "cancelled"]
  BY DEF Advance, CancelBeforeStart, CleanupFailed, Outcome, ForceFailure
<1>4. statuses[t] \notin WaitStates /\ t \in taskFiles /\ t \notin queue
  BY <1>1, <1>2, <1>3 DEF ThreadInv, Threads, None, WaitStates
<1>5. PICK s \in TaskState \ (WaitStates \cup { "PREPARING" }) :
         Change(t, s) /\ (s \in OutcomeStates => Held(t) = {})
  BY DEF Advance, CancelBeforeStart, CleanupFailed, Outcome, ForceFailure, Transition,
         TaskState, WaitStates, OutcomeStates
<1>6. InOrder(statusFiles[t]) => Befits(t, s)
  BY <1>2, <1>5 DEF Befits, WaitStates, TaskState, None
<1>7. \A u \in Task : u # t => thread'[u] = thread[u] /\ (u \in queue' <=> u \in queue)
  BY <1>1, <1>3
<1>8. t \in queue' <=> s = "QUEUED"
  BY <1>1, <1>4, <1>5 DEF WaitStates
<1> QED BY <1>1, <1>4, <1>5, <1>6, <1>7, <1>8, ChangeNewest

LEMMA SettleNewest ==
  ASSUME Inv, NewestInv, NEW t \in Task, Settle(t)
  PROVE  NewestInv'
<1>1. /\ Ready(t) /\ mode = "up" /\ op[t] = Idle /\ Held(t) = {}
      /\ UNCHANGED <<taskFiles, statusFiles, leaseFiles, mode, leases, queue, thread>>
      /\ thread[t] = "reconcile"
      /\ statuses \in [Task -> TaskState] /\ thread \in [Task -> Threads]
  BY DEF Inv, MemoryInv, Settle, Ready, Kept, historyVars
<1>2. /\ ThreadInv(t)
      /\ InOrder(statusFiles[t]) => AllReleased(t)
  BY <1>1, BetweenWrites DEF NewestInv
<1>3. CASE statuses[t] = "CLEANUP_FAILED"
  <2>1. PICK s \in OutcomeStates : Change(t, s)
    BY <1>3 DEF Settle
  <2>2. s \in TaskState \ (WaitStates \cup { "PREPARING", "QUEUED" }) /\ s # None
    BY DEF OutcomeStates, TaskState, WaitStates, None
  <2>3. t \in taskFiles /\ t \notin queue
    BY <1>1, <1>2, <1>3 DEF ThreadInv
  <2>4. InOrder(statusFiles[t]) => Befits(t, s)
    BY <1>2, <2>2 DEF Befits
  <2> QED BY <1>1, <2>1, <2>2, <2>3, <2>4, ChangeNewest
<1>4. CASE statuses[t] # "CLEANUP_FAILED"
  <2>1. op' = [op EXCEPT ![t] = [Idle EXCEPT !.step = "event"]] /\ statuses' = statuses
    BY <1>4 DEF Settle
  <2>2. thread' = [thread EXCEPT ![t] = thread[t]] /\ [Idle EXCEPT !.step = "event"].step = "event"
    BY <1>1 DEF Idle
  <2>3. /\ thread[t] \in Threads /\ thread[t] # "dispatch"
        /\ thread[t] \notin Threads \ { None, "reconcile" }
    BY <1>1
  <2> QED BY <1>1, <2>1, <2>2, <2>3, OtherNewest
<1> QED BY <1>3, <1>4

LEMMA OtherCallNewest ==
  ASSUME Inv, NewestInv, NEW t \in Task,
         \/ Admit(t) \/ Fail(t) \/ Reconcile(t)
         \/ \E l \in LeasesOf[t] : Hold(t, l) \/ Commit(t, l) \/ Release(t, l)
  PROVE  NewestInv'
<1>1. /\ Ready(t) /\ UNCHANGED <<statusFiles, leaseFiles, mode, leases, statuses, queue>>
      /\ taskFiles \subseteq taskFiles'
      /\ op \in [Task -> Ops] /\ thread \in [Task -> Threads]
  BY DEF Inv, OpInv, MemoryInv, Admit, Fail, Reconcile, Hold, Commit, Release, Ready, Kept,
         historyVars, memoryVars
<1>2. /\ ThreadInv(t) /\ op[t].step = "idle" /\ thread[t] \in Threads
      /\ \A l \in Held(t) : leaseFiles[l] # <<>>
  BY <1>1, BetweenWrites DEF NewestInv, Ready, Idle
<1>3. CASE Admit(t)
  <2>1. op' = [op EXCEPT ![t] = op[t]] /\ thread' = [thread EXCEPT ![t] = thread[t]]
    BY <1>1, <1>3 DEF Admit, memoryVars
  <2> QED BY <1>1, <1>2, <2>1, OtherNewest DEF ThreadInv
<1>4. CASE Fail(t)
  <2>1. PICK h \in { "refused", "unsure" } : thread' = [thread EXCEPT ![t] = h]
    BY <1>4 DEF Fail
  <2>2. op' = [op EXCEPT ![t] = op[t]] /\ thread[t] = "dispatch" /\ h \in Threads /\ h # "dispatch"
    BY <1>1, <1>4 DEF Fail, Threads
  <2>3. statuses[t] \notin WaitStates
    BY <1>4 DEF Fail, ActiveStates, WaitStates
  <2> QED BY <1>1, <1>2, <2>1, <2>2, <2>3, OtherNewest
<1>5. CASE Reconcile(t)
  <2>1. /\ op' = [op EXCEPT ![t] = op[t]] /\ thread' = [thread EXCEPT ![t] = "reconcile"]
        /\ "reconcile" \in Threads /\ "reconcile" # "dispatch"
    BY <1>1, <1>5 DEF Reconcile, Threads
  <2> QED BY <1>1, <1>2, <2>1, OtherNewest
<1>6. ASSUME NEW l \in LeasesOf[t], Hold(t, l) \/ Commit(t, l) PROVE NewestInv'
  <2>1. PICK a \in { "HELD", "COMMITTED" } : op' = [op EXCEPT ![t] = LeaseWrite(l, a)]
    BY <1>6 DEF Hold, Commit
  <2>2. /\ thread[t] = "dispatch" /\ statuses[t] = "PREPARING" /\ thread' = thread
    BY <1>6 DEF Hold, Commit
  <2>3. /\ LeaseWrite(l, a).step = "lease_history" /\ LeaseWrite(l, a).of = l
        /\ LeaseWrite(l, a).value # "RELEASED" /\ thread' = [thread EXCEPT ![t] = thread[t]]
    BY <1>1, <2>2 DEF LeaseWrite
  <2>4. statuses[t] \notin WaitStates
    BY <2>2 DEF WaitStates
  <2> HIDE DEF LeaseWrite
  <2> QED BY <1>1, <1>2, <2>1, <2>2, <2>3, <2>4, OtherNewest
<1>7. ASSUME NEW l \in LeasesOf[t], Release(t, l) PROVE NewestInv'
  <2>1. /\ op' = [op EXCEPT ![t] = LeaseWrite(l, "RELEASED")] /\ l \in Held(t)
        /\ thread' = thread
        /\ ~(thread[t] = "dispatch" /\ statuses[t] = "PREPARING")
    BY <1>7 DEF Release
  <2>2. /\ LeaseWrite(l, "RELEASED").step = "lease_history" /\ LeaseWrite(l, "RELEASED").of = l
        /\ LeaseWrite(l, "RELEASED").value = "RELEASED"
        /\ thread' = [thread EXCEPT ![t] = thread[t]]
    BY <1>1, <2>1 DEF LeaseWrite
  <2>3. leaseFiles[l] # <<>>
    BY <1>2, <2>1
  <2>4. thread[t] \in Threads \ { None, "reconcile" } => statuses[t] \notin WaitStates
    BY <1>2 DEF ThreadInv
  <2> QED BY <1>1, <1>2, <2>1, <2>2, <2>3, <2>4, OtherNewest, ZenonT(40)
<1> QED BY <1>3, <1>4, <1>5, <1>6, <1>7

-----------------------------------------------------------------------------
(* A start reads what was written last, if that sorts last.                *)

LEMMA LoadNewest ==
  ASSUME Inv, NewestInv, Load
  PROVE  NewestInv'
<1>1. CASE Start
  <2>1. /\ mode = "down" /\ mode' = "loading" /\ statuses' = RebuiltStatuses
        /\ UNCHANGED <<taskFiles, statusFiles, leaseFiles, queue, leases, thread, op>>
    BY <1>1 DEF Start, historyVars
  <2>2. ASSUME NEW t \in Task PROVE TaskInv(t)'
    <3>1. /\ thread[t] = None /\ op[t].step = "idle"
          /\ ThreadInv(t) /\ StatusInv(t) /\ OrderInv(t)
      BY <2>1 DEF NewestInv, ThreadInv
    <3>2. statuses'[t] = IF statusFiles[t] = <<>> THEN "CREATED" ELSE Last(statusFiles[t]).value
      <4>1. statuses'[t] = LatestStatus(statusFiles[t], statusSnap[t])
        BY <2>1 DEF RebuiltStatuses
      <4>2. statusSnap[t] = NoSnap \/ Has(statusFiles[t], statusSnap[t])
        BY DEF Inv, SnapInv
      <4>3. Has(statusFiles[t], statusSnap[t]) => statusFiles[t] # <<>>
        BY DEF Has
      <4> QED BY <4>1, <4>2, <4>3 DEF LatestStatus, Has, NoSnap
    <3>3. statusFiles[t] \in Seq(StatusEntry)
      BY DEF Inv, DiskInv
    <3>4. ThreadInv(t)'
      BY <2>1, <3>1, <3>2 DEF ThreadInv, LeaseSteps
    <3>5. PendingInv(t)'
      BY <2>1, <3>1 DEF PendingInv, LeaseSteps
    <3>6. StatusInv(t)'
      <4>1. Numbered(statusFiles[t])
        BY <3>1 DEF StatusInv
      <4>2. statusFiles[t] # <<>> /\ WrittenLast(statusFiles[t]) =>
               NewestOf(statusFiles[t]) = Last(statusFiles[t]).value
        BY <3>3, <4>1, NewestLast
      <4> QED BY <2>1, <3>2, <4>1, <4>2 DEF StatusInv
    <3>7. OrderInv(t)'
      <4>1. ~Preparing(t)'
        BY <2>1, <3>1 DEF Preparing, None
      <4> QED BY <2>1, <3>1, <4>1 DEF OrderInv, Befits, Unused, AllReleased, Writes
    <3> QED BY <3>4, <3>5, <3>6, <3>7 DEF TaskInv
  <2>3. ASSUME NEW l \in Lease PROVE LeaseInv(l)'
    BY <2>1 DEF NewestInv, LeaseInv
  <2> QED BY <2>2, <2>3 DEF NewestInv, TaskInv
<1>2. CASE Loaded
  <2>1. /\ mode = "loading" /\ mode' = "up" /\ leases' = RebuiltLeases
        /\ queue' = { t \in taskFiles : statuses[t] = "QUEUED" }
        /\ UNCHANGED <<taskFiles, statusFiles, leaseFiles, statuses, thread, op>>
    BY <1>2 DEF Loaded, Rebuilds, Marked, historyVars
  <2>2. ASSUME NEW t \in Task PROVE TaskInv(t)'
    <3>1. /\ thread[t] = None /\ op[t].step = "idle"
          /\ ThreadInv(t) /\ PendingInv(t) /\ StatusInv(t) /\ OrderInv(t)
      BY <1>2, <2>1 DEF NewestInv, ThreadInv, Loaded, Rebuilds, Marked, Quiet, Idle
    <3>2. ThreadInv(t)'
      BY <2>1, <3>1 DEF ThreadInv
    <3>3. PendingInv(t)' /\ StatusInv(t)' /\ OrderInv(t)'
      BY <2>1, <3>1 DEF PendingInv, StatusInv, OrderInv, Preparing, Befits, Unused, AllReleased,
                        Writes, LeaseSteps
    <3> QED BY <3>2, <3>3 DEF TaskInv
  <2>3. ASSUME NEW l \in Lease PROVE LeaseInv(l)'
    <3>1. /\ leaseFiles[l] \in Seq(LeaseEntry) /\ Numbered(leaseFiles[l])
          /\ IsFile(leaseFiles[l], LeaseAction)
      BY DEF Inv, DiskInv, NewestInv, LeaseInv
    <3>2. leases'[l] = IF leaseFiles[l] = <<>> \/ Last(leaseFiles[l]).value = "RELEASED"
                       THEN None ELSE Last(leaseFiles[l]).value
      BY <2>1 DEF RebuiltLeases, RebuiltLease, Inv, SnapInv
    <3>3. leaseFiles[l] # <<>> =>
             \E i \in 1 .. Len(leaseFiles[l]) :
                leaseFiles[l][i] = Last(leaseFiles[l]) /\ leaseFiles[l][i].value \in LeaseAction
      <4> SUFFICES ASSUME leaseFiles[l] # <<>>
                   PROVE  \E i \in 1 .. Len(leaseFiles[l]) :
                             /\ leaseFiles[l][i] = Last(leaseFiles[l])
                             /\ leaseFiles[l][i].value \in LeaseAction
        OBVIOUS
      <4>1. Len(leaseFiles[l]) \in 1 .. Len(leaseFiles[l])
        BY <3>1
      <4>2. Last(leaseFiles[l]) = leaseFiles[l][Len(leaseFiles[l])]
        BY DEF Last
      <4> QED BY <3>1, <4>1, <4>2 DEF IsFile
    <3>4. /\ leases'[l] = None => leaseFiles[l] = <<>> \/ Writes(l, "RELEASED")
          /\ leases'[l] # None => leaseFiles[l] # <<>>
      BY <3>2, <3>3 DEF Writes, LeaseAction, None
    <3>5. WrittenLast(leaseFiles[l]) => LeaseAsWritten(l)'
      BY <2>1, <3>1, <3>2, NewestLast DEF LeaseAsWritten, None
    <3> QED BY <2>1, <3>1, <3>4, <3>5 DEF LeaseInv, Writes
  <2> QED BY <2>2, <2>3 DEF NewestInv, TaskInv
<1>3. CASE Refused
  BY <1>3, ForgetsAll DEF Refused, historyVars
<1>4. ASSUME NEW t \in Task, Mark(t) PROVE NewestInv'
  <2>1. /\ Change(t, "RECONCILIATION_REQUIRED") /\ mode = "loading" /\ op[t] = Idle
        /\ statuses[t] \in ActiveStates
        /\ UNCHANGED <<taskFiles, statusFiles, leaseFiles, mode, leases, queue, thread>>
    BY <1>4 DEF Mark, Kept, historyVars, Quiet
  <2>2. t \in taskFiles /\ thread[t] = None
    BY <2>1 DEF NewestInv, ThreadInv, ActiveStates
  <2>3. Befits(t, "RECONCILIATION_REQUIRED") /\ "RECONCILIATION_REQUIRED" \in TaskState
    BY DEF Befits, WaitStates, OutcomeStates, None, TaskState
  <2> QED BY <2>1, <2>2, <2>3, ChangeNewest
<1> QED BY <1>1, <1>2, <1>3, <1>4 DEF Load

LEMMA StaysNewest ==
  ASSUME NewestInv,
         UNCHANGED <<taskFiles, statusFiles, leaseFiles, mode, statuses, queue, leases, thread, op>>
  PROVE  NewestInv'
<1>1. ASSUME NEW t \in Task PROVE TaskInv(t)'
  BY DEF NewestInv, TaskInv, ThreadInv, PendingInv, StatusInv, OrderInv, Preparing, Befits, Unused,
         AllReleased, Writes
<1>2. ASSUME NEW l \in Lease PROVE LeaseInv(l)'
  BY DEF NewestInv, LeaseInv, LeaseAsWritten, Writes, Writing
<1> QED BY <1>1, <1>2 DEF NewestInv, TaskInv

THEOREM NewestInit == Init => NewestInv
<1> SUFFICES ASSUME Init PROVE NewestInv
  OBVIOUS
<1>1. Numbered(<<>>) /\ NewestOf(<<>>) = None
  BY DEF Numbered, NewestOf
<1>2. ASSUME NEW t \in Task PROVE TaskInv(t)
  <2>1. /\ op[t].step = "idle" /\ thread[t] = None /\ statusFiles[t] = <<>> /\ mode = "down"
        /\ \A l \in LeasesOf[t] : leaseFiles[l] = <<>> /\ Len(leaseFiles[l]) = 0
        /\ statuses[t] = "CREATED"
    BY DEF Init, Idle
  <2>2. ThreadInv(t) /\ PendingInv(t) /\ StatusInv(t)
    BY <1>1, <2>1 DEF ThreadInv, PendingInv, StatusInv, LeaseSteps
  <2>3. OrderInv(t)
    BY <2>1 DEF OrderInv, Befits, Unused, AllReleased, Writes
  <2> QED BY <2>2, <2>3 DEF TaskInv
<1>3. ASSUME NEW l \in Lease PROVE LeaseInv(l)
  BY <1>1 DEF Init, LeaseInv
<1> QED BY <1>2, <1>3 DEF NewestInv, TaskInv

(* Every step keeps the statuses and leases what was written last.         *)
THEOREM NewestNext == Inv /\ NewestInv /\ [Next]_vars => NewestInv'
<1> SUFFICES ASSUME Inv, NewestInv, [Next]_vars PROVE NewestInv'
  OBVIOUS
<1>1. CASE Load
  BY <1>1, LoadNewest
<1>2. CASE Crash
  BY <1>2, ForgetsAll DEF Crash, historyVars
<1>3. CASE Wipe
  BY <1>3, StaysNewest DEF Wipe, historyVars, memoryVars
<1>4. CASE Repair
  BY <1>4, StaysNewest DEF Repair, historyVars, memoryVars
<1>5. ASSUME NEW t \in Task, Write(t) PROVE NewestInv'
  BY <1>5, WriteStatusNewest, LaterWritesNewest, AppendFailsNewest, WriteLeaseNewest,
     WriteLeaseSnapshotNewest DEF Write
<1>6. ASSUME NEW t \in Task, Call(t) PROVE NewestInv'
  BY <1>6, QueueCallNewest, DispatchCallNewest, SettleNewest, OtherCallNewest DEF Call
<1>7. CASE UNCHANGED vars
  BY <1>7, StaysNewest DEF vars, historyVars, memoryVars
<1> QED BY <1>1, <1>2, <1>3, <1>4, <1>5, <1>6, <1>7 DEF Next

(* The newest entry of every file is what the master acts on.              *)
THEOREM NewestCorrect == Spec => [](Inv /\ NewestInv)
BY InitInv, NextInv, NewestInit, NewestNext, PTL DEF Spec

(* However often the master starts or fails to, whatever was torn and      *)
(* whichever way the clock went, a lease that was written and not released *)
(* is in _leases; and what was written last, if it also sorts last, is     *)
(* what the master has in memory and in its queue.                         *)
THEOREM RestartsAreTrue == Spec => []RebuiltAsWritten
<1>1. Inv /\ NewestInv => RebuiltAsWritten
  <2> SUFFICES ASSUME Inv, NewestInv, mode = "up" PROVE RebuiltAsWritten
    BY DEF RebuiltAsWritten
  <2>1. ASSUME NEW l \in Lease, ~BeingWritten(l)
        PROVE  /\ Writes(l, "HELD") /\ ~Writes(l, "RELEASED") => leases[l] # None
               /\ WrittenLast(leaseFiles[l]) => LeaseAsWritten(l)
    <3>1. LeaseInv(l) /\ \A t \in Task : ~Writing(t, l)
      BY <2>1 DEF NewestInv, Writing, BeingWritten
    <3>2. Writes(l, "HELD") => leaseFiles[l] # <<>>
      BY DEF Writes
    <3> QED BY <3>1, <3>2 DEF LeaseInv
  <2>2. ASSUME NEW t \in Task, op[t] = Idle, WrittenLast(statusFiles[t])
        PROVE  StatusAsWritten(t)
    <3>1. /\ op[t].step = "idle" /\ StatusInv(t) /\ ThreadInv(t)
          /\ statusFiles[t] = <<>> => NewestOf(statusFiles[t]) = None
      BY <2>2 DEF Idle, NewestInv, NewestOf
    <3>2. statuses[t] = IF statusFiles[t] = <<>> THEN "CREATED" ELSE NewestOf(statusFiles[t])
      BY <2>2, <3>1 DEF StatusInv
    <3> QED BY <3>1, <3>2 DEF StatusAsWritten, ThreadInv, None
  <2> QED BY <2>1, <2>2 DEF RebuiltAsWritten
<1> QED BY <1>1, NewestCorrect, PTL

(* When the last status written is an outcome, no start finds a lease of   *)
(* the Task, whatever crash came between the writes.                       *)
THEOREM OutcomesFindNoLease == Spec => []ReleasedBeforeOutcome
<1>1. Inv /\ NewestInv => ReleasedBeforeOutcome
  <2> SUFFICES ASSUME Inv, NewestInv, NEW t \in Task,
                      NewestOf(statusFiles[t]) \in OutcomeStates, InOrder(statusFiles[t]),
                      NEW l \in LeasesOf[t], WrittenLast(leaseFiles[l])
               PROVE  RebuiltLease(leaseFiles[l], leaseSnap[l]) = None
    BY DEF ReleasedBeforeOutcome
  <2>1. leaseFiles[l] = <<>> \/ NewestOf(leaseFiles[l]) = "RELEASED"
    BY DEF NewestInv, OrderInv, Befits, AllReleased
  <2>2. leaseFiles[l] = <<>> => leaseSnap[l] = None
    BY DEF Inv, SnapInv
  <2>3. leaseFiles[l] # <<>> => NewestOf(leaseFiles[l]) = Last(leaseFiles[l]).value
    <3>1. l \in Lease /\ leaseFiles[l] \in Seq(LeaseEntry) /\ Numbered(leaseFiles[l])
      BY DEF Inv, DiskInv, NewestInv, LeaseInv
    <3> QED BY <3>1, NewestLast
  <2> QED BY <2>1, <2>2, <2>3 DEF RebuiltLease
<1> QED BY <1>1, NewestCorrect, PTL
=============================================================================
