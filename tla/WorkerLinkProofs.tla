-------------------------- MODULE WorkerLinkProofs --------------------------
(* Proofs about WorkerLink: for any number of calls, web sockets and        *)
(* heartbeats, and any order of broken connections, timeouts and restarts,  *)
(* both sides take what the other has numbered in order and once, and an    *)
(* answer is on one of the two disks from the moment it is recorded.        *)
EXTENDS WorkerLink, TLAPS

USE LinkAssumption

DownMsg == [seq : Nat, kind : {"call", "ack"}, about : 0 .. MaxCall]

UpInv   == UpNumbered /\ IsPrefixOf(hubLog, upLog)
DownInv == DownNumbered /\ IsPrefixOf(workerLog, downLog)
Inv     == TypeOK /\ UpInv /\ DownInv /\ AnswerKept

-----------------------------------------------------------------------------
(* Sequences and channels.                                                  *)

LEMMA ElementIn ==
  ASSUME NEW S, NEW s \in Seq(S), NEW i \in 1 .. Len(s)
  PROVE  s[i] \in S
OBVIOUS

LEMMA HeadTail ==
  ASSUME NEW S, NEW s \in Seq(S), s # <<>>
  PROVE  /\ Head(s) \in S /\ Tail(s) \in Seq(S)
         /\ Len(s) \in Nat \ {0} /\ Head(s) = s[1]
         /\ Len(Tail(s)) = Len(s) - 1
         /\ \A i \in 1 .. Len(Tail(s)) : Tail(s)[i] = s[i + 1]
OBVIOUS

LEMMA Appended ==
  ASSUME NEW S, NEW s \in Seq(S), NEW x \in S
  PROVE  /\ Append(s, x) \in Seq(S)
         /\ Len(Append(s, x)) = Len(s) + 1
         /\ \A i \in 1 .. Len(s) : Append(s, x)[i] = s[i]
         /\ Append(s, x)[Len(s) + 1] = x
OBVIOUS

(* What a channel holds after a send: what it held and, if the web socket   *)
(* carries it, the new message at the end.                                  *)
LEMMA Carried ==
  ASSUME TypeOK, NEW S, NEW channel \in [Conn -> Seq(S)], NEW c \in Conn, NEW m \in S
  PROVE  /\ Carry(channel, c, m) \in [Conn -> Seq(S)]
         /\ \A d \in Conn : \A i \in 1 .. Len(Carry(channel, c, m)[d]) :
              \/ i \in 1 .. Len(channel[d]) /\ Carry(channel, c, m)[d][i] = channel[d][i]
              \/ d = c /\ i = Len(channel[d]) + 1 /\ Carry(channel, c, m)[d][i] = m
<1>1. Append(channel[c], m) \in Seq(S)
  OBVIOUS
<1>2. CASE broken[c] BY <1>2 DEF Carry
<1>3. CASE ~broken[c]
  <2>1. Carry(channel, c, m) = [channel EXCEPT ![c] = Append(@, m)]
    BY <1>3 DEF Carry
  <2>2. Carry(channel, c, m) \in [Conn -> Seq(S)]
    BY <1>1, <2>1
  <2>3. ASSUME NEW d \in Conn, NEW i \in 1 .. Len(Carry(channel, c, m)[d]), d # c
        PROVE  i \in 1 .. Len(channel[d]) /\ Carry(channel, c, m)[d][i] = channel[d][i]
    BY <2>1, <2>3
  <2>4. ASSUME NEW i \in 1 .. Len(Carry(channel, c, m)[c])
        PROVE  \/ i \in 1 .. Len(channel[c]) /\ Carry(channel, c, m)[c][i] = channel[c][i]
               \/ i = Len(channel[c]) + 1 /\ Carry(channel, c, m)[c][i] = m
    <3>1. Carry(channel, c, m)[c] = Append(channel[c], m) /\ channel[c] \in Seq(S)
      BY <2>1
    <3> QED BY <3>1, Appended
  <2> QED BY <2>2, <2>3, <2>4
<1> QED BY <1>2, <1>3

(* The first message of a channel is read.                                  *)
LEMMA FirstRead ==
  ASSUME NEW S, NEW channel \in [Conn -> Seq(S)], NEW c \in Conn, channel[c] # <<>>
  PROVE  LET rest == [channel EXCEPT ![c] = Tail(@)] IN
         /\ rest \in [Conn -> Seq(S)]
         /\ Head(channel[c]) \in S /\ 1 \in 1 .. Len(channel[c])
         /\ Head(channel[c]) = channel[c][1]
         /\ \A d \in Conn : \A i \in 1 .. Len(rest[d]) :
              IF d = c THEN i + 1 \in 1 .. Len(channel[c]) /\ rest[c][i] = channel[c][i + 1]
                       ELSE i \in 1 .. Len(channel[d]) /\ rest[d][i] = channel[d][i]
<1> DEFINE rest == [channel EXCEPT ![c] = Tail(@)]
<1>1. channel[c] \in Seq(S)
  OBVIOUS
<1>2. /\ Head(channel[c]) \in S /\ Tail(channel[c]) \in Seq(S)
      /\ Len(channel[c]) \in Nat \ {0} /\ Head(channel[c]) = channel[c][1]
      /\ Len(Tail(channel[c])) = Len(channel[c]) - 1
      /\ \A i \in 1 .. Len(Tail(channel[c])) : Tail(channel[c])[i] = channel[c][i + 1]
  BY <1>1, HeadTail
<1>3. rest \in [Conn -> Seq(S)] /\ rest[c] = Tail(channel[c])
  BY <1>2
<1>4. \A d \in Conn : d # c => rest[d] = channel[d]
  OBVIOUS
<1> QED BY <1>2, <1>3, <1>4

-----------------------------------------------------------------------------
(* Every variable stays in its range.                                       *)

LEMMA InitType == Init => TypeOK
<1> SUFFICES ASSUME Init PROVE TypeOK
  OBVIOUS
<1>1. toHub \in [Conn -> Seq(Up)] /\ toWorker \in [Conn -> Seq(DownMsg)]
  BY DEF Init
<1>2. /\ upLog \in Seq(0 .. MaxCall) /\ hubLog \in Seq(0 .. MaxCall)
      /\ downLog \in Seq(Down) /\ workerLog \in Seq(Down)
  BY DEF Init
<1>3. taken \in Up /\ taken = NoMsg
  BY DEF Init, Up, NoMsg
<1>4. /\ number \in [Call -> Nat] /\ place \in [Call -> Nat] /\ nextPlace \in Nat
      /\ broken \in [Conn -> BOOLEAN]
  BY DEF Init
<1> QED BY <1>1, <1>2, <1>3, <1>4 DEF Init, TypeOK, DownMsg

(* A message of the hub leaves the counters, logs and channels well typed.  *)
LEMMA SendsTyped ==
  ASSUME TypeOK, NEW kind \in {"call", "ack"}, NEW r \in 0 .. MaxCall,
         hubConn # 0, HubSends(kind, r)
  PROVE  /\ hubSend' \in Nat /\ downLog' \in Seq(Down)
         /\ toWorker' \in [Conn -> Seq(DownMsg)]
<1>1. hubConn \in Conn
  BY DEF TypeOK, Conn
<1>2. hubSend' = hubSend + 1 /\ hubSend' \in Nat
  BY DEF TypeOK, HubSends
<1>3. [seq |-> hubSend', kind |-> kind, about |-> r] \in DownMsg
  BY <1>2 DEF DownMsg
<1>4. toWorker \in [Conn -> Seq(DownMsg)]
  BY DEF TypeOK, DownMsg
<1>5. toWorker' \in [Conn -> Seq(DownMsg)]
  BY <1>1, <1>3, <1>4, Carried DEF HubSends
<1>6. downLog' \in Seq(Down)
  BY DEF TypeOK, HubSends, Down
<1> QED BY <1>2, <1>5, <1>6

(* The message the hub reads next is one, and the channels stay channels.   *)
LEMMA ReadInTyped ==
  ASSUME TypeOK, Incoming, ReadIn
  PROVE  /\ hubConn \in Conn /\ NextIn \in Up /\ toHub' \in [Conn -> Seq(Up)]
         /\ NextIn.seq \in Nat /\ NextIn.about \in 0 .. MaxCall
<1>1. hubConn \in Conn /\ toHub \in [Conn -> Seq(Up)] /\ toHub[hubConn] # <<>>
  BY DEF TypeOK, Conn, Incoming
<1>2. NextIn \in Up /\ toHub' \in [Conn -> Seq(Up)]
  BY <1>1, FirstRead DEF NextIn, ReadIn
<1> QED BY <1>1, <1>2 DEF Up

LEMMA ReadOutTyped ==
  ASSUME TypeOK, Arriving, ReadOut
  PROVE  /\ opened \in Conn /\ NextOut \in DownMsg /\ toWorker' \in [Conn -> Seq(DownMsg)]
         /\ NextOut.seq \in Nat /\ NextOut.about \in 0 .. MaxCall
         /\ NextOut.kind \in {"call", "ack"}
<1>1. session = "live" /\ toWorker[opened] # <<>>
  BY DEF Arriving
<1>a. opened \in Conn
  BY <1>1 DEF TypeOK, Conn
<1>b. toWorker \in [Conn -> Seq(DownMsg)]
  BY DEF TypeOK, DownMsg
<1>2. NextOut \in DownMsg /\ toWorker' \in [Conn -> Seq(DownMsg)]
  BY <1>1, <1>a, <1>b, FirstRead DEF NextOut, ReadOut
<1> QED BY <1>a, <1>2 DEF DownMsg

(* What belongs to the hub, to the Worker, and to the wire.                 *)
HubOK ==
  /\ hubSend \in Nat /\ hubRecv \in Nat /\ stored \subseteq Call
  /\ waiting \subseteq Call /\ taken \in Up /\ issued \in 0 .. MaxCall
WorkerOK ==
  /\ sendSeq \in Nat /\ seenSeq \in Nat /\ kept \subseteq Call
  /\ number \in [Call -> Nat] /\ place \in [Call -> Nat] /\ nextPlace \in Nat
  /\ session \in {"down", "replay", "live", "closing", "exiting"}
  /\ handling \in 0 .. MaxCall /\ running \subseteq Call /\ replay \subseteq Call
  /\ (session # "live" => handling = 0)
  /\ (session \in {"down", "replay"} => running = {})
  /\ recorded \subseteq Call
ConnOK ==
  /\ opened \in 0 .. MaxConn /\ decided \in 0 .. opened /\ hubConn \in 0 .. decided
  /\ (taken # NoMsg => hubConn # 0)
  /\ (session # "down" => opened # 0)
  /\ broken \in [Conn -> BOOLEAN]
WireOK ==
  /\ toHub \in [Conn -> Seq(Up)] /\ toWorker \in [Conn -> Seq(DownMsg)]
LogsOK ==
  /\ upLog \in Seq(0 .. MaxCall) /\ hubLog \in Seq(0 .. MaxCall)
  /\ downLog \in Seq(Down) /\ workerLog \in Seq(Down)

LEMMA TypeParts == TypeOK <=> HubOK /\ WorkerOK /\ ConnOK /\ WireOK /\ LogsOK
BY DEF TypeOK, HubOK, WorkerOK, ConnOK, WireOK, LogsOK, DownMsg

LEMMA TypePartsNext == TypeOK' <=> HubOK' /\ WorkerOK' /\ ConnOK' /\ WireOK' /\ LogsOK'
BY TypeParts, PTL

LEMMA Unchanged ==
  ASSUME TypeOK
  PROVE  /\ UNCHANGED <<hubDisk, waiting, taken, issued>> => HubOK'
         /\ UNCHANGED <<workerDisk, workerMem, recorded>> => WorkerOK'
         /\ UNCHANGED <<opened, decided, hubConn, taken, session, broken>> => ConnOK'
         /\ UNCHANGED <<toHub, toWorker>> => WireOK'
         /\ UNCHANGED <<upLog, downLog, hubLog, workerLog>> => LogsOK'
BY TypeParts DEF HubOK, WorkerOK, ConnOK, WireOK, LogsOK, hubDisk, workerDisk, workerMem

LEMMA BreakType == TypeOK /\ Break => TypeOK'
<1> SUFFICES ASSUME TypeOK, Break PROVE TypeOK'
  OBVIOUS
<1>0. PICK c \in 1 .. opened :
        /\ broken' = [broken EXCEPT ![c] = TRUE]
        /\ \E i \in 0 .. Len(toHub[c]), j \in 0 .. Len(toWorker[c]) :
             /\ toHub' = [toHub EXCEPT ![c] = SubSeq(@, 1, i)]
             /\ toWorker' = [toWorker EXCEPT ![c] = SubSeq(@, 1, j)]
  BY DEF Break
<1>1. PICK i \in 0 .. Len(toHub[c]), j \in 0 .. Len(toWorker[c]) :
        /\ toHub' = [toHub EXCEPT ![c] = SubSeq(@, 1, i)]
        /\ toWorker' = [toWorker EXCEPT ![c] = SubSeq(@, 1, j)]
  BY <1>0
<1>2. opened \in 0 .. MaxConn /\ c \in Conn
  BY <1>0 DEF TypeOK, Conn
<1>3. toHub[c] \in Seq(Up) /\ toWorker[c] \in Seq(DownMsg)
  BY <1>2 DEF TypeOK, DownMsg
<1>4. SubSeq(toHub[c], 1, i) \in Seq(Up) /\ SubSeq(toWorker[c], 1, j) \in Seq(DownMsg)
  BY <1>1, <1>3
<1>5. WireOK'
  BY <1>1, <1>4, TypeParts DEF WireOK
<1>6. ConnOK'
  BY <1>0, <1>2, TypeParts DEF ConnOK, Break, hubMemory, workerMem
<1> QED BY <1>5, <1>6, Unchanged, TypePartsNext DEF Break, hubMemory

(* The hub's side.                                                          *)
LEMMA HubType ==
  ASSUME TypeOK, Serve \/ TakeOld \/ TakeGap \/ HubNotices \/ TakeNext \/ Process
                 \/ Request \/ Timeout \/ HubCrash
  PROVE  TypeOK'
<1> USE DEF hubMemory, net
<1>n. <<>> \in Seq(Up)
  OBVIOUS
<1>t. ConnOK /\ WireOK
  BY TypeParts
<1>b. \A c : [broken EXCEPT ![c] = TRUE] \in [Conn -> BOOLEAN]
  BY <1>t DEF ConnOK
<1>e. [toHub EXCEPT ![hubConn] = <<>>] \in [Conn -> Seq(Up)]
  BY <1>n, <1>t DEF WireOK
<1>w. WorkerOK'
  BY Unchanged DEF Serve, TakeOld, TakeGap, HubNotices, EndServe, TakeNext, Process, Request,
     Timeout, HubCrash, workerDisk, workerMem
<1>1. CASE Serve
  <2>1. decided' \in Conn /\ decided' = decided + 1 /\ decided' \in 0 .. opened
    BY <1>1, TypeParts DEF Serve, ConnOK, Conn
  <2>2. ConnOK'
    <3>1. CASE hubConn = 0
      BY <1>1, <1>t, <2>1, <3>1 DEF Serve, ConnOK, workerMem
    <3>2. CASE hubConn # 0
      <4>1. broken' \in [Conn -> BOOLEAN] /\ hubConn' = hubConn
        BY <1>1, <1>b, <3>2 DEF Serve
      <4>2. /\ decided' = decided + 1 /\ opened' = opened /\ taken' = taken /\ session' = session
        BY <1>1 DEF Serve, workerMem
      <4> QED BY <1>t, <2>1, <4>1, <4>2 DEF ConnOK
    <3> QED BY <3>1, <3>2
  <2>3. WireOK'
    BY <1>1, <1>t, <1>n, <2>1 DEF Serve, WireOK
  <2> QED BY <1>1, <1>w, <2>2, <2>3, Unchanged, TypePartsNext DEF Serve
<1>2. CASE TakeOld
  <2>1. toHub' \in [Conn -> Seq(Up)]
    BY <1>2, ReadInTyped DEF TakeOld
  <2>2. CASE OldIsAcked
    <3>1. NextIn.about \in 0 .. MaxCall /\ hubConn # 0 /\ HubSends("ack", NextIn.about)
      BY <1>2, <2>2, ReadInTyped DEF TakeOld, Incoming
    <3>2. /\ hubSend' \in Nat /\ downLog' \in Seq(Down) /\ toWorker' \in [Conn -> Seq(DownMsg)]
      BY <3>1, SendsTyped
    <3>3. HubOK'
      BY <1>2, <3>2, TypeParts DEF TakeOld, HubOK
    <3>4. LogsOK'
      BY <1>2, <3>2, TypeParts DEF TakeOld, LogsOK
    <3> QED BY <1>2, <1>w, <2>1, <3>2, <3>3, <3>4, Unchanged, TypePartsNext
            DEF TakeOld, WireOK, workerMem
  <2>3. CASE ~OldIsAcked
    <3>1. WireOK'
      BY <1>2, <2>1, <2>3, TypeParts DEF TakeOld, WireOK
    <3>2. UNCHANGED <<hubDisk, waiting, taken, issued>> /\ UNCHANGED <<upLog, downLog, hubLog, workerLog>>
      BY <1>2, <2>3 DEF TakeOld, hubDisk
    <3> QED BY <1>2, <1>w, <3>1, <3>2, Unchanged, TypePartsNext DEF TakeOld, workerMem
  <2> QED BY <2>2, <2>3
<1>3. CASE EndServe /\ taken = NoMsg
  <2>1. ConnOK'
    <3>1. broken' \in [Conn -> BOOLEAN] /\ hubConn' = 0
      BY <1>3, <1>b DEF EndServe
    <3>2. /\ decided' = decided /\ opened' = opened /\ taken' = NoMsg /\ session' = session
      BY <1>3 DEF EndServe, workerMem
    <3> QED BY <1>t, <3>1, <3>2 DEF ConnOK
  <2>2. WireOK'
    BY <1>3, <1>e, TypeParts DEF EndServe, WireOK
  <2> QED BY <1>3, <1>w, <2>1, <2>2, Unchanged, TypePartsNext DEF EndServe
<1>4. CASE TakeNext
  <2>1. /\ hubConn \in Conn /\ NextIn \in Up /\ toHub' \in [Conn -> Seq(Up)]
        /\ NextIn.about \in 0 .. MaxCall
    BY <1>4, ReadInTyped DEF TakeNext
  <2>2. HubOK'
    BY <1>4, <2>1, TypeParts DEF TakeNext, HubOK
  <2>3. LogsOK'
    BY <1>4, <2>1, TypeParts, Appended DEF TakeNext, LogsOK
  <2>4. ConnOK'
    BY <1>4, <2>1, TypeParts DEF TakeNext, ConnOK, workerMem, Conn
  <2> QED BY <1>4, <1>w, <2>1, <2>2, <2>3, <2>4, TypeParts, TypePartsNext DEF TakeNext, WireOK
<1>5. CASE Process
  <2>1. taken.about \in 0 .. MaxCall /\ hubConn # 0
    BY <1>5, TypeParts DEF Process, HubOK, ConnOK, Up
  <2>2. ConnOK'
    BY <1>5, <2>1, TypeParts DEF Process, ConnOK, workerMem
  <2>3. NoMsg \in Up
    BY DEF NoMsg, Up
  <2>4. CASE HubSends("ack", taken.about) /\ stored' \subseteq Call /\ waiting' \subseteq Call
    <3>1. /\ hubSend' \in Nat /\ downLog' \in Seq(Down) /\ toWorker' \in [Conn -> Seq(DownMsg)]
      BY <2>1, <2>4, SendsTyped
    <3>2. HubOK'
      BY <1>5, <2>3, <2>4, <3>1, TypeParts DEF Process, HubOK
    <3>3. LogsOK'
      BY <1>5, <3>1, TypeParts DEF Process, LogsOK
    <3>4. WireOK'
      BY <1>5, <3>1, TypeParts DEF Process, WireOK
    <3> QED BY <1>w, <2>2, <3>2, <3>3, <3>4, TypePartsNext
  <2>5. CASE UNCHANGED <<stored, waiting, hubSend, downLog, toWorker>>
    <3>1. HubOK'
      BY <1>5, <2>3, <2>5, TypeParts DEF Process, HubOK
    <3> QED BY <1>5, <1>w, <2>2, <2>5, <3>1, Unchanged, TypePartsNext DEF Process
  <2>6. stored \subseteq Call /\ waiting \subseteq Call
    BY TypeParts DEF HubOK
  <2> QED BY <1>5, <2>4, <2>5, <2>6 DEF Process
<1>6. CASE Request
  <2>1. issued' \in 0 .. MaxCall /\ issued' \in Call
    BY <1>6, TypeParts DEF Request, HubOK, Call
  <2>2. /\ hubSend' \in Nat /\ downLog' \in Seq(Down) /\ toWorker' \in [Conn -> Seq(DownMsg)]
    BY <1>6, <2>1, SendsTyped DEF Request
  <2>3. HubOK'
    BY <1>6, <2>1, <2>2, TypeParts DEF Request, HubOK
  <2>4. LogsOK'
    BY <1>6, <2>2, TypeParts DEF Request, LogsOK
  <2>5. WireOK'
    BY <1>6, <2>2, TypeParts DEF Request, WireOK
  <2> QED BY <1>6, <1>w, <2>3, <2>4, <2>5, Unchanged, TypePartsNext DEF Request, workerMem
<1>7. CASE Timeout
  <2>1. HubOK'
    BY <1>7, TypeParts DEF Timeout, HubOK, hubDisk
  <2> QED BY <1>7, <1>w, <2>1, Unchanged, TypePartsNext DEF Timeout, workerMem
<1>8. CASE HubCrash
  <2>1. HubOK'
    BY <1>8, TypeParts DEF HubCrash, HubOK, hubDisk, NoMsg, Up
  <2>2. ConnOK'
    BY <1>8, TypeParts DEF HubCrash, ConnOK, workerMem
  <2>3. WireOK'
    BY <1>8, TypeParts DEF HubCrash, WireOK
  <2> QED BY <1>8, <1>w, <2>1, <2>2, <2>3, Unchanged, TypePartsNext DEF HubCrash
<1> QED BY <1>1, <1>2, <1>3, <1>4, <1>5, <1>6, <1>7, <1>8 DEF TakeGap, HubNotices, Incoming

(* An answer the Worker sends is a message.                                 *)
LEMMA AnswerSent ==
  ASSUME TypeOK, NEW r \in Call, opened \in Conn
  PROVE  /\ Answer(r) \in Up
         /\ Carry(toHub, opened, Answer(r)) \in [Conn -> Seq(Up)]
<1>1. Answer(r) \in Up
  BY DEF TypeOK, Answer, Up, Call
<1> QED BY <1>1, TypeParts, Carried DEF WireOK

(* The Worker's side.                                                       *)
LEMMA WorkerType ==
  ASSUME TypeOK, \/ Connect \/ Replay \/ Heartbeat \/ SeeGap \/ SeeNext \/ WorkerNotices
                 \/ SessionEnds \/ WorkerExits \/ WorkerCrash
                 \/ \E r \in Call : Number(r) \/ Record(r) \/ HandlerFails(r)
  PROVE  TypeOK'
<1> USE DEF hubMemory, net
<1>t. WorkerOK /\ ConnOK /\ WireOK /\ LogsOK
  BY TypeParts
<1>h. HubOK'
  BY Unchanged DEF Connect, Replay, Heartbeat, SeeGap, SeeNext, WorkerNotices, SessionEnds,
     WorkerExits, WorkerCrash, Restarted, Number, Record, HandlerFails
<1>o. session # "down" => opened \in Conn
  BY <1>t DEF ConnOK, Conn
<1>1. CASE Connect
  <2>1. WorkerOK'
    BY <1>1, <1>t DEF Connect, WorkerOK, workerDisk
  <2>2. ConnOK'
    BY <1>1, <1>t DEF Connect, ConnOK
  <2> QED BY <1>1, <1>h, <2>1, <2>2, Unchanged, TypePartsNext DEF Connect
<1>2. CASE Replay
  <2>1. session # "down" /\ opened \in Conn
    BY <1>2, <1>o DEF Replay
  <2>2. WorkerOK'
    BY <1>2, <1>t DEF Replay, WorkerOK, workerDisk
  <2>3. ConnOK'
    BY <1>2, <1>t, <2>1 DEF Replay, ConnOK
  <2>4. toHub' \in [Conn -> Seq(Up)]
    <3>1. CASE \E r \in replay : toHub' = Carry(toHub, opened, Answer(r))
      <4>1. PICK r \in replay : toHub' = Carry(toHub, opened, Answer(r))
        BY <3>1
      <4>2. r \in Call
        BY <1>t DEF WorkerOK
      <4> QED BY <2>1, <4>1, <4>2, AnswerSent
    <3>2. CASE UNCHANGED toHub
      BY <1>t, <3>2 DEF WireOK
    <3> QED BY <1>2, <3>1, <3>2 DEF Replay
  <2> QED BY <1>2, <1>t, <1>h, <2>2, <2>3, <2>4, Unchanged, TypePartsNext DEF Replay, WireOK
<1>3. CASE Heartbeat
  <2>1. opened \in Conn /\ sendSeq' \in Nat
    BY <1>3, <1>t, <1>o DEF Heartbeat, WorkerOK
  <2>2. [seq |-> sendSeq', about |-> 0] \in Up
    BY <2>1 DEF Up
  <2>3. toHub' \in [Conn -> Seq(Up)]
    BY <1>3, <1>t, <2>1, <2>2, Carried DEF Heartbeat, WireOK
  <2>4. LogsOK'
    BY <1>3, <1>t DEF Heartbeat, LogsOK
  <2>5. WorkerOK'
    BY <1>3, <1>t, <2>1 DEF Heartbeat, WorkerOK, workerMem
  <2> QED BY <1>3, <1>t, <1>h, <2>3, <2>4, <2>5, Unchanged, TypePartsNext
          DEF Heartbeat, WireOK, workerMem
<1>4. CASE SeeGap
  <2>1. WorkerOK'
    BY <1>4, <1>t DEF SeeGap, Arriving, WorkerOK, workerDisk
  <2>2. ConnOK'
    BY <1>4, <1>t, <1>o DEF SeeGap, Arriving, ConnOK, Conn
  <2> QED BY <1>4, <1>h, <2>1, <2>2, Unchanged, TypePartsNext DEF SeeGap
<1>5. CASE SeeNext
  <2>1. /\ opened \in Conn /\ toWorker' \in [Conn -> Seq(DownMsg)]
        /\ NextOut.about \in 0 .. MaxCall /\ NextOut.kind \in {"call", "ack"}
    BY <1>5, ReadOutTyped DEF SeeNext
  <2>2. [kind |-> NextOut.kind, about |-> NextOut.about] \in Down
    BY <2>1 DEF Down
  <2>3. LogsOK'
    BY <1>5, <1>t, <2>2, Appended DEF SeeNext, LogsOK
  <2>4. kept' \subseteq Call /\ running' \subseteq Call /\ handling' \in 0 .. MaxCall
    BY <1>5, <1>t, <2>1 DEF SeeNext, WorkerOK
  <2>5. WorkerOK'
    BY <1>5, <1>t, <2>4 DEF SeeNext, Arriving, WorkerOK
  <2> QED BY <1>5, <1>t, <1>h, <2>1, <2>3, <2>5, Unchanged, TypePartsNext DEF SeeNext, WireOK
<1>6. CASE WorkerNotices
  <2>1. WorkerOK'
    BY <1>6, <1>t DEF WorkerNotices, WorkerOK, workerDisk
  <2>2. ConnOK'
    BY <1>6, <1>t DEF WorkerNotices, ConnOK
  <2> QED BY <1>6, <1>h, <2>1, <2>2, Unchanged, TypePartsNext DEF WorkerNotices
<1>7. CASE SessionEnds
  <2>1. WorkerOK'
    BY <1>7, <1>t DEF SessionEnds, WorkerOK, workerDisk
  <2>2. ConnOK'
    BY <1>7, <1>t DEF SessionEnds, ConnOK
  <2> QED BY <1>7, <1>h, <2>1, <2>2, Unchanged, TypePartsNext DEF SessionEnds
<1>8. CASE Restarted
  <2>1. place' \in [Call -> Nat]
    BY <1>8, <1>t DEF Restarted, WorkerOK, Call
  <2>2. WorkerOK'
    BY <1>8, <1>t, <2>1 DEF Restarted, WorkerOK
  <2>3. ConnOK'
    BY <1>8, <1>t DEF Restarted, ConnOK
  <2>4. WireOK'
    BY <1>8, <1>t DEF Restarted, WireOK
  <2> QED BY <1>8, <1>h, <2>2, <2>3, <2>4, Unchanged, TypePartsNext DEF Restarted
<1>9. ASSUME NEW r \in Call, Number(r) PROVE TypeOK'
  <2>1. sendSeq' \in Nat /\ number' \in [Call -> Nat] /\ r \in 0 .. MaxCall
    BY <1>9, <1>t DEF Number, WorkerOK, Call
  <2>2. LogsOK'
    BY <1>9, <1>t, <2>1 DEF Number, LogsOK
  <2>3. WorkerOK'
    BY <1>9, <1>t, <2>1 DEF Number, WorkerOK, workerMem
  <2> QED BY <1>9, <1>h, <2>2, <2>3, Unchanged, TypePartsNext DEF Number, workerMem
<1>10. ASSUME NEW r \in Call, Record(r) PROVE TypeOK'
  <2>1. session # "down" /\ opened \in Conn
    BY <1>10, <1>t, <1>o DEF Record, Handled, WorkerOK
  <2>2. toHub' \in [Conn -> Seq(Up)]
    BY <1>10, <2>1, AnswerSent DEF Record
  <2>3. place' \in [Call -> Nat] /\ nextPlace' \in Nat /\ handling' \in 0 .. MaxCall
    BY <1>10, <1>t DEF Record, WorkerOK
  <2>4. WorkerOK'
    BY <1>10, <1>t, <2>3 DEF Record, WorkerOK
  <2> QED BY <1>10, <1>t, <1>h, <2>2, <2>4, Unchanged, TypePartsNext DEF Record, WireOK
<1>11. ASSUME NEW r \in Call, HandlerFails(r) PROVE TypeOK'
  <2>1. session # "down"
    BY <1>11, <1>t DEF HandlerFails, Handled, WorkerOK
  <2>2. WorkerOK'
    BY <1>11, <1>t DEF HandlerFails, WorkerOK, workerDisk
  <2>3. ConnOK'
    BY <1>11, <1>t, <2>1 DEF HandlerFails, ConnOK
  <2> QED BY <1>11, <1>h, <2>2, <2>3, Unchanged, TypePartsNext DEF HandlerFails
<1> QED BY <1>1, <1>2, <1>3, <1>4, <1>5, <1>6, <1>7, <1>8, <1>9, <1>10, <1>11
        DEF WorkerExits, WorkerCrash

LEMMA NextType == TypeOK /\ [Next]_vars => TypeOK'
<1>1. ASSUME TypeOK, UNCHANGED vars PROVE TypeOK'
  BY <1>1, Unchanged, TypePartsNext DEF vars, hubMemory, net, workerMem
<1> QED BY <1>1, BreakType, HubType, WorkerType DEF Next

-----------------------------------------------------------------------------
(* TypeOK is true in every reachable state, for any constants.              *)
THEOREM TypeCorrect == Spec => []TypeOK
<1> QED BY InitType, NextType, PTL DEF Spec

-----------------------------------------------------------------------------
(* From the Worker to the hub: every message under way is what the log says *)
(* of its number.                                                           *)

UpSaid(m) == m.seq \in 1 .. sendSeq /\ upLog[m.seq] = m.about
UpWire(channel) == \A c \in Conn : \A i \in 1 .. Len(channel[c]) : UpSaid(channel[c][i])

(* A step that gives out no number keeps UpInv if it keeps the wire.        *)
LEMMA UpFrame ==
  ASSUME UpInv, UNCHANGED <<sendSeq, upLog, hubLog, hubRecv, number>>,
         UpWire(toHub'), \A r \in kept' \cup replay' : number[r] # 0
  PROVE  UpInv'
BY DEF UpInv, UpNumbered, UpWire, UpSaid, IsPrefixOf

LEMMA UpWireNow == UpInv => UpWire(toHub)
BY DEF UpInv, UpNumbered, UpWire, UpSaid

(* Messages that are dropped or read leave the others as they were.         *)
LEMMA UpFewer ==
  ASSUME UpWire(toHub), NEW channel,
         \A c \in Conn : \A i \in 1 .. Len(channel[c]) :
           \E j \in 1 .. Len(toHub[c]) : channel[c][i] = toHub[c][j]
  PROVE  UpWire(channel)
<1> SUFFICES ASSUME NEW c \in Conn, NEW i \in 1 .. Len(channel[c])
             PROVE  UpSaid(channel[c][i])
  BY DEF UpWire
<1>1. PICK j \in 1 .. Len(toHub[c]) : channel[c][i] = toHub[c][j]
  OBVIOUS
<1> QED BY <1>1 DEF UpWire

LEMMA UpClosed ==
  ASSUME TypeOK, UpWire(toHub), NEW c
  PROVE  UpWire([toHub EXCEPT ![c] = <<>>])
<1> DEFINE new == [toHub EXCEPT ![c] = <<>>]
<1> SUFFICES ASSUME NEW d \in Conn, NEW i \in 1 .. Len(new[d]) PROVE UpSaid(new[d][i])
  BY DEF UpWire
<1>1. toHub \in [Conn -> Seq(Up)]
  BY DEF TypeOK
<1>2. CASE d = c
  <2>1. new[d] = <<>> /\ Len(<<>>) = 0
    BY <1>1, <1>2
  <2> QED BY <2>1
<1>3. CASE d # c
  <2>1. new[d] = toHub[d]
    BY <1>1, <1>3
  <2> QED BY <2>1 DEF UpWire
<1> QED BY <1>2, <1>3

LEMMA UpRead ==
  ASSUME TypeOK, UpWire(toHub), Incoming, ReadIn
  PROVE  UpWire(toHub') /\ UpSaid(NextIn)
<1>1. hubConn \in Conn /\ toHub \in [Conn -> Seq(Up)] /\ toHub[hubConn] # <<>>
  BY DEF TypeOK, Conn, Incoming
<1>2. /\ 1 \in 1 .. Len(toHub[hubConn]) /\ NextIn = toHub[hubConn][1]
      /\ \A d \in Conn : \A i \in 1 .. Len(toHub'[d]) :
           IF d = hubConn
             THEN i + 1 \in 1 .. Len(toHub[d]) /\ toHub'[d][i] = toHub[d][i + 1]
             ELSE i \in 1 .. Len(toHub[d]) /\ toHub'[d][i] = toHub[d][i]
  BY <1>1, FirstRead DEF ReadIn, NextIn
<1>3. \A d \in Conn : \A i \in 1 .. Len(toHub'[d]) :
        \E j \in 1 .. Len(toHub[d]) : toHub'[d][i] = toHub[d][j]
  BY <1>2
<1>4. UpWire(toHub')
  BY <1>3, UpFewer
<1> QED BY <1>1, <1>2, <1>4 DEF UpWire

LEMMA UpSent ==
  ASSUME TypeOK, UpInv, opened \in Conn, NEW r \in Call, number[r] # 0
  PROVE  UpWire(Carry(toHub, opened, Answer(r)))
<1>1. toHub \in [Conn -> Seq(Up)] /\ Answer(r) \in Up
  BY AnswerSent DEF TypeOK
<1>2. UpSaid(Answer(r))
  BY DEF UpInv, UpNumbered, UpSaid, Answer, TypeOK
<1>3. UpWire(toHub)
  BY UpWireNow
<1> DEFINE new == Carry(toHub, opened, Answer(r))
<1>4. \A d \in Conn : \A i \in 1 .. Len(new[d]) :
        \/ i \in 1 .. Len(toHub[d]) /\ new[d][i] = toHub[d][i]
        \/ new[d][i] = Answer(r)
  BY <1>1, Carried
<1> QED BY <1>2, <1>3, <1>4 DEF UpWire

(* A number is given out.                                                   *)
LEMMA UpGrows ==
  ASSUME TypeOK, UpInv, NEW x \in 0 .. MaxCall,
         sendSeq' = sendSeq + 1, upLog' = Append(upLog, x), UNCHANGED <<hubLog, hubRecv>>
  PROVE  /\ sendSeq \in Nat /\ Len(upLog') = sendSeq' /\ upLog'[sendSeq'] = x
         /\ \A n \in 1 .. sendSeq : upLog'[n] = upLog[n]
         /\ IsPrefixOf(hubLog', upLog')
         /\ \A m : UpSaid(m) => m.seq \in 1 .. sendSeq' /\ upLog'[m.seq] = m.about
<1>1. upLog \in Seq(0 .. MaxCall) /\ Len(upLog) = sendSeq /\ sendSeq \in Nat
  BY DEF TypeOK, UpInv, UpNumbered
<1>2. /\ Len(upLog') = sendSeq' /\ upLog'[sendSeq'] = x
      /\ \A n \in 1 .. sendSeq : upLog'[n] = upLog[n]
  BY <1>1, Appended
<1>3. hubLog \in Seq(0 .. MaxCall) /\ Len(hubLog) \in Nat
  BY DEF TypeOK
<1>4. IsPrefixOf(hubLog', upLog')
  BY <1>1, <1>2, <1>3 DEF UpInv, IsPrefixOf
<1> QED BY <1>1, <1>2, <1>4 DEF UpSaid

LEMMA UpInit == Init => UpInv
<1> SUFFICES ASSUME Init PROVE UpInv
  OBVIOUS
<1>1. \A c \in Conn : toHub[c] = <<>>
  BY DEF Init
<1>2. Len(<<>>) = 0
  OBVIOUS
<1> QED BY <1>1, <1>2 DEF Init, UpInv, UpNumbered, IsPrefixOf

LEMMA UpHub ==
  ASSUME TypeOK, UpInv, Serve \/ TakeOld \/ TakeGap \/ HubNotices \/ TakeNext \/ Process
                        \/ Request \/ Timeout \/ HubCrash
  PROVE  UpInv'
<1> USE DEF hubDisk, workerDisk, workerMem, net
<1>w. UpWire(toHub) /\ \A r \in kept \cup replay : number[r] # 0
  BY UpWireNow DEF UpInv, UpNumbered
<1>1. CASE Serve
  <2>1. UpWire(toHub')
    BY <1>1, <1>w, UpClosed DEF Serve
  <2> QED BY <1>1, <1>w, <2>1, UpFrame DEF Serve
<1>2. CASE TakeOld
  <2>1. UpWire(toHub')
    BY <1>2, <1>w, UpRead DEF TakeOld
  <2> QED BY <1>2, <1>w, <2>1, UpFrame DEF TakeOld
<1>3. CASE EndServe
  <2>1. UpWire(toHub')
    BY <1>3, <1>w, UpClosed DEF EndServe
  <2> QED BY <1>3, <1>w, <2>1, UpFrame DEF EndServe
<1>4. CASE TakeNext
  <2>1. UpWire(toHub') /\ UpSaid(NextIn) /\ NextIn.about \in 0 .. MaxCall
    BY <1>4, <1>w, UpRead, ReadInTyped DEF TakeNext
  <2>2. hubLog \in Seq(0 .. MaxCall) /\ Len(hubLog) = hubRecv /\ hubRecv \in Nat /\ sendSeq \in Nat
    BY DEF TypeOK, UpInv, UpNumbered
  <2>3. /\ Len(hubLog') = hubRecv' /\ hubLog'[hubRecv'] = NextIn.about
        /\ \A n \in 1 .. hubRecv : hubLog'[n] = hubLog[n]
    BY <1>4, <2>1, <2>2, Appended DEF TakeNext
  <2>4. hubRecv' \in 1 .. sendSeq /\ upLog[hubRecv'] = NextIn.about
    BY <1>4, <2>1 DEF TakeNext, UpSaid
  <2>5. Len(upLog) = sendSeq /\ \A n \in 1 .. hubRecv : hubLog[n] = upLog[n]
    BY <2>2 DEF UpInv, UpNumbered, IsPrefixOf
  <2>6. hubRecv' = hubRecv + 1 /\ UNCHANGED <<sendSeq, upLog, number, kept, replay>>
    BY <1>4 DEF TakeNext
  <2>7. IsPrefixOf(hubLog', upLog')
    BY <2>2, <2>3, <2>4, <2>5, <2>6 DEF IsPrefixOf
  <2> QED BY <2>1, <2>3, <2>6, <2>7 DEF UpInv, UpNumbered, UpWire, UpSaid
<1>5. CASE Process
  BY <1>5, <1>w, UpFrame DEF Process
<1>6. CASE Request
  BY <1>6, <1>w, UpFrame DEF Request
<1>7. CASE Timeout
  BY <1>7, <1>w, UpFrame DEF Timeout
<1>8. CASE HubCrash
  <2>1. UpWire(toHub')
    <3>1. \A c \in Conn : toHub'[c] = <<>>
      BY <1>8 DEF HubCrash
    <3>2. Len(<<>>) = 0
      OBVIOUS
    <3> QED BY <3>1, <3>2 DEF UpWire
  <2> QED BY <1>8, <1>w, <2>1, UpFrame DEF HubCrash
<1> QED BY <1>1, <1>2, <1>3, <1>4, <1>5, <1>6, <1>7, <1>8 DEF TakeGap, HubNotices

LEMMA UpBreak == TypeOK /\ UpInv /\ Break => UpInv'
<1> SUFFICES ASSUME TypeOK, UpInv, Break PROVE UpInv'
  OBVIOUS
<1>w. UpWire(toHub) /\ \A r \in kept \cup replay : number[r] # 0
  BY UpWireNow DEF UpInv, UpNumbered
<1>1. PICK c \in 1 .. opened : \E i \in 0 .. Len(toHub[c]) :
        toHub' = [toHub EXCEPT ![c] = SubSeq(@, 1, i)]
  BY DEF Break
<1>2. PICK i \in 0 .. Len(toHub[c]) : toHub' = [toHub EXCEPT ![c] = SubSeq(@, 1, i)]
  BY <1>1
<1>3. c \in Conn /\ toHub \in [Conn -> Seq(Up)]
  BY <1>1 DEF TypeOK, Conn
<1>4. /\ Len(SubSeq(toHub[c], 1, i)) = i
      /\ \A j \in 1 .. i : j \in 1 .. Len(toHub[c]) /\ SubSeq(toHub[c], 1, i)[j] = toHub[c][j]
  BY <1>3
<1>5. \A d \in Conn : \A j \in 1 .. Len(toHub'[d]) :
        \E k \in 1 .. Len(toHub[d]) : toHub'[d][j] = toHub[d][k]
  <2> TAKE d \in Conn
  <2>1. CASE d = c BY <1>2, <1>3, <1>4, <2>1
  <2>2. CASE d # c BY <1>2, <1>3, <2>2
  <2> QED BY <2>1, <2>2
<1>6. UpWire(toHub')
  BY <1>5, <1>w, UpFewer
<1> QED BY <1>6, <1>w, UpFrame DEF Break, hubDisk, workerDisk, workerMem

LEMMA UpWorker ==
  ASSUME TypeOK, UpInv,
         \/ Connect \/ Replay \/ Heartbeat \/ SeeGap \/ SeeNext \/ WorkerNotices
         \/ SessionEnds \/ WorkerExits \/ WorkerCrash
         \/ \E r \in Call : Number(r) \/ Record(r) \/ HandlerFails(r)
  PROVE  UpInv'
<1> USE DEF hubDisk, hubMemory, workerDisk, workerMem, net
<1>w. UpWire(toHub) /\ \A r \in kept \cup replay : number[r] # 0
  BY UpWireNow DEF UpInv, UpNumbered
<1>o. session # "down" => opened \in Conn
  BY DEF TypeOK, Conn
<1>k. kept \subseteq Call /\ replay \subseteq Call /\ running \subseteq Call
  BY DEF TypeOK
<1>1. CASE Connect
  BY <1>1, <1>w, UpFrame DEF Connect
<1>2. CASE Replay
  <2>1. opened \in Conn
    BY <1>2, <1>o DEF Replay
  <2>2. UpWire(toHub')
    <3>1. CASE \E r \in replay : toHub' = Carry(toHub, opened, Answer(r))
      <4>1. PICK r \in replay : toHub' = Carry(toHub, opened, Answer(r))
        BY <3>1
      <4> QED BY <1>w, <1>k, <2>1, <4>1, UpSent
    <3>2. CASE UNCHANGED toHub
      BY <1>w, <3>2
    <3> QED BY <1>2, <3>1, <3>2 DEF Replay
  <2>3. replay' \subseteq replay
    BY <1>2 DEF Replay
  <2> QED BY <1>2, <1>w, <2>2, <2>3, UpFrame DEF Replay
<1>3. CASE Heartbeat
  <2>1. opened \in Conn
    BY <1>3, <1>o DEF Heartbeat
  <2>2. /\ sendSeq \in Nat /\ Len(upLog') = sendSeq' /\ upLog'[sendSeq'] = 0
        /\ \A n \in 1 .. sendSeq : upLog'[n] = upLog[n]
        /\ IsPrefixOf(hubLog', upLog')
        /\ \A m : UpSaid(m) => m.seq \in 1 .. sendSeq' /\ upLog'[m.seq] = m.about
        /\ sendSeq' = sendSeq + 1
    BY <1>3, UpGrows DEF Heartbeat
  <2> DEFINE beat == [seq |-> sendSeq', about |-> 0]
  <2>3. beat \in Up /\ beat.seq \in 1 .. sendSeq' /\ upLog'[beat.seq] = beat.about
    BY <2>2 DEF Up, UpSaid
  <2>4. toHub \in [Conn -> Seq(Up)] /\ toHub' = Carry(toHub, opened, beat)
    BY <1>3 DEF TypeOK, Heartbeat
  <2>5. \A d \in Conn : \A i \in 1 .. Len(toHub'[d]) :
          \/ i \in 1 .. Len(toHub[d]) /\ toHub'[d][i] = toHub[d][i]
          \/ toHub'[d][i] = beat
    <3>1. \A m \in Up : \A d \in Conn : \A i \in 1 .. Len(Carry(toHub, opened, m)[d]) :
            \/ /\ i \in 1 .. Len(toHub[d])
               /\ Carry(toHub, opened, m)[d][i] = toHub[d][i]
            \/ Carry(toHub, opened, m)[d][i] = m
      BY <2>1, <2>4, Carried
    <3> HIDE DEF beat
    <3> QED BY <2>3, <2>4, <3>1
  <2>6. \A d \in Conn : \A i \in 1 .. Len(toHub'[d]) :
          LET m == toHub'[d][i] IN m.seq \in 1 .. sendSeq' /\ upLog'[m.seq] = m.about
    BY <1>w, <2>2, <2>3, <2>5 DEF UpWire
  <2>7. \A r \in Call : number[r] # 0 => number[r] \in 1 .. sendSeq /\ upLog[number[r]] = r
    BY DEF TypeOK, UpInv, UpNumbered
  <2>8. UNCHANGED <<hubLog, hubRecv, number, kept, replay>>
    BY <1>3 DEF Heartbeat
  <2> HIDE DEF beat
  <2> QED BY <1>w, <2>2, <2>6, <2>7, <2>8 DEF UpInv, UpNumbered, UpSaid
<1>4. CASE SeeGap
  BY <1>4, <1>w, UpFrame DEF SeeGap
<1>5. CASE SeeNext
  <2>1. kept' \subseteq kept
    BY <1>5 DEF SeeNext
  <2> QED BY <1>5, <1>w, <2>1, UpFrame DEF SeeNext
<1>6. CASE WorkerNotices
  BY <1>6, <1>w, UpFrame DEF WorkerNotices
<1>7. CASE SessionEnds
  BY <1>7, <1>w, UpFrame DEF SessionEnds
<1>8. CASE Restarted
  BY <1>8, <1>w, UpFrame DEF Restarted
<1>9. ASSUME NEW r \in Call, Number(r) PROVE UpInv'
  <2>1. /\ r \in 0 .. MaxCall /\ r # 0 /\ number \in [Call -> Nat] /\ number[r] = 0
        /\ sendSeq' = sendSeq + 1 /\ number' = [number EXCEPT ![r] = sendSeq']
    BY <1>9 DEF Number, TypeOK, Call
  <2>2. /\ sendSeq \in Nat /\ Len(upLog') = sendSeq' /\ upLog'[sendSeq'] = r
        /\ \A n \in 1 .. sendSeq : upLog'[n] = upLog[n]
        /\ IsPrefixOf(hubLog', upLog')
        /\ \A m : UpSaid(m) => m.seq \in 1 .. sendSeq' /\ upLog'[m.seq] = m.about
    BY <1>9, <2>1, UpGrows DEF Number
  <2>3. UNCHANGED <<hubLog, hubRecv, kept, replay, toHub>>
    BY <1>9 DEF Number
  <2>4. \A d \in Conn : \A i \in 1 .. Len(toHub'[d]) :
          LET m == toHub'[d][i] IN m.seq \in 1 .. sendSeq' /\ upLog'[m.seq] = m.about
    BY <1>w, <2>2, <2>3 DEF UpWire
  <2>5. \A q \in Call : number[q] # 0 => number[q] \in 1 .. sendSeq /\ upLog[number[q]] = q
    BY DEF TypeOK, UpInv, UpNumbered
  <2>6. \A q \in Call : number'[q] # 0 => number'[q] <= sendSeq' /\ upLog'[number'[q]] = q
    BY <2>1, <2>2, <2>5
  <2>7. \A q \in kept' \cup replay' : number'[q] # 0
    BY <1>w, <1>k, <2>1, <2>2, <2>3
  <2> QED BY <2>2, <2>3, <2>4, <2>6, <2>7 DEF UpInv, UpNumbered, UpSaid
<1>10. ASSUME NEW r \in Call, Record(r) PROVE UpInv'
  <2>1. opened \in Conn /\ number[r] # 0
    BY <1>10, <1>o DEF Record, Handled, TypeOK
  <2>2. UpWire(toHub')
    BY <1>10, <2>1, UpSent DEF Record
  <2> QED BY <1>10, <1>w, <2>1, <2>2, UpFrame DEF Record
<1>11. ASSUME NEW r \in Call, HandlerFails(r) PROVE UpInv'
  BY <1>11, <1>w, UpFrame DEF HandlerFails
<1> QED BY <1>1, <1>2, <1>3, <1>4, <1>5, <1>6, <1>7, <1>8, <1>9, <1>10, <1>11
        DEF WorkerExits, WorkerCrash

LEMMA UpNext == TypeOK /\ UpInv /\ [Next]_vars => UpInv'
<1>1. ASSUME TypeOK, UpInv, UNCHANGED vars PROVE UpInv'
  <2>1. UpWire(toHub) /\ \A r \in kept \cup replay : number[r] # 0
    BY UpWireNow, <1>1 DEF UpInv, UpNumbered
  <2> QED BY <1>1, <2>1, UpFrame DEF vars, hubDisk, workerDisk, workerMem, net
<1> QED BY <1>1, UpBreak, UpHub, UpWorker DEF Next

-----------------------------------------------------------------------------
(* From the hub to the Worker: numbers on a web socket increase, and what   *)
(* is still to be read on the newest is new.                                *)

DownSaid(m) ==
  m.seq \in 1 .. hubSend /\ downLog[m.seq] = [kind |-> m.kind, about |-> m.about]
Rising(channel) ==
  \A c \in Conn : \A i \in 1 .. Len(channel[c]) : \A j \in 1 .. i - 1 :
    channel[c][j].seq < channel[c][i].seq
DownWire ==
  /\ \A c \in Conn : \A i \in 1 .. Len(toWorker[c]) :
       DownSaid(toWorker[c][i]) /\ (c = opened => toWorker[c][i].seq > seenSeq)
  /\ Rising(toWorker)
  /\ \A c \in Conn : c > opened => toWorker[c] = <<>>
AcksStored ==
  \A i \in 1 .. Len(downLog) : downLog[i].kind = "ack" => downLog[i].about \in stored \cup {0}

LEMMA DownParts ==
  DownInv <=> /\ Len(downLog) = hubSend /\ Len(workerLog) = seenSeq
              /\ DownWire /\ AcksStored /\ IsPrefixOf(workerLog, downLog)
BY DEF DownInv, DownNumbered, DownWire, DownSaid, Rising, AcksStored

LEMMA DownPartsNext ==
  DownInv' <=> (/\ Len(downLog) = hubSend /\ Len(workerLog) = seenSeq
                /\ DownWire /\ AcksStored /\ IsPrefixOf(workerLog, downLog))'
BY DownParts, PTL

(* Each web socket carries a part of what it carried, in the same order.    *)
Fewer(old, new) ==
  \A c \in Conn : \E k \in Nat : \A i \in 1 .. Len(new[c]) :
    i + k \in 1 .. Len(old[c]) /\ new[c][i] = old[c][i + k]

LEMMA RisingFewer ==
  ASSUME NEW S, NEW old \in [Conn -> Seq(S)], NEW new \in [Conn -> Seq(S)],
         Rising(old), Fewer(old, new)
  PROVE  Rising(new)
<1> SUFFICES ASSUME NEW c \in Conn, NEW i \in 1 .. Len(new[c]), NEW j \in 1 .. i - 1
             PROVE  new[c][j].seq < new[c][i].seq
  BY DEF Rising
<1>1. PICK k \in Nat : \A l \in 1 .. Len(new[c]) :
        l + k \in 1 .. Len(old[c]) /\ new[c][l] = old[c][l + k]
  BY DEF Fewer
<1>2. Len(new[c]) \in Nat /\ Len(old[c]) \in Nat /\ j \in 1 .. Len(new[c])
  OBVIOUS
<1>3. i + k \in 1 .. Len(old[c]) /\ j + k \in 1 .. (i + k) - 1
  BY <1>1, <1>2
<1>4. old[c][j + k].seq < old[c][i + k].seq
  BY <1>3 DEF Rising
<1> QED BY <1>1, <1>2, <1>4

LEMMA DownFrame ==
  ASSUME TypeOK, TypeOK', DownInv, Fewer(toWorker, toWorker'), stored \subseteq stored',
         UNCHANGED <<hubSend, downLog, workerLog, seenSeq, opened>>
  PROVE  DownInv'
<1>t. toWorker \in [Conn -> Seq(DownMsg)] /\ toWorker' \in [Conn -> Seq(DownMsg)]
  BY DEF TypeOK, DownMsg
<1>p. /\ Len(downLog) = hubSend /\ Len(workerLog) = seenSeq
      /\ DownWire /\ AcksStored /\ IsPrefixOf(workerLog, downLog)
  BY DownParts
<1>1. Rising(toWorker')
  BY <1>t, <1>p, RisingFewer DEF DownWire
<1>2. ASSUME NEW c \in Conn, NEW i \in 1 .. Len(toWorker'[c])
      PROVE  \E j \in 1 .. Len(toWorker[c]) : toWorker'[c][i] = toWorker[c][j]
  BY DEF Fewer
<1>3. \A c \in Conn : \A i \in 1 .. Len(toWorker'[c]) :
        DownSaid(toWorker'[c][i]) /\ (c = opened => toWorker'[c][i].seq > seenSeq)
  BY <1>2, <1>p DEF DownWire
<1>4. ASSUME NEW c \in Conn, c > opened PROVE toWorker'[c] = <<>>
  <2>1. toWorker[c] = <<>> /\ Len(<<>>) = 0
    BY <1>4, <1>p DEF DownWire
  <2>2. toWorker'[c] \in Seq(DownMsg) /\ ~ \E i \in 1 .. Len(toWorker'[c]) : TRUE
    BY <1>t, <1>2, <2>1
  <2>3. Len(toWorker'[c]) \in Nat /\ ~ (1 \in 1 .. Len(toWorker'[c]))
    BY <2>2
  <2> QED BY <2>2, <2>3
<1>5. DownWire'
  BY <1>1, <1>3, <1>4 DEF DownWire, DownSaid, Rising
<1>6. AcksStored'
  BY <1>p DEF AcksStored
<1> QED BY <1>5, <1>6, <1>p, DownPartsNext DEF IsPrefixOf

LEMMA FewerSame == ASSUME TypeOK, UNCHANGED toWorker PROVE Fewer(toWorker, toWorker')
<1> SUFFICES ASSUME NEW c \in Conn
             PROVE  \E k \in Nat : \A i \in 1 .. Len(toWorker[c]) :
                      i + k \in 1 .. Len(toWorker[c]) /\ toWorker[c][i] = toWorker[c][i + k]
  BY DEF Fewer
<1>1. \A i \in 1 .. Len(toWorker[c]) :
        i + 0 \in 1 .. Len(toWorker[c]) /\ toWorker[c][i] = toWorker[c][i + 0]
  OBVIOUS
<1> QED BY <1>1

(* A message of the hub has the largest number so far.                      *)
LEMMA DownSends ==
  ASSUME TypeOK, TypeOK', DownInv, hubConn # 0,
         NEW kind \in {"call", "ack"}, NEW r \in 0 .. MaxCall, HubSends(kind, r),
         kind = "ack" => r \in stored' \cup {0}, stored \subseteq stored',
         UNCHANGED <<workerLog, seenSeq, opened>>
  PROVE  DownInv'
<1> DEFINE m == [seq |-> hubSend + 1, kind |-> kind, about |-> r]
           new == Carry(toWorker, hubConn, m)
<1>t. /\ toWorker \in [Conn -> Seq(DownMsg)] /\ hubSend \in Nat /\ seenSeq \in Nat
      /\ downLog \in Seq(Down) /\ workerLog \in Seq(Down)
  BY DEF TypeOK, DownMsg
<1>c. hubConn \in Conn /\ hubConn <= opened /\ opened \in Nat
  BY SMTT(30) DEF TypeOK, Conn
<1>p. /\ Len(downLog) = hubSend /\ Len(workerLog) = seenSeq
      /\ DownWire /\ AcksStored /\ IsPrefixOf(workerLog, downLog) /\ seenSeq <= hubSend
  BY DownParts DEF IsPrefixOf
<1>m. m \in DownMsg /\ [kind |-> kind, about |-> r] \in Down
  BY <1>t DEF DownMsg, Down
<1>1. /\ hubSend' = hubSend + 1 /\ toWorker' = new
      /\ downLog' = Append(downLog, [kind |-> kind, about |-> r])
  BY DEF HubSends
<1>2. /\ Len(downLog') = hubSend' /\ downLog'[hubSend'] = [kind |-> kind, about |-> r]
      /\ \A n \in 1 .. hubSend : downLog'[n] = downLog[n]
  BY <1>1, <1>t, <1>p, <1>m, Appended
<1>3. /\ new \in [Conn -> Seq(DownMsg)]
      /\ \A d \in Conn : \A i \in 1 .. Len(new[d]) :
           \/ i \in 1 .. Len(toWorker[d]) /\ new[d][i] = toWorker[d][i]
           \/ d = hubConn /\ i = Len(toWorker[d]) + 1 /\ new[d][i] = m
  <2>1. \A n \in DownMsg :
          /\ Carry(toWorker, hubConn, n) \in [Conn -> Seq(DownMsg)]
          /\ \A d \in Conn : \A i \in 1 .. Len(Carry(toWorker, hubConn, n)[d]) :
               \/ /\ i \in 1 .. Len(toWorker[d])
                  /\ Carry(toWorker, hubConn, n)[d][i] = toWorker[d][i]
               \/ /\ d = hubConn /\ i = Len(toWorker[d]) + 1
                  /\ Carry(toWorker, hubConn, n)[d][i] = n
    <3> HIDE DEF m, new
    <3> TAKE n \in DownMsg
    <3> QED BY <1>t, <1>c, Carried, SMTT(30)
  <2> HIDE DEF m
  <2> QED BY <1>m, <2>1
<1>4. m.seq = hubSend + 1 /\ m.kind = kind /\ m.about = r
  OBVIOUS
<1> HIDE DEF m
<1>5. \A d \in Conn : \A i \in 1 .. Len(new[d]) :
        /\ new[d][i].seq \in 1 .. hubSend'
        /\ downLog'[new[d][i].seq] = [kind |-> new[d][i].kind, about |-> new[d][i].about]
        /\ (d = opened => new[d][i].seq > seenSeq)
  <2> SUFFICES ASSUME NEW d \in Conn, NEW i \in 1 .. Len(new[d])
               PROVE  /\ new[d][i].seq \in 1 .. hubSend'
                      /\ downLog'[new[d][i].seq] =
                           [kind |-> new[d][i].kind, about |-> new[d][i].about]
                      /\ (d = opened => new[d][i].seq > seenSeq)
    OBVIOUS
  <2>1. CASE i \in 1 .. Len(toWorker[d]) /\ new[d][i] = toWorker[d][i]
    <3>1. DownSaid(toWorker[d][i]) /\ (d = opened => toWorker[d][i].seq > seenSeq)
      BY <1>p, <2>1 DEF DownWire
    <3> QED BY <1>1, <1>2, <1>t, <2>1, <3>1 DEF DownSaid
  <2>2. CASE new[d][i] = m
    BY <1>1, <1>2, <1>4, <1>t, <1>p, <2>2
  <2> QED BY <1>3, <2>1, <2>2
<1>6. Rising(new)
  <2> SUFFICES ASSUME NEW d \in Conn, NEW i \in 1 .. Len(new[d]), NEW j \in 1 .. i - 1
               PROVE  new[d][j].seq < new[d][i].seq
    BY DEF Rising
  <2>1. new[d] \in Seq(DownMsg) /\ Len(new[d]) \in Nat /\ j \in 1 .. Len(new[d]) /\ j # i /\ j < i
    BY <1>3
  <2>2. toWorker[d] \in Seq(DownMsg) /\ Len(toWorker[d]) \in Nat
    BY <1>t
  <2>3. j \in 1 .. Len(toWorker[d]) /\ new[d][j] = toWorker[d][j]
    BY <1>3, <2>1, <2>2
  <2>4. CASE i \in 1 .. Len(toWorker[d]) /\ new[d][i] = toWorker[d][i]
    BY <1>p, <2>3, <2>4 DEF DownWire, Rising
  <2>5. CASE new[d][i] = m
    <3>1. DownSaid(toWorker[d][j])
      BY <1>p, <2>3 DEF DownWire
    <3>2. toWorker[d][j].seq \in 1 .. hubSend
      BY <3>1 DEF DownSaid
    <3> QED BY <1>4, <1>t, <2>3, <2>5, <3>2
  <2> QED BY <1>3, <2>4, <2>5
<1>7. ASSUME NEW d \in Conn, d > opened PROVE new[d] = <<>>
  BY <1>7, <1>c, <1>p, SMTT(30) DEF Carry, DownWire
<1>8. DownWire'
  BY <1>1, <1>5, <1>6, <1>7 DEF DownWire, DownSaid, Rising
<1>9. AcksStored'
  BY <1>1, <1>2, <1>t, <1>p DEF AcksStored
<1>10. IsPrefixOf(workerLog', downLog')
  BY <1>1, <1>2, <1>t, <1>p DEF IsPrefixOf
<1>11. Len(workerLog') = seenSeq'
  BY <1>p
<1> QED BY <1>2, <1>8, <1>9, <1>10, <1>11, DownPartsNext

(* The Worker sees the next message.                                        *)
LEMMA DownSees ==
  ASSUME TypeOK, TypeOK', DownInv, SeeNext
  PROVE  DownInv' /\ (NextOut.kind = "ack" => NextOut.about \in stored \cup {0})
<1>t. /\ toWorker \in [Conn -> Seq(DownMsg)] /\ toWorker' \in [Conn -> Seq(DownMsg)]
      /\ hubSend \in Nat /\ seenSeq \in Nat
      /\ downLog \in Seq(Down) /\ workerLog \in Seq(Down)
  BY DEF TypeOK, DownMsg
<1>p. /\ Len(downLog) = hubSend /\ Len(workerLog) = seenSeq
      /\ DownWire /\ AcksStored /\ IsPrefixOf(workerLog, downLog)
  BY DownParts
<1>o. opened \in Conn /\ toWorker[opened] # <<>> /\ NextOut \in DownMsg
  BY ReadOutTyped DEF SeeNext, Arriving
<1>1. /\ seenSeq' = seenSeq + 1 /\ NextOut.seq = seenSeq + 1
      /\ workerLog' = Append(workerLog, [kind |-> NextOut.kind, about |-> NextOut.about])
      /\ UNCHANGED <<hubSend, downLog, stored, opened>>
  BY DEF SeeNext, hubDisk
<1>2. /\ 1 \in 1 .. Len(toWorker[opened]) /\ NextOut = toWorker[opened][1]
      /\ \A d \in Conn : \A i \in 1 .. Len(toWorker'[d]) :
           IF d = opened
             THEN i + 1 \in 1 .. Len(toWorker[d]) /\ toWorker'[d][i] = toWorker[d][i + 1]
             ELSE i \in 1 .. Len(toWorker[d]) /\ toWorker'[d][i] = toWorker[d][i]
  BY <1>t, <1>o, FirstRead DEF SeeNext, ReadOut, NextOut
<1>3. DownSaid(NextOut)
  BY <1>2, <1>o, <1>p DEF DownWire
<1>4. Fewer(toWorker, toWorker')
  <2> SUFFICES ASSUME NEW d \in Conn
               PROVE  \E k \in Nat : \A i \in 1 .. Len(toWorker'[d]) :
                        i + k \in 1 .. Len(toWorker[d]) /\ toWorker'[d][i] = toWorker[d][i + k]
    BY DEF Fewer
  <2>1. CASE d = opened
    BY <1>2, <2>1
  <2>2. CASE d # opened
    <3>1. \A i \in 1 .. Len(toWorker'[d]) :
            i + 0 \in 1 .. Len(toWorker[d]) /\ toWorker'[d][i] = toWorker[d][i + 0]
      BY <1>2, <2>2
    <3> QED BY <3>1
  <2> QED BY <2>1, <2>2
<1>5. Rising(toWorker')
  BY <1>t, <1>p, <1>4, RisingFewer DEF DownWire
<1>6. \A d \in Conn : \A i \in 1 .. Len(toWorker'[d]) :
        DownSaid(toWorker'[d][i]) /\ (d = opened => toWorker'[d][i].seq > seenSeq + 1)
  <2> SUFFICES ASSUME NEW d \in Conn, NEW i \in 1 .. Len(toWorker'[d])
               PROVE  DownSaid(toWorker'[d][i]) /\ (d = opened => toWorker'[d][i].seq > seenSeq + 1)
    OBVIOUS
  <2>1. CASE d = opened
    <3>1. i + 1 \in 1 .. Len(toWorker[d]) /\ toWorker'[d][i] = toWorker[d][i + 1] /\ i \in Nat \ {0}
      BY <1>2, <2>1
    <3>2. DownSaid(toWorker[d][i + 1])
      BY <1>p, <3>1 DEF DownWire
    <3>3. 1 \in 1 .. (i + 1) - 1
      BY <3>1
    <3>4. toWorker[d][1].seq < toWorker[d][i + 1].seq
      BY <1>p, <3>1, <3>3 DEF DownWire, Rising
    <3> QED BY <1>1, <1>2, <1>t, <2>1, <3>1, <3>2, <3>4 DEF DownSaid
  <2>2. CASE d # opened
    BY <1>2, <1>p, <2>2 DEF DownWire
  <2> QED BY <2>1, <2>2
<1>7. ASSUME NEW d \in Conn, d > opened PROVE toWorker'[d] = <<>>
  BY <1>7, <1>o, <1>t, <1>p DEF DownWire, SeeNext, ReadOut, Conn
<1>8. DownWire'
  BY <1>1, <1>5, <1>6, <1>7 DEF DownWire, DownSaid, Rising
<1>9. AcksStored'
  BY <1>1, <1>p DEF AcksStored
<1>10. [kind |-> NextOut.kind, about |-> NextOut.about] \in Down
  BY <1>o DEF DownMsg, Down
<1>11. /\ Len(workerLog') = seenSeq' /\ \A n \in 1 .. seenSeq : workerLog'[n] = workerLog[n]
       /\ workerLog'[seenSeq'] = [kind |-> NextOut.kind, about |-> NextOut.about]
  BY <1>1, <1>t, <1>p, <1>10, Appended
<1>12. IsPrefixOf(workerLog', downLog')
  BY <1>1, <1>3, <1>11, <1>t, <1>p DEF IsPrefixOf, DownSaid
<1>13. Len(downLog') = hubSend'
  BY <1>1, <1>p
<1>14. NextOut.kind = "ack" => NextOut.about \in stored \cup {0}
  BY <1>3, <1>p DEF DownSaid, AcksStored
<1> QED BY <1>8, <1>9, <1>11, <1>12, <1>13, <1>14, DownPartsNext

(* A new web socket has carried nothing yet.                                *)
LEMMA DownConnects == TypeOK /\ DownInv /\ Connect => DownInv'
<1> SUFFICES ASSUME TypeOK, DownInv, Connect PROVE DownInv'
  OBVIOUS
<1>p. /\ Len(downLog) = hubSend /\ Len(workerLog) = seenSeq
      /\ DownWire /\ AcksStored /\ IsPrefixOf(workerLog, downLog)
  BY DownParts
<1>1. /\ opened' = opened + 1 /\ opened \in Nat
      /\ UNCHANGED <<hubSend, downLog, workerLog, seenSeq, stored, toWorker>>
  BY DEF Connect, hubDisk, workerDisk, TypeOK
<1>2. \A c \in Conn : c = opened' => toWorker[c] = <<>>
  BY <1>1, <1>p DEF DownWire, Conn
<1>3. Len(<<>>) = 0
  OBVIOUS
<1>6. ASSUME NEW c \in Conn, NEW i \in 1 .. Len(toWorker[c])
      PROVE  DownSaid(toWorker[c][i]) /\ c # opened'
  BY <1>2, <1>3, <1>p DEF DownWire
<1>7. \A c \in Conn : c > opened' => toWorker[c] = <<>>
  BY <1>1, <1>p DEF DownWire, Conn
<1>4. DownWire'
  BY <1>1, <1>6, <1>7, <1>p DEF DownWire, DownSaid, Rising
<1>5. AcksStored'
  BY <1>1, <1>p DEF AcksStored
<1> QED BY <1>1, <1>4, <1>5, <1>p, DownPartsNext DEF IsPrefixOf

LEMMA FewerBreak == TypeOK /\ Break => Fewer(toWorker, toWorker')
<1> SUFFICES ASSUME TypeOK, Break PROVE Fewer(toWorker, toWorker')
  OBVIOUS
<1>1. PICK c \in 1 .. opened : \E j \in 0 .. Len(toWorker[c]) :
        toWorker' = [toWorker EXCEPT ![c] = SubSeq(@, 1, j)]
  BY DEF Break
<1>2. PICK j \in 0 .. Len(toWorker[c]) : toWorker' = [toWorker EXCEPT ![c] = SubSeq(@, 1, j)]
  BY <1>1
<1>a. opened \in 0 .. MaxConn /\ toWorker \in [Conn -> Seq(DownMsg)]
  BY DEF TypeOK, DownMsg
<1>3. c \in Conn /\ toWorker \in [Conn -> Seq(DownMsg)]
  BY <1>1, <1>a DEF Conn
<1>4. /\ Len(SubSeq(toWorker[c], 1, j)) = j
      /\ \A i \in 1 .. j : /\ i + 0 \in 1 .. Len(toWorker[c])
                           /\ SubSeq(toWorker[c], 1, j)[i] = toWorker[c][i + 0]
  BY <1>3
<1> SUFFICES ASSUME NEW d \in Conn
             PROVE  \E k \in Nat : \A i \in 1 .. Len(toWorker'[d]) :
                      i + k \in 1 .. Len(toWorker[d]) /\ toWorker'[d][i] = toWorker[d][i + k]
  BY DEF Fewer
<1>5. \A i \in 1 .. Len(toWorker'[d]) :
        i + 0 \in 1 .. Len(toWorker[d]) /\ toWorker'[d][i] = toWorker[d][i + 0]
  <2>1. CASE d = c BY <1>2, <1>3, <1>4, <2>1
  <2>2. CASE d # c BY <1>2, <1>3, <2>2
  <2> QED BY <2>1, <2>2
<1> QED BY <1>5

LEMMA FewerRestarted == TypeOK /\ Restarted => Fewer(toWorker, toWorker')
<1> SUFFICES ASSUME TypeOK, Restarted PROVE Fewer(toWorker, toWorker')
  OBVIOUS
<1>1. \A c \in Conn : toWorker'[c] = <<>>
  BY DEF Restarted
<1>2. Len(<<>>) = 0 /\ 0 \in Nat
  OBVIOUS
<1> QED BY <1>1, <1>2 DEF Fewer

LEMMA DownInit == Init => DownInv
<1> SUFFICES ASSUME Init PROVE DownInv
  OBVIOUS
<1>1. \A c \in Conn : toWorker[c] = <<>>
  BY DEF Init
<1>2. Len(<<>>) = 0
  OBVIOUS
<1> QED BY <1>1, <1>2 DEF Init, DownInv, DownNumbered, IsPrefixOf

LEMMA DownNext == TypeOK /\ TypeOK' /\ DownInv /\ [Next]_vars => DownInv'
<1> SUFFICES ASSUME TypeOK, TypeOK', DownInv, [Next]_vars PROVE DownInv'
  OBVIOUS
<1> USE DEF hubDisk, hubMemory, workerDisk, workerMem, net
<1>1. CASE Break
  BY <1>1, FewerBreak, DownFrame DEF Break
<1>2. CASE TakeOld
  <2>1. CASE OldIsAcked
    <3>1. /\ NextIn.about \in 0 .. MaxCall /\ hubConn # 0 /\ HubSends("ack", NextIn.about)
          /\ NextIn.about \in stored' /\ stored' = stored
      BY <1>2, <2>1, ReadInTyped DEF TakeOld, Incoming, OldIsAcked
    <3> QED BY <1>2, <3>1, DownSends DEF TakeOld
  <2>2. CASE ~OldIsAcked
    BY <1>2, <2>2, FewerSame, DownFrame DEF TakeOld
  <2> QED BY <2>1, <2>2
<1>3. CASE Process
  <2>1. taken.about \in 0 .. MaxCall /\ hubConn # 0 /\ stored \subseteq stored'
    BY <1>3 DEF Process, TypeOK, Up
  <2>2. CASE HubSends("ack", taken.about) /\ taken.about \in stored' \cup {0}
    BY <1>3, <2>1, <2>2, DownSends DEF Process
  <2>3. CASE UNCHANGED <<hubSend, downLog, toWorker>>
    BY <1>3, <2>1, <2>3, FewerSame, DownFrame DEF Process
  <2> QED BY <1>3, <2>2, <2>3 DEF Process
<1>4. CASE Request
  <2>1. issued' \in 0 .. MaxCall
    BY <1>4 DEF TypeOK
  <2> QED BY <1>4, <2>1, DownSends DEF Request
<1>5. CASE SeeNext
  BY <1>5, DownSees
<1>6. CASE Connect
  BY <1>6, DownConnects
<1>7. CASE Restarted
  BY <1>7, FewerRestarted, DownFrame DEF Restarted
<1>8. ASSUME UNCHANGED toWorker, stored \subseteq stored',
             UNCHANGED <<hubSend, downLog, workerLog, seenSeq, opened>>
      PROVE  DownInv'
  BY <1>8, FewerSame, DownFrame
<1>9. CASE Serve \/ EndServe \/ TakeNext \/ Timeout \/ HubCrash
  BY <1>8, <1>9 DEF Serve, EndServe, TakeNext, Timeout, HubCrash
<1>10. CASE Replay \/ Heartbeat \/ SeeGap \/ WorkerNotices \/ SessionEnds
  BY <1>8, <1>10 DEF Replay, Heartbeat, SeeGap, WorkerNotices, SessionEnds
<1>11. CASE \E r \in Call : Number(r) \/ Record(r) \/ HandlerFails(r)
  BY <1>8, <1>11 DEF Number, Record, HandlerFails
<1>12. CASE UNCHANGED vars
  BY <1>8, <1>12 DEF vars
<1> QED BY <1>1, <1>2, <1>3, <1>4, <1>5, <1>6, <1>7, <1>9, <1>10, <1>11, <1>12
        DEF Next, TakeGap, HubNotices, WorkerExits, WorkerCrash

-----------------------------------------------------------------------------
(* The answers.                                                             *)

LEMMA AnswerNext ==
  TypeOK /\ TypeOK' /\ DownInv /\ AnswerKept /\ [Next]_vars => AnswerKept'
<1> SUFFICES ASSUME TypeOK, TypeOK', DownInv, AnswerKept, [Next]_vars PROVE AnswerKept'
  OBVIOUS
<1> USE DEF hubDisk, hubMemory, workerDisk, workerMem, net, AnswerKept
<1>1. CASE SeeNext
  <2>1. NextOut.kind = "ack" => NextOut.about \in stored \cup {0}
    BY <1>1, DownSees
  <2>2. recorded \subseteq Call
    BY DEF TypeOK
  <2>3. kept' = kept \/ (NextOut.kind = "ack" /\ kept' = kept \ {NextOut.about})
    BY <1>1 DEF SeeNext
  <2>4. recorded' = recorded /\ stored' = stored
    BY <1>1 DEF SeeNext
  <2> QED BY <2>1, <2>2, <2>3, <2>4 DEF Call
<1>2. CASE Process
  BY <1>2 DEF Process
<1>3. CASE \E r \in Call : Number(r) \/ Record(r) \/ HandlerFails(r)
  BY <1>3 DEF Number, Record, HandlerFails
<1>4. CASE Break \/ Serve \/ TakeOld \/ EndServe \/ TakeNext \/ Request \/ Timeout \/ HubCrash
  BY <1>4 DEF Break, Serve, TakeOld, EndServe, TakeNext, Request, Timeout, HubCrash
<1>5. CASE Connect \/ Replay \/ Heartbeat \/ SeeGap \/ WorkerNotices \/ SessionEnds \/ Restarted
  BY <1>5 DEF Connect, Replay, Heartbeat, SeeGap, WorkerNotices, SessionEnds, Restarted
<1>6. CASE UNCHANGED vars
  BY <1>6 DEF vars
<1> QED BY <1>1, <1>2, <1>3, <1>4, <1>5, <1>6
        DEF Next, TakeGap, HubNotices, WorkerExits, WorkerCrash

-----------------------------------------------------------------------------
LEMMA Invariance == Spec => []Inv
<1>1. Init => Inv
  BY InitType, UpInit, DownInit DEF Inv, AnswerKept, Init
<1>2. Inv /\ [Next]_vars => Inv'
  BY NextType, UpNext, DownNext, AnswerNext DEF Inv
<1> QED BY <1>1, <1>2, PTL DEF Spec

(* What is known of the wire makes old messages recognisable.               *)
LEMMA InvInOrder == Inv => InOrder
<1> SUFFICES ASSUME Inv PROVE InOrder
  OBVIOUS
<1>1. IsPrefixOf(hubLog, upLog) /\ IsPrefixOf(workerLog, downLog)
  BY DEF Inv, UpInv, DownInv
<1>2. OldIsKnown
  <2> SUFFICES ASSUME NEW c \in Conn, NEW i \in 1 .. Len(toHub[c]), toHub[c][i].seq <= hubRecv
               PROVE  hubLog[toHub[c][i].seq] = toHub[c][i].about
    BY DEF OldIsKnown
  <2>1. UpSaid(toHub[c][i]) /\ Len(hubLog) = hubRecv /\ hubRecv \in Nat /\ sendSeq \in Nat
    BY DEF Inv, UpInv, UpNumbered, UpSaid, TypeOK
  <2>2. toHub[c][i].seq \in 1 .. Len(hubLog)
    BY <2>1 DEF UpSaid
  <2> QED BY <1>1, <2>1, <2>2 DEF IsPrefixOf, UpSaid
<1>3. NothingRepeated
  <2> SUFFICES ASSUME session = "live", NEW i \in 1 .. Len(toWorker[opened])
               PROVE  toWorker[opened][i].seq > seenSeq
    BY DEF NothingRepeated
  <2>1. opened \in Conn
    BY DEF Inv, TypeOK, Conn
  <2> QED BY <2>1 DEF Inv, DownInv, DownNumbered
<1> QED BY <1>1, <1>2, <1>3 DEF InOrder

(* InOrder, for any number of calls, web sockets and restarts: each side    *)
(* takes exactly what the other has numbered, once and in order.            *)
THEOREM TakenInOrder == Spec => []InOrder
BY Invariance, InvInOrder, PTL

(* AnswerKept: the Worker forgets an answer only when the hub has stored    *)
(* it, wherever the connection breaks and whichever side restarts.          *)
THEOREM AnswersKept == Spec => []AnswerKept
<1>1. Inv => AnswerKept
  BY DEF Inv
<1> QED BY <1>1, Invariance, PTL

(* LinkInv, the induction behind both, holds in every reachable state.      *)
THEOREM LinkCorrect == Spec => []LinkInv
<1>1. Inv => LinkInv
  BY InvInOrder DEF Inv, UpInv, DownInv, LinkInv
<1> QED BY <1>1, Invariance, PTL
=============================================================================
