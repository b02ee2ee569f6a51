----------------------------- MODULE WorkerLink -----------------------------
(* The web socket between the master's WorkerHub (worker/protocol.py) and   *)
(* one WorkerClient (worker/client.py): numbered messages in both           *)
(* directions, calls and their answers, acknowledgements, reconnection,     *)
(* replay of answers, and restarts of either side.                          *)
(*                                                                          *)
(* The hub is one event loop: what happens between two awaits is one step.  *)
(* The client is an event loop with handler threads: an answer gets its     *)
(* number in the thread that computed it and is recorded and sent by the    *)
(* loop, later.  A message is its number and what it is about: the answer   *)
(* to call r from the Worker, 0 for a heartbeat; a call or the              *)
(* acknowledgement of an answer (0: of a heartbeat) from the master.        *)
(* Counters are written to disk under every change, before they are used.   *)
EXTENDS Integers, Sequences

CONSTANTS
  MaxCall,   \* calls the master makes, numbered in the order of their ids
  Execute,   \* the calls that are EXECUTE: answered in the background
  MaxConn,   \* web sockets the Worker opens (a bound of the instance)
  MaxBeat,   \* heartbeats stop at this number (a bound of the instance)
  Faults     \* "break", "hub_crash", "worker_crash", "timeout"

Call == 1 .. MaxCall
Conn == 1 .. MaxConn

ASSUME LinkAssumption ==
  /\ MaxCall \in Nat /\ MaxConn \in Nat /\ MaxBeat \in Nat
  /\ Execute \subseteq Call

VARIABLES
  hubSend, hubRecv, \* _sequence, _receive_sequence
  stored,           \* answers in worker-replies, on disk
  hubConn,          \* the web socket in _connections, 0 when there is none
  waiting,          \* _pending: calls whose caller still waits
  taken,            \* the message being processed, NoMsg when there is none
  issued,           \* calls 1 .. issued have been made
  sendSeq, seenSeq, \* _send_sequence, _seen_sequence
  kept,             \* _responses, in memory and on disk: answers by call
  number,           \* the number of the answer to each call, 0 before
  place, nextPlace, \* the order of _responses
  session,          \* where the client's _session is
  handling,         \* the call the receive loop is handling, 0 when idle
  running,          \* calls handled in the background
  replay,           \* answers that this session has still to send again
  opened, decided,  \* web sockets opened, and accepted or refused by serve
  broken,           \* web sockets that carry no further message
  toHub, toWorker,  \* messages under way on each of them
  upLog, downLog,   \* what got each number, of either side (history)
  hubLog, workerLog,\* what each side has taken (history)
  recorded          \* answers ever recorded by the client (history)

hubDisk    == <<hubSend, hubRecv, stored>>
hubMemory  == <<hubConn, waiting, taken>>
workerDisk == <<sendSeq, seenSeq, kept, number, place, nextPlace>>
workerMem  == <<session, handling, running, replay>>
net        == <<opened, decided, broken, toHub, toWorker>>
vars == <<hubDisk, hubMemory, issued, workerDisk, workerMem, net,
          upLog, downLog, hubLog, workerLog, recorded>>

NoMsg == [seq |-> 0, about |-> 0]
Down == [kind : {"call", "ack"}, about : 0 .. MaxCall]

Init ==
  /\ hubSend = 0 /\ hubRecv = 0 /\ stored = {} /\ issued = 0
  /\ hubConn = 0 /\ waiting = {} /\ taken = NoMsg
  /\ sendSeq = 0 /\ seenSeq = 0 /\ kept = {}
  /\ number = [r \in Call |-> 0] /\ place = [r \in Call |-> 0] /\ nextPlace = MaxCall + 1
  /\ session = "down" /\ handling = 0 /\ running = {} /\ replay = {}
  /\ opened = 0 /\ decided = 0 /\ broken = [c \in Conn |-> FALSE]
  /\ toHub = [c \in Conn |-> <<>>] /\ toWorker = [c \in Conn |-> <<>>]
  /\ upLog = <<>> /\ downLog = <<>> /\ hubLog = <<>> /\ workerLog = <<>>
  /\ recorded = {}

-----------------------------------------------------------------------------
(* The wire.  What is sent into a broken web socket is gone.                *)

Carry(channel, c, m) ==
  IF broken[c] THEN channel ELSE [channel EXCEPT ![c] = Append(@, m)]

(* The connection fails: an end of either direction is lost with it.        *)
Break ==
  /\ "break" \in Faults
  /\ \E c \in 1 .. opened :
       /\ ~broken[c]
       /\ broken' = [broken EXCEPT ![c] = TRUE]
       /\ \E i \in 0 .. Len(toHub[c]), j \in 0 .. Len(toWorker[c]) :
            /\ toHub' = [toHub EXCEPT ![c] = SubSeq(@, 1, i)]
            /\ toWorker' = [toWorker EXCEPT ![c] = SubSeq(@, 1, j)]
  /\ UNCHANGED <<hubDisk, hubMemory, issued, workerDisk, workerMem, opened, decided,
                 upLog, downLog, hubLog, workerLog, recorded>>

-----------------------------------------------------------------------------
(* WorkerHub.                                                               *)

(* serve: a second web socket of the Worker is refused.                     *)
Serve ==
  /\ taken = NoMsg /\ decided < opened
  /\ decided' = decided + 1
  /\ IF hubConn = 0
       THEN hubConn' = decided' /\ UNCHANGED <<broken, toHub>>
       ELSE /\ broken' = [broken EXCEPT ![decided'] = TRUE]
            /\ toHub' = [toHub EXCEPT ![decided'] = <<>>]
            /\ UNCHANGED hubConn
  /\ UNCHANGED <<hubDisk, waiting, taken, issued, workerDisk, workerMem, opened, toWorker,
                 upLog, downLog, hubLog, workerLog, recorded>>

(* A message of the hub: numbered, on disk, then sent.                      *)
HubSends(kind, r) ==
  /\ hubSend' = hubSend + 1
  /\ downLog' = Append(downLog, [kind |-> kind, about |-> r])
  /\ toWorker' = Carry(toWorker, hubConn, [seq |-> hubSend', kind |-> kind, about |-> r])

Incoming == hubConn # 0 /\ toHub[hubConn] # <<>> /\ taken = NoMsg
NextIn   == Head(toHub[hubConn])
ReadIn   == toHub' = [toHub EXCEPT ![hubConn] = Tail(@)]

(* An old number is acknowledged only if its answer is on disk.             *)
EveryOldIsAcked == NextIn.about # 0   \* mutant: without looking at worker-replies
OldIsAcked == NextIn.about \in stored

TakeOld ==
  /\ Incoming
  /\ NextIn.seq <= hubRecv
  /\ IF OldIsAcked THEN HubSends("ack", NextIn.about)
                   ELSE UNCHANGED <<hubSend, downLog, toWorker>>
  /\ ReadIn
  /\ UNCHANGED <<hubRecv, stored, hubMemory, issued, workerDisk, workerMem, opened, decided,
                 broken, upLog, hubLog, workerLog, recorded>>

(* The serving coroutine ends and the web socket is closed; callers keep    *)
(* waiting.                                                                 *)
EndServe ==
  /\ broken' = [broken EXCEPT ![hubConn] = TRUE]
  /\ toHub' = [toHub EXCEPT ![hubConn] = <<>>]
  /\ hubConn' = 0
  /\ UNCHANGED <<hubDisk, waiting, taken, issued, workerDisk, workerMem, opened, decided,
                 toWorker, upLog, downLog, hubLog, workerLog, recorded>>

(* A number is missing: WorkerProtocolError.                                *)
TakeGap == Incoming /\ NextIn.seq > hubRecv + 1 /\ EndServe

(* The web socket is found closed; what was not read is not read any more.  *)
HubNotices == hubConn # 0 /\ taken = NoMsg /\ broken[hubConn] /\ EndServe

(* The next number is taken, on disk, before the message is looked at.      *)
TakeNext ==
  /\ Incoming
  /\ NextIn.seq = hubRecv + 1
  /\ hubRecv' = hubRecv + 1
  /\ hubLog' = Append(hubLog, NextIn.about)
  /\ taken' = NextIn
  /\ ReadIn
  /\ UNCHANGED <<hubSend, stored, hubConn, waiting, issued, workerDisk, workerMem, opened,
                 decided, broken, toWorker, upLog, downLog, workerLog, recorded>>

(* An answer that nobody waits for is neither stored nor acknowledged.      *)
Process ==
  /\ taken # NoMsg
  /\ taken' = NoMsg
  /\ \/ /\ taken.about = 0
        /\ HubSends("ack", 0)
        /\ UNCHANGED <<stored, waiting>>
     \/ /\ taken.about \in waiting
        /\ stored' = stored \cup {taken.about}
        /\ waiting' = waiting \ {taken.about}
        /\ HubSends("ack", taken.about)
     \/ /\ taken.about \in Call \ waiting
        /\ UNCHANGED <<stored, waiting, hubSend, downLog, toWorker>>
  /\ UNCHANGED <<hubRecv, hubConn, issued, workerDisk, workerMem, opened, decided, broken,
                 toHub, upLog, hubLog, workerLog, recorded>>

(* request: the caller waits, unless the web socket is known to be closed.  *)
Request ==
  /\ taken = NoMsg /\ hubConn # 0 /\ issued < MaxCall
  /\ issued' = issued + 1
  /\ HubSends("call", issued')
  /\ \/ waiting' = waiting \cup {issued'}
     \/ broken[hubConn] /\ UNCHANGED waiting
  /\ UNCHANGED <<hubRecv, stored, hubConn, taken, workerDisk, workerMem, opened, decided,
                 broken, toHub, upLog, hubLog, workerLog, recorded>>

Timeout ==
  /\ "timeout" \in Faults /\ taken = NoMsg
  /\ \E r \in waiting : waiting' = waiting \ {r}
  /\ UNCHANGED <<hubDisk, hubConn, taken, issued, workerDisk, workerMem, net,
                 upLog, downLog, hubLog, workerLog, recorded>>

(* The master stops, between any two writes, and starts again.              *)
HubCrash ==
  /\ "hub_crash" \in Faults
  /\ hubConn' = 0 /\ waiting' = {} /\ taken' = NoMsg
  /\ decided' = opened
  /\ broken' = [c \in Conn |-> broken[c] \/ c <= opened]
  /\ toHub' = [c \in Conn |-> <<>>]
  /\ UNCHANGED <<hubDisk, issued, workerDisk, workerMem, opened, toWorker,
                 upLog, downLog, hubLog, workerLog, recorded>>

-----------------------------------------------------------------------------
(* WorkerClient.                                                            *)

(* run: a new session begins with the recorded answers, all of them.        *)
Connect ==
  /\ session = "down" /\ opened < MaxConn
  /\ opened' = opened + 1
  /\ session' = "replay" /\ replay' = kept
  /\ UNCHANGED <<hubDisk, hubMemory, issued, workerDisk, handling, running, decided, broken,
                 toHub, toWorker, upLog, downLog, hubLog, workerLog, recorded>>

Answer(r) == [seq |-> number[r], about |-> r]

Replay ==
  /\ session = "replay"
  /\ \/ \E r \in replay :
          /\ \A q \in replay : place[r] <= place[q]
          /\ toHub' = Carry(toHub, opened, Answer(r))
          /\ replay' = replay \ {r}
          /\ UNCHANGED session
     \/ /\ replay = {}
        /\ session' = "live"
        /\ UNCHANGED <<replay, toHub>>
  /\ UNCHANGED <<hubDisk, hubMemory, issued, workerDisk, handling, running, opened, decided,
                 broken, toWorker, upLog, downLog, hubLog, workerLog, recorded>>

(* A heartbeat gets its number and is sent by the loop at once.             *)
Heartbeat ==
  /\ session = "live" /\ sendSeq < MaxBeat
  /\ sendSeq' = sendSeq + 1
  /\ upLog' = Append(upLog, 0)
  /\ toHub' = Carry(toHub, opened, [seq |-> sendSeq', about |-> 0])
  /\ UNCHANGED <<hubDisk, hubMemory, issued, seenSeq, kept, number, place, nextPlace,
                 workerMem, opened, decided, broken, toWorker,
                 downLog, hubLog, workerLog, recorded>>

Arriving == session = "live" /\ handling = 0 /\ toWorker[opened] # <<>>
NextOut  == Head(toWorker[opened])
ReadOut  == toWorker' = [toWorker EXCEPT ![opened] = Tail(@)]

(* The hub never repeats a number, so that the receive loop never sees an   *)
(* old one: the branch that answers it from _responses has no action here,  *)
(* and NothingRepeated says why none is needed.                             *)

(* A number is missing: WorkerClientError, which ends the process once the  *)
(* background is done.                                                      *)
SeeGap ==
  /\ Arriving
  /\ NextOut.seq > seenSeq + 1
  /\ session' = "exiting"
  /\ UNCHANGED <<hubDisk, hubMemory, issued, workerDisk, handling, running, replay, net,
                 upLog, downLog, hubLog, workerLog, recorded>>

(* The next number is seen, on disk, before the message is handled.         *)
SeeNext ==
  /\ Arriving
  /\ NextOut.seq = seenSeq + 1
  /\ seenSeq' = seenSeq + 1
  /\ workerLog' = Append(workerLog, [kind |-> NextOut.kind, about |-> NextOut.about])
  /\ \/ /\ NextOut.kind = "ack"
        /\ kept' = kept \ {NextOut.about}
        /\ UNCHANGED <<handling, running>>
     \/ /\ NextOut.kind = "call" /\ NextOut.about \in Execute
        /\ running' = running \cup {NextOut.about}
        /\ UNCHANGED <<kept, handling>>
     \/ /\ NextOut.kind = "call" /\ NextOut.about \notin Execute
        /\ handling' = NextOut.about
        /\ UNCHANGED <<kept, running>>
  /\ ReadOut
  /\ UNCHANGED <<hubDisk, hubMemory, issued, sendSeq, number, place, nextPlace, session, replay,
                 opened, decided, broken, toHub, upLog, downLog, hubLog, recorded>>

(* The thread that handled call r ends by numbering its answer ...          *)
Handled(r) == (r \in running \/ r = handling) /\ r # 0

Number(r) ==
  /\ Handled(r) /\ number[r] = 0
  /\ sendSeq' = sendSeq + 1
  /\ number' = [number EXCEPT ![r] = sendSeq']
  /\ upLog' = Append(upLog, r)
  /\ UNCHANGED <<hubDisk, hubMemory, issued, seenSeq, kept, place, nextPlace, workerMem, net,
                 downLog, hubLog, workerLog, recorded>>

(* ... and the loop records it, then sends it on the session's web socket.  *)
Record(r) ==
  /\ Handled(r) /\ number[r] # 0
  /\ kept' = kept \cup {r} /\ recorded' = recorded \cup {r}
  /\ place' = [place EXCEPT ![r] = nextPlace] /\ nextPlace' = nextPlace + 1
  /\ toHub' = Carry(toHub, opened, Answer(r))
  /\ running' = running \ {r}
  /\ handling' = IF r = handling THEN 0 ELSE handling
  /\ UNCHANGED <<hubDisk, hubMemory, issued, sendSeq, seenSeq, number, session, replay, opened,
                 decided, broken, toWorker, upLog, downLog, hubLog, workerLog>>

(* The handler raises: in the background that is the end of it, in the      *)
(* receive loop it ends the process.                                        *)
HandlerFails(r) ==
  /\ Handled(r) /\ number[r] = 0
  /\ running' = running \ {r}
  /\ IF r = handling THEN handling' = 0 /\ session' = "exiting"
                     ELSE UNCHANGED <<handling, session>>
  /\ UNCHANGED <<hubDisk, hubMemory, issued, workerDisk, replay, net,
                 upLog, downLog, hubLog, workerLog, recorded>>

(* The session learns that its web socket is closed; it ends when the       *)
(* background has ended.                                                    *)
WorkerNotices ==
  /\ session \in {"replay", "live"} /\ handling = 0
  /\ broken[opened]
  /\ session' = "closing" /\ replay' = {}
  /\ UNCHANGED <<hubDisk, hubMemory, issued, workerDisk, handling, running, net,
                 upLog, downLog, hubLog, workerLog, recorded>>

SessionEndsAtOnce ==   \* mutant: the background is not waited for
  /\ session = "closing" /\ session' = "down"
  /\ UNCHANGED <<hubDisk, hubMemory, issued, workerDisk, handling, running, replay, net,
                 upLog, downLog, hubLog, workerLog, recorded>>
SessionEnds ==
  /\ session = "closing" /\ running = {}
  /\ session' = "down"
  /\ UNCHANGED <<hubDisk, hubMemory, issued, workerDisk, handling, running, replay, net,
                 upLog, downLog, hubLog, workerLog, recorded>>

RestartedFresh ==   \* mutant: _send_sequence is not persisted
  /\ session' = "down" /\ handling' = 0 /\ running' = {} /\ replay' = {} /\ sendSeq' = 0
  /\ broken' = [c \in Conn |-> broken[c] \/ c <= opened]
  /\ toWorker' = [c \in Conn |-> <<>>]
  /\ UNCHANGED <<hubDisk, hubMemory, issued, seenSeq, kept, number, place, nextPlace,
                 opened, decided, toHub, upLog, downLog, hubLog, workerLog, recorded>>
(* The process starts again from its files, which it reads by call id.      *)
Restarted ==
  /\ session' = "down" /\ handling' = 0 /\ running' = {} /\ replay' = {}
  /\ place' = [r \in Call |-> IF r \in kept THEN r ELSE place[r]]
  /\ broken' = [c \in Conn |-> broken[c] \/ c <= opened]
  /\ toWorker' = [c \in Conn |-> <<>>]
  /\ UNCHANGED <<hubDisk, hubMemory, issued, sendSeq, seenSeq, kept, number, nextPlace,
                 opened, decided, toHub, upLog, downLog, hubLog, workerLog, recorded>>

WorkerExits == session = "exiting" /\ running = {} /\ Restarted
WorkerCrash == "worker_crash" \in Faults /\ Restarted

-----------------------------------------------------------------------------
Next ==
  \/ Break \/ Serve \/ TakeOld \/ TakeGap \/ HubNotices \/ TakeNext \/ Process
  \/ Request \/ Timeout \/ HubCrash
  \/ Connect \/ Replay \/ Heartbeat \/ SeeGap \/ SeeNext
  \/ WorkerNotices \/ SessionEnds \/ WorkerExits \/ WorkerCrash
  \/ \E r \in Call : Number(r) \/ Record(r) \/ HandlerFails(r)

Spec == Init /\ [][Next]_vars

-----------------------------------------------------------------------------
(* What must hold.                                                          *)

Up == [seq : Nat, about : 0 .. MaxCall]

(* Every variable stays in its range.                                       *)
TypeOK ==
  /\ hubSend \in Nat /\ hubRecv \in Nat /\ stored \subseteq Call
  /\ opened \in 0 .. MaxConn /\ decided \in 0 .. opened /\ hubConn \in 0 .. decided
  /\ waiting \subseteq Call /\ taken \in Up /\ issued \in 0 .. MaxCall
  /\ (taken # NoMsg => hubConn # 0)
  /\ sendSeq \in Nat /\ seenSeq \in Nat /\ kept \subseteq Call
  /\ number \in [Call -> Nat] /\ place \in [Call -> Nat] /\ nextPlace \in Nat
  /\ session \in {"down", "replay", "live", "closing", "exiting"}
  /\ (session # "down" => opened # 0)
  /\ handling \in 0 .. MaxCall /\ running \subseteq Call /\ replay \subseteq Call
  /\ (session # "live" => handling = 0)
  /\ (session \in {"down", "replay"} => running = {})
  /\ broken \in [Conn -> BOOLEAN]
  /\ toHub \in [Conn -> Seq(Up)]
  /\ toWorker \in [Conn -> Seq([seq : Nat, kind : {"call", "ack"}, about : 0 .. MaxCall])]
  /\ upLog \in Seq(0 .. MaxCall) /\ hubLog \in Seq(0 .. MaxCall)
  /\ downLog \in Seq(Down) /\ workerLog \in Seq(Down)
  /\ recorded \subseteq Call

IsPrefixOf(s, t) == Len(s) <= Len(t) /\ \A i \in 1 .. Len(s) : s[i] = t[i]

(* What each side has accepted is exactly a beginning of what the other has *)
(* numbered: through broken web sockets, replays, refused sessions and      *)
(* restarts nothing is taken twice, out of order or after a gap; what the   *)
(* hub discards as old is what it has taken before, and the Worker is never *)
(* sent anything old.                                                       *)
OldIsKnown ==
  \A c \in Conn : \A i \in 1 .. Len(toHub[c]) :
    LET m == toHub[c][i] IN m.seq <= hubRecv => hubLog[m.seq] = m.about
NothingRepeated ==
  session = "live" => \A i \in 1 .. Len(toWorker[opened]) : toWorker[opened][i].seq > seenSeq
InOrder ==
  IsPrefixOf(hubLog, upLog) /\ IsPrefixOf(workerLog, downLog) /\ OldIsKnown /\ NothingRepeated

(* An answer the Worker has recorded is on one of the two disks: the Worker *)
(* forgets it only when the master has stored it.                           *)
AnswerKept == recorded \subseteq kept \cup stored

(* Whatever the Worker has numbered and the master has not taken can still  *)
(* be reported: it is kept, on its way, or about to be recorded.            *)
(* (spec.md:281: after a short disconnect the Worker reports what is        *)
(* missing by sequence.)                                                    *)
Reportable(n) ==
  \/ \E r \in kept : number[r] = n
  \/ \E r \in Call : Handled(r) /\ number[r] = n
  \/ \E c \in Conn : \E i \in 1 .. Len(toHub[c]) : toHub[c][i].seq = n
NothingUnreported == \A n \in hubRecv + 1 .. sendSeq : Reportable(n)

-----------------------------------------------------------------------------
(* The induction behind them.                                               *)

(* A number belongs to one message for ever: what is under way, kept or     *)
(* about to be recorded is what the logs say of its number.                 *)
UpNumbered ==
  /\ Len(upLog) = sendSeq /\ Len(hubLog) = hubRecv
  /\ \A c \in Conn : \A i \in 1 .. Len(toHub[c]) :
       LET m == toHub[c][i] IN m.seq \in 1 .. sendSeq /\ upLog[m.seq] = m.about
  /\ \A r \in Call : number[r] # 0 => number[r] <= sendSeq /\ upLog[number[r]] = r
  /\ \A r \in kept \cup replay : number[r] # 0
DownNumbered ==
  /\ Len(downLog) = hubSend /\ Len(workerLog) = seenSeq
  /\ \A c \in Conn : \A i \in 1 .. Len(toWorker[c]) :
       LET m == toWorker[c][i] IN
         /\ m.seq \in 1 .. hubSend /\ downLog[m.seq] = [kind |-> m.kind, about |-> m.about]
         /\ c = opened => m.seq > seenSeq
         /\ \A j \in 1 .. i - 1 : toWorker[c][j].seq < m.seq
  /\ \A c \in Conn : c > opened => toWorker[c] = <<>>
  /\ \A i \in 1 .. Len(downLog) : downLog[i].kind = "ack" => downLog[i].about \in stored \cup {0}
LinkInv == UpNumbered /\ DownNumbered /\ InOrder /\ AnswerKept
=============================================================================
