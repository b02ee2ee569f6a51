--------------------------- MODULE WorkerPresence ---------------------------
(***************************************************************************)
(* How the master knows which GPUs of a Worker may be given away: hy-smi   *)
(* readings with their drift and recovery streaks (worker/gpu.py), the     *)
(* heartbeat loop of a session (worker/client.py), the connection the hub  *)
(* serves and the offline snapshot it registers when that ends             *)
(* (worker/protocol.py), and the admission filter of the scheduler.        *)
(*                                                                         *)
(* Heartbeats are registered in threads of their own, in any order.  Time  *)
(* is the age of things, in units of ten seconds: Tick makes everything    *)
(* older, and ages above the limit of 30 seconds are not told apart.       *)
(* The sequence numbers themselves are in WorkerLink.  Here is what is left*)
(* of one that was taken and lost: both sides keep their counters on disk  *)
(* and no heartbeat, request or ACK is sent twice, so that every later     *)
(* session finds the gap.  The hub ends it, the Worker process exits.      *)
(***************************************************************************)
EXTENDS Integers, Sequences, SequencesExt

CONSTANTS
  GpuCount,   \* the GPUs of the Worker, the rows hy-smi prints
  Recovery,   \* low readings that end DRIFTED: 3
  Valid,      \* the age up to which a sample or a heartbeat counts: 30 seconds
  MaxThread,  \* registrations under way at once (a bound of the instance)
  MaxFault,   \* failures in a behaviour (a bound of the instance)
  MaxSlow     \* units in which due work is not done (a bound of the instance)

Gpu == 0 .. GpuCount - 1

ASSUME PresenceAssumption ==
  /\ GpuCount \in Nat \ {0}
  /\ Recovery \in Nat \ {0} /\ Valid \in Nat
  /\ MaxThread \in Nat \ {0} /\ MaxFault \in Nat /\ MaxSlow \in Nat

VARIABLES
  busy,           \* GPUs at or above the threshold now
  process,        \* the Worker process: "up" or "down"
  state, streak,  \* _states, _low_streak of the sampler
  conn,           \* the Worker's web socket
  due,            \* the heartbeat loop is not asleep
  drawn,          \* what it has sampled and not sent yet
  gap,            \* directions in which a number is missing for good
  entry, serving, \* _connections has the Worker; what serve works on
  last,           \* _last_snapshot of the hub has the Worker
  threads,        \* snapshots being registered
  known,          \* the Worker in _workers of the scheduler
  faults, slow,   \* failures and late units so far (bounds of the instance)
  calm,           \* readings since a high one, at most Recovery (history)
  lowAge          \* the age of the last low reading (history)

sampler  == <<state, streak, calm, lowAge>>
client   == <<conn, due, drawn>>
hub      == <<entry, serving, last>>
vars == <<busy, process, sampler, client, gap, hub, threads, known, faults, slow>>

GpuState == { "UNKNOWN", "AVAILABLE", "DRIFTED" }
Age      == 0 .. Valid + 1
Older(a) == IF a > Valid THEN a ELSE a + 1

(* A WorkerSnapshot.  beat and taken are the ages of last_heartbeat_at and *)
(* sampled_at, low says which readings were below the threshold, and calm  *)
(* is the history of the readings when it was taken.  Nothing looks at the *)
(* GPUs and times of one that is offline, nor at a Worker not known.       *)
Sampled == [beat : Age, taken : Age, state : [Gpu -> GpuState], low : SUBSET Gpu,
            calm : [Gpu -> 0 .. Recovery]]
Offline == [online |-> FALSE]
Nothing == [drawn |-> FALSE]

Init ==
  /\ busy \in SUBSET Gpu
  /\ process = "up"
  /\ state = [g \in Gpu |-> "UNKNOWN"] /\ streak = [g \in Gpu |-> 0]
  /\ conn = "none" /\ due = TRUE /\ drawn = Nothing /\ gap = {}
  /\ entry = FALSE /\ serving = "none" /\ last = FALSE
  /\ threads = <<>> /\ known = Offline
  /\ faults = 0 /\ slow = 0
  /\ calm = [g \in Gpu |-> Recovery] /\ lowAge = [g \in Gpu |-> Valid + 1]

(* A web socket whose session runs, whether or not the hub still serves it. *)
Open == {"live", "refused", "broken"}

Fails == faults < MaxFault /\ faults' = faults + 1
-----------------------------------------------------------------------------
(* The sampler.                                                            *)

Lower(a, b) == IF a < b THEN a ELSE b

(* One row of hy-smi: the state of a GPU after a reading.                  *)
StreakKept(g) ==   \* mutant: a high reading does not start the count again
  IF state[g] = "DRIFTED" THEN streak[g] + 1 ELSE Lower(Recovery, streak[g] + 1)
StreakAfter(g) ==
  IF g \in busy THEN 0
  ELSE IF state[g] = "DRIFTED" THEN streak[g] + 1 ELSE Lower(Recovery, streak[g] + 1)
StateAfterTwo(g) ==   \* mutant: one reading too few
  IF g \in busy THEN "DRIFTED"
  ELSE IF state[g] = "DRIFTED" /\ streak[g] + 2 < Recovery THEN "DRIFTED" ELSE "AVAILABLE"
StateAfter(g) ==
  IF g \in busy THEN "DRIFTED"
  ELSE IF state[g] = "DRIFTED" /\ streak[g] + 1 < Recovery THEN "DRIFTED" ELSE "AVAILABLE"

(* The rows read so far are in the sampler, whatever comes after them.     *)
Rows(Read) ==
  /\ state'  = [g \in Gpu |-> IF g \in Read THEN StateAfter(g) ELSE state[g]]
  /\ streak' = [g \in Gpu |-> IF g \in Read THEN StreakAfter(g) ELSE streak[g]]
  /\ calm'   = [g \in Gpu |-> IF g \notin Read THEN calm[g]
                              ELSE IF g \in busy THEN 0 ELSE Lower(Recovery, calm[g] + 1)]
  /\ lowAge' = [g \in Gpu |-> IF g \in Read \ busy THEN 0 ELSE lowAge[g]]


(* hy-smi fails, or a row makes the whole sample raise after the rows      *)
(* before it were taken: no heartbeat, the loop sleeps and tries again.    *)
SampleFails ==
  /\ conn \in Open /\ due /\ drawn = Nothing
  /\ Fails
  /\ \E Read \in SUBSET Gpu : Rows(Read)
  /\ due' = FALSE
  /\ UNCHANGED <<busy, process, conn, drawn, gap, hub, threads, known, slow>>

(* A sample is good if its ids are the first ones; hy-smi may leave out    *)
(* the last ones.                                                          *)
Sample ==
  /\ conn \in Open /\ due /\ drawn = Nothing
  /\ \E n \in 1 .. GpuCount :
       /\ IF n < GpuCount THEN Fails ELSE UNCHANGED faults
       /\ Rows(0 .. n - 1)
       /\ drawn' = [beat |-> 0, taken |-> 0, state |-> state', low |-> (0 .. n - 1) \ busy,
                    calm |-> calm']
  /\ UNCHANGED <<busy, process, conn, due, gap, hub, threads, known, slow>>
-----------------------------------------------------------------------------
(* The session.                                                            *)

(* run: a new web socket, accepted before serve looks at _connections.     *)
Connect ==
  /\ process = "up" /\ conn = "none"
  /\ conn' = "asked" /\ due' = TRUE
  /\ UNCHANGED <<busy, process, sampler, drawn, gap, hub, threads, known, faults, slow>>

(* serve: a second web socket is closed with 4409, outside of the try      *)
(* whose finally clause takes the first one out.                           *)
RefuseInTry ==   \* mutant: the finally clause runs for the refused one too
  /\ conn' = "refused"
  /\ entry' = FALSE
  /\ UNCHANGED serving
Refuse ==
  /\ conn' = "refused"
  /\ UNCHANGED <<entry, serving>>
Serve ==
  /\ conn = "asked"
  /\ \/ entry /\ Refuse
     \/ /\ ~entry
        /\ entry' = TRUE /\ serving' = "live" /\ conn' = "live"
  /\ UNCHANGED <<busy, process, sampler, due, drawn, gap, last, threads, known, faults,
                 slow>>

(* Numbers that are taken while a connection ends and never arrive.        *)
Direction == {"up", "down"}
Lose == \E lost \in SUBSET Direction : gap' = gap \cup lost

(* The heartbeat is stamped, numbered and sent.  What reaches the hub in   *)
(* order is given to a thread, what comes after a gap ends the session, and*)
(* what is sent into a dead web socket is lost with its number.            *)
Room    == Len(threads) < MaxThread
Beating == [drawn EXCEPT !.beat = 0]
Taken ==
  /\ conn = "live" /\ "up" \notin gap /\ Room
  /\ last' = TRUE /\ threads' = Append(threads, Beating)
  /\ UNCHANGED <<conn, serving, gap>>
EndsAtGap ==
  /\ conn = "live" /\ "up" \in gap
  /\ conn' = "broken" /\ serving' = "broken"
  /\ UNCHANGED <<last, threads, gap>>
Lost ==
  /\ conn \in {"refused", "broken"}
  /\ gap' = gap \cup {"up"}
  /\ UNCHANGED <<conn, serving, last, threads>>
Beat ==
  /\ drawn # Nothing
  /\ Taken \/ EndsAtGap \/ Lost
  /\ drawn' = Nothing /\ due' = FALSE
  /\ UNCHANGED <<busy, process, sampler, entry, known, faults, slow>>

(* The connection breaks, or serve leaves its loop with an error, perhaps  *)
(* at an answer or an ACK.                                                 *)
Break ==
  /\ conn = "live" /\ Fails
  /\ conn' = "broken" /\ serving' = "broken" /\ Lose
  /\ UNCHANGED <<busy, process, sampler, due, drawn, entry, last, threads, known, slow>>

(* The Worker finds its web socket closed: the loop is cancelled.          *)
WorkerNotices ==
  /\ conn \in {"refused", "broken"}
  /\ conn' = "none" /\ drawn' = Nothing
  /\ UNCHANGED <<busy, process, sampler, due, gap, hub, threads, known, faults, slow>>

(* The hub finds it closed: the finally clause of serve registers what it  *)
(* knew last, offline and with GPUs that are UNKNOWN.                      *)
HubNotices ==
  /\ serving = "broken" /\ Room
  /\ entry' = FALSE /\ serving' = "none"
  /\ threads' = IF last THEN Append(threads, Offline) ELSE threads
  /\ UNCHANGED <<busy, process, sampler, client, gap, last, known, faults, slow>>

(* register_worker, in whichever thread gets the lock of the scheduler.    *)
Register ==
  /\ \E i \in 1 .. Len(threads) : known' = threads[i] /\ threads' = RemoveAt(threads, i)
  /\ UNCHANGED <<busy, process, sampler, client, gap, hub, faults, slow>>
-----------------------------------------------------------------------------
(* Restarts, the load of the GPUs, and time.                               *)

(* The Worker stops; its sampler forgets.  The hub has not noticed yet.    *)
Stops ==
  /\ process = "up"
  /\ process' = "down"
  /\ conn' = "none" /\ due' = TRUE /\ drawn' = Nothing
  /\ serving' = IF conn = "live" THEN "broken" ELSE serving
  /\ state' = [g \in Gpu |-> "UNKNOWN"] /\ streak' = [g \in Gpu |-> 0]
  /\ calm' = [g \in Gpu |-> Recovery]
  /\ Lose
  /\ UNCHANGED <<busy, lowAge, entry, last, threads, known, slow>>
WorkerStops == Fails /\ Stops

(* A request or an ACK after a gap: WorkerClientError, which run does not  *)
(* catch.                                                                  *)
WorkerExits ==
  /\ conn = "live" /\ "down" \in gap
  /\ Stops
  /\ UNCHANGED faults

WorkerStarts ==
  /\ process = "down" /\ process' = "up"
  /\ UNCHANGED <<busy, sampler, client, gap, hub, threads, known, faults, slow>>

(* The master stops and _load takes every Worker for offline.              *)
MasterRestarts ==
  /\ Fails
  /\ conn' = IF conn = "none" THEN "none" ELSE "broken"
  /\ entry' = FALSE /\ serving' = "none" /\ last' = FALSE
  /\ threads' = <<>>
  /\ known' = Offline
  /\ Lose
  /\ UNCHANGED <<busy, process, sampler, due, drawn, slow>>

Load ==
  /\ \E g \in Gpu : busy' = IF g \in busy THEN busy \ {g} ELSE busy \cup {g}
  /\ UNCHANGED <<process, sampler, client, gap, hub, threads, known, faults, slow>>

(* Ten seconds pass.  Normally what is due is done within them.            *)
OnTime == threads = <<>> /\ ~(conn = "live" /\ due)
Aged(s) == IF s \in {Offline, Nothing} THEN s
           ELSE [s EXCEPT !.beat = Older(@), !.taken = Older(@)]
Tick ==
  /\ \/ OnTime /\ UNCHANGED slow
     \/ ~OnTime /\ slow < MaxSlow /\ slow' = slow + 1
  /\ due' = TRUE
  /\ drawn' = Aged(drawn) /\ known' = Aged(known)
  /\ threads' = [i \in DOMAIN threads |-> Aged(threads[i])]
  /\ lowAge' = [g \in Gpu |-> Older(lowAge[g])]
  /\ UNCHANGED <<busy, process, state, streak, calm, conn, gap, hub, faults>>

Next ==
  \/ SampleFails \/ Sample \/ Connect \/ Serve \/ Beat \/ Break
  \/ WorkerNotices \/ HubNotices \/ Register
  \/ WorkerStops \/ WorkerExits \/ WorkerStarts \/ MasterRestarts \/ Load \/ Tick

(* Both event loops and the thread pool make progress and time passes;     *)
(* nothing is assumed of failures, of the GPUs or of a stopped Worker.     *)
Fairness ==
  /\ WF_vars(Sample) /\ WF_vars(Connect) /\ WF_vars(Serve) /\ WF_vars(Beat)
  /\ WF_vars(WorkerNotices) /\ WF_vars(HubNotices) /\ WF_vars(Register) /\ WF_vars(Tick)

Spec == Init /\ [][Next]_vars /\ Fairness
-----------------------------------------------------------------------------
(* _select_gpus, as far as the Worker's own word goes.                     *)
Fresh(a) == a <= Valid
AdmittedAnyAge(g) ==   \* mutant: neither of the two ages is looked at
  /\ known # Offline
  /\ known.state[g] = "AVAILABLE" /\ g \in known.low
Admitted(g) ==
  /\ known # Offline /\ Fresh(known.beat)
  /\ known.state[g] = "AVAILABLE" /\ g \in known.low /\ Fresh(known.taken)

(* Every variable stays in its range; a GPU is DRIFTED only while it still *)
(* lacks low readings, so no recovery is missed or given twice.            *)
TypeOK ==
  /\ busy \subseteq Gpu /\ process \in {"up", "down"}
  /\ state \in [Gpu -> GpuState] /\ streak \in [Gpu -> 0 .. Recovery]
  /\ \A g \in Gpu : state[g] = "DRIFTED" => streak[g] < Recovery
  /\ calm \in [Gpu -> 0 .. Recovery] /\ lowAge \in [Gpu -> Age]
  /\ conn \in {"none", "asked"} \cup Open /\ due \in BOOLEAN
  /\ entry \in BOOLEAN /\ serving \in {"none", "live", "broken"}
  /\ drawn \in Sampled \cup {Nothing} /\ last \in BOOLEAN /\ gap \subseteq Direction
  /\ known \in Sampled \cup {Offline}
  /\ Len(threads) \in 0 .. MaxThread
  /\ \A i \in DOMAIN threads : threads[i] \in Sampled \cup {Offline}
  /\ faults \in 0 .. MaxFault /\ slow \in 0 .. MaxSlow

(* docs/usage.md:449: a GPU is given away only if it was seen below the    *)
(* threshold in the last 30 seconds, and if the Worker process that saw it *)
(* had found no high reading among its last three: whatever the order in   *)
(* which samples are registered, whichever of them are cut short.          *)
AdmittedWasLow ==
  \A g \in Gpu : Admitted(g) => known.calm[g] = Recovery /\ lowAge[g] <= Valid

(* A Worker that holds a served web socket can be called over it, and the  *)
(* hub serves one web socket of a Worker at a time.                        *)
ServedIsReachable == (conn = "live" => serving = "live") /\ (entry <=> serving # "none")

(* A Worker that stops for good, or whose heartbeats the hub will always   *)
(* find a gap in front of, is after some time never given a Task again,    *)
(* although samples it sent before may be registered after the word that   *)
(* it is offline.  And the GPUs of a Worker that keeps running are admitted*)
(* for good once they stay free and failures end, through any number of    *)
(* refused web sockets and late registrations, as long as no number was    *)
(* lost in either direction.                                               *)
AdmissionFollowsTheWorker ==
  /\ <>[](process = "down" \/ "up" \in gap) => <>[](\A g \in Gpu : ~Admitted(g))
  /\ \A g \in Gpu : <>[](process = "up" /\ gap = {} /\ g \notin busy) => <>[]Admitted(g)
=============================================================================
