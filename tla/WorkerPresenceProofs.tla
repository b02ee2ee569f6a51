------------------------ MODULE WorkerPresenceProofs ------------------------
(* Proofs about WorkerPresence: for any number of GPUs, any length of       *)
(* streaks and time limits, and any number of registrations under way, what *)
(* is admitted was low, and the hub serves a web socket that is alive.      *)
EXTENDS WorkerPresence, SequenceTheorems, TLAPS

USE PresenceAssumption

(* What the sampler knows of a GPU: a DRIFTED one has counted exactly the   *)
(* low readings since the last high one, and any other has seen no high one *)
(* among the last that count.                                               *)
SamplerInv ==
  \A g \in Gpu : IF state[g] = "DRIFTED" THEN calm[g] = streak[g] /\ streak[g] < Recovery
                                         ELSE calm[g] = Recovery

(* A sample is sound if it calls available only what was calm, and if what  *)
(* it saw low was seen low no longer ago than the sample is old.            *)
Sound == { s \in Sampled :
             \A g \in Gpu : /\ s.state[g] = "AVAILABLE" => s.calm[g] = Recovery
                            /\ g \in s.low => lowAge[g] <= s.taken }
Snapshots == Sound \cup {Offline}

(* Every sample is sound, wherever it is on its way.                        *)
SamplesSound ==
  /\ drawn \in Sound \cup {Nothing} /\ threads \in Seq(Snapshots) /\ known \in Snapshots

Inv == TypeOK /\ SamplerInv /\ SamplesSound /\ ServedIsReachable

-----------------------------------------------------------------------------
(* Sequences and ages.                                                      *)

(* What is left when one registration is done.                              *)
LEMMA OneRemoved ==
  ASSUME NEW S, NEW s \in Seq(S), NEW i \in 1 .. Len(s)
  PROVE  /\ RemoveAt(s, i) \in Seq(S) /\ Len(RemoveAt(s, i)) = Len(s) - 1
         /\ s[i] \in S
<1> DEFINE front == SubSeq(s, 1, i - 1)
           back  == SubSeq(s, i + 1, Len(s))
<1>1. Len(s) \in Nat /\ \A j \in 1 .. Len(s) : s[j] \in S
  OBVIOUS
<1>2. front \in Seq(S) /\ Len(front) = i - 1
  <2>1. \A j \in 1 .. i - 1 : s[j] \in S
    BY <1>1
  <2>2. Len(front) = IF 1 <= i - 1 THEN (i - 1) - 1 + 1 ELSE 0
    BY <1>1, <2>1, SubSeqProperties
  <2> QED BY <1>1, <2>1, <2>2, SubSeqProperties
<1>3. back \in Seq(S) /\ Len(back) = Len(s) - i
  <2>1. \A j \in i + 1 .. Len(s) : s[j] \in S
    BY <1>1
  <2>2. Len(back) = IF i + 1 <= Len(s) THEN Len(s) - (i + 1) + 1 ELSE 0
    BY <1>1, <2>1, SubSeqProperties
  <2> QED BY <1>1, <2>1, <2>2, SubSeqProperties
<1>4. front \o back \in Seq(S) /\ Len(front \o back) = Len(front) + Len(back)
  BY <1>2, <1>3, ConcatProperties
<1>5. RemoveAt(s, i) = front \o back
  BY DEF RemoveAt
<1> HIDE DEF front, back
<1>6. Len(front) + Len(back) = Len(s) - 1
  BY <1>1, <1>2, <1>3
<1> QED BY <1>1, <1>4, <1>5, <1>6

(* One more registration.                                                   *)
LEMMA OneAdded ==
  ASSUME NEW S, NEW s \in Seq(S), NEW x \in S
  PROVE  Append(s, x) \in Seq(S) /\ Len(Append(s, x)) = Len(s) + 1
OBVIOUS

(* Getting older keeps the order of ages.                                   *)
LEMMA OlderKeepsOrder ==
  ASSUME NEW a \in Age, NEW b \in Age
  PROVE  Older(a) \in Age /\ (a <= b => Older(a) <= Older(b))
BY DEF Older, Age

(* The two things that are no samples.                                      *)
LEMMA NoSample == Offline \notin Sampled /\ Nothing \notin Sampled
BY DEF Offline, Nothing, Sampled

(* Readings of some GPUs keep the sampler in order, and take no GPU's last  *)
(* low reading further back.                                                *)
LEMMA RowsKeepOrder ==
  ASSUME TypeOK, SamplerInv, NEW Read \in SUBSET Gpu, Rows(Read)
  PROVE  /\ state' \in [Gpu -> GpuState] /\ streak' \in [Gpu -> 0 .. Recovery]
         /\ calm' \in [Gpu -> 0 .. Recovery] /\ lowAge' \in [Gpu -> Age]
         /\ SamplerInv'
         /\ \A g \in Gpu : lowAge'[g] <= lowAge[g] /\ (g \in Read \ busy => lowAge'[g] = 0)
<1>1. Recovery \in Nat \ {0} /\ 0 \in Age
  BY DEF Age
<1>2. \A g \in Gpu : /\ state[g] \in GpuState /\ streak[g] \in 0 .. Recovery
                     /\ calm[g] \in 0 .. Recovery /\ lowAge[g] \in Age
  BY DEF TypeOK
<1>3. ASSUME NEW g \in Gpu, g \notin Read
      PROVE  /\ state'[g] = state[g] /\ streak'[g] = streak[g]
             /\ calm'[g] = calm[g] /\ lowAge'[g] = lowAge[g]
  BY <1>3 DEF Rows
<1>4. ASSUME NEW g \in Read
      PROVE  /\ state'[g] = StateAfter(g) /\ streak'[g] = StreakAfter(g)
             /\ calm'[g] = IF g \in busy THEN 0 ELSE Lower(Recovery, calm[g] + 1)
             /\ lowAge'[g] = IF g \in busy THEN lowAge[g] ELSE 0
  BY <1>4 DEF Rows
<1>5. ASSUME NEW g \in Read
      PROVE  /\ StateAfter(g) \in GpuState /\ StreakAfter(g) \in 0 .. Recovery
             /\ calm'[g] \in 0 .. Recovery
             /\ IF StateAfter(g) = "DRIFTED"
                  THEN calm'[g] = StreakAfter(g) /\ StreakAfter(g) < Recovery
                  ELSE calm'[g] = Recovery
  <2>1. CASE g \in busy
    BY <1>1, <1>4, <2>1 DEF StateAfter, StreakAfter, GpuState
  <2>2. CASE g \notin busy /\ state[g] = "DRIFTED"
    <3>1. calm[g] = streak[g] /\ streak[g] < Recovery /\ streak[g] \in 0 .. Recovery
      BY <1>2, <2>2 DEF SamplerInv
    <3>2. StreakAfter(g) = streak[g] + 1 /\ calm'[g] = Lower(Recovery, streak[g] + 1)
      BY <1>4, <2>2, <3>1 DEF StreakAfter
    <3>3. StateAfter(g) = IF streak[g] + 1 < Recovery THEN "DRIFTED" ELSE "AVAILABLE"
      BY <2>2 DEF StateAfter
    <3> QED BY <1>1, <3>1, <3>2, <3>3 DEF Lower, GpuState
  <2>3. CASE g \notin busy /\ state[g] # "DRIFTED"
    <3>1. calm[g] = Recovery /\ streak[g] \in 0 .. Recovery
      BY <1>2, <2>3 DEF SamplerInv
    <3>2. /\ StreakAfter(g) = Lower(Recovery, streak[g] + 1)
          /\ calm'[g] = Lower(Recovery, Recovery + 1) /\ StateAfter(g) = "AVAILABLE"
      BY <1>4, <2>3, <3>1 DEF StreakAfter, StateAfter
    <3> QED BY <1>1, <3>1, <3>2 DEF Lower, GpuState
  <2> QED BY <2>1, <2>2, <2>3
<1>6. ASSUME NEW g \in Gpu
      PROVE  /\ state'[g] \in GpuState /\ streak'[g] \in 0 .. Recovery
             /\ calm'[g] \in 0 .. Recovery /\ lowAge'[g] \in Age
             /\ lowAge'[g] <= lowAge[g] /\ (g \in Read \ busy => lowAge'[g] = 0)
             /\ IF state'[g] = "DRIFTED" THEN calm'[g] = streak'[g] /\ streak'[g] < Recovery
                                          ELSE calm'[g] = Recovery
  <2>1. CASE g \in Read
    BY <1>1, <1>2, <1>4, <1>5, <2>1 DEF Age
  <2>2. CASE g \notin Read
    BY <1>2, <1>3, <2>2 DEF SamplerInv, Age
  <2> QED BY <2>1, <2>2
<1>7. /\ state' = [g \in Gpu |-> state'[g]] /\ streak' = [g \in Gpu |-> streak'[g]]
      /\ calm' = [g \in Gpu |-> calm'[g]] /\ lowAge' = [g \in Gpu |-> lowAge'[g]]
  BY DEF Rows
<1>8. SamplerInv'
  BY <1>6 DEF SamplerInv
<1> QED BY <1>6, <1>7, <1>8

(* A sample stays sound when nothing else is seen than lower readings.      *)
LEMMA SoundStays ==
  ASSUME TypeOK, lowAge' \in [Gpu -> Age], \A g \in Gpu : lowAge'[g] <= lowAge[g]
  PROVE  Sound \subseteq Sound' /\ Snapshots \subseteq Snapshots'
<1>1. ASSUME NEW s \in Sound PROVE s \in Sound'
  <2>1. \A g \in Gpu : lowAge[g] \in Age /\ lowAge'[g] \in Age /\ s.taken \in Age
    BY DEF TypeOK, Sound, Sampled
  <2>2. \A g \in Gpu : g \in s.low => lowAge'[g] <= s.taken
    BY <2>1 DEF Sound, Age
  <2> QED BY <2>2 DEF Sound
<1> QED BY <1>1 DEF Snapshots

(* A sample and the readings it was made of grow old together.              *)
LEMMA SoundAges ==
  ASSUME TypeOK, lowAge' = [g \in Gpu |-> Older(lowAge[g])]
  PROVE  /\ \A s \in Sound : Aged(s) \in Sound'
         /\ \A s \in Snapshots : Aged(s) \in Snapshots'
         /\ lowAge' \in [Gpu -> Age]
<1>1. \A g \in Gpu : lowAge[g] \in Age
  BY DEF TypeOK
<1>2. ASSUME NEW s \in Sound PROVE Aged(s) \in Sound'
  <2>1. s \in Sampled /\ s # Offline /\ s # Nothing /\ s.beat \in Age /\ s.taken \in Age
    BY NoSample DEF Sound, Sampled
  <2>2. Aged(s) = [s EXCEPT !.beat = Older(s.beat), !.taken = Older(s.taken)]
    BY <2>1 DEF Aged
  <2>3. Older(s.beat) \in Age /\ Older(s.taken) \in Age
    BY <2>1, OlderKeepsOrder
  <2>4. /\ Aged(s) \in Sampled
        /\ Aged(s).state = s.state /\ Aged(s).low = s.low /\ Aged(s).calm = s.calm
        /\ Aged(s).taken = Older(s.taken)
    BY <2>1, <2>2, <2>3 DEF Sampled
  <2>5. ASSUME NEW g \in Gpu, g \in s.low PROVE lowAge'[g] <= Older(s.taken)
    <3>1. lowAge[g] <= s.taken
      BY <2>5 DEF Sound
    <3> QED BY <1>1, <2>1, <3>1, OlderKeepsOrder
  <2> QED BY <2>4, <2>5 DEF Sound
<1>3. Aged(Offline) = Offline
  BY DEF Aged
<1>4. lowAge' \in [Gpu -> Age]
  BY <1>1, OlderKeepsOrder
<1> QED BY <1>2, <1>3, <1>4 DEF Snapshots

(* What is sound depends on nothing but when each GPU was last seen low.    *)
LEMMA SoundSame ==
  ASSUME lowAge' = lowAge
  PROVE  Sound' = Sound /\ Snapshots' = Snapshots
BY DEF Sound, Snapshots

(* A sample that is on its way is one, and so is whatever is registered.    *)
LEMMA SamplesAreSamples ==
  ASSUME SamplesSound
  PROVE  /\ drawn \in Sampled \cup {Nothing} /\ known \in Sampled \cup {Offline}
         /\ Len(threads) \in Nat
         /\ \A i \in DOMAIN threads : threads[i] \in Sampled \cup {Offline}
BY DEF SamplesSound, Sound, Snapshots

-----------------------------------------------------------------------------
(* The invariant holds at first, and every action keeps it.                 *)

THEOREM InitInv == Init => Inv
<1> SUFFICES ASSUME Init PROVE Inv
  OBVIOUS
<1>1. 0 \in 0 .. MaxFault /\ 0 \in 0 .. MaxSlow /\ 0 \in 0 .. MaxThread
  OBVIOUS
<1>2. TypeOK
  <2>1. /\ state \in [Gpu -> GpuState] /\ streak \in [Gpu -> 0 .. Recovery]
        /\ calm \in [Gpu -> 0 .. Recovery] /\ lowAge \in [Gpu -> Age]
        /\ \A g \in Gpu : state[g] # "DRIFTED"
    BY DEF Init, GpuState, Age
  <2>2. Len(threads) = 0 /\ DOMAIN threads = {}
    BY DEF Init
  <2> QED BY <1>1, <2>1, <2>2 DEF Init, TypeOK
<1>3. SamplerInv
  BY DEF Init, SamplerInv
<1>4. SamplesSound
  BY DEF Init, SamplesSound, Snapshots
<1>5. ServedIsReachable
  BY DEF Init, ServedIsReachable
<1> QED BY <1>2, <1>3, <1>4, <1>5 DEF Inv

(* A reading that fails half-way.                                           *)
LEMMA SampleFailsKeeps == Inv /\ SampleFails => Inv'
<1> SUFFICES ASSUME Inv, SampleFails PROVE Inv'
  OBVIOUS
<1>1. TypeOK /\ SamplerInv /\ SamplesSound /\ ServedIsReachable
  BY DEF Inv
<1>2. PICK Read \in SUBSET Gpu : Rows(Read)
  BY DEF SampleFails
<1>3. /\ state' \in [Gpu -> GpuState] /\ streak' \in [Gpu -> 0 .. Recovery]
      /\ calm' \in [Gpu -> 0 .. Recovery] /\ lowAge' \in [Gpu -> Age]
      /\ SamplerInv' /\ \A g \in Gpu : lowAge'[g] <= lowAge[g]
  BY <1>1, <1>2, RowsKeepOrder
<1>4. Sound \subseteq Sound' /\ Snapshots \subseteq Snapshots'
  BY <1>1, <1>3, SoundStays
<1>5. UNCHANGED <<drawn, threads, known>>
  BY DEF SampleFails
<1>6. SamplesSound'
  <2>1. threads \in Seq(Snapshots')
    BY <1>1, <1>4 DEF SamplesSound
  <2> QED BY <1>1, <1>4, <1>5, <2>1 DEF SamplesSound
<1>7. ServedIsReachable'
  BY <1>1 DEF SampleFails, ServedIsReachable, hub
<1>8. TypeOK'
  <2>1. faults' \in 0 .. MaxFault
    BY <1>1 DEF SampleFails, Fails, TypeOK
  <2>2. \A g \in Gpu : state'[g] = "DRIFTED" => streak'[g] < Recovery
    BY <1>3 DEF SamplerInv
  <2> QED BY <1>1, <1>3, <2>1, <2>2 DEF SampleFails, TypeOK, hub
<1> QED BY <1>3, <1>6, <1>7, <1>8 DEF Inv

(* A reading that gives a sample.                                           *)
LEMMA SampleKeeps == Inv /\ Sample => Inv'
<1> SUFFICES ASSUME Inv, Sample PROVE Inv'
  OBVIOUS
<1>1. TypeOK /\ SamplerInv /\ SamplesSound /\ ServedIsReachable
  BY DEF Inv
<1>2. PICK n \in 1 .. GpuCount :
        /\ IF n < GpuCount THEN Fails ELSE UNCHANGED faults
        /\ Rows(0 .. n - 1)
        /\ drawn' = [beat |-> 0, taken |-> 0, state |-> state', low |-> (0 .. n - 1) \ busy,
                     calm |-> calm']
  BY DEF Sample
<1>3. 0 .. n - 1 \in SUBSET Gpu
  BY DEF Gpu
<1>4. /\ state' \in [Gpu -> GpuState] /\ streak' \in [Gpu -> 0 .. Recovery]
      /\ calm' \in [Gpu -> 0 .. Recovery] /\ lowAge' \in [Gpu -> Age]
      /\ SamplerInv'
      /\ \A g \in Gpu : lowAge'[g] <= lowAge[g] /\ (g \in (0 .. n - 1) \ busy => lowAge'[g] = 0)
  BY <1>1, <1>2, <1>3, RowsKeepOrder
<1>5. Sound \subseteq Sound' /\ Snapshots \subseteq Snapshots'
  BY <1>1, <1>4, SoundStays
<1>6. drawn' \in Sound'
  <2>1. /\ drawn'.state = state' /\ drawn'.calm = calm' /\ drawn'.taken = 0
        /\ drawn'.low = (0 .. n - 1) \ busy
    BY <1>2
  <2>2. drawn' \in Sampled
    <3>1. 0 \in Age /\ (0 .. n - 1) \ busy \in SUBSET Gpu
      BY <1>3 DEF Age
    <3> QED BY <1>2, <1>4, <3>1 DEF Sampled
  <2>3. \A g \in Gpu : state'[g] = "AVAILABLE" => calm'[g] = Recovery
    BY <1>4 DEF SamplerInv
  <2>4. \A g \in Gpu : g \in drawn'.low => lowAge'[g] <= drawn'.taken
    BY <1>4, <2>1
  <2> QED BY <2>1, <2>2, <2>3, <2>4 DEF Sound
<1>7. SamplesSound'
  <2>1. threads \in Seq(Snapshots')
    BY <1>1, <1>5 DEF SamplesSound
  <2> QED BY <1>1, <1>5, <1>6, <2>1 DEF SamplesSound, Sample
<1>8. ServedIsReachable'
  BY <1>1 DEF Sample, ServedIsReachable, hub
<1>9. TypeOK'
  <2>1. faults' \in 0 .. MaxFault
    BY <1>1, <1>2 DEF Fails, TypeOK
  <2>2. \A g \in Gpu : state'[g] = "DRIFTED" => streak'[g] < Recovery
    BY <1>4 DEF SamplerInv
  <2>3. drawn' \in Sampled \cup {Nothing}
    BY <1>6 DEF Sound
  <2> QED BY <1>1, <1>4, <2>1, <2>2, <2>3 DEF Sample, TypeOK, hub
<1> QED BY <1>4, <1>7, <1>8, <1>9 DEF Inv

(* A heartbeat that is sent, and perhaps given to a thread.                 *)
LEMMA BeatKeeps == Inv /\ Beat => Inv'
<1> SUFFICES ASSUME Inv, Beat PROVE Inv'
  OBVIOUS
<1>1. TypeOK /\ SamplerInv /\ SamplesSound /\ ServedIsReachable
  BY DEF Inv
<1>2. Sound' = Sound /\ Snapshots' = Snapshots
  BY SoundSame DEF Beat, sampler
<1>3. drawn \in Sound /\ Beating \in Sound
  <2>1. drawn \in Sound
    BY <1>1 DEF Beat, SamplesSound
  <2>2. Beating = [drawn EXCEPT !.beat = 0] /\ drawn \in Sampled /\ 0 \in Age
    BY <2>1 DEF Beating, Sound, Age
  <2>3. /\ Beating \in Sampled /\ Beating.state = drawn.state /\ Beating.low = drawn.low
        /\ Beating.calm = drawn.calm /\ Beating.taken = drawn.taken
    BY <2>2 DEF Sampled
  <2> QED BY <2>1, <2>3 DEF Sound
<1>4. threads' \in Seq(Snapshots) /\ Len(threads') \in 0 .. MaxThread
  <2>1. threads \in Seq(Snapshots) /\ Len(threads) \in 0 .. MaxThread /\ Beating \in Snapshots
    BY <1>1, <1>3 DEF SamplesSound, TypeOK, Snapshots
  <2>2. CASE Taken
    BY <2>1, <2>2, OneAdded DEF Taken, Room
  <2>3. CASE UNCHANGED threads
    BY <2>1, <2>3
  <2> QED BY <2>2, <2>3 DEF Beat, EndsAtGap, Lost
<1>5. SamplesSound'
  BY <1>1, <1>2, <1>4 DEF Beat, SamplesSound
<1>6. SamplerInv'
  BY <1>1 DEF Beat, SamplerInv, sampler
<1>7. ServedIsReachable'
  BY <1>1 DEF Beat, Taken, EndsAtGap, Lost, ServedIsReachable
<1>8. TypeOK'
  <2>1. /\ drawn' \in Sampled \cup {Nothing} /\ known' \in Sampled \cup {Offline}
        /\ \A i \in DOMAIN threads' : threads'[i] \in Sampled \cup {Offline}
    BY <1>2, <1>4, <1>5 DEF SamplesSound, Sound, Snapshots
  <2>2. /\ last' \in BOOLEAN /\ conn' \in {"none", "asked"} \cup Open
        /\ serving' \in {"none", "live", "broken"} /\ gap' \subseteq Direction
    BY <1>1 DEF Beat, Taken, EndsAtGap, Lost, TypeOK, Open, Direction
  <2> QED BY <1>1, <1>4, <2>1, <2>2 DEF Beat, TypeOK, sampler
<1> QED BY <1>5, <1>6, <1>7, <1>8 DEF Inv

(* A registration that is done.                                             *)
LEMMA RegisterKeeps == Inv /\ Register => Inv'
<1> SUFFICES ASSUME Inv, Register PROVE Inv'
  OBVIOUS
<1>1. TypeOK /\ SamplerInv /\ SamplesSound /\ ServedIsReachable
  BY DEF Inv
<1>2. Sound' = Sound /\ Snapshots' = Snapshots
  BY SoundSame DEF Register, sampler
<1>3. PICK i \in 1 .. Len(threads) : known' = threads[i] /\ threads' = RemoveAt(threads, i)
  BY DEF Register
<1>4. threads \in Seq(Snapshots) /\ Len(threads) \in 0 .. MaxThread
  BY <1>1 DEF SamplesSound, TypeOK
<1>5. /\ threads' \in Seq(Snapshots) /\ Len(threads') = Len(threads) - 1
      /\ known' \in Snapshots
  BY <1>3, <1>4, OneRemoved
<1>6. SamplesSound'
  BY <1>1, <1>2, <1>5 DEF Register, SamplesSound, client
<1>7. SamplerInv'
  BY <1>1 DEF Register, SamplerInv, sampler
<1>8. ServedIsReachable'
  BY <1>1 DEF Register, ServedIsReachable, hub, client
<1>9. TypeOK'
  <2>1. /\ drawn' \in Sampled \cup {Nothing} /\ known' \in Sampled \cup {Offline}
        /\ \A j \in DOMAIN threads' : threads'[j] \in Sampled \cup {Offline}
    BY <1>2, <1>5, <1>6 DEF SamplesSound, Sound, Snapshots
  <2>2. Len(threads') \in 0 .. MaxThread
    BY <1>3, <1>4, <1>5
  <2> QED BY <1>1, <2>1, <2>2 DEF Register, TypeOK, hub, client, sampler
<1> QED BY <1>6, <1>7, <1>8, <1>9 DEF Inv

(* Ten seconds.                                                             *)
LEMMA TickKeeps == Inv /\ Tick => Inv'
<1> SUFFICES ASSUME Inv, Tick PROVE Inv'
  OBVIOUS
<1>1. TypeOK /\ SamplerInv /\ SamplesSound /\ ServedIsReachable
  BY DEF Inv
<1>2. /\ \A s \in Sound : Aged(s) \in Sound'
      /\ \A s \in Snapshots : Aged(s) \in Snapshots'
      /\ lowAge' \in [Gpu -> Age]
  BY <1>1, SoundAges DEF Tick
<1>3. Aged(Nothing) = Nothing
  BY DEF Aged
<1>4. threads \in Seq(Snapshots) /\ Len(threads) \in 0 .. MaxThread
  BY <1>1 DEF SamplesSound, TypeOK
<1>5. threads' \in Seq(Snapshots') /\ Len(threads') = Len(threads)
  <2>1. DOMAIN threads = 1 .. Len(threads) /\ \A i \in 1 .. Len(threads) : threads[i] \in Snapshots
    BY <1>4
  <2>2. threads' = [i \in 1 .. Len(threads) |-> Aged(threads[i])]
    BY <2>1 DEF Tick
  <2>3. threads' \in [1 .. Len(threads) -> Snapshots']
    BY <1>2, <2>1, <2>2
  <2> QED BY <1>4, <2>3
<1>6. SamplesSound'
  <2>1. drawn' = Aged(drawn) /\ known' = Aged(known)
    BY DEF Tick
  <2>2. drawn' \in Sound' \cup {Nothing} /\ known' \in Snapshots'
    BY <1>1, <1>2, <1>3, <2>1 DEF SamplesSound
  <2> QED BY <1>5, <2>2 DEF SamplesSound
<1>7. SamplerInv'
  BY <1>1 DEF Tick, SamplerInv
<1>8. ServedIsReachable'
  BY <1>1 DEF Tick, ServedIsReachable, hub
<1>9. TypeOK'
  <2>1. /\ drawn' \in Sampled \cup {Nothing} /\ known' \in Sampled \cup {Offline}
        /\ \A j \in DOMAIN threads' : threads'[j] \in Sampled \cup {Offline}
    BY <1>5, <1>6 DEF SamplesSound, Sound, Snapshots
  <2>2. slow' \in 0 .. MaxSlow
    BY <1>1 DEF Tick, TypeOK
  <2>3. Len(threads') \in 0 .. MaxThread
    BY <1>4, <1>5
  <2> QED BY <1>1, <1>2, <2>1, <2>2, <2>3 DEF Tick, TypeOK, hub
<1> QED BY <1>6, <1>7, <1>8, <1>9 DEF Inv

(* The hub has lost a Worker, and perhaps registers it as offline.          *)
LEMMA HubNoticesKeeps == Inv /\ HubNotices => Inv'
<1> SUFFICES ASSUME Inv, HubNotices PROVE Inv'
  OBVIOUS
<1>1. TypeOK /\ SamplerInv /\ SamplesSound /\ ServedIsReachable
  BY DEF Inv
<1>2. Sound' = Sound /\ Snapshots' = Snapshots
  BY SoundSame DEF HubNotices, sampler
<1>3. threads' \in Seq(Snapshots) /\ Len(threads') \in 0 .. MaxThread
  <2>1. threads \in Seq(Snapshots) /\ Len(threads) \in 0 .. MaxThread /\ Offline \in Snapshots
    BY <1>1 DEF SamplesSound, TypeOK, Snapshots
  <2>2. CASE last
    BY <2>1, <2>2, OneAdded DEF HubNotices, Room
  <2>3. CASE ~last
    BY <2>1, <2>3 DEF HubNotices
  <2> QED BY <2>2, <2>3
<1>4. SamplesSound'
  BY <1>1, <1>2, <1>3 DEF HubNotices, SamplesSound, client
<1>5. SamplerInv'
  BY <1>1 DEF HubNotices, SamplerInv, sampler
<1>6. ServedIsReachable'
  BY <1>1 DEF HubNotices, ServedIsReachable, client
<1>7. TypeOK'
  <2>1. /\ drawn' \in Sampled \cup {Nothing} /\ known' \in Sampled \cup {Offline}
        /\ \A j \in DOMAIN threads' : threads'[j] \in Sampled \cup {Offline}
    BY <1>2, <1>3, <1>4 DEF SamplesSound, Sound, Snapshots
  <2> QED BY <1>1, <1>3, <2>1 DEF HubNotices, TypeOK, client, sampler
<1> QED BY <1>4, <1>5, <1>6, <1>7 DEF Inv

(* Either side starts anew.                                                 *)
LEMMA WorkerStopsKeeps == Inv /\ (WorkerStops \/ WorkerExits) => Inv'
<1> SUFFICES ASSUME Inv, WorkerStops \/ WorkerExits PROVE Inv'
  OBVIOUS
<1>0. Stops /\ (Fails \/ UNCHANGED faults)
  BY DEF WorkerStops, WorkerExits
<1>1. TypeOK /\ SamplerInv /\ SamplesSound /\ ServedIsReachable
  BY DEF Inv
<1>2. Sound' = Sound /\ Snapshots' = Snapshots
  BY <1>0, SoundSame DEF Stops
<1>3. SamplesSound'
  BY <1>0, <1>1, <1>2 DEF Stops, SamplesSound
<1>4. /\ state' \in [Gpu -> GpuState] /\ streak' \in [Gpu -> 0 .. Recovery]
      /\ calm' \in [Gpu -> 0 .. Recovery] /\ \A g \in Gpu : state'[g] # "DRIFTED"
      /\ \A g \in Gpu : calm'[g] = Recovery
  BY <1>0 DEF Stops, GpuState
<1>5. SamplerInv'
  BY <1>4 DEF SamplerInv
<1>6. ServedIsReachable'
  BY <1>0, <1>1 DEF Stops, ServedIsReachable, TypeOK
<1>7. TypeOK'
  <2>1. faults' \in 0 .. MaxFault /\ serving' \in {"none", "live", "broken"}
    BY <1>0, <1>1 DEF Stops, Fails, TypeOK
  <2>2. gap' \subseteq Direction
    BY <1>0, <1>1 DEF Stops, Lose, TypeOK
  <2> QED BY <1>0, <1>1, <1>4, <2>1, <2>2 DEF Stops, TypeOK
<1> QED BY <1>3, <1>5, <1>6, <1>7 DEF Inv

LEMMA MasterRestartsKeeps == Inv /\ MasterRestarts => Inv'
<1> SUFFICES ASSUME Inv, MasterRestarts PROVE Inv'
  OBVIOUS
<1>1. TypeOK /\ SamplerInv /\ SamplesSound /\ ServedIsReachable
  BY DEF Inv
<1>2. Sound' = Sound /\ Snapshots' = Snapshots
  BY SoundSame DEF MasterRestarts, sampler
<1>3. SamplesSound'
  BY <1>1, <1>2 DEF MasterRestarts, SamplesSound, Snapshots
<1>4. SamplerInv'
  BY <1>1 DEF MasterRestarts, SamplerInv, sampler
<1>5. ServedIsReachable'
  BY DEF MasterRestarts, ServedIsReachable
<1>6. TypeOK'
  <2>1. faults' \in 0 .. MaxFault
    BY <1>1 DEF MasterRestarts, Fails, TypeOK
  <2>2. Len(threads') = 0 /\ DOMAIN threads' = {} /\ 0 \in 0 .. MaxThread
    BY DEF MasterRestarts
  <2>3. drawn' \in Sampled \cup {Nothing} /\ known' \in Sampled \cup {Offline}
    BY <1>1 DEF MasterRestarts, TypeOK
  <2>4. conn' \in {"none", "asked"} \cup Open
    BY DEF MasterRestarts, Open
  <2>5. /\ state' \in [Gpu -> GpuState] /\ streak' \in [Gpu -> 0 .. Recovery]
        /\ \A g \in Gpu : state'[g] = "DRIFTED" => streak'[g] < Recovery
        /\ calm' \in [Gpu -> 0 .. Recovery] /\ lowAge' \in [Gpu -> Age]
    BY <1>1 DEF MasterRestarts, TypeOK, sampler
  <2>6. gap' \subseteq Direction
    BY <1>1 DEF MasterRestarts, Lose, TypeOK
  <2> QED BY <1>1, <2>1, <2>2, <2>3, <2>4, <2>5, <2>6 DEF MasterRestarts, TypeOK
<1> QED BY <1>3, <1>4, <1>5, <1>6 DEF Inv

(* What happens to the web socket alone, to the process and to the GPUs.    *)
Elsewhere == Connect \/ Serve \/ Break \/ WorkerNotices \/ WorkerStarts \/ Load

LEMMA ElsewhereKeeps == Inv /\ Elsewhere => Inv'
<1> SUFFICES ASSUME Inv, Elsewhere PROVE Inv'
  OBVIOUS
<1>1. TypeOK /\ SamplerInv /\ SamplesSound /\ ServedIsReachable
  BY DEF Inv
<1>2. UNCHANGED <<sampler, threads, known, slow>> /\ (UNCHANGED drawn \/ drawn' = Nothing)
  BY DEF Elsewhere, Connect, Serve, Break, WorkerNotices, WorkerStarts, Load, client
<1>3. Sound' = Sound /\ Snapshots' = Snapshots
  BY <1>2, SoundSame DEF sampler
<1>4. SamplesSound'
  BY <1>1, <1>2, <1>3 DEF SamplesSound
<1>5. SamplerInv'
  BY <1>1, <1>2 DEF SamplerInv, sampler
<1>6. ServedIsReachable'
  BY <1>1 DEF Elsewhere, Connect, Serve, Refuse, Break, WorkerNotices, WorkerStarts, Load,
              ServedIsReachable, client, hub
<1>7. TypeOK'
  <2>1. /\ conn' \in {"none", "asked"} \cup Open /\ serving' \in {"none", "live", "broken"}
        /\ due' \in BOOLEAN /\ entry' \in BOOLEAN /\ last' \in BOOLEAN
        /\ process' \in {"up", "down"} /\ faults' \in 0 .. MaxFault
    <3>1. faults \in 0 .. MaxFault /\ Break => faults' \in 0 .. MaxFault
      BY DEF Break, Fails
    <3>2. ~Break => UNCHANGED faults
      BY DEF Elsewhere, Connect, Serve, WorkerNotices, WorkerStarts, Load
    <3>3. faults' \in 0 .. MaxFault
      BY <1>1, <3>1, <3>2 DEF TypeOK
    <3>4. CASE Connect \/ Serve
      BY <1>1, <3>3, <3>4 DEF Connect, Serve, Refuse, TypeOK, Open, hub
    <3>5. CASE Break \/ WorkerNotices
      BY <1>1, <3>3, <3>5 DEF Break, WorkerNotices, TypeOK, Open, hub
    <3>6. CASE WorkerStarts \/ Load
      BY <1>1, <3>3, <3>6 DEF WorkerStarts, Load, TypeOK, client, hub
    <3> QED BY <3>4, <3>5, <3>6 DEF Elsewhere
  <2>2. busy' \subseteq Gpu
    BY <1>1 DEF Elsewhere, Connect, Serve, Break, WorkerNotices, WorkerStarts, Load, TypeOK
  <2>3. drawn' \in Sampled \cup {Nothing}
    BY <1>4 DEF SamplesSound, Sound
  <2>4. gap' \subseteq Direction
    <3>1. CASE Break
      BY <1>1, <3>1 DEF Break, Lose, TypeOK
    <3>2. CASE ~Break
      BY <1>1, <3>2 DEF Elsewhere, Connect, Serve, WorkerNotices, WorkerStarts, Load, TypeOK
    <3> QED BY <3>1, <3>2
  <2> QED BY <1>1, <1>2, <2>1, <2>2, <2>3, <2>4 DEF TypeOK, sampler
<1> QED BY <1>4, <1>5, <1>6, <1>7 DEF Inv

(* Every step keeps the invariant.                                          *)
THEOREM NextInv == Inv /\ [Next]_vars => Inv'
<1> SUFFICES ASSUME Inv, [Next]_vars PROVE Inv'
  OBVIOUS
<1>1. CASE Elsewhere
  BY <1>1, ElsewhereKeeps
<1>2. CASE SampleFails \/ Sample \/ Beat
  BY <1>2, SampleFailsKeeps, SampleKeeps, BeatKeeps
<1>3. CASE HubNotices \/ Register \/ Tick
  BY <1>3, HubNoticesKeeps, RegisterKeeps, TickKeeps
<1>4. CASE WorkerStops \/ WorkerExits \/ MasterRestarts
  BY <1>4, WorkerStopsKeeps, MasterRestartsKeeps
<1>5. CASE UNCHANGED vars
  <2>1. Sound' = Sound /\ Snapshots' = Snapshots
    BY <1>5, SoundSame DEF vars, sampler
  <2> QED BY <1>5, <2>1 DEF vars, sampler, client, hub, Inv, TypeOK, SamplerInv, SamplesSound,
                            ServedIsReachable
<1> QED BY <1>1, <1>2, <1>3, <1>4, <1>5 DEF Next, Elsewhere

-----------------------------------------------------------------------------
(* What holds of every reachable state.                                     *)

THEOREM PresenceCorrect == Spec => []Inv
<1>1. Init => Inv
  BY InitInv
<1>2. Inv /\ [Next]_vars => Inv'
  BY NextInv
<1> QED BY <1>1, <1>2, PTL DEF Spec

(* Every variable holds a value of its kind, and a GPU that is DRIFTED      *)
(* still lacks low readings, whatever fails, is late or overtakes           *)
(* (HySmiSampler.sample).                                                   *)
THEOREM TypeCorrect == Spec => []TypeOK
<1>1. Inv => TypeOK
  BY DEF Inv
<1> QED BY <1>1, PresenceCorrect, PTL

(* Whatever the scheduler may give away was seen low within the limit, by a *)
(* Worker process with no high reading among its last ones                  *)
(* (HySmiSampler.sample and _select_gpus, with everything between them).    *)
THEOREM AdmissionSafe == Spec => []AdmittedWasLow
<1>1. Inv => AdmittedWasLow
  <2> SUFFICES ASSUME Inv, NEW g \in Gpu, Admitted(g)
               PROVE  known.calm[g] = Recovery /\ lowAge[g] <= Valid
    BY DEF AdmittedWasLow
  <2>1. known \in Sound
    BY DEF Inv, SamplesSound, Snapshots, Admitted
  <2>2. known.taken <= Valid /\ known.taken \in Age /\ lowAge[g] \in Age
    BY <2>1 DEF Admitted, Fresh, Inv, TypeOK, Sound, Sampled
  <2>3. known.calm[g] = Recovery /\ lowAge[g] <= known.taken
    BY <2>1 DEF Admitted, Sound
  <2> QED BY <2>2, <2>3 DEF Age
<1> QED BY <1>1, PresenceCorrect, PTL

(* A Worker with a served web socket can be called over it, and a Worker is *)
(* in _connections exactly while serve works on a web socket of it          *)
(* (WorkerHub.serve).                                                       *)
THEOREM ServedCorrect == Spec => []ServedIsReachable
<1>1. Inv => ServedIsReachable
  BY DEF Inv
<1> QED BY <1>1, PresenceCorrect, PTL
=============================================================================
