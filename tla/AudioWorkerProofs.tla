-------------------------- MODULE AudioWorkerProofs --------------------------
(***************************************************************************)
(* Proofs about the audio threads: for every length of period and ring and *)
(* every order of reads, overruns, recoveries, hang-ups and stops, what is *)
(* sent is whole, its breaks are flagged and its end is announced.         *)
(***************************************************************************)
EXTENDS AudioWorker, SequenceTheorems, TLAPS

Devices == [state : {"running", "xrun", "gone"}, read : Nat, end : Nat]

TypeOK ==
  /\ backend \in {"alsa", "arecord"}
  /\ now \in Nat
  /\ device \in Devices
  /\ worker \in {"loop", "wait", "read", "status", "done"}
  /\ samples \in Seq(Nat)
  /\ gap \in BOOLEAN
  /\ listening \in BOOLEAN /\ running \in BOOLEAN

(* A device that runs has recorded up to now, and nothing is read twice or  *)
(* before it was recorded.                                                  *)
Recorded == /\ device.read <= device.end
            /\ device.state = "running" => device.end = now

(* Frames of the period under way. *)
InPeriod == IF worker \in {"read", "status"} THEN Len(samples) ELSE 0

(* They are the last ones read. *)
Filling ==
  /\ worker \in {"read", "status"} =>
       /\ Len(samples) <= Period /\ Len(samples) <= device.read
       /\ \A i \in 1 .. Len(samples) :
            samples[i] = device.read - Len(samples) + i - 1
  /\ worker = "status" => Len(samples) = Period
  /\ backend = "arecord" => worker \in {"loop", "done"}

(* Unless a loss is remembered the period under way follows the last chunk;  *)
(* but for a period the lowered flag cut short, after which nothing is sent. *)
Following ==
  /\ chunk # NONE /\ ~gap /\ worker # "done" /\ (worker = "loop" => running)
       => device.read - InPeriod = chunk.samples[Period] + 1
  /\ backend = "arecord" => running

AudioInv == /\ TypeOK /\ Recorded /\ Filling /\ Following
            /\ ChunkIsOnePeriod /\ GapReported /\ EndAnnounced

-----------------------------------------------------------------------------
(* A run of consecutive numbers is a sequence. *)
LEMMA RunIsSeq ==
  ASSUME NEW from \in Nat, NEW n \in Nat
  PROVE  LET run == [i \in 1 .. n |-> from + i - 1]
         IN  /\ run \in Seq(Nat) /\ Len(run) = n
             /\ \A i \in 1 .. n : run[i] = from + i - 1
OBVIOUS

(* Frames leave a device. *)
LEMMA ReadOn ==
  ASSUME NEW d \in Devices, NEW n \in Nat
  PROVE  LET e == [d EXCEPT !.read = @ + n]
         IN  /\ e \in Devices /\ e.read = d.read + n
             /\ e.end = d.end /\ e.state = d.state
BY SMT DEF Devices

(* The arithmetic of first_sample_timestamp_ns. *)
LEMMA Backwards ==
  ASSUME NEW t \in Nat, NEW end \in Nat, NEW read \in Nat, read <= end,
         NEW n \in Nat, n <= read
  PROVE  LET at == IF t >= end - read + n THEN t - (end - read + n) ELSE 0
         IN  /\ at \in Nat
             /\ end = t => at = read - n
OBVIOUS

LEMMA AudioInit == Init => AudioInv
<1> SUFFICES ASSUME Init PROVE AudioInv
  OBVIOUS
<1>1. samples \in Seq(Nat) BY EmptySeq DEF Init
<1>2. /\ device \in Devices /\ Recorded
      /\ worker = "loop" /\ backend \in {"alsa", "arecord"} /\ now \in Nat
  BY DEF Init, Devices, Recorded
<1>3. TypeOK BY <1>1, <1>2 DEF Init, TypeOK
<1>4. Filling /\ Following BY <1>2 DEF Init, Filling, Following
<1> QED BY <1>2, <1>3, <1>4
        DEF Init, AudioInv, ChunkIsOnePeriod, GapReported, EndAnnounced

(* A thread that leaves with a last word. *)
LEMMA Ending ==
  ASSUME AudioInv, NEW event \in {"Closed", "Failed"}, EndWith(event),
         UNCHANGED device
  PROVE  AudioInv'
BY DEF AudioInv, EndWith, threadVars, ownerVars, TypeOK, Recorded, InPeriod,
       Filling, Following, ChunkIsOnePeriod, GapReported, EndAnnounced

(* What a whole period becomes. *)
LEMMA Emitted ==
  ASSUME AudioInv, NEW observed \in Nat, Emit(observed),
         samples' \in Seq(Nat), Len(samples') = Period,
         NEW first \in Nat,
         \A i \in 1 .. Period : samples'[i] = first + i - 1,
         backend = "alsa" /\ device.state = "running" => observed = first,
         chunk # NONE /\ ~gap => first = chunk.samples[Period] + 1
  PROVE  /\ ChunkIsOnePeriod' /\ GapReported' /\ gap' = FALSE
         /\ chunk'.samples[Period] = first + Period - 1
<1>1. samples'[1] = first /\ samples'[Period] = first + Period - 1
  BY AudioAssumption
<1>2. /\ chunk'.samples = samples' /\ chunk'.observed = observed
      /\ chunk'.source_discontinuity = gap
      /\ chunk'.exact <=> backend = "alsa" /\ device.state = "running"
      /\ chunk'.joined <=> chunk = NONE \/ samples'[1] = chunk.samples[Period] + 1
      /\ gap' = FALSE
  BY DEF Emit
<1>3. ChunkIsOnePeriod' BY <1>1, <1>2 DEF ChunkIsOnePeriod
<1>4. GapReported' BY <1>1, <1>2 DEF GapReported
<1> QED BY <1>1, <1>2, <1>3, <1>4

(* run_alsa_capture. *)
LEMMA AlsaStep ==
  ASSUME AudioInv,
         AlsaLoop \/ AlsaWait \/ AlsaRead \/ AlsaRecover \/ AlsaPeriod
           \/ AlsaSend \/ AlsaOverruns \/ AlsaFails
  PROVE  AudioInv'
<1> USE DEF AudioInv, TypeOK, Devices
<1>1. CASE AlsaLoop
  <2>1. CASE running
    BY <1>1, <2>1 DEF AlsaLoop, threadVars, ownerVars, Recorded, InPeriod,
       Filling, Following, ChunkIsOnePeriod, GapReported, EndAnnounced
  <2>2. CASE ~running BY <1>1, <2>2, Ending DEF AlsaLoop
  <2> QED BY <2>1, <2>2
<1>2. CASE AlsaWait
  BY <1>2, EmptySeq, AudioAssumption DEF AlsaWait, ownerVars, Recorded,
     InPeriod, Filling, Following, ChunkIsOnePeriod, GapReported, EndAnnounced
<1>3. CASE AlsaRead
  <2>1. PICK n \in 1 .. Period - Len(samples) :
          /\ n <= Available
          /\ samples' = samples \o [i \in 1 .. n |-> device.read + i - 1]
          /\ device' = [device EXCEPT !.read = @ + n]
    BY <1>3 DEF AlsaRead
  <2> DEFINE run == [i \in 1 .. n |-> device.read + i - 1]
  <2>2. /\ n \in Nat /\ worker = "read" /\ Period \in Nat /\ Len(samples) \in Nat
        /\ n <= Period - Len(samples) /\ device.read \in Nat
    BY <1>3, AudioAssumption DEF AlsaRead, Reading
  <2>3. /\ run \in Seq(Nat) /\ Len(run) = n
        /\ \A i \in 1 .. n : run[i] = device.read + i - 1
    BY <2>2, RunIsSeq
  <2> HIDE DEF run
  <2>4. /\ samples' \in Seq(Nat) /\ Len(samples') = Len(samples) + n
        /\ \A i \in 1 .. Len(samples) + n :
             samples'[i] = IF i <= Len(samples) THEN samples[i]
                           ELSE run[i - Len(samples)]
    <3>1. samples' = samples \o run BY <2>1 DEF run
    <3>2. samples \in Seq(Nat) OBVIOUS
    <3> HIDE DEF AudioInv
    <3>3. /\ samples \o run \in Seq(Nat)
          /\ Len(samples \o run) = Len(samples) + Len(run)
          /\ \A i \in 1 .. Len(samples) + Len(run) :
               (samples \o run)[i] = IF i <= Len(samples) THEN samples[i]
                                     ELSE run[i - Len(samples)]
      BY <2>3, <3>2, ConcatProperties
    <3> QED BY <2>3, <3>1, <3>3
  <2>5. \A i \in 1 .. Len(samples') :
          samples'[i] = device.read - Len(samples) + i - 1
    <3> TAKE i \in 1 .. Len(samples')
    <3>1. CASE i <= Len(samples)
      <4>1. i \in 1 .. Len(samples) /\ i \in 1 .. Len(samples) + n
        BY <2>2, <2>4, <3>1
      <4>2. samples[i] = device.read - Len(samples) + i - 1
        BY <2>2, <4>1 DEF Filling
      <4> QED BY <2>4, <3>1, <4>1, <4>2
    <3>2. CASE i > Len(samples)
      <4>1. i - Len(samples) \in 1 .. n BY <2>2, <2>4, <3>2
      <4>2. samples'[i] = run[i - Len(samples)] BY <2>2, <2>4, <3>2
      <4> QED BY <2>2, <2>3, <4>1, <4>2
    <3> QED BY <2>2, <2>4, <3>1, <3>2
  <2>6. /\ device'.read = device.read + n /\ device'.end = device.end
        /\ device'.state = device.state
        /\ device' \in Devices
    BY <2>1, <2>2, ReadOn
  <2>7. /\ worker' = worker
        /\ UNCHANGED << now, gap, clock, chunk, final, ownerVars >>
    BY <1>3 DEF AlsaRead
  <2>8. TypeOK' BY <2>4, <2>6, <2>7 DEF ownerVars
  <2>9. Recorded' BY <2>1, <2>2, <2>6, <2>7 DEF Recorded, Available
  <2>10. Filling'
    <3>1. /\ Len(samples') <= Period /\ Len(samples') <= device'.read
          /\ device'.read - Len(samples') = device.read - Len(samples)
      BY <2>2, <2>4, <2>6 DEF Filling
    <3>2. \A i \in 1 .. Len(samples') :
            samples'[i] = device'.read - Len(samples') + i - 1
      BY <2>5, <3>1
    <3> QED BY <2>2, <2>7, <3>1, <3>2 DEF Filling, ownerVars
  <2>11. Following'
    BY <2>2, <2>4, <2>6, <2>7 DEF Following, InPeriod, ownerVars
  <2> QED BY <2>7, <2>8, <2>9, <2>10, <2>11
          DEF ownerVars, ChunkIsOnePeriod, GapReported, EndAnnounced
<1>4. CASE AlsaRecover
  BY <1>4, EmptySeq, AudioAssumption DEF AlsaRecover, Reading, ownerVars,
     Recorded, InPeriod, Filling, Following, ChunkIsOnePeriod, GapReported,
     EndAnnounced
<1>5. CASE AlsaPeriod
  <2>1. CASE Len(samples) = Period
    BY <1>5, <2>1, AudioAssumption DEF AlsaPeriod, threadVars, ownerVars,
       Recorded, InPeriod, Filling, Following, ChunkIsOnePeriod, GapReported,
       EndAnnounced
  <2>2. CASE Len(samples) # Period
    <3>1. ~running
      BY <1>5, <2>2, AudioAssumption DEF AlsaPeriod, Reading, Filling
    <3> QED BY <1>5, <2>2, <3>1 DEF AlsaPeriod, threadVars, ownerVars,
       Recorded, InPeriod, Filling, Following, ChunkIsOnePeriod, GapReported,
       EndAnnounced
  <2> QED BY <2>1, <2>2
<1>6. CASE AlsaSend
  <2> DEFINE first == device.read - Period
  <2>1. /\ worker = "status" /\ samples' = samples /\ Emit(FirstSampleTimestamp)
        /\ worker' = (IF listening THEN "loop" ELSE "done")
        /\ UNCHANGED << now, device, final, ownerVars >>
    BY <1>6 DEF AlsaSend
  <2>2. /\ first \in Nat /\ Len(samples) = Period /\ Period \in Nat \ {0}
        /\ \A i \in 1 .. Period : samples[i] = first + i - 1
    BY <2>1, AudioAssumption DEF Filling
  <2>3. /\ FirstSampleTimestamp \in Nat
        /\ device.state = "running" => FirstSampleTimestamp = first
    <3>1. /\ now \in Nat /\ device.end \in Nat /\ device.read \in Nat
          /\ device.read <= device.end /\ Period <= device.read
      BY <2>2 DEF Recorded
    <3> QED BY <2>2, <3>1, Backwards DEF FirstSampleTimestamp, Available, Recorded
  <2>4. chunk # NONE /\ ~gap => first = chunk.samples[Period] + 1
    BY <2>1, <2>2 DEF Following, InPeriod
  <2> HIDE DEF first
  <2>5. /\ ChunkIsOnePeriod' /\ GapReported' /\ gap' = FALSE
        /\ chunk'.samples[Period] = first + Period - 1
    BY <2>1, <2>2, <2>3, <2>4, Emitted
  <2>6. Following'
    <3>1. InPeriod' = 0 BY <2>1 DEF InPeriod
    <3>2. device'.read = first + Period BY <2>1, <2>2 DEF first
    <3> QED BY <2>1, <2>2, <2>5, <3>1, <3>2 DEF Following, ownerVars
  <2> QED BY <2>1, <2>2, <2>5, <2>6 DEF ownerVars, Recorded, Filling, EndAnnounced
<1>7. CASE AlsaOverruns BY <1>7, Ending DEF AlsaOverruns
<1>8. CASE AlsaFails BY <1>8, Ending DEF AlsaFails
<1> QED BY <1>1, <1>2, <1>3, <1>4, <1>5, <1>6, <1>7, <1>8

(* The arecord thread. *)
LEMMA ArecordStep ==
  ASSUME AudioInv, ArecordPeriod \/ ArecordEnds \/ ArecordFails \/ ChildExits
  PROVE  AudioInv'
<1> USE DEF AudioInv, TypeOK, Devices
<1>1. CASE ArecordPeriod
  <2> DEFINE first == device.read
  <2>1. /\ worker = "loop" /\ Available >= Period /\ backend = "arecord"
        /\ samples' = [i \in 1 .. Period |-> first + i - 1]
        /\ device' = [device EXCEPT !.read = @ + Period]
        /\ Emit(IF now >= Period THEN now - Period ELSE 0)
        /\ worker' = (IF listening THEN "loop" ELSE "done")
        /\ UNCHANGED << now, final, ownerVars >>
    BY <1>1 DEF ArecordPeriod
  <2>2. /\ first \in Nat /\ Period \in Nat
        /\ (IF now >= Period THEN now - Period ELSE 0) \in Nat
    BY AudioAssumption
  <2>3. /\ samples' \in Seq(Nat) /\ Len(samples') = Period
        /\ \A i \in 1 .. Period : samples'[i] = first + i - 1
    BY <2>1, <2>2, RunIsSeq
  <2>4. chunk # NONE /\ ~gap => first = chunk.samples[Period] + 1
    BY <2>1, <2>2 DEF Following, InPeriod
  <2>5. /\ device'.read = first + Period /\ device'.end = device.end
        /\ device'.state = device.state
        /\ device' \in Devices
    BY <2>1, <2>2, ReadOn
  <2> HIDE DEF first
  <2>6. /\ ChunkIsOnePeriod' /\ GapReported' /\ gap' = FALSE
        /\ chunk'.samples[Period] = first + Period - 1
    BY <2>1, <2>2, <2>3, <2>4, Emitted
  <2>7. Following'
    <3>1. InPeriod' = 0 BY <2>1 DEF InPeriod
    <3> QED BY <2>1, <2>2, <2>5, <2>6, <3>1 DEF Following, ownerVars
  <2>8. Recorded' BY <2>1, <2>2, <2>5 DEF Recorded, Available, first
  <2> QED BY <2>1, <2>3, <2>5, <2>6, <2>7, <2>8
          DEF ownerVars, Filling, EndAnnounced
<1>2. CASE ArecordEnds BY <1>2, Ending DEF ArecordEnds
<1>3. CASE ArecordFails BY <1>3, Ending DEF ArecordFails
<1>4. CASE ChildExits
  BY <1>4 DEF ChildExits, threadVars, ownerVars, Recorded, InPeriod, Filling,
     Following, ChunkIsOnePeriod, GapReported, EndAnnounced
<1> QED BY <1>1, <1>2, <1>3, <1>4

LEMMA AudioStep == AudioInv /\ [Next]_vars => AudioInv'
<1> SUFFICES ASSUME AudioInv, [Next]_vars PROVE AudioInv'
  OBVIOUS
<1>1. CASE Worker \/ AlsaFails \/ ArecordFails
  BY <1>1, AlsaStep, ArecordStep DEF Worker
<1> USE DEF AudioInv, TypeOK, Devices
<1>2. CASE Tick
  BY <1>2, AudioAssumption DEF Tick, Available, threadVars, ownerVars,
     Recorded, InPeriod, Filling, Following, ChunkIsOnePeriod, GapReported,
     EndAnnounced
<1>3. CASE ChildExits BY <1>3, ArecordStep
<1>4. CASE HangUp
  BY <1>4 DEF HangUp, threadVars, Recorded, InPeriod, Filling, Following,
     ChunkIsOnePeriod, GapReported, EndAnnounced
<1>5. CASE Stop
  BY <1>5 DEF Stop, threadVars, Recorded, InPeriod, Filling, Following,
     ChunkIsOnePeriod, GapReported, EndAnnounced
<1>6. CASE Join
  BY <1>6 DEF Join, threadVars, Recorded, InPeriod, Filling, Following,
     ChunkIsOnePeriod, GapReported, EndAnnounced
<1>7. CASE UNCHANGED vars
  BY <1>7 DEF vars, Recorded, InPeriod, Filling, Following, ChunkIsOnePeriod,
     GapReported, EndAnnounced
<1> QED BY <1>1, <1>2, <1>3, <1>4, <1>5, <1>6, <1>7 DEF Next, Finished

-----------------------------------------------------------------------------
(* run_alsa_capture, run_capture: for every length of period and ring, and  *)
(* however reads, overruns, recoveries and stops fall, a chunk is one       *)
(* unbroken period, and the ALSA thread tells when it began to the frame.   *)
THEOREM ChunkSafety == Spec => []ChunkIsOnePeriod
<1>1. AudioInv => ChunkIsOnePeriod BY DEF AudioInv
<1> QED BY <1>1, AudioInit, AudioStep, PTL DEF Spec

(* A break between two chunks is flagged on the second, through any number  *)
(* of overruns and recoveries between them.                                 *)
THEOREM GapSafety == Spec => []GapReported
<1>1. AudioInv => GapReported BY DEF AudioInv
<1> QED BY <1>1, AudioInit, AudioStep, PTL DEF Spec

(* A thread that ends has said so to whoever still listens. *)
THEOREM EndSafety == Spec => []EndAnnounced
<1>1. AudioInv => EndAnnounced BY DEF AudioInv
<1> QED BY <1>1, AudioInit, AudioStep, PTL DEF Spec
==============================================================================
