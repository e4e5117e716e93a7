------------------------- MODULE CaptureDriverProofs -------------------------
(***************************************************************************)
(* Proofs about handycam capture: for every length of capture, granularity *)
(* of the clock, bound of the audio channel and jitter of the deliveries,  *)
(* and however turns of the loop batch what arrives.                       *)
(***************************************************************************)
EXTENDS CaptureDriver, SequenceTheorems, WellFoundedInduction, TLAPS

MediaEvent == [track : Tracks, observed : Nat, true : Int, position : Nat,
               duration : {Period}, source_discontinuity : BOOLEAN]

Ended == main \in {"close", "exit"}

TypeOK ==
  /\ world \in Worlds /\ now \in Nat
  /\ camera \in [header : Nat, unwrapped : Nat, warmup : 0 .. Warmup,
                 gap : BOOLEAN]
  /\ audio \in [due : Nat, position : Nat, gap : BOOLEAN]
  /\ chunks \in Seq(MediaEvent) /\ batch \in Seq(MediaEvent)
  /\ sync \in Synchronizer
  /\ last \in [Tracks -> Written \cup {NONE}]

-----------------------------------------------------------------------------
(* One track: Q holds the events that wait to be written, l is the last one  *)
(* written, due the time at which the content of the next one to arrive      *)
(* begins, and gap whether the source remembers a loss.                      *)

Follows(Q, l, time) ==
  \/ \E d \in Q : d.true + Period = time
  \/ l # NONE /\ l.true + Period = time
  \/ l = NONE /\ \A d \in Q : time <= d.true

(* An event is either flagged or begins where the one before it ends. *)
Chain(Q, l, due, gap) ==
  /\ \A e \in Q : /\ e.source_discontinuity \/ Follows(Q, l, e.true)
                  /\ e.true + Period <= due
                  /\ l # NONE => l.true + Period <= e.true
  /\ l # NONE => l.true + Period <= due
  /\ gap \/ Follows(Q, l, due)

-----------------------------------------------------------------------------
(* The same of the program's state. *)

Elements(s) == {s[i] : i \in 1 .. Len(s)}

Waiting(t) == {e \in Elements(batch) \cup Elements(chunks) : e.track = t}

Due(t) == IF t = "audio" THEN audio.due ELSE camera.header - Period

Gap(t) == IF t = "audio" THEN audio.gap ELSE camera.gap

Chained == \A t \in Tracks : Chain(Waiting(t), last[t], Due(t), Gap(t))

(* The stable sort by observation keeps the order of a track. *)
InOrder(s) ==
  \A i \in 1 .. Len(s) : \A j \in 1 .. Len(s) :
    i < j /\ s[i].track = s[j].track
      => s[i].observed <= s[j].observed /\ s[i].true + Period <= s[j].true

Sorted ==
  /\ InOrder(batch) /\ InOrder(chunks)
  /\ \A j \in 1 .. Len(chunks) :
       chunks[j].track = "audio" /\ chunks[j].observed = chunks[j].true
  /\ \A i \in 1 .. Len(batch) : \A j \in 1 .. Len(chunks) :
       batch[i].track = "audio" => batch[i].true + Period <= chunks[j].true
  /\ \A i \in 1 .. Len(batch) :
       batch[i].track = "video" => batch[i].observed <= Larger(now - Period, 0)
  /\ main \notin {"poll", "write"} => batch = << >>

(* Frames come out of the decoder two headers after its start or a reset. *)
Warming ==
  /\ camera.warmup > 0 /\ ~camera.gap
       => last["video"] = NONE /\ Waiting("video") = {}
  /\ camera.warmup < 2 => camera.header >= Period
  /\ now <= camera.header + Jitter

LossInv == TypeOK /\ LossIsReported /\ (~Ended => Chained /\ Sorted /\ Warming)

-----------------------------------------------------------------------------
(* What is written is where its track's anchor puts it. *)

JitterOf(t) == IF t = "video" THEN Jitter ELSE 0

DelayOf(t) == IF t = "audio" THEN AudioDelay ELSE 0

Observed == \A t \in Tracks : \A e \in Waiting(t) :
              e.observed - e.true \in 0 .. JitterOf(t)

Steady(t) ==
  IF last[t] = NONE THEN sync.anchor[t] = NONE /\ sync.last_end[t] = NONE
  ELSE /\ sync.anchor[t] # NONE /\ sync.last_end[t] # NONE
       /\ ~last[t].reported =>
            /\ sync.last_end[t] >= sync.anchor[t].position + Period
            /\ last[t].pts = sync.anchor[t].pts + sync.last_end[t] - Period
                              - sync.anchor[t].position + DelayOf(t)

OnTime(t) == last[t] # NONE /\ ~last[t].reported
               => last[t].pts - DelayOf(t) - last[t].true \in 0 .. JitterOf(t)

OffsetInv == /\ \A t \in Tracks : OnTime(t)
             /\ ~Ended => Observed /\ \A t \in Tracks : Steady(t)

-----------------------------------------------------------------------------
(* The next event of a source arrives. *)
LEMMA ChainArrives ==
  ASSUME NEW Q, Q \subseteq MediaEvent, NEW l \in Written \cup {NONE},
         NEW due \in Int, NEW gap \in BOOLEAN, Chain(Q, l, due, gap),
         NEW e \in MediaEvent, e.true = due, e.source_discontinuity = gap
  PROVE  Chain(Q \cup {e}, l, due + Period, FALSE)
<1> USE DEF Period
<1>1. \A d \in Q : d.true \in Int BY DEF MediaEvent
<1>2. l # NONE => l.true \in Int BY DEF Written
<1>3. Follows(Q \cup {e}, l, due + Period) BY DEF Follows
<1>4. gap \/ Follows(Q \cup {e}, l, due)
  BY <1>1, <1>2 DEF Chain, Follows
<1>5. ASSUME NEW d \in Q
      PROVE  d.source_discontinuity \/ Follows(Q \cup {e}, l, d.true)
  BY <1>1, <1>2, <1>5 DEF Chain, Follows
<1> QED BY <1>1, <1>2, <1>3, <1>4, <1>5 DEF Chain

(* The source loses something. *)
LEMMA ChainLoses ==
  ASSUME NEW Q, Q \subseteq MediaEvent, NEW l \in Written \cup {NONE},
         NEW due \in Int, NEW gap, Chain(Q, l, due, gap),
         NEW later \in Int, due <= later
  PROVE  Chain(Q, l, later, TRUE)
<1>1. \A d \in Q : d.true + Period \in Int BY DEF MediaEvent, Period
<1>2. l # NONE => l.true + Period \in Int BY DEF Written, Period
<1> QED BY <1>1, <1>2 DEF Chain

(* Nothing has come out of the source yet. *)
LEMMA ChainStarts == ASSUME NEW due, NEW gap PROVE Chain({}, NONE, due, gap)
BY DEF Chain, Follows

(* The first of the waiting events is written: what is lost before it is     *)
(* flagged on it.                                                            *)
LEMMA ChainWrites ==
  ASSUME NEW Q, Q \subseteq MediaEvent, NEW l \in Written \cup {NONE},
         NEW due \in Int, NEW gap \in BOOLEAN, Chain(Q, l, due, gap),
         NEW e \in Q, NEW R, R \subseteq Q, Q \subseteq R \cup {e},
         \A f \in R : e.true + Period <= f.true,
         NEW m \in Written, m.true = e.true
  PROVE  /\ Chain(R, m, due, gap)
         /\ e.source_discontinuity \/ l = NONE \/ l.true + Period = e.true
<1> USE DEF Period
<1>1. \A d \in Q : d.true \in Int BY DEF MediaEvent
<1>2. l # NONE => l.true \in Int BY DEF Written
<1>3. m # NONE /\ m.true \in Int BY CaptureAssumption DEF Written
<1>4. e.source_discontinuity \/ l = NONE \/ l.true + Period = e.true
  BY <1>1, <1>2 DEF Chain, Follows
<1>5. ASSUME NEW time \in Int, e.true + Period <= time, Follows(Q, l, time)
      PROVE  Follows(R, m, time)
  <2>1. CASE \E d \in Q : d.true + Period = time
    BY <1>3, <2>1 DEF Follows
  <2>2. CASE l # NONE /\ l.true + Period = time
    BY <1>1, <1>2, <1>5, <2>2 DEF Chain
  <2>3. CASE l = NONE /\ \A d \in Q : time <= d.true
    BY <1>1, <1>5, <2>3
  <2> QED BY <1>5, <2>1, <2>2, <2>3 DEF Follows
<1>6. e.true + Period <= due BY DEF Chain
<1>7. gap \/ Follows(R, m, due) BY <1>5, <1>6 DEF Chain
<1>8. ASSUME NEW f \in R
      PROVE  /\ f.source_discontinuity \/ Follows(R, m, f.true)
             /\ f.true + Period <= due
  BY <1>1, <1>5, <1>8 DEF Chain
<1> QED BY <1>3, <1>4, <1>6, <1>7, <1>8 DEF Chain

-----------------------------------------------------------------------------
(* What Without leaves of a sequence. *)
LEMMA WithoutProperties ==
  ASSUME NEW S, NEW s \in Seq(S), NEW k \in 1 .. Len(s)
  PROVE  /\ Without(s, k) \in Seq(S) /\ Len(Without(s, k)) = Len(s) - 1
         /\ \A i \in 1 .. Len(s) - 1 :
              Without(s, k)[i] = IF i < k THEN s[i] ELSE s[i + 1]
<1> DEFINE front == SubSeq(s, 1, k - 1)
           back == SubSeq(s, k + 1, Len(s))
<1>1. Len(s) \in Nat /\ \A i \in 1 .. Len(s) : s[i] \in S
  BY LenProperties
<1>2. /\ front \in Seq(S) /\ Len(front) = k - 1
      /\ \A i \in 1 .. k - 1 : front[i] = s[i]
  <2>1. \A i \in 1 .. k - 1 : s[i] \in S BY <1>1
  <2>2. /\ front \in Seq(S)
        /\ Len(front) = IF 1 <= k - 1 THEN (k - 1) - 1 + 1 ELSE 0
        /\ \A i \in 1 .. (k - 1) - 1 + 1 : front[i] = s[1 + i - 1]
    BY <1>1, <2>1, SubSeqProperties
  <2> QED BY <1>1, <2>2
<1>3. /\ back \in Seq(S) /\ Len(back) = Len(s) - k
      /\ \A i \in 1 .. Len(s) - k : back[i] = s[k + i]
  <2>1. \A i \in k + 1 .. Len(s) : s[i] \in S BY <1>1
  <2>2. /\ back \in Seq(S)
        /\ Len(back) = IF k + 1 <= Len(s) THEN Len(s) - (k + 1) + 1 ELSE 0
        /\ \A i \in 1 .. Len(s) - (k + 1) + 1 : back[i] = s[(k + 1) + i - 1]
    BY <1>1, <2>1, SubSeqProperties
  <2> QED BY <1>1, <2>2
<1>4. Without(s, k) = front \o back BY DEF Without
<1> HIDE DEF front, back
<1>5. /\ front \o back \in Seq(S) /\ Len(front \o back) = Len(s) - 1
      /\ \A i \in 1 .. Len(s) - 1 :
           (front \o back)[i] = IF i <= k - 1 THEN front[i] ELSE back[i - (k - 1)]
  <2>1. /\ front \o back \in Seq(S)
        /\ Len(front \o back) = Len(front) + Len(back)
        /\ \A i \in 1 .. Len(front) + Len(back) :
             (front \o back)[i] = IF i <= Len(front) THEN front[i]
                                  ELSE back[i - Len(front)]
    BY <1>2, <1>3, ConcatProperties
  <2> QED BY <1>1, <1>2, <1>3, <2>1
<1>6. ASSUME NEW i \in 1 .. Len(s) - 1
      PROVE  (front \o back)[i] = IF i < k THEN s[i] ELSE s[i + 1]
  <2>1. CASE i < k BY <1>1, <1>2, <1>5, <2>1
  <2>2. CASE i >= k
    <3>1. i - (k - 1) \in 1 .. Len(s) - k /\ k + (i - (k - 1)) = i + 1
      BY <1>1, <2>2
    <3>2. back[i - (k - 1)] = s[i + 1] BY <1>3, <3>1
    <3> QED BY <1>1, <1>5, <2>2, <3>2
  <2>3. i < k \/ i >= k BY <1>1
  <2> QED BY <2>1, <2>2, <2>3
<1> QED BY <1>4, <1>5, <1>6

LEMMA ElementsOfEmpty == Elements(<< >>) = {}
BY DEF Elements

LEMMA ElementsType ==
  ASSUME NEW S, NEW s \in Seq(S) PROVE Elements(s) \subseteq S
BY LenProperties DEF Elements

LEMMA ElementsAppend ==
  ASSUME NEW S, NEW s \in Seq(S), NEW e \in S
  PROVE  Elements(Append(s, e)) = Elements(s) \cup {e}
<1> DEFINE a == Append(s, e)
<1>1. /\ Len(s) \in Nat /\ Len(a) = Len(s) + 1 /\ a[Len(s) + 1] = e
      /\ \A i \in 1 .. Len(s) : a[i] = s[i]
  BY LenProperties, AppendProperties
<1> HIDE DEF a
<1>2. ASSUME NEW x PROVE x \in Elements(a) <=> x \in Elements(s) \cup {e}
  <2>1. ASSUME x \in Elements(a) PROVE x \in Elements(s) \cup {e}
    <3>1. PICK i \in 1 .. Len(a) : x = a[i] BY <2>1 DEF Elements
    <3>2. i \in 1 .. Len(s) \/ i = Len(s) + 1 BY <1>1
    <3> QED BY <1>1, <3>1, <3>2 DEF Elements
  <2>2. ASSUME x \in Elements(s) PROVE x \in Elements(a)
    <3>1. PICK i \in 1 .. Len(s) : x = s[i] BY <2>2 DEF Elements
    <3>2. i \in 1 .. Len(a) BY <1>1
    <3> QED BY <1>1, <3>1, <3>2 DEF Elements
  <2>3. e \in Elements(a)
    <3>1. Len(s) + 1 \in 1 .. Len(a) BY <1>1
    <3> QED BY <1>1, <3>1 DEF Elements
  <2> QED BY <2>1, <2>2, <2>3
<1> QED BY <1>2 DEF a

LEMMA ElementsWithout ==
  ASSUME NEW S, NEW s \in Seq(S), NEW k \in 1 .. Len(s)
  PROVE  /\ \A x \in Elements(Without(s, k)) :
              \E j \in 1 .. Len(s) : j # k /\ x = s[j]
         /\ Elements(s) \subseteq Elements(Without(s, k)) \cup {s[k]}
<1> DEFINE w == Without(s, k)
<1>1. /\ Len(s) \in Nat /\ Len(w) = Len(s) - 1
      /\ \A i \in 1 .. Len(s) - 1 : w[i] = IF i < k THEN s[i] ELSE s[i + 1]
  BY LenProperties, WithoutProperties
<1> HIDE DEF w
<1>2. ASSUME NEW x \in Elements(w)
      PROVE  \E j \in 1 .. Len(s) : j # k /\ x = s[j]
  <2>1. PICK i \in 1 .. Len(w) : x = w[i] BY DEF Elements
  <2>2. CASE i < k
    <3>1. i \in 1 .. Len(s) /\ i # k /\ i \in 1 .. Len(s) - 1 BY <1>1, <2>2
    <3>2. w[i] = s[i] BY <1>1, <2>2, <3>1
    <3> QED BY <2>1, <3>1, <3>2
  <2>3. CASE ~(i < k)
    <3>1. i + 1 \in 1 .. Len(s) /\ i + 1 # k /\ i \in 1 .. Len(s) - 1
      BY <1>1, <2>3
    <3>2. w[i] = s[i + 1] BY <1>1, <2>3, <3>1
    <3> QED BY <2>1, <3>1, <3>2
  <2> QED BY <2>2, <2>3
<1>3. ASSUME NEW x \in Elements(s) PROVE x \in Elements(w) \cup {s[k]}
  <2>1. PICK i \in 1 .. Len(s) : x = s[i] BY DEF Elements
  <2>2. CASE i < k
    <3>1. i \in 1 .. Len(w) /\ i \in 1 .. Len(s) - 1 BY <1>1, <2>2
    <3>2. w[i] = s[i] BY <1>1, <2>2, <3>1
    <3> QED BY <2>1, <3>1, <3>2 DEF Elements
  <2>3. CASE i > k
    <3>1. i - 1 \in 1 .. Len(w) /\ i - 1 \in 1 .. Len(s) - 1 /\ ~(i - 1 < k)
          /\ (i - 1) + 1 = i
      BY <1>1, <2>3
    <3>2. w[i - 1] = s[i] BY <1>1, <3>1
    <3> QED BY <2>1, <3>1, <3>2 DEF Elements
  <2>4. i < k \/ i > k \/ i = k BY <1>1
  <2> QED BY <2>1, <2>2, <2>3, <2>4
<1> QED BY <1>2, <1>3 DEF w

(* A part of an ordered sequence is ordered. *)
LEMMA InOrderWithout ==
  ASSUME NEW s \in Seq(MediaEvent), NEW k \in 1 .. Len(s), InOrder(s)
  PROVE  InOrder(Without(s, k))
<1> DEFINE w == Without(s, k)
           at(i) == IF i < k THEN i ELSE i + 1
<1>1. /\ Len(s) \in Nat /\ Len(w) = Len(s) - 1
      /\ \A i \in 1 .. Len(s) - 1 : w[i] = IF i < k THEN s[i] ELSE s[i + 1]
  BY LenProperties, WithoutProperties
<1> HIDE DEF w
<1>2. ASSUME NEW i \in 1 .. Len(w) PROVE at(i) \in 1 .. Len(s) /\ w[i] = s[at(i)]
  BY <1>1
<1>3. ASSUME NEW i \in 1 .. Len(w), NEW j \in 1 .. Len(w), i < j
      PROVE  at(i) < at(j)
  BY <1>1, <1>3
<1> HIDE DEF at
<1> QED BY <1>2, <1>3 DEF InOrder, w

LEMMA InOrderAppend ==
  ASSUME NEW s \in Seq(MediaEvent), NEW e \in MediaEvent, InOrder(s),
         \A i \in 1 .. Len(s) : s[i].track = e.track
           => s[i].observed <= e.observed /\ s[i].true + Period <= e.true
  PROVE  InOrder(Append(s, e))
<1> DEFINE a == Append(s, e)
<1>1. /\ Len(s) \in Nat /\ Len(a) = Len(s) + 1 /\ a[Len(s) + 1] = e
      /\ \A i \in 1 .. Len(s) : a[i] = s[i]
  BY LenProperties, AppendProperties
<1> HIDE DEF a
<1>2. ASSUME NEW i \in 1 .. Len(a), NEW j \in 1 .. Len(a), i < j
      PROVE  i \in 1 .. Len(s) /\ (j \in 1 .. Len(s) \/ j = Len(s) + 1)
  BY <1>1, <1>2
<1> QED BY <1>1, <1>2 DEF InOrder, a

LEMMA SmallestOf ==
  ASSUME NEW T \in SUBSET Nat, T # {}
  PROVE  \E x \in T : \A y \in T : x <= y
<1>1. PICK x \in T : \A y \in T : ~ (<< y, x >> \in OpToRel(<, Nat))
  BY NatLessThanWellFounded, WFMin
<1>2. \A y \in T : y < x => << y, x >> \in OpToRel(<, Nat) BY DEF OpToRel
<1>3. \A y \in T : x <= y
  <2> TAKE y \in T
  <2>1. ~(y < x) BY <1>1, <1>2
  <2> QED BY <2>1
<1> QED BY <1>3

(* The next event of the sorted batch: there is one, and it comes before all *)
(* others of its track, also those the channel holds.                        *)
LEMMA EarliestIsFirst ==
  ASSUME TypeOK, Sorted, batch # << >>
  PROVE  /\ Earliest \in 1 .. Len(batch)
         /\ \A j \in 1 .. Len(batch) :
              j # Earliest /\ batch[j].track = batch[Earliest].track
                => batch[Earliest].true + Period <= batch[j].true
<1> DEFINE Before(i, j) == \/ batch[i].observed < batch[j].observed
                           \/ batch[i].observed = batch[j].observed /\ i <= j
           N == Len(batch)
           First(i) == \A j \in 1 .. N : Before(i, j)
<1>1. /\ batch \in Seq(MediaEvent) /\ N \in Nat /\ N # 0
      /\ \A i \in 1 .. N : batch[i] \in MediaEvent
  BY LenProperties, EmptySeq DEF TypeOK
<1>2. \A i \in 1 .. N : batch[i].observed \in Nat /\ batch[i].true \in Int
  BY <1>1 DEF MediaEvent
<1> HIDE DEF N
<1>3. \E i \in 1 .. N : First(i)
  <2> DEFINE Times == {batch[i].observed : i \in 1 .. N}
  <2>1. Times \in SUBSET Nat BY <1>2
  <2>2. batch[1].observed \in Times BY <1>1
  <2>3. PICK t \in Times : \A u \in Times : t <= u BY <2>1, <2>2, SmallestOf
  <2>4. \A j \in 1 .. N : t <= batch[j].observed BY <2>3
  <2>5. PICK a \in 1 .. N : batch[a].observed = t BY <2>3
  <2> HIDE DEF Times
  <2> DEFINE At == {i \in 1 .. N : batch[i].observed = t}
  <2>6. At \in SUBSET Nat /\ a \in At BY <1>1, <2>5
  <2>7. PICK i \in At : \A j \in At : i <= j BY <2>6, SmallestOf
  <2>8. i \in 1 .. N /\ batch[i].observed = t BY <2>7
  <2>9. ASSUME NEW j \in 1 .. N PROVE Before(i, j)
    <3>1. CASE batch[j].observed = t BY <2>7, <2>8, <3>1
    <3>2. CASE batch[j].observed # t BY <1>2, <2>4, <2>8, <3>2
    <3> QED BY <3>1, <3>2
  <2> QED BY <2>8, <2>9
<1>4. Earliest = CHOOSE i \in 1 .. N : First(i) BY DEF Earliest, N
<1> HIDE DEF First
<1>5. Earliest \in 1 .. N /\ First(Earliest) BY <1>3, <1>4, Zenon
<1>6. ASSUME NEW j \in 1 .. N, j # Earliest,
             batch[j].track = batch[Earliest].track
      PROVE  batch[Earliest].true + Period <= batch[j].true
  <2>1. Before(Earliest, j) BY <1>5 DEF First
  <2>2. CASE Earliest < j
    BY <1>5, <1>6, <2>2 DEF Sorted, InOrder, N
  <2>3. CASE j < Earliest
    <3>1. /\ batch[j].observed <= batch[Earliest].observed
      BY <1>5, <1>6, <2>3 DEF Sorted, InOrder, N
    <3> QED BY <1>2, <1>5, <2>1, <2>3, <3>1
  <2>4. Earliest < j \/ j < Earliest BY <1>1, <1>5, <1>6
  <2> QED BY <2>2, <2>3, <2>4
<1> QED BY <1>5, <1>6 DEF N

LEMMA WaitingType ==
  ASSUME TypeOK, NEW t \in Tracks
  PROVE  /\ Waiting(t) \subseteq MediaEvent /\ last[t] \in Written \cup {NONE}
         /\ Due(t) \in Int /\ Gap(t) \in BOOLEAN
<1>1. Waiting(t) \subseteq MediaEvent BY ElementsType DEF TypeOK, Waiting
<1>2. last[t] \in Written \cup {NONE} BY DEF TypeOK
<1>3. Due(t) \in Int BY DEF TypeOK, Due, Period
<1>4. Gap(t) \in BOOLEAN BY DEF TypeOK, Gap
<1> QED BY <1>1, <1>2, <1>3, <1>4

-----------------------------------------------------------------------------
LEMMA LossInit == Init => LossInv
<1> SUFFICES ASSUME Init PROVE LossInv
  OBVIOUS
<1>1. TypeOK
  <2>1. camera \in [header : Nat, unwrapped : Nat, warmup : 0 .. Warmup,
                    gap : BOOLEAN]
    BY DEF Init, NewCamera, Warmup
  <2>2. audio \in [due : Nat, position : Nat, gap : BOOLEAN] BY DEF Init
  <2>3. sync \in Synchronizer
    BY DEF Init, NewSynchronizer, Synchronizer
  <2>4. chunks \in Seq(MediaEvent) /\ batch \in Seq(MediaEvent)
    BY EmptySeq DEF Init
  <2> QED BY <2>1, <2>2, <2>3, <2>4 DEF Init, TypeOK
<1>2. \A t \in Tracks : last[t] = NONE BY DEF Init
<1>3. \A t \in Tracks : Waiting(t) = {}
  BY ElementsOfEmpty DEF Init, Waiting
<1>4. Chained BY <1>2, <1>3, ChainStarts DEF Chained
<1>5. Sorted BY EmptySeq DEF Init, Sorted, InOrder
<1>6. Warming
  <2>1. Jitter \in Nat BY CaptureAssumption DEF Jitter
  <2>2. camera.header = 0 /\ camera.warmup = 2 /\ now = 0
    BY DEF Init, NewCamera, Warmup
  <2> QED BY <1>2, <1>3, <2>1, <2>2 DEF Warming, Tracks
<1> QED BY <1>1, <1>2, <1>4, <1>5, <1>6 DEF LossInv, LossIsReported

LEMMA LargerMonotone ==
  ASSUME NEW a \in Nat, NEW b \in Nat, a <= b
  PROVE  /\ Larger(a - Period, 0) <= Larger(b - Period, 0)
         /\ Larger(a - Period, 0) \in Nat /\ Larger(b - Period, 0) \in Nat
BY DEF Larger, Period

(* Steps that leave the media alone; time may pass. *)
LEMMA LossQuiet ==
  ASSUME LossInv, UNCHANGED << world, camera, audio, chunks, batch, sync, last >>,
         now' \in Nat, now <= now', Ended => Ended',
         ~Ended' => /\ now' = now \/ now' <= camera.header + Jitter
                    /\ main' \notin {"poll", "write"} => batch = << >>
  PROVE  LossInv'
<1>1. TypeOK' BY DEF LossInv, TypeOK
<1>2. LossIsReported' BY DEF LossInv, LossIsReported
<1>3. ASSUME ~Ended' PROVE (Chained /\ Sorted /\ Warming)'
  <2>1. Chained /\ Sorted /\ Warming BY <1>3 DEF LossInv
  <2>2. Chained' BY <2>1 DEF Chained, Waiting, Due, Gap
  <2>0. now \in Nat /\ batch \in Seq(MediaEvent) BY DEF LossInv, TypeOK
  <2>3. /\ Larger(now - Period, 0) <= Larger(now' - Period, 0)
        /\ Larger(now - Period, 0) \in Nat /\ Larger(now' - Period, 0) \in Nat
    BY <2>0, LargerMonotone
  <2>4. \A i \in 1 .. Len(batch) : batch[i].track = "video"
          => batch[i].observed <= Larger(now' - Period, 0)
    <3> SUFFICES ASSUME NEW i \in 1 .. Len(batch), batch[i].track = "video"
                 PROVE  batch[i].observed <= Larger(now' - Period, 0)
      OBVIOUS
    <3>1. batch[i] \in MediaEvent BY <2>0, LenProperties
    <3>2. batch[i].observed \in Nat BY <3>1 DEF MediaEvent
    <3>3. batch[i].observed <= Larger(now - Period, 0) BY <2>1 DEF Sorted
    <3> HIDE DEF Larger
    <3> QED BY <2>3, <3>2, <3>3
  <2>5. Sorted' BY <1>3, <2>1, <2>4 DEF Sorted, InOrder
  <2>6. Warming' BY <1>3, <2>1 DEF Warming, Waiting, Jitter
  <2> QED BY <2>2, <2>5, <2>6
<1> QED BY <1>1, <1>2, <1>3 DEF LossInv

LEMMA LossEnds ==
  ASSUME LossInv, NEW value, EndWith(value), UNCHANGED world
  PROVE  LossInv'
<1>1. camera' \in [header : Nat, unwrapped : Nat, warmup : 0 .. Warmup,
                   gap : BOOLEAN]
  BY DEF EndWith, NewCamera, Warmup
<1>2. sync' \in Synchronizer BY DEF EndWith, NewSynchronizer, Synchronizer
<1>3. chunks' \in Seq(MediaEvent) /\ batch' \in Seq(MediaEvent)
  BY EmptySeq DEF EndWith
<1>4. TypeOK' BY <1>1, <1>2, <1>3 DEF EndWith, LossInv, TypeOK
<1>5. LossIsReported' BY DEF EndWith, LossInv, LossIsReported
<1> QED BY <1>4, <1>5 DEF EndWith, LossInv, Ended

LEMMA LossTop ==
  ASSUME LossInv, Top, UNCHANGED world PROVE LossInv'
<1>1. /\ TypeOK /\ LossIsReported /\ Chained /\ Sorted /\ Warming /\ ~Ended'
      /\ batch = << >> /\ batch' = chunks /\ chunks' = << >>
      /\ UNCHANGED << world, now, camera, audio, sync, last >>
  BY DEF LossInv, Top, Ended, Sorted
<1>2. TypeOK' BY <1>1, EmptySeq DEF TypeOK
<1>3. LossIsReported' BY <1>1 DEF LossIsReported
<1>4. \A t \in Tracks : /\ Waiting(t)' = Waiting(t) /\ last[t]' = last[t]
                        /\ Due(t)' = Due(t) /\ Gap(t)' = Gap(t)
  BY <1>1, ElementsOfEmpty DEF Waiting, Due, Gap
<1>5. Chained' BY <1>1, <1>4 DEF Chained
<1>6. Sorted' BY <1>1, EmptySeq DEF Sorted, InOrder, Top
<1>7. Warming' BY <1>1, <1>4 DEF Warming, Jitter, Tracks
<1> QED BY <1>2, <1>3, <1>5, <1>6, <1>7 DEF LossInv

LEMMA LossOverrun ==
  ASSUME LossInv, AudioOverrun, UNCHANGED world PROVE LossInv'
<1>1. /\ audio' = [audio EXCEPT !.due = @ + Period, !.gap = TRUE]
      /\ UNCHANGED << world, main, now, camera, chunks, batch, sync, last >>
  BY DEF AudioOverrun
<1>2. /\ audio' \in [due : Nat, position : Nat, gap : BOOLEAN]
      /\ audio'.due = audio.due + Period /\ audio'.gap = TRUE
      /\ audio.due \in Int
  <2>1. audio \in [due : Nat, position : Nat, gap : BOOLEAN]
    BY DEF LossInv, TypeOK
  <2>2. audio' = [due |-> audio.due + Period, position |-> audio.position,
                  gap |-> TRUE]
    BY <1>1, <2>1
  <2> QED BY <2>1, <2>2 DEF Period
<1>3. TypeOK' BY <1>1, <1>2 DEF LossInv, TypeOK
<1>4. LossIsReported' BY <1>1 DEF LossInv, LossIsReported
<1>5. ASSUME ~Ended' PROVE (Chained /\ Sorted /\ Warming)'
  <2>1. TypeOK /\ Chained /\ Sorted /\ Warming
    BY <1>1, <1>5 DEF LossInv, Ended
  <2>2. /\ Waiting("audio")' = Waiting("audio") /\ Waiting("video")' = Waiting("video")
        /\ Due("audio")' = Due("audio") + Period /\ Gap("audio")' = TRUE
        /\ Due("video")' = Due("video") /\ Gap("video")' = Gap("video")
        /\ last' = last
    BY <1>1, <1>2 DEF Waiting, Due, Gap
  <2>3. Chain(Waiting("audio")', last'["audio"], Due("audio")', Gap("audio")')
    <3>1. /\ Waiting("audio") \subseteq MediaEvent
          /\ last["audio"] \in Written \cup {NONE} /\ Due("audio") \in Int
          /\ Chain(Waiting("audio"), last["audio"], Due("audio"), Gap("audio"))
      BY <2>1, WaitingType DEF Chained, Tracks
    <3>2. Due("audio") + Period \in Int /\ Due("audio") <= Due("audio") + Period
      BY <3>1 DEF Period
    <3> HIDE DEF Chain
    <3> QED BY <2>2, <3>1, <3>2, ChainLoses
  <2>4. Chained'
    BY <2>1, <2>2, <2>3 DEF Chained, Tracks
  <2>5. Sorted' BY <1>1, <2>1 DEF Sorted, InOrder
  <2>6. Warming' BY <1>1, <2>1 DEF Warming, Waiting, Jitter
  <2> QED BY <2>4, <2>5, <2>6
<1> QED BY <1>3, <1>4, <1>5 DEF LossInv

(* The sound is due in the order in which it is delivered. *)
LEMMA LossAudio ==
  ASSUME LossInv, AudioPeriod, UNCHANGED world PROVE LossInv'
<1> DEFINE e == [track |-> "audio", observed |-> audio.due, true |-> audio.due,
                 position |-> audio.position, duration |-> Period,
                 source_discontinuity |-> audio.gap]
<1>1. /\ audio' = [due |-> audio.due + Period,
                   position |-> audio.position + Period, gap |-> FALSE]
      /\ chunks' = Append(chunks, e)
      /\ UNCHANGED << world, main, now, camera, batch, sync, last >>
  BY DEF AudioPeriod
<1>2. /\ TypeOK /\ chunks \in Seq(MediaEvent) /\ batch \in Seq(MediaEvent)
      /\ audio \in [due : Nat, position : Nat, gap : BOOLEAN]
  BY DEF LossInv, TypeOK
<1>3. e \in MediaEvent BY <1>2 DEF MediaEvent, Tracks
<1>4. /\ e.track = "audio" /\ e.observed = audio.due /\ e.true = audio.due
      /\ e.source_discontinuity = audio.gap
  OBVIOUS
<1> HIDE DEF e
<1>5. /\ audio' \in [due : Nat, position : Nat, gap : BOOLEAN]
      /\ audio'.due = audio.due + Period /\ audio'.gap = FALSE
  BY <1>1, <1>2 DEF Period
<1>6. /\ chunks' \in Seq(MediaEvent) /\ Len(chunks) \in Nat
      /\ Len(chunks') = Len(chunks) + 1 /\ chunks'[Len(chunks) + 1] = e
      /\ \A i \in 1 .. Len(chunks) : chunks'[i] = chunks[i]
  BY <1>1, <1>2, <1>3, AppendProperties, LenProperties
<1>7. TypeOK' BY <1>1, <1>2, <1>5, <1>6 DEF TypeOK
<1>8. LossIsReported' BY <1>1 DEF LossInv, LossIsReported
<1>9. ASSUME ~Ended' PROVE (Chained /\ Sorted /\ Warming)'
  <2>1. Chained /\ Sorted /\ Warming BY <1>1, <1>9 DEF LossInv, Ended
  <2>2. /\ Waiting("audio")' = Waiting("audio") \cup {e}
        /\ Waiting("video")' = Waiting("video")
    <3>1. Elements(chunks') = Elements(chunks) \cup {e}
      BY <1>1, <1>2, <1>3, ElementsAppend
    <3> QED BY <1>1, <1>4, <3>1 DEF Waiting
  <2>3. /\ Due("audio")' = Due("audio") + Period /\ Gap("audio")' = FALSE
        /\ Due("audio") = audio.due /\ Gap("audio") = audio.gap
        /\ Due("video")' = Due("video") /\ Gap("video")' = Gap("video")
        /\ last' = last
    BY <1>1, <1>5 DEF Due, Gap
  <2>4. /\ Waiting("audio") \subseteq MediaEvent
        /\ last["audio"] \in Written \cup {NONE}
        /\ Due("audio") \in Int /\ Gap("audio") \in BOOLEAN
        /\ Chain(Waiting("audio"), last["audio"], Due("audio"), Gap("audio"))
    BY <1>2, <2>1, WaitingType DEF Chained, Tracks
  <2>5. Chain(Waiting("audio")', last'["audio"], Due("audio")', Gap("audio")')
    <3>1. e.true = Due("audio") /\ e.source_discontinuity = Gap("audio")
      BY <1>4, <2>3
    <3>2. Chain(Waiting("audio") \cup {e}, last["audio"], Due("audio") + Period,
                FALSE)
      BY <1>3, <2>4, <3>1, ChainArrives
    <3> QED BY <2>2, <2>3, <3>2
  <2>6. Chained' BY <2>1, <2>2, <2>3, <2>5 DEF Chained, Tracks
  <2>7. \A d \in Waiting("audio") : d.true + Period <= e.true
    BY <1>4, <2>3, <2>4 DEF Chain
  <2>8. \A i \in 1 .. Len(chunks) :
          chunks[i].track = "audio" /\ chunks[i].true + Period <= e.true
    <3> TAKE i \in 1 .. Len(chunks)
    <3>1. chunks[i].track = "audio" BY <2>1 DEF Sorted
    <3>2. chunks[i] \in Waiting("audio") BY <3>1 DEF Waiting, Elements
    <3> QED BY <2>7, <3>1, <3>2
  <2>9. InOrder(chunks')
    <3>1. ASSUME NEW i \in 1 .. Len(chunks)
          PROVE  chunks[i].observed <= e.observed
      <4>1. chunks[i].observed = chunks[i].true /\ e.observed = e.true
        BY <1>4, <2>1 DEF Sorted
      <4>2. chunks[i] \in MediaEvent BY <1>2, LenProperties
      <4>3. chunks[i].true \in Int /\ e.true \in Int
        BY <1>3, <4>2 DEF MediaEvent
      <4> QED BY <2>8, <4>1, <4>3 DEF Period
    <3> QED BY <1>1, <1>2, <1>3, <2>1, <2>8, <3>1, InOrderAppend DEF Sorted
  <2>10. \A j \in 1 .. Len(chunks') :
           chunks'[j].track = "audio" /\ chunks'[j].observed = chunks'[j].true
    <3> TAKE j \in 1 .. Len(chunks')
    <3>1. j \in 1 .. Len(chunks) \/ j = Len(chunks) + 1 BY <1>6
    <3> QED BY <1>4, <1>6, <2>1, <3>1 DEF Sorted
  <2>11. \A i \in 1 .. Len(batch) : \A j \in 1 .. Len(chunks') :
           batch[i].track = "audio" => batch[i].true + Period <= chunks'[j].true
    <3> SUFFICES ASSUME NEW i \in 1 .. Len(batch), NEW j \in 1 .. Len(chunks'),
                        batch[i].track = "audio"
                 PROVE  batch[i].true + Period <= chunks'[j].true
      OBVIOUS
    <3>1. j \in 1 .. Len(chunks) \/ j = Len(chunks) + 1 BY <1>6
    <3>2. batch[i] \in Waiting("audio") BY DEF Waiting, Elements
    <3> QED BY <1>6, <2>1, <2>7, <3>1, <3>2 DEF Sorted
  <2>12. Sorted' BY <1>1, <2>1, <2>9, <2>10, <2>11 DEF Sorted, InOrder
  <2>13. Warming' BY <1>1, <2>1, <2>2 DEF Warming, Jitter
  <2> QED BY <2>6, <2>12, <2>13
<1> QED BY <1>7, <1>8, <1>9 DEF LossInv

Cameras == [header : Nat, unwrapped : Nat, warmup : 0 .. Warmup, gap : BOOLEAN]

(* The camera moves on, or loses a record, without a frame coming out. *)
LEMMA LossCamera ==
  ASSUME LossInv, ~Ended, camera' \in Cameras, camera.header <= camera'.header,
         camera'.warmup < 2 => camera'.header >= Period,
         \/ camera'.gap = TRUE
         \/ camera.warmup > 0 /\ camera'.gap = camera.gap,
         UNCHANGED << world, main, now, audio, chunks, batch, sync, last >>
  PROVE  LossInv'
<1>1. TypeOK /\ Chained /\ Sorted /\ Warming /\ camera \in Cameras /\ now \in Nat
  BY DEF LossInv, TypeOK, Cameras
<1>2. TypeOK' BY <1>1 DEF TypeOK, Cameras
<1>3. LossIsReported' BY DEF LossInv, LossIsReported
<1>4. /\ Waiting("audio")' = Waiting("audio") /\ Waiting("video")' = Waiting("video")
      /\ Due("audio")' = Due("audio") /\ Gap("audio")' = Gap("audio")
      /\ last' = last /\ Gap("video")' = camera'.gap
  BY DEF Waiting, Due, Gap
<1>5. /\ Due("video") \in Int /\ Due("video")' \in Int
      /\ Due("video") <= Due("video")'
  <2>1. camera.header \in Nat /\ camera'.header \in Nat BY <1>1 DEF Cameras
  <2> QED BY <2>1 DEF Due, Period
<1>6. Chain(Waiting("video"), last["video"], Due("video")', Gap("video")')
  <2>1. CASE camera'.gap = TRUE
    <3>1. /\ Waiting("video") \subseteq MediaEvent
          /\ last["video"] \in Written \cup {NONE}
          /\ Chain(Waiting("video"), last["video"], Due("video"), Gap("video"))
      BY <1>1, WaitingType DEF Chained, Tracks
    <3>2. Chain(Waiting("video"), last["video"], Due("video")', TRUE)
      BY <1>5, <3>1, ChainLoses
    <3> QED BY <1>4, <2>1, <3>2
  <2>2. CASE camera'.gap # TRUE
    <3>1. camera.warmup > 0 /\ ~camera.gap BY <1>1, <2>2 DEF Cameras
    <3>2. Waiting("video") = {} /\ last["video"] = NONE
      BY <1>1, <3>1 DEF Warming
    <3> QED BY <3>2, ChainStarts
  <2> QED BY <2>1, <2>2
<1>7. Chained' BY <1>1, <1>4, <1>6 DEF Chained, Tracks
<1>8. Sorted' BY <1>1 DEF Sorted, InOrder
<1>9. Warming'
  <2>1. now' <= camera'.header + Jitter'
    <3>1. Jitter' = Jitter /\ Jitter \in Nat BY CaptureAssumption DEF Jitter
    <3>2. camera.header \in Nat /\ camera'.header \in Nat BY <1>1 DEF Cameras
    <3>3. now <= camera.header + Jitter BY <1>1 DEF Warming
    <3> QED BY <1>1, <3>1, <3>2, <3>3
  <2>2. camera'.warmup > 0 /\ ~camera'.gap
          => last["video"] = NONE /\ Waiting("video") = {}
    BY <1>1 DEF Warming
  <2> QED BY <1>4, <2>1, <2>2 DEF Warming
<1> QED BY <1>2, <1>3, <1>7, <1>8, <1>9 DEF LossInv

LEMMA LossReset ==
  ASSUME LossInv, VideoReset, UNCHANGED world PROVE LossInv'
<1>1. PICK step \in {0, Period} :
        camera' = [camera EXCEPT !.header = @ + step, !.warmup = Warmup, !.gap = TRUE]
  BY DEF VideoReset
<1>2. camera \in Cameras BY DEF LossInv, TypeOK, Cameras
<1>3. camera' = [header |-> camera.header + step, unwrapped |-> camera.unwrapped,
                 warmup |-> Warmup, gap |-> TRUE]
  BY <1>1, <1>2 DEF Cameras
<1>4. /\ camera' \in Cameras /\ camera.header <= camera'.header
      /\ ~(camera'.warmup < 2) /\ camera'.gap = TRUE
  BY <1>2, <1>3 DEF Cameras, Warmup, Period
<1>5. /\ ~Ended
      /\ UNCHANGED << world, main, now, audio, chunks, batch, sync, last >>
  BY DEF VideoReset, Ended
<1> QED BY <1>4, <1>5, LossCamera

(* A frame comes out: it begins where the record before it ended, or the     *)
(* decoder's reset is remembered on it.                                      *)
LEMMA LossVideo ==
  ASSUME LossInv, ~Freezes, VideoHeader, UNCHANGED world PROVE LossInv'
<1>1. /\ TypeOK /\ Chained /\ Sorted /\ Warming /\ camera \in Cameras
      /\ now \in Nat /\ batch \in Seq(MediaEvent) /\ main = "poll"
      /\ ~Ended /\ ~Ended'
      /\ UNCHANGED << world, main, now, audio, chunks, sync, last >>
  BY DEF LossInv, TypeOK, Cameras, VideoHeader, Ended
<1>2. CASE camera.warmup > 0
  <2>1. /\ batch' = batch
        /\ camera' = [header |-> camera.header + Period, unwrapped |-> 0,
                      warmup |-> camera.warmup - 1, gap |-> camera.gap]
    BY <1>1, <1>2 DEF VideoHeader, Cameras
  <2>2. /\ camera' \in Cameras /\ camera.header <= camera'.header
        /\ camera'.header >= Period /\ camera'.gap = camera.gap
    BY <1>1, <1>2, <2>1 DEF Cameras, Warmup, Period
  <2> QED BY <1>1, <1>2, <2>1, <2>2, LossCamera
<1>3. CASE ~(camera.warmup > 0)
  <2> DEFINE e == [track |-> "video", true |-> camera.header - Period,
                   observed |-> Larger(now - Period, 0),
                   position |-> camera.unwrapped, duration |-> Period,
                   source_discontinuity |-> camera.gap]
  <2>1. /\ batch' = Append(batch, e)
        /\ camera' = [camera EXCEPT !.header = @ + Period,
                                    !.unwrapped = @ + Period, !.gap = FALSE]
    BY <1>3 DEF VideoHeader, Durations
  <2>2. camera' = [header |-> camera.header + Period,
                   unwrapped |-> camera.unwrapped + Period,
                   warmup |-> camera.warmup, gap |-> FALSE]
    BY <1>1, <2>1 DEF Cameras
  <2>3. /\ camera' \in Cameras /\ camera'.header = camera.header + Period
        /\ camera'.warmup = 0 /\ camera'.gap = FALSE /\ camera'.header >= Period
    BY <1>1, <1>3, <2>2 DEF Cameras, Warmup, Period
  <2>4. Larger(now - Period, 0) \in Nat BY <1>1, LargerMonotone
  <2>5. e \in MediaEvent BY <1>1, <2>4 DEF MediaEvent, Tracks, Cameras, Period
  <2>6. /\ e.track = "video" /\ e.true = Due("video")
        /\ e.observed = Larger(now - Period, 0)
        /\ e.source_discontinuity = Gap("video")
    BY DEF Due, Gap
  <2> HIDE DEF e
  <2>7. /\ batch' \in Seq(MediaEvent) /\ Len(batch) \in Nat
        /\ Len(batch') = Len(batch) + 1 /\ batch'[Len(batch) + 1] = e
        /\ \A i \in 1 .. Len(batch) : batch'[i] = batch[i]
    BY <1>1, <2>1, <2>5, AppendProperties, LenProperties
  <2>8. TypeOK' BY <1>1, <2>3, <2>7 DEF TypeOK, Cameras
  <2>9. LossIsReported' BY <1>1 DEF LossInv, LossIsReported
  <2>10. /\ Waiting("video")' = Waiting("video") \cup {e}
         /\ Waiting("audio")' = Waiting("audio")
    <3>1. Elements(batch') = Elements(batch) \cup {e}
      BY <1>1, <2>1, <2>5, ElementsAppend
    <3> QED BY <1>1, <2>6, <3>1 DEF Waiting
  <2>11. /\ Due("video")' = Due("video") + Period /\ Gap("video")' = FALSE
         /\ Due("audio")' = Due("audio") /\ Gap("audio")' = Gap("audio")
         /\ last' = last
    BY <1>1, <2>3 DEF Due, Gap, Cameras, Period
  <2>12. /\ Waiting("video") \subseteq MediaEvent
         /\ last["video"] \in Written \cup {NONE}
         /\ Due("video") \in Int /\ Gap("video") \in BOOLEAN
         /\ Chain(Waiting("video"), last["video"], Due("video"), Gap("video"))
    BY <1>1, WaitingType DEF Chained, Tracks
  <2>13. Chained'
    <3>1. Chain(Waiting("video") \cup {e}, last["video"], Due("video") + Period,
                FALSE)
      BY <2>5, <2>6, <2>12, ChainArrives
    <3>2. Chain(Waiting("video")', last'["video"], Due("video")', Gap("video")')
      BY <2>10, <2>11, <3>1
    <3> QED BY <1>1, <2>10, <2>11, <3>2 DEF Chained, Tracks
  <2>14. \A i \in 1 .. Len(batch) : batch[i].track = e.track
           => batch[i].observed <= e.observed /\ batch[i].true + Period <= e.true
    <3> SUFFICES ASSUME NEW i \in 1 .. Len(batch), batch[i].track = e.track
                 PROVE  /\ batch[i].observed <= e.observed
                        /\ batch[i].true + Period <= e.true
      OBVIOUS
    <3>1. batch[i] \in Waiting("video") BY <2>6 DEF Waiting, Elements
    <3>2. batch[i].true + Period <= e.true BY <2>6, <2>12, <3>1 DEF Chain
    <3> QED BY <1>1, <2>6, <3>2 DEF Sorted
  <2>15. InOrder(batch')
    BY <1>1, <2>1, <2>5, <2>14, InOrderAppend DEF Sorted
  <2>16. ASSUME NEW i \in 1 .. Len(batch')
         PROVE  /\ \A j \in 1 .. Len(chunks) : batch'[i].track = "audio"
                     => batch'[i].true + Period <= chunks[j].true
                /\ batch'[i].track = "video"
                     => batch'[i].observed <= Larger(now - Period, 0)
    <3>1. i \in 1 .. Len(batch) \/ i = Len(batch) + 1 BY <2>7
    <3>2. e.observed <= Larger(now - Period, 0) BY <2>4, <2>6
    <3> QED BY <1>1, <2>6, <2>7, <3>1, <3>2 DEF Sorted
  <2>17. Sorted' BY <1>1, <2>15, <2>16 DEF Sorted, InOrder
  <2>18. Warming'
    <3>1. Jitter' = Jitter /\ Jitter \in Nat
      BY <1>1, CaptureAssumption DEF Jitter
    <3>2. now <= camera.header + Jitter /\ camera.header \in Nat
      BY <1>1 DEF Warming, Cameras
    <3>3. now' <= camera'.header + Jitter' BY <1>1, <2>3, <3>1, <3>2 DEF Period
    <3> QED BY <2>3, <3>3 DEF Warming
  <2> QED BY <2>8, <2>9, <2>13, <2>17, <2>18 DEF LossInv
<1> QED BY <1>2, <1>3

-----------------------------------------------------------------------------
(* What the synchronizer returns for an event, and what it keeps. *)
LEMMA TimingType ==
  ASSUME NEW s \in Synchronizer, NEW t \in Tracks, NEW e \in MediaEvent
  PROVE  /\ AnchorFor(s, t, e) \in ClockAnchor
         /\ Timing(s, t, e).pts \in Int
         /\ Timing(s, t, e).discontinuity \in BOOLEAN
         /\ ApplyAudioDelay(Timing(s, t, e), t).pts \in Int
         /\ ApplyAudioDelay(Timing(s, t, e), t).discontinuity
              = Discontinuity(s, t, e)
         /\ AfterTiming(s, t, e) \in Synchronizer
<1>1. e.position \in Nat /\ e.observed \in Nat /\ e.duration = Period
      /\ e.source_discontinuity \in BOOLEAN
  BY DEF MediaEvent
<1>2. AnchorFor(s, t, e) \in ClockAnchor
  BY <1>1 DEF AnchorFor, Synchronizer, ClockAnchor
<1>3. AnchoredPts(AnchorFor(s, t, e), e.position) \in Int
  <2>1. /\ AnchorFor(s, t, e).position \in Nat /\ AnchorFor(s, t, e).pts \in Nat
    BY <1>2 DEF ClockAnchor
  <2> HIDE DEF AnchorFor
  <2> QED BY <1>1, <2>1 DEF AnchoredPts
<1>4. Discontinuity(s, t, e) \in BOOLEAN BY <1>1 DEF Discontinuity
<1>5. /\ Timing(s, t, e).pts = AnchoredPts(AnchorFor(s, t, e), e.position)
      /\ Timing(s, t, e).discontinuity = Discontinuity(s, t, e)
      /\ Timing(s, t, e)
           = [pts |-> AnchoredPts(AnchorFor(s, t, e), e.position),
              duration |-> e.duration,
              observed_drift |-> e.observed
                                 - AnchoredPts(AnchorFor(s, t, e), e.position),
              discontinuity |-> Discontinuity(s, t, e)]
  BY DEF Timing
<1>6. /\ ApplyAudioDelay(Timing(s, t, e), t).pts
           = IF t = "video" THEN Timing(s, t, e).pts
             ELSE Larger(Timing(s, t, e).pts + AudioDelay, 0)
      /\ ApplyAudioDelay(Timing(s, t, e), t).discontinuity
           = Discontinuity(s, t, e)
  BY <1>5 DEF ApplyAudioDelay
<1>7. ApplyAudioDelay(Timing(s, t, e), t).pts \in Int
  BY <1>3, <1>5, <1>6, CaptureAssumption DEF Larger
<1>8. AfterTiming(s, t, e) \in Synchronizer
  <2>1. e.position + e.duration \in Nat BY <1>1 DEF Period
  <2> QED BY <1>2, <2>1 DEF AfterTiming, Synchronizer
<1> QED BY <1>2, <1>3, <1>4, <1>5, <1>6, <1>7, <1>8

(* The step of WriteEvent, by its parts. *)
LEMMA WriteStep ==
  ASSUME LossInv, WriteEvent, UNCHANGED world
  PROVE  LET e == batch[Earliest]
             t == e.track
         IN  /\ e \in MediaEvent /\ t \in Tracks /\ e \in Waiting(t)
             /\ batch' = Without(batch, Earliest)
             /\ sync' = AfterTiming(sync, t, e)
             /\ \A u \in Tracks : u # t => last'[u] = last[u]
             /\ last'[t] \in Written /\ last'[t].true = e.true
             /\ last'[t].pts = ApplyAudioDelay(Timing(sync, t, e), t).pts
             /\ last'[t].joined
                  <=> (last[t] = NONE \/ last[t].true + Period = e.true)
             /\ last'[t].discontinuity <=> Discontinuity(sync, t, e)
             /\ last'[t].reported <=> \/ Discontinuity(sync, t, e)
                                      \/ last[t] # NONE /\ last[t].reported
             /\ last' \in [Tracks -> Written \cup {NONE}]
             /\ UNCHANGED << world, main, now, camera, audio, chunks >>
<1> DEFINE e == batch[Earliest]
           t == e.track
           timing == ApplyAudioDelay(Timing(sync, t, e), t)
           m == [true |-> e.true, pts |-> timing.pts,
                 joined |-> last[t] = NONE \/ last[t].true + Period = e.true,
                 discontinuity |-> timing.discontinuity,
                 reported |-> \/ timing.discontinuity
                              \/ last[t] # NONE /\ last[t].reported]
<1>1. /\ TypeOK /\ Sorted /\ batch # << >> /\ main = "write"
      /\ batch \in Seq(MediaEvent) /\ sync \in Synchronizer
      /\ last \in [Tracks -> Written \cup {NONE}]
  BY DEF LossInv, WriteEvent, Ended, TypeOK
<1>2. Earliest \in 1 .. Len(batch) BY <1>1, EarliestIsFirst
<1>3. e \in MediaEvent BY <1>1, <1>2, LenProperties
<1>4. t \in Tracks BY <1>3 DEF MediaEvent
<1>5. e \in Waiting(t) BY <1>2 DEF Waiting, Elements
<1>6. /\ batch' = Without(batch, Earliest)
      /\ sync' = AfterTiming(sync, t, e)
      /\ last' = [last EXCEPT ![t] = m]
      /\ UNCHANGED << world, main, now, camera, audio, chunks >>
  BY DEF WriteEvent
<1>7. timing.pts \in Int /\ timing.discontinuity = Discontinuity(sync, t, e)
      /\ Discontinuity(sync, t, e) \in BOOLEAN
  BY <1>1, <1>3, <1>4, TimingType DEF Discontinuity, MediaEvent
<1>8. e.true \in Int BY <1>3 DEF MediaEvent
<1> HIDE DEF timing, e, t
<1>9. /\ m \in Written /\ m.true = e.true /\ m.pts = timing.pts
      /\ m.joined <=> last[t] = NONE \/ last[t].true + Period = e.true
      /\ m.discontinuity <=> Discontinuity(sync, t, e)
      /\ m.reported <=> \/ Discontinuity(sync, t, e)
                        \/ last[t] # NONE /\ last[t].reported
  BY <1>7, <1>8 DEF Written
<1> HIDE DEF m
<1>10. last'[t] = m /\ \A u \in Tracks : u # t => last'[u] = last[u]
  BY <1>1, <1>4, <1>6
<1>11. last' \in [Tracks -> Written \cup {NONE}] BY <1>1, <1>4, <1>6, <1>9
<1> QED BY <1>3, <1>4, <1>5, <1>6, <1>9, <1>10, <1>11 DEF e, t, timing

LEMMA LossWrite ==
  ASSUME LossInv, WriteEvent, UNCHANGED world PROVE LossInv'
<1>1. /\ TypeOK /\ LossIsReported /\ Chained /\ Sorted /\ Warming
      /\ batch # << >> /\ main = "write" /\ ~Ended /\ ~Ended'
      /\ batch \in Seq(MediaEvent) /\ chunks \in Seq(MediaEvent)
      /\ sync \in Synchronizer
  BY DEF LossInv, WriteEvent, Ended, TypeOK
<1>2. PICK k \in 1 .. Len(batch), e \in MediaEvent, t \in Tracks :
      /\ k = Earliest /\ e = batch[k] /\ t = e.track /\ e \in Waiting(t)
      /\ batch' = Without(batch, k) /\ sync' = AfterTiming(sync, t, e)
      /\ \A u \in Tracks : u # t => last'[u] = last[u]
      /\ last'[t] \in Written /\ last'[t].true = e.true
      /\ last'[t].joined <=> last[t] = NONE \/ last[t].true + Period = e.true
      /\ last'[t].discontinuity <=> Discontinuity(sync, t, e)
      /\ last' \in [Tracks -> Written \cup {NONE}]
      /\ UNCHANGED << world, main, now, camera, audio, chunks >>
  BY <1>1, EarliestIsFirst, WriteStep
<1>3. /\ \A j \in 1 .. Len(batch) : j # k /\ batch[j].track = t
           => e.true + Period <= batch[j].true
  BY <1>1, <1>2, EarliestIsFirst
<1>4. /\ batch' \in Seq(MediaEvent) /\ InOrder(batch')
      /\ \A x \in Elements(batch') : \E j \in 1 .. Len(batch) : j # k /\ x = batch[j]
      /\ Elements(batch) \subseteq Elements(batch') \cup {e}
  BY <1>1, <1>2, <1>3, WithoutProperties, ElementsWithout, InOrderWithout
     DEF Sorted
<1>5. Elements(batch') \subseteq Elements(batch) BY <1>4 DEF Elements
<1>6. TypeOK'
  <2>1. sync' \in Synchronizer BY <1>1, <1>2, TimingType
  <2> QED BY <1>1, <1>2, <1>4, <2>1 DEF TypeOK
<1>7. \A u \in Tracks : u # t => Waiting(u)' = Waiting(u)
  BY <1>2, <1>4, <1>5 DEF Waiting
<1>8. Waiting(t)' \subseteq Waiting(t) /\ Waiting(t) \subseteq Waiting(t)' \cup {e}
  BY <1>2, <1>4, <1>5 DEF Waiting
<1>9. \A f \in Waiting(t)' : e.true + Period <= f.true
  <2> TAKE f \in Waiting(t)'
  <2>1. f.track = t /\ (f \in Elements(batch') \/ f \in Elements(chunks))
    BY <1>2 DEF Waiting
  <2>2. CASE f \in Elements(batch') BY <1>3, <1>4, <2>1, <2>2
  <2>3. CASE f \in Elements(chunks)
    <3>1. PICK j \in 1 .. Len(chunks) : f = chunks[j] BY <2>3 DEF Elements
    <3>2. t = "audio" BY <1>1, <2>1, <3>1 DEF Sorted
    <3> QED BY <1>1, <1>2, <3>1, <3>2 DEF Sorted
  <2> QED BY <2>1, <2>2, <2>3
<1>10. \A u \in Tracks : Due(u)' = Due(u) /\ Gap(u)' = Gap(u)
  BY <1>2 DEF Due, Gap
<1>11. /\ Chain(Waiting(t)', last'[t], Due(t), Gap(t))
       /\ e.source_discontinuity \/ last[t] = NONE \/ last[t].true + Period = e.true
  <2>1. /\ Waiting(t) \subseteq MediaEvent /\ last[t] \in Written \cup {NONE}
        /\ Due(t) \in Int /\ Gap(t) \in BOOLEAN
        /\ Chain(Waiting(t), last[t], Due(t), Gap(t))
    BY <1>1, <1>2, WaitingType DEF Chained
  <2>2. PICK Q, R, l, m, due, gap :
          /\ Q = Waiting(t) /\ R = Waiting(t)' /\ l = last[t] /\ m = last'[t]
          /\ due = Due(t) /\ gap = Gap(t)
    OBVIOUS
  <2>3. /\ Q \subseteq MediaEvent /\ l \in Written \cup {NONE}
        /\ due \in Int /\ gap \in BOOLEAN /\ Chain(Q, l, due, gap)
        /\ e \in Q /\ R \subseteq Q /\ Q \subseteq R \cup {e}
        /\ \A f \in R : e.true + Period <= f.true
        /\ m \in Written /\ m.true = e.true
    BY <1>2, <1>8, <1>9, <2>1, <2>2
  <2>4. /\ Chain(R, m, due, gap)
        /\ e.source_discontinuity \/ l = NONE \/ l.true + Period = e.true
    BY <2>3, ChainWrites
  <2> QED BY <2>2, <2>4
<1>12. Chained'
  <2> SUFFICES ASSUME NEW u \in Tracks
               PROVE  Chain(Waiting(u)', last'[u], Due(u)', Gap(u)')
    BY DEF Chained
  <2>1. CASE u = t BY <1>10, <1>11, <2>1
  <2>2. CASE u # t BY <1>1, <1>2, <1>7, <1>10, <2>2 DEF Chained
  <2> QED BY <2>1, <2>2
<1>13. LossIsReported'
  <2>1. last'[t].joined \/ last'[t].discontinuity
    BY <1>2, <1>11 DEF Discontinuity
  <2> QED BY <1>1, <1>2, <2>1 DEF LossIsReported
<1>14. Sorted'
  <2>1. ASSUME NEW i \in 1 .. Len(batch')
        PROVE  /\ \A j \in 1 .. Len(chunks) : batch'[i].track = "audio"
                     => batch'[i].true + Period <= chunks[j].true
               /\ batch'[i].track = "video"
                    => batch'[i].observed <= Larger(now - Period, 0)
    <3>1. batch'[i] \in Elements(batch') BY DEF Elements
    <3>2. PICK j \in 1 .. Len(batch) : batch'[i] = batch[j] BY <1>4, <3>1
    <3> QED BY <1>1, <3>2 DEF Sorted
  <2> QED BY <1>1, <1>2, <1>4, <2>1 DEF Sorted, InOrder
<1>15. Warming'
  <2>1. camera.warmup > 0 /\ ~camera.gap => t # "video"
    BY <1>1, <1>2 DEF Warming
  <2>2. "video" \in Tracks BY DEF Tracks
  <2>3. Jitter' = Jitter BY <1>2 DEF Jitter
  <2> QED BY <1>1, <1>2, <1>7, <2>1, <2>2, <2>3 DEF Warming
<1> QED BY <1>6, <1>12, <1>13, <1>14, <1>15 DEF LossInv

LEMMA LossStep ==
  ASSUME LossInv, ~Freezes, [Next]_vars PROVE LossInv'
<1>1. CASE UNCHANGED vars
  <2>1. /\ UNCHANGED << world, camera, audio, chunks, batch, sync, last >>
        /\ main' = main /\ now' = now
    BY <1>1 DEF vars
  <2>2. now \in Nat /\ (~Ended => Sorted) BY DEF LossInv, TypeOK
  <2> QED BY <2>1, <2>2, LossQuiet DEF Ended, Sorted
<1>2. ASSUME Next PROVE LossInv'
  <2>1. UNCHANGED world /\ now \in Nat /\ (~Ended => Sorted)
    BY <1>2 DEF Next, LossInv, TypeOK
  <2>2. CASE Open \/ OpeningFails
    BY <2>1, <2>2, LossQuiet DEF Open, OpeningFails, OpeningStep, LoadPlan,
       OpenCamera, SpawnAudio, CreateFile, WriteHeader, Ended, Sorted,
       OpeningError
  <2>3. CASE Signal \/ PollDone
    BY <2>1, <2>3, LossQuiet DEF Signal, PollDone, Media, Ended, Sorted
  <2>4. CASE Tick
    <3>1. /\ UNCHANGED << world, camera, audio, chunks, batch, sync, last >>
          /\ main' = main /\ now' = now + Quantum
          /\ now + Quantum <= camera.header + Jitter
      BY <2>1, <2>4 DEF Tick, Media
    <3>2. now' \in Nat /\ now <= now' BY <2>1, <3>1, CaptureAssumption
    <3> QED BY <2>1, <3>1, <3>2, LossQuiet DEF Ended, Sorted
  <2>5. CASE TurnDone BY <2>1, <2>5, LossQuiet DEF TurnDone, Ended
  <2>6. CASE Close \/ FinalizeFails
    BY <2>1, <2>6, LossQuiet DEF Close, FinalizeFails, StopBoth, Ended
  <2>7. CASE Stopped \/ AudioEnds \/ PollFails \/ CameraEnds \/ WriteFails
    BY <2>1, <2>7, LossEnds DEF Stopped, AudioEnds, PollFails, CameraEnds,
       WriteFails
  <2>8. CASE Finished BY <1>1, <2>8 DEF Finished
  <2>9. CASE Top BY <2>1, <2>9, LossTop
  <2>10. CASE WriteEvent BY <2>1, <2>10, LossWrite
  <2>11. CASE AudioPeriod \/ AudioOverrun
    BY <2>1, <2>11, LossAudio, LossOverrun
  <2>12. CASE VideoHeader \/ VideoReset
    BY <2>1, <2>12, LossVideo, LossReset
  <2> QED BY <1>2, <2>2, <2>3, <2>4, <2>5, <2>6, <2>7, <2>8, <2>9, <2>10, <2>11,
             <2>12 DEF Next, Loop, Arrivals
<1> QED BY <1>1, <1>2

(* run_capture_session, sync.rs: for every jitter, clock and length of        *)
(* capture, through any number of resets, overruns and turns of the loop,    *)
(* an event before which content of its track was lost is reported           *)
(* discontinuous, as long as the camera's timestamp advances.                *)
THEOREM LossSafety == ~Freezes => (Spec => []LossIsReported)
<1> SUFFICES ASSUME ~Freezes PROVE Spec => []LossIsReported
  OBVIOUS
<1>1. LossInv /\ [Next]_vars => LossInv' BY LossStep
<1>2. LossInv => LossIsReported BY DEF LossInv
<1> QED BY <1>1, <1>2, LossInit, PTL DEF Spec

-----------------------------------------------------------------------------
(* The distance of sound and picture.                                       *)

LEMMA JitterType == \A t \in Tracks : JitterOf(t) \in Nat /\ DelayOf(t) \in Int
BY CaptureAssumption DEF JitterOf, DelayOf, Jitter

LEMMA ShiftedBack ==
  ASSUME NEW pts \in Int, NEW from \in Int, NEW to \in Int, NEW delay \in Int,
         NEW began \in Int, NEW begins \in Int, began + Period = begins,
         NEW before \in Int, before = pts + to - Period - from + delay
  PROVE  pts + (to - from) - begins = before - delay - began
BY DEF Period

LEMMA LargerKeeps ==
  ASSUME NEW a \in Nat, NEW h \in Nat, h >= Period, a >= h
  PROVE  Larger(a - Period, 0) = a - Period
BY DEF Larger, Period

LEMMA OffsetInit == Init => OffsetInv
<1> SUFFICES ASSUME Init PROVE OffsetInv
  OBVIOUS
<1>1. \A t \in Tracks : last[t] = NONE BY DEF Init
<1>2. \A t \in Tracks : Waiting(t) = {}
  BY ElementsOfEmpty DEF Init, Waiting
<1>3. \A t \in Tracks : sync.anchor[t] = NONE /\ sync.last_end[t] = NONE
  BY DEF Init, NewSynchronizer
<1> QED BY <1>1, <1>2, <1>3 DEF OffsetInv, OnTime, Observed, Steady

(* Steps that write nothing. *)
LEMMA OffsetArrives ==
  ASSUME OffsetInv, UNCHANGED << world, last >>,
         ~Ended' => /\ ~Ended /\ UNCHANGED sync
                    /\ \A t \in Tracks : \A e \in Waiting(t)' :
                         \/ e \in Waiting(t)
                         \/ e.observed - e.true \in 0 .. JitterOf(t)
  PROVE  OffsetInv'
<1>1. \A t \in Tracks : JitterOf(t)' = JitterOf(t) BY DEF JitterOf, Jitter
<1>2. \A t \in Tracks : OnTime(t)' BY <1>1 DEF OffsetInv, OnTime, DelayOf
<1>3. ASSUME ~Ended' PROVE Observed' /\ \A t \in Tracks : Steady(t)'
  <2>1. Observed /\ \A t \in Tracks : Steady(t) BY <1>3 DEF OffsetInv
  <2>2. Observed' BY <1>1, <1>3, <2>1 DEF Observed
  <2>3. \A t \in Tracks : Steady(t)' BY <1>3, <2>1 DEF Steady, DelayOf
  <2> QED BY <2>2, <2>3
<1> QED BY <1>2, <1>3 DEF OffsetInv

LEMMA OffsetAudio ==
  ASSUME LossInv, OffsetInv, AudioPeriod, UNCHANGED world PROVE OffsetInv'
<1>1. PICK e : e = [track |-> "audio", observed |-> audio.due,
                    true |-> audio.due, position |-> audio.position,
                    duration |-> Period, source_discontinuity |-> audio.gap]
  OBVIOUS
<1>2. /\ chunks' = Append(chunks, e) /\ chunks \in Seq(MediaEvent)
      /\ UNCHANGED << world, main, batch, sync, last >>
      /\ audio \in [due : Nat, position : Nat, gap : BOOLEAN]
  BY <1>1 DEF AudioPeriod, LossInv, TypeOK
<1>3. e \in MediaEvent BY <1>1, <1>2 DEF MediaEvent, Tracks
<1>4. \A t \in Tracks : Waiting(t)' \subseteq Waiting(t) \cup {e}
  BY <1>2, <1>3, ElementsAppend DEF Waiting
<1>5. e.observed - e.true = 0 BY <1>1, <1>2
<1>6. \A t \in Tracks : e.observed - e.true \in 0 .. JitterOf(t)
  BY <1>5, JitterType
<1> QED BY <1>2, <1>4, <1>6, OffsetArrives DEF Ended

LEMMA OffsetVideo ==
  ASSUME LossInv, OffsetInv, ~Freezes, VideoHeader, UNCHANGED world
  PROVE  OffsetInv'
<1>1. /\ UNCHANGED << world, main, chunks, sync, last >> /\ ~Ended /\ Warming
      /\ batch \in Seq(MediaEvent) /\ camera \in Cameras /\ now \in Nat
  BY DEF VideoHeader, LossInv, TypeOK, Cameras, Ended
<1>2. CASE camera.warmup > 0
  <2>1. batch' = batch BY <1>2 DEF VideoHeader
  <2> QED BY <1>1, <2>1, OffsetArrives DEF Ended, Waiting
<1>3. CASE ~(camera.warmup > 0)
  <2>1. PICK e : e = [track |-> "video", true |-> camera.header - Period,
                      observed |-> Larger(now - Period, 0),
                      position |-> camera.unwrapped, duration |-> Period,
                      source_discontinuity |-> camera.gap]
    OBVIOUS
  <2>2. batch' = Append(batch, e) BY <1>3, <2>1 DEF VideoHeader, Durations
  <2>3. Larger(now - Period, 0) \in Nat BY <1>1, LargerMonotone
  <2>4. e \in MediaEvent
    BY <1>1, <2>1, <2>3 DEF MediaEvent, Tracks, Cameras, Period
  <2>5. /\ Waiting("audio")' \subseteq Waiting("audio")
        /\ Waiting("video")' \subseteq Waiting("video") \cup {e}
    <3>1. Elements(batch') = Elements(batch) \cup {e}
      BY <1>1, <2>2, <2>4, ElementsAppend
    <3>2. e.track = "video" BY <2>1
    <3> QED BY <1>1, <3>1, <3>2 DEF Waiting
  <2>6. e.observed - e.true \in 0 .. JitterOf("video")
    <3>1. /\ camera.header >= Period /\ now <= camera.header + Jitter
          /\ now >= camera.header /\ camera.header \in Nat
      <4>1. now >= camera.header BY DEF VideoHeader
      <4>2. camera.warmup < 2 /\ camera.header \in Nat
        BY <1>1, <1>3 DEF Cameras, Warmup
      <4> QED BY <1>1, <4>1, <4>2 DEF Warming
    <3>2. Jitter \in Nat /\ JitterOf("video") = Jitter
      BY CaptureAssumption DEF Jitter, JitterOf
    <3>3. e.observed = Larger(now - Period, 0) /\ e.true = camera.header - Period
      BY <2>1
    <3>4. Larger(now - Period, 0) = now - Period
      BY <1>1, <3>1, LargerKeeps
    <3> QED BY <1>1, <3>1, <3>2, <3>3, <3>4 DEF Period
  <2> QED BY <1>1, <2>5, <2>6, OffsetArrives DEF Ended, Tracks
<1> QED BY <1>2, <1>3

(* An event is timed from its track's anchor, which the first one sets; one   *)
(* that is not discontinuous follows the one before by a period, on the      *)
(* timeline as in truth.                                                     *)
LEMMA OffsetWrite ==
  ASSUME LossInv, OffsetInv, AudioDelay >= 0, WriteEvent, UNCHANGED world
  PROVE  OffsetInv'
<1>1. /\ TypeOK /\ Sorted /\ batch # << >> /\ ~Ended /\ ~Ended'
      /\ Observed /\ (\A u \in Tracks : Steady(u) /\ OnTime(u))
      /\ sync \in Synchronizer /\ last \in [Tracks -> Written \cup {NONE}]
      /\ batch \in Seq(MediaEvent)
  BY DEF LossInv, OffsetInv, TypeOK, WriteEvent, Ended
<1>2. PICK k \in 1 .. Len(batch), e \in MediaEvent, t \in Tracks :
      /\ k = Earliest /\ e = batch[k] /\ t = e.track /\ e \in Waiting(t)
      /\ batch' = Without(batch, k) /\ sync' = AfterTiming(sync, t, e)
      /\ \A u \in Tracks : u # t => last'[u] = last[u]
      /\ last'[t] \in Written /\ last'[t].true = e.true
      /\ last'[t].pts = ApplyAudioDelay(Timing(sync, t, e), t).pts
      /\ last'[t].joined <=> last[t] = NONE \/ last[t].true + Period = e.true
      /\ last'[t].discontinuity <=> Discontinuity(sync, t, e)
      /\ last'[t].reported <=> \/ Discontinuity(sync, t, e)
                               \/ last[t] # NONE /\ last[t].reported
      /\ UNCHANGED << world, main, now, camera, audio, chunks >>
  BY <1>1, EarliestIsFirst, WriteStep
<1>3. PICK a \in ClockAnchor, P \in Nat, n \in Nat :
        /\ a = AnchorFor(sync, t, e) /\ P = AnchoredPts(a, e.position)
        /\ n = e.position + Period
        /\ sync'.anchor[t] = a /\ sync'.last_end[t] = n
        /\ \A u \in Tracks : u # t => /\ sync'.anchor[u] = sync.anchor[u]
                                      /\ sync'.last_end[u] = sync.last_end[u]
  <2>1. AnchorFor(sync, t, e) \in ClockAnchor BY <1>1, TimingType
  <2>2. e.position \in Nat /\ e.duration = Period BY DEF MediaEvent
  <2>3. AnchoredPts(AnchorFor(sync, t, e), e.position) \in Nat
    <3>1. /\ AnchorFor(sync, t, e).position \in Nat
          /\ AnchorFor(sync, t, e).pts \in Nat
      BY <2>1 DEF ClockAnchor
    <3> HIDE DEF AnchorFor
    <3> QED BY <2>2, <3>1 DEF AnchoredPts
  <2>4. e.position + Period \in Nat BY <2>2 DEF Period
  <2>5. /\ sync'.anchor = [sync.anchor EXCEPT ![t] = AnchorFor(sync, t, e)]
        /\ sync'.last_end = [sync.last_end EXCEPT ![t] = e.position + Period]
    BY <1>2, <2>2 DEF AfterTiming
  <2>6. /\ sync.anchor \in [Tracks -> ClockAnchor \cup {NONE}]
        /\ sync.last_end \in [Tracks -> Nat \cup {NONE}]
    BY <1>1 DEF Synchronizer
  <2> QED BY <2>1, <2>3, <2>4, <2>5, <2>6
<1>4. /\ a.position \in Nat /\ a.pts \in Nat /\ e.position \in Nat
      /\ e.true \in Int /\ e.observed \in Nat /\ DelayOf(t) \in Int
      /\ JitterOf(t) \in Nat
  BY JitterType DEF ClockAnchor, MediaEvent
<1>5. last'[t].pts = P + DelayOf(t)
  <2>1. Timing(sync, t, e).pts = P BY <1>3 DEF Timing
  <2>2. ApplyAudioDelay(Timing(sync, t, e), t).pts
          = IF t = "video" THEN P ELSE Larger(P + AudioDelay, 0)
    BY <2>1 DEF ApplyAudioDelay, Timing
  <2>3. Larger(P + AudioDelay, 0) = P + AudioDelay /\ P + 0 = P
    BY CaptureAssumption DEF Larger
  <2> HIDE DEF Larger
  <2> QED BY <1>2, <2>2, <2>3 DEF DelayOf, Tracks
(* Where the first event of a track, or the next of an unbroken one, falls. *)
<1>6. ASSUME ~last'[t].reported
      PROVE  /\ e.position >= a.position
             /\ P = a.pts + (e.position - a.position)
             /\ P - e.true \in 0 .. JitterOf(t)
  <2>1. CASE last[t] = NONE
    <3>1. sync.anchor[t] = NONE BY <1>1, <2>1 DEF Steady
    <3>2. a.position = e.position /\ a.pts = e.observed
      BY <1>3, <3>1 DEF AnchorFor
    <3>3. P = e.observed BY <1>3, <1>4, <3>2 DEF AnchoredPts
    <3>4. e.observed - e.true \in 0 .. JitterOf(t) BY <1>1, <1>2 DEF Observed
    <3> QED BY <1>4, <3>2, <3>3, <3>4
  <2>2. CASE last[t] # NONE
    <3>1. ~Discontinuity(sync, t, e) /\ ~last[t].reported BY <1>2, <1>6, <2>2
    <3>2. /\ sync.anchor[t] # NONE /\ sync.last_end[t] # NONE
          /\ sync.last_end[t] >= sync.anchor[t].position + Period
          /\ last[t].pts = sync.anchor[t].pts + sync.last_end[t] - Period
                             - sync.anchor[t].position + DelayOf(t)
      BY <1>1, <2>2, <3>1 DEF Steady
    <3>3. a = sync.anchor[t] /\ e.position = sync.last_end[t]
      BY <1>3, <3>1, <3>2 DEF AnchorFor, Discontinuity
    <3>4. last[t].true + Period = e.true
      <4>1. LossIsReported' BY LossWrite DEF LossInv
      <4>2. last'[t] # NONE BY <1>2, CaptureAssumption
      <4>3. last'[t].joined BY <1>2, <3>1, <4>1, <4>2 DEF LossIsReported
      <4> QED BY <1>2, <2>2, <4>3
    <3>5. last[t].true \in Int /\ last[t].pts \in Int
      BY <1>1, <2>2 DEF Written
    <3>6. e.position >= a.position BY <1>4, <3>2, <3>3 DEF Period
    <3>7. P = a.pts + (e.position - a.position)
      BY <1>3, <1>4, <3>6 DEF AnchoredPts
    <3>8. last[t].pts - DelayOf(t) - last[t].true \in 0 .. JitterOf(t)
      BY <1>1, <2>2, <3>1 DEF OnTime
    <3>9. last[t].pts = a.pts + e.position - Period - a.position + DelayOf(t)
      BY <3>2, <3>3
    <3>10. P - e.true = last[t].pts - DelayOf(t) - last[t].true
      <4>1. /\ a.pts \in Int /\ a.position \in Int /\ e.position \in Int
            /\ DelayOf(t) \in Int /\ last[t].true \in Int /\ e.true \in Int
            /\ last[t].pts \in Int
        BY <1>4, <3>5
      <4>2. PICK pts \in Int, from \in Int, to \in Int, delay \in Int,
                 began \in Int, begins \in Int, before \in Int :
              /\ pts = a.pts /\ from = a.position /\ to = e.position
              /\ delay = DelayOf(t) /\ began = last[t].true /\ begins = e.true
              /\ before = last[t].pts
        BY <4>1, Zenon
      <4>3. began + Period = begins /\ before = pts + to - Period - from + delay
        BY <3>4, <3>9, <4>2, Zenon
      <4>4. pts + (to - from) - begins = before - delay - began
        BY <4>3, ShiftedBack
      <4>5. P = pts + (to - from) BY <3>7, <4>2
      <4>6. P - begins = before - delay - began BY <4>4, <4>5
      <4> QED BY <4>2, <4>6
    <3> QED BY <3>6, <3>7, <3>8, <3>10
  <2> QED BY <2>1, <2>2
<1>7. \A u \in Tracks : JitterOf(u)' = JitterOf(u) /\ DelayOf(u)' = DelayOf(u)
  BY <1>2 DEF JitterOf, Jitter, DelayOf
<1>8. OnTime(t)'
  <2>1. ASSUME ~last'[t].reported
        PROVE  last'[t].pts - DelayOf(t) - last'[t].true \in 0 .. JitterOf(t)
    <3>1. last'[t].pts - DelayOf(t) - last'[t].true = P - e.true
      BY <1>2, <1>4, <1>5
    <3> QED BY <1>6, <2>1, <3>1
  <2> QED BY <1>7, <2>1 DEF OnTime
<1>9. Steady(t)'
  <2>1. last'[t] # NONE BY <1>2, CaptureAssumption
  <2>2. a # NONE /\ n # NONE BY SynchronizerAssumption
  <2>3. ASSUME ~last'[t].reported
        PROVE  /\ n >= a.position + Period
               /\ last'[t].pts = a.pts + n - Period - a.position + DelayOf(t)
    <3>1. e.position >= a.position /\ P = a.pts + (e.position - a.position)
      BY <1>6, <2>3
    <3>2. n = e.position + Period BY <1>3
    <3>3. n >= a.position + Period BY <1>4, <3>1, <3>2 DEF Period
    <3>4. P = a.pts + n - Period - a.position BY <1>4, <3>1, <3>2 DEF Period
    <3> QED BY <1>5, <3>3, <3>4
  <2> QED BY <1>3, <1>7, <2>1, <2>2, <2>3 DEF Steady
<1>10. \A u \in Tracks : OnTime(u)' /\ Steady(u)'
  <2> TAKE u \in Tracks
  <2>1. CASE u = t BY <1>8, <1>9, <2>1
  <2>2. CASE u # t
    BY <1>1, <1>2, <1>3, <1>7, <2>2 DEF OnTime, Steady
  <2> QED BY <2>1, <2>2
<1>11. Observed'
  <2>1. Elements(batch') \subseteq Elements(batch)
    <3>1. \A x \in Elements(batch') : \E j \in 1 .. Len(batch) : x = batch[j]
      BY <1>1, <1>2, ElementsWithout
    <3> QED BY <3>1 DEF Elements
  <2>2. \A u \in Tracks : Waiting(u)' \subseteq Waiting(u)
    BY <1>2, <2>1 DEF Waiting
  <2> QED BY <1>1, <1>7, <2>2 DEF Observed
<1> QED BY <1>10, <1>11 DEF OffsetInv

LEMMA OffsetStep ==
  ASSUME LossInv, OffsetInv, ~Freezes, AudioDelay >= 0, [Next]_vars
  PROVE  OffsetInv'
<1>1. CASE UNCHANGED vars
  BY <1>1, OffsetArrives DEF vars, Ended, Waiting
<1>2. ASSUME Next PROVE OffsetInv'
  <2>1. UNCHANGED world BY <1>2 DEF Next
  <2>2. CASE Open \/ OpeningFails
    BY <2>1, <2>2, OffsetArrives DEF Open, OpeningFails, OpeningStep, LoadPlan,
       OpenCamera, SpawnAudio, CreateFile, WriteHeader, Ended, Waiting
  <2>3. CASE Signal \/ PollDone \/ Tick \/ AudioOverrun \/ VideoReset
    BY <2>1, <2>3, OffsetArrives DEF Signal, PollDone, Tick, AudioOverrun,
       VideoReset, Media, Ended, Waiting
  <2>4. CASE TurnDone \/ Close \/ FinalizeFails
    BY <2>1, <2>4, OffsetArrives DEF TurnDone, Close, FinalizeFails, StopBoth,
       Ended, Waiting
  <2>5. CASE Stopped \/ AudioEnds \/ PollFails \/ CameraEnds \/ WriteFails
    BY <2>1, <2>5, OffsetArrives DEF Stopped, AudioEnds, PollFails, CameraEnds,
       WriteFails, EndWith, Ended
  <2>6. CASE Finished BY <1>1, <2>6 DEF Finished
  <2>7. CASE Top
    <3>1. batch = << >> BY <2>7 DEF Top, LossInv, Ended, Sorted
    <3>2. \A t \in Tracks : Waiting(t)' = Waiting(t)
      BY <2>7, <3>1, ElementsOfEmpty DEF Top, Waiting
    <3> QED BY <2>1, <2>7, <3>2, OffsetArrives DEF Top, Ended
  <2>8. CASE WriteEvent BY <2>1, <2>8, OffsetWrite
  <2>9. CASE AudioPeriod BY <2>1, <2>9, OffsetAudio
  <2>10. CASE VideoHeader BY <2>1, <2>10, OffsetVideo
  <2> QED BY <1>2, <2>2, <2>3, <2>4, <2>5, <2>6, <2>7, <2>8, <2>9, <2>10
          DEF Next, Loop, Arrivals
<1> QED BY <1>1, <1>2

(* docs/av-sync.md: for every jitter, clock and length of capture, and any   *)
(* batching of the turns, sound and picture are apart by the delay asked     *)
(* for, give or take the first frame's jitter, until a discontinuity is      *)
(* reported; as long as the camera's timestamp advances, and for a delay     *)
(* that does not move sound before the start of the file.                    *)
THEOREM OffsetSafety ==
  ~Freezes /\ AudioDelay >= 0 => (Spec => []AvOffsetPreserved)
<1> SUFFICES ASSUME ~Freezes, AudioDelay >= 0 PROVE Spec => []AvOffsetPreserved
  OBVIOUS
<1> DEFINE Inv == LossInv /\ OffsetInv
<1>1. Init => Inv BY LossInit, OffsetInit
<1>2. Inv /\ [Next]_vars => Inv' BY LossStep, OffsetStep
<1>3. Inv => AvOffsetPreserved
  <2> SUFFICES ASSUME LossInv, OffsetInv,
                      last["video"] # NONE, last["audio"] # NONE,
                      \A t \in Tracks : ~last[t].reported
               PROVE  Distance(Error("video") + AudioDelay, Error("audio"))
                        <= MaxJitter
    BY DEF AvOffsetPreserved
  <2>1. /\ last["video"] \in Written /\ last["audio"] \in Written
    BY DEF LossInv, TypeOK, Tracks
  <2>2. PICK v \in Int, p \in Int, q \in Int, r \in Int :
          /\ v = last["video"].pts /\ p = last["video"].true
          /\ q = last["audio"].pts /\ r = last["audio"].true
    BY <2>1 DEF Written
  <2>3. /\ v - 0 - p \in 0 .. Jitter /\ q - AudioDelay - r \in 0 .. 0
    BY <2>2 DEF OffsetInv, OnTime, Tracks, DelayOf, JitterOf
  <2>4. Jitter \in 0 .. MaxJitter /\ AudioDelay \in Int /\ MaxJitter \in Nat
    BY CaptureAssumption DEF Jitter
  <2>5. (v - p) + AudioDelay - (q - r) \in 0 .. MaxJitter BY <2>3, <2>4
  <2> QED BY <2>2, <2>4, <2>5 DEF Distance, Error
<1> HIDE DEF Inv
<1> QED BY <1>1, <1>2, <1>3, PTL DEF Spec

-----------------------------------------------------------------------------
(* The end of a capture: a result is only set on the way out, and a good one *)
(* only after the signal.                                                    *)
EndInv == /\ BothStopped /\ FinalizedOnSuccess
          /\ ~Ended => result = "none"
          /\ result = "Ok" => stopping

LEMMA EndStep == EndInv /\ [Next]_vars => EndInv'
<1> SUFFICES ASSUME EndInv, [Next]_vars PROVE EndInv'
  OBVIOUS
<1> USE DEF EndInv, BothStopped, FinalizedOnSuccess, Ended
<1>1. CASE UNCHANGED vars BY <1>1 DEF vars
<1>2. ASSUME NEW value, EndWith(value), ~Ended, value = "Ok" => stopping
      PROVE  EndInv'
  BY <1>2 DEF EndWith
<1>3. CASE Stopped \/ AudioEnds \/ PollFails \/ CameraEnds \/ WriteFails
  BY <1>2, <1>3 DEF Stopped, AudioEnds, PollFails, CameraEnds, WriteFails
<1>4. CASE Open
  BY <1>4 DEF Open, OpeningStep, LoadPlan, OpenCamera, SpawnAudio, CreateFile,
     WriteHeader
<1>5. CASE OpeningFails
  <2>1. OpeningError[main] # "Ok" BY <1>5 DEF OpeningFails, OpeningError
  <2> QED BY <1>5, <2>1 DEF OpeningFails
<1>6. CASE Signal \/ PollDone \/ Tick
  BY <1>6 DEF Signal, PollDone, Tick, Media
<1>7. CASE Top \/ WriteEvent \/ TurnDone BY <1>7 DEF Top, WriteEvent, TurnDone
<1>8. CASE VideoHeader \/ VideoReset \/ AudioPeriod \/ AudioOverrun
  BY <1>8 DEF VideoHeader, VideoReset, AudioPeriod, AudioOverrun
<1>9. CASE Close
  <2>1. finalized' = (finalized \/ result = "Ok") /\ result' = result
    BY <1>9 DEF Close
  <2>2. result' = "Ok" => finalized' BY <2>1, Zenon
  <2> QED BY <1>9, <2>1, <2>2 DEF Close, StopBoth
<1>10. CASE FinalizeFails BY <1>10 DEF FinalizeFails, StopBoth
<1> QED BY <1>1, <1>3, <1>4, <1>5, <1>6, <1>7, <1>8, <1>9, <1>10
        DEF Next, Loop, Arrivals, Finished

LEMMA EndSafety == Spec => []EndInv
<1>1. Init => EndInv
  BY DEF Init, EndInv, BothStopped, FinalizedOnSuccess, Ended
<1> QED BY <1>1, EndStep, PTL DEF Spec

(* run_capture: whichever step of the opening or of the loop fails, the USB   *)
(* session is closed and the audio worker stopped before it returns.         *)
THEOREM StopSafety == Spec => []BothStopped
<1>1. EndInv => BothStopped BY DEF EndInv
<1> QED BY <1>1, EndSafety, PTL

(* docs/av-sync.md: a capture that succeeds was asked to stop and has the     *)
(* duration of everything it wrote in its header, also when the camera fails *)
(* while it stops or between two periodic updates.                           *)
THEOREM FinalizeSafety == Spec => []FinalizedOnSuccess
<1>1. EndInv => FinalizedOnSuccess BY DEF EndInv
<1> QED BY <1>1, EndSafety, PTL
==============================================================================
