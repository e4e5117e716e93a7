------------------------- MODULE CameraStreamProofs -------------------------
(***************************************************************************)
(* Theorems about the decoder under a camera of any record length, packet  *)
(* sizes, clock, skew and pattern of losses.                               *)
(*                                                                         *)
(* What the event loop can do to the decoder is first boiled down to five  *)
(* cases (OnPacketCases); every invariant then follows case by case.       *)
(***************************************************************************)
EXTENDS CameraStream, TLAPS

(* The record opened by an accepted header. *)
OpenedBy(record, packet, unwrapped) ==
  /\ record \in PendingRecord
  /\ record.timestamp = packet.timestamp
  /\ record.unwrapped = unwrapped
  /\ record.clock = packet.clock
  /\ record.parts = << packet.id >> /\ Len(record.parts) = 1

Forgotten == /\ decoder'.current = NONE
             /\ decoder'.boundary_pending = FALSE
             /\ decoder'.discard_first_record = TRUE
             /\ decoder'.next_sequence = 0
             /\ frame' = NONE /\ origin' = 0

Ignored == /\ decoder'.current = decoder.current
           /\ decoder'.discard_first_record = decoder.discard_first_record
           /\ decoder'.next_sequence = decoder.next_sequence
           /\ UNCHANGED << frame, origin >>

Appended(packet) ==
  /\ decoder.current # NONE
  /\ decoder'.current \in PendingRecord
  /\ decoder'.current.size <= MaxRecordSize
  /\ decoder'.current.timestamp = decoder.current.timestamp
  /\ decoder'.current.unwrapped = decoder.current.unwrapped
  /\ decoder'.current.clock = decoder.current.clock
  /\ decoder'.current.parts = Append(decoder.current.parts, packet.id)
  /\ decoder'.boundary_pending = decoder.boundary_pending
  /\ decoder'.discard_first_record = decoder.discard_first_record
  /\ decoder'.next_sequence = decoder.next_sequence
  /\ UNCHANGED << frame, origin >>

(* The first header, or the one that ends the discarded record. *)
Restarted(packet) ==
  /\ decoder.discard_first_record \/ decoder.current = NONE
  /\ OpenedBy(decoder'.current, packet, 0)
  /\ decoder'.discard_first_record =
       (decoder.discard_first_record /\ decoder.current = NONE)
  /\ decoder'.boundary_pending = FALSE
  /\ decoder'.next_sequence = decoder.next_sequence
  /\ UNCHANGED << frame, origin >>

Emitted(packet) ==
  /\ ~decoder.discard_first_record /\ decoder.current # NONE
  /\ frame' \in CompressedFrame
  /\ frame'.sequence = decoder.next_sequence
  /\ frame'.unwrapped = decoder.current.unwrapped
  /\ frame'.clock = decoder.current.clock
  /\ frame'.parts = decoder.current.parts
  /\ frame'.delta = TimestampDelta(packet.timestamp, decoder.current.timestamp)
  /\ OpenedBy(decoder'.current, packet, frame'.unwrapped + frame'.delta)
  /\ decoder'.boundary_pending = FALSE
  /\ decoder'.discard_first_record = FALSE
  /\ decoder'.next_sequence = decoder.next_sequence + 1
  /\ origin' = IF frame'.sequence = 0 THEN frame'.clock ELSE origin

(* What the event loop does with a packet: a decode error forgets; without   *)
(* one a boundary packet leaves its flag, an announced marker is a header    *)
(* and everything else is payload of the open record, if there is one.       *)
Outcome(packet) ==
  IF PushPacket(decoder, packet).error # "none" THEN Forgotten
  ELSE IF packet.endpoint # "Video"
  THEN /\ Ignored
       /\ decoder'.boundary_pending =
            (decoder.boundary_pending \/ packet.marker)
  ELSE IF packet.marker /\ decoder.boundary_pending
  THEN Restarted(packet) \/ Emitted(packet)
  ELSE \/ /\ Ignored /\ decoder.current = NONE
          /\ decoder'.boundary_pending = decoder.boundary_pending
       \/ Appended(packet)

(* The values of one turn of the timestamp counter are numbers. *)
LEMMA TurnIsInt == \A x \in 0 .. TimestampRange - 1 : x \in Int
<1>1. \A n \in Int : \A x \in 0 .. n : x \in Int BY SMT
<1>2. TimestampRange - 1 \in Int BY SMT DEF TimestampRange
<1> QED BY <1>1, <1>2, Zenon

-----------------------------------------------------------------------------
(* An 11-bit difference is again an 11-bit value. *)
LEMMA DeltaType ==
  ASSUME NEW a \in 0 .. TimestampRange - 1, NEW b \in 0 .. TimestampRange - 1
  PROVE  TimestampDelta(a, b) \in 0 .. TimestampRange - 1
<1>1. (a - b) % 65536 \in Nat BY DEF TimestampRange
<1> QED BY <1>1 DEF TimestampDelta, TimestampRange

(* For clocks in order, the difference of their low 11 bits is the elapsed   *)
(* time up to whole turns, and never more than it.                           *)
LEMMA DeltaCongruent ==
  ASSUME NEW a \in Nat, NEW b \in Nat, b <= a
  PROVE  LET d == TimestampDelta(a % TimestampRange, b % TimestampRange)
         IN  d <= a - b /\ (a - b - d) % TimestampRange = 0
BY DEF TimestampDelta, TimestampRange

(* What an accepted header does when it finishes no record, or the record    *)
(* that is discarded: a record is opened at time 0.                          *)
LEMMA HeaderRestarts ==
  ASSUME NEW d \in Decoder, NEW packet \in EndpointPacket,
         packet.size >= HeaderSize,
         d.discard_first_record \/ d.current = NONE
  PROVE  LET r == PushHeader(d, packet)
         IN  /\ r.error = "none" /\ r.frame = NONE
             /\ r.decoder \in Decoder
             /\ OpenedBy(r.decoder.current, packet, 0)
             /\ r.decoder.boundary_pending = FALSE
             /\ r.decoder.next_sequence = d.next_sequence
             /\ r.decoder.discard_first_record =
                  (d.discard_first_record /\ d.current = NONE)
<1> DEFINE opened == [timestamp |-> packet.timestamp, unwrapped |-> 0,
                      size |-> packet.size - HeaderSize,
                      nonzero |-> packet.nonzero,
                      parts |-> << packet.id >>, clock |-> packet.clock]
           flag == d.discard_first_record /\ d.current = NONE
           taken == [boundary_pending |-> FALSE, current |-> opened,
                     discard_first_record |-> flag,
                     next_sequence |-> d.next_sequence]
<1>1. opened \in PendingRecord
  <2>1. << packet.id >> \in Seq(Nat \X Nat) BY DEF EndpointPacket
  <2>2. packet.size - HeaderSize \in Nat BY DEF EndpointPacket, HeaderSize
  <2> QED BY <2>1, <2>2 DEF EndpointPacket, PendingRecord
<1>2. OpenedBy(opened, packet, 0) BY <1>1 DEF OpenedBy
<1>3. taken \in Decoder BY <1>1 DEF Decoder
<1>4. PushHeader(d, packet) = Result(taken, "none", NONE)
  <2>1. CASE d.current = NONE
    BY <2>1 DEF PushHeader, Decoder, Result
  <2>2. CASE d.current # NONE
    BY <2>2 DEF PushHeader, Decoder, Result
  <2> QED BY <2>1, <2>2
<1>5. /\ taken.current = opened /\ taken.discard_first_record = flag
      /\ taken.boundary_pending = FALSE
      /\ taken.next_sequence = d.next_sequence
  OBVIOUS
<1> HIDE DEF taken, opened
<1> QED BY <1>2, <1>3, <1>4, <1>5 DEF Result

(* What an accepted header does when it finishes a record worth keeping: the *)
(* record is emitted, or refused as empty with no frame.                     *)
LEMMA HeaderEmits ==
  ASSUME NEW d \in Decoder, NEW packet \in EndpointPacket,
         packet.size >= HeaderSize,
         ~d.discard_first_record, d.current # NONE
  PROVE  LET r == PushHeader(d, packet)
             delta == TimestampDelta(packet.timestamp, d.current.timestamp)
         IN  /\ r.decoder \in Decoder
             /\ \/ r.error = "EmptyEntropy"
                \/ /\ r.error = "none"
                   /\ r.frame \in CompressedFrame
                   /\ r.frame.sequence = d.next_sequence
                   /\ r.frame.unwrapped = d.current.unwrapped
                   /\ r.frame.clock = d.current.clock
                   /\ r.frame.parts = d.current.parts
                   /\ r.frame.delta = delta
                   /\ OpenedBy(r.decoder.current, packet,
                               d.current.unwrapped + delta)
                   /\ r.decoder.boundary_pending = FALSE
                   /\ r.decoder.next_sequence = d.next_sequence + 1
                   /\ r.decoder.discard_first_record = FALSE
<1> DEFINE delta == TimestampDelta(packet.timestamp, d.current.timestamp)
           opened == [timestamp |-> packet.timestamp,
                      unwrapped |-> d.current.unwrapped + delta,
                      size |-> packet.size - HeaderSize,
                      nonzero |-> packet.nonzero,
                      parts |-> << packet.id >>, clock |-> packet.clock]
           taken == [d EXCEPT !.boundary_pending = FALSE, !.current = opened]
           counted == [taken EXCEPT !.next_sequence = @ + 1]
           out == [sequence |-> d.next_sequence,
                   timestamp |-> d.current.timestamp,
                   unwrapped |-> d.current.unwrapped, delta |-> delta,
                   parts |-> d.current.parts, clock |-> d.current.clock]
<1>1. d.current \in PendingRecord /\ d.next_sequence \in Nat
  BY DEF Decoder
<1>2. delta \in 0 .. TimestampRange - 1
  BY <1>1, DeltaType DEF PendingRecord, EndpointPacket
<1>3. d.current.unwrapped + delta \in Nat
  <2>1. d.current.unwrapped \in Nat BY <1>1 DEF PendingRecord
  <2>2. \A x \in 0 .. TimestampRange - 1 : x \in Nat BY SMT DEF TimestampRange
  <2>3. \A x, y \in Nat : x + y \in Nat BY SMT
  <2> HIDE DEF delta
  <2>4. delta \in Nat BY <1>2, <2>2, Zenon
  <2> QED BY <2>1, <2>3, <2>4, Zenon
<1>4. opened \in PendingRecord
  <2>1. << packet.id >> \in Seq(Nat \X Nat) BY DEF EndpointPacket
  <2>2. packet.size - HeaderSize \in Nat BY DEF EndpointPacket, HeaderSize
  <2>3. /\ packet.timestamp \in 0 .. TimestampRange - 1
        /\ packet.nonzero \in BOOLEAN /\ packet.clock \in Nat
    BY DEF EndpointPacket
  <2> HIDE DEF delta
  <2> QED BY <1>3, <2>1, <2>2, <2>3 DEF PendingRecord
<1>5. OpenedBy(opened, packet, d.current.unwrapped + delta)
  BY <1>4 DEF OpenedBy
<1>6. out \in CompressedFrame
  BY <1>1, <1>2 DEF PendingRecord, CompressedFrame
<1>7. /\ taken \in Decoder /\ taken.current = opened
      /\ taken.boundary_pending = FALSE
      /\ taken.next_sequence = d.next_sequence
      /\ taken.discard_first_record = FALSE
  <2> HIDE DEF opened
  <2> QED BY <1>4 DEF Decoder
<1>8. /\ counted \in Decoder /\ counted.current = opened
      /\ counted.boundary_pending = FALSE
      /\ counted.next_sequence = d.next_sequence + 1
      /\ counted.discard_first_record = FALSE
  <2> HIDE DEF opened, taken
  <2> QED BY <1>1, <1>7 DEF Decoder
<1>9. PushHeader(d, packet) =
        IF EmptyEntropy(d.current) THEN Result(taken, "EmptyEntropy", NONE)
        ELSE Result(counted, "none", out)
  <2> DEFINE start == IF d.discard_first_record \/ d.current = NONE
                      THEN 0 ELSE d.current.unwrapped + delta
             first == [timestamp |-> packet.timestamp, unwrapped |-> start,
                       size |-> packet.size - HeaderSize,
                       nonzero |-> packet.nonzero,
                       parts |-> << packet.id >>, clock |-> packet.clock]
             kept == [d EXCEPT !.boundary_pending = FALSE, !.current = first]
  <2>1. PushHeader(d, packet) =
          IF EmptyEntropy(d.current) THEN Result(kept, "EmptyEntropy", NONE)
          ELSE Result([kept EXCEPT !.next_sequence = @ + 1], "none", out)
    BY Zenon DEF PushHeader
  <2>2. start = d.current.unwrapped + delta
    OBVIOUS
  <2>3. first = opened BY <2>2
  <2> HIDE DEF opened, first
  <2>4. kept = taken BY <2>3
  <2> HIDE DEF kept, taken, out
  <2> QED BY <2>1, <2>4
<1>10. /\ out.sequence = d.next_sequence
       /\ out.unwrapped = d.current.unwrapped
       /\ out.clock = d.current.clock /\ out.delta = delta
       /\ out.parts = d.current.parts
  OBVIOUS
<1> HIDE DEF taken, counted, opened, out, delta
<1>11. CASE EmptyEntropy(d.current)
  BY <1>7, <1>9, <1>11 DEF Result
<1>12. CASE ~EmptyEntropy(d.current)
  <2>1. PushHeader(d, packet) = Result(counted, "none", out)
    BY <1>9, <1>12
  <2> QED BY <1>5, <1>6, <1>8, <1>10, <2>1 DEF Result, delta
<1> QED BY <1>11, <1>12

(* What payload does: nothing, one more part, or an error past the limit. *)
LEMMA PayloadAppends ==
  ASSUME NEW d \in Decoder, NEW packet \in EndpointPacket
  PROVE  LET r == AppendPayload(d, packet)
         IN  \/ r.error = "RecordTooLarge" /\ r.decoder \in Decoder
             \/ d.current = NONE /\ r = Result(d, "none", NONE)
             \/ /\ r.error = "none" /\ r.frame = NONE
                /\ r.decoder \in Decoder
                /\ d.current # NONE
                /\ r.decoder.current \in PendingRecord
                /\ r.decoder.current.size <= MaxRecordSize
                /\ r.decoder.current.timestamp = d.current.timestamp
                /\ r.decoder.current.unwrapped = d.current.unwrapped
                /\ r.decoder.current.clock = d.current.clock
                /\ r.decoder.current.parts =
                     Append(d.current.parts, packet.id)
                /\ r.decoder.boundary_pending = d.boundary_pending
                /\ r.decoder.next_sequence = d.next_sequence
                /\ r.decoder.discard_first_record = d.discard_first_record
<1>1. CASE d.current = NONE BY <1>1 DEF AppendPayload
<1>2. CASE d.current # NONE /\ d.current.size + packet.size > MaxRecordSize
  BY <1>2 DEF AppendPayload, Result, Decoder
<1>3. CASE d.current # NONE /\ ~(d.current.size + packet.size > MaxRecordSize)
  <2> DEFINE grown == [d.current EXCEPT
                         !.size = @ + packet.size,
                         !.nonzero = @ \/ packet.nonzero \/ packet.marker,
                         !.parts = Append(@, packet.id)]
             kept == [d EXCEPT !.current = grown]
  <2>1. d.current \in PendingRecord BY <1>3 DEF Decoder
  <2>2. grown \in PendingRecord
    <3>1. /\ d.current.size + packet.size \in Nat
          /\ Append(d.current.parts, packet.id) \in Seq(Nat \X Nat)
      BY <2>1 DEF PendingRecord, EndpointPacket
    <3>2. (d.current.nonzero \/ packet.nonzero \/ packet.marker) \in BOOLEAN
      OBVIOUS
    <3> QED BY <2>1, <3>1, <3>2 DEF PendingRecord
  <2>3. /\ grown.size = d.current.size + packet.size
        /\ grown.timestamp = d.current.timestamp
        /\ grown.unwrapped = d.current.unwrapped
        /\ grown.clock = d.current.clock
        /\ grown.parts = Append(d.current.parts, packet.id)
    BY <2>1 DEF PendingRecord
  <2>4. grown.size <= MaxRecordSize
    <3>1. /\ d.current.size \in Nat /\ packet.size \in Nat
          /\ MaxRecordSize \in Nat
      BY <2>1, DecoderAssumption DEF PendingRecord, EndpointPacket
    <3>2. \A a, b, m \in Nat : ~(a + b > m) => a + b <= m OBVIOUS
    <3>3. d.current.size + packet.size <= MaxRecordSize
      BY <1>3, <3>1, <3>2, Zenon
    <3> HIDE DEF grown
    <3> QED BY <2>3, <3>3, Zenon
  <2>5. /\ kept \in Decoder /\ kept.current = grown
        /\ kept.boundary_pending = d.boundary_pending
        /\ kept.next_sequence = d.next_sequence
        /\ kept.discard_first_record = d.discard_first_record
    BY <2>2 DEF Decoder
  <2>6. AppendPayload(d, packet) = Result(kept, "none", NONE)
    BY <1>3, <2>1 DEF AppendPayload, Result, Decoder, PendingRecord
  <2> HIDE DEF kept, grown
  <2> QED BY <1>3, <2>2, <2>3, <2>4, <2>5, <2>6 DEF Result
<1> QED BY <1>1, <1>2, <1>3

(* A packet the event loop can be given. *)
Acceptable(packet) == /\ packet \in EndpointPacket
                      /\ packet.endpoint = "Video" => packet.size >= HeaderSize

(* Resetting forgets the open record and the numbering. *)
LEMMA ResetForgets ==
  ASSUME NEW d \in Decoder
  PROVE  /\ Reset(d) \in Decoder /\ Reset(d).current = NONE
         /\ Reset(d).boundary_pending = FALSE
         /\ Reset(d).discard_first_record = TRUE
         /\ Reset(d).next_sequence = 0
BY DEF Reset, Decoder

(* The event loop's handler of a packet does one of the five things. *)
LEMMA OnPacketCases ==
  ASSUME TypeOK, NEW packet, Acceptable(packet), OnPacket(packet)
  PROVE  decoder' \in Decoder /\ Outcome(packet)
<1> DEFINE pushed == PushPacket(decoder, packet)
<1>1. decoder \in Decoder /\ packet \in EndpointPacket
  BY DEF TypeOK, Acceptable
<1>e. pushed.error # "none" /\ Forgotten => Outcome(packet)
  BY Zenon DEF Outcome
<1>b. /\ pushed.error = "none" /\ packet.endpoint # "Video" /\ Ignored
      /\ decoder'.boundary_pending =
           (decoder.boundary_pending \/ packet.marker)
      => Outcome(packet)
  BY Zenon DEF Outcome
<1>h. /\ pushed.error = "none" /\ packet.endpoint = "Video"
      /\ packet.marker /\ decoder.boundary_pending
      /\ Restarted(packet) \/ Emitted(packet)
      => Outcome(packet)
  BY Zenon DEF Outcome
<1>p. /\ pushed.error = "none" /\ packet.endpoint = "Video"
      /\ ~(packet.marker /\ decoder.boundary_pending)
      /\ \/ /\ Ignored /\ decoder.current = NONE
            /\ decoder'.boundary_pending = decoder.boundary_pending
         \/ Appended(packet)
      => Outcome(packet)
  BY Zenon DEF Outcome
<1>2. ASSUME pushed.decoder \in Decoder, pushed.error # "none"
      PROVE  decoder' \in Decoder /\ Forgotten
  BY <1>2, ResetForgets DEF OnPacket, ForgetFrames, Forgotten
<1>3. ASSUME pushed.error = "none"
      PROVE  /\ decoder' = pushed.decoder
             /\ frame' = IF pushed.frame = NONE THEN frame ELSE pushed.frame
             /\ origin' = IF pushed.frame # NONE /\ pushed.frame.sequence = 0
                          THEN pushed.frame.clock ELSE origin
  BY <1>3 DEF OnPacket
<1>4. CASE packet.endpoint # "Video"
  <2> DEFINE noted == [decoder EXCEPT
                         !.boundary_pending = @ \/ packet.marker]
  <2>1. pushed = Result(noted, "none", NONE)
    BY <1>4 DEF PushPacket
  <2>2. /\ noted \in Decoder /\ noted.current = decoder.current
        /\ noted.boundary_pending =
             (decoder.boundary_pending \/ packet.marker)
        /\ noted.discard_first_record = decoder.discard_first_record
        /\ noted.next_sequence = decoder.next_sequence
    <3>1. (decoder.boundary_pending \/ packet.marker) \in BOOLEAN OBVIOUS
    <3> QED BY <1>1, <3>1 DEF Decoder
  <2>3. pushed.decoder = noted /\ pushed.error = "none" /\ pushed.frame = NONE
    BY <2>1 DEF Result
  <2> HIDE DEF noted
  <2>4. decoder' = noted /\ frame' = frame /\ origin' = origin
    BY <1>3, <2>3
  <2>5. Ignored BY <2>2, <2>4 DEF Ignored
  <2> HIDE DEF pushed
  <2> QED BY <1>4, <1>b, <2>2, <2>3, <2>4, <2>5
<1>5. CASE packet.endpoint = "Video" /\ packet.marker /\ decoder.boundary_pending
  <2>1. pushed = PushHeader(decoder, packet) BY <1>5 DEF PushPacket, PushVideo
  <2>2. packet.size >= HeaderSize BY <1>5 DEF Acceptable
  <2>3. CASE decoder.discard_first_record \/ decoder.current = NONE
    <3>1. /\ pushed.error = "none" /\ pushed.frame = NONE
          /\ pushed.decoder \in Decoder
          /\ OpenedBy(pushed.decoder.current, packet, 0)
          /\ pushed.decoder.boundary_pending = FALSE
          /\ pushed.decoder.next_sequence = decoder.next_sequence
          /\ pushed.decoder.discard_first_record =
               (decoder.discard_first_record /\ decoder.current = NONE)
      <4> HIDE DEF pushed
      <4> QED BY <1>1, <2>1, <2>2, <2>3, HeaderRestarts, Zenon
    <3> HIDE DEF pushed
    <3>2. decoder' = pushed.decoder /\ frame' = frame /\ origin' = origin
      BY <1>3, <3>1
    <3>3. Restarted(packet) BY <2>3, <3>1, <3>2 DEF Restarted
    <3> QED BY <1>5, <1>h, <3>1, <3>2, <3>3
  <2>4. CASE ~decoder.discard_first_record /\ decoder.current # NONE
    <3> DEFINE delta == TimestampDelta(packet.timestamp,
                                       decoder.current.timestamp)
    <3>1. /\ pushed.decoder \in Decoder
          /\ \/ pushed.error = "EmptyEntropy"
             \/ /\ pushed.error = "none"
                /\ pushed.frame \in CompressedFrame
                /\ pushed.frame.sequence = decoder.next_sequence
                /\ pushed.frame.unwrapped = decoder.current.unwrapped
                /\ pushed.frame.clock = decoder.current.clock
                /\ pushed.frame.parts = decoder.current.parts
                /\ pushed.frame.delta = delta
                /\ OpenedBy(pushed.decoder.current, packet,
                            decoder.current.unwrapped + delta)
                /\ pushed.decoder.boundary_pending = FALSE
                /\ pushed.decoder.next_sequence = decoder.next_sequence + 1
                /\ pushed.decoder.discard_first_record = FALSE
      <4> HIDE DEF pushed
      <4> QED BY <1>1, <2>1, <2>2, <2>4, HeaderEmits, Zenon
    <3> HIDE DEF pushed
    <3>2. CASE pushed.error = "EmptyEntropy"
      BY <1>2, <1>e, <3>1, <3>2
    <3>3. CASE pushed.error = "none"
      <4>1. pushed.frame \in CompressedFrame /\ pushed.frame # NONE
        BY <3>1, <3>3, DecoderAssumption
      <4>2. /\ decoder' = pushed.decoder /\ frame' = pushed.frame
            /\ origin' = IF frame'.sequence = 0 THEN frame'.clock ELSE origin
        BY <1>3, <3>3, <4>1
      <4>3. Emitted(packet) BY <2>4, <3>1, <3>3, <4>1, <4>2 DEF Emitted
      <4> QED BY <1>5, <1>h, <3>1, <3>3, <4>2, <4>3
    <3> QED BY <3>1, <3>2, <3>3
  <2> QED BY <2>3, <2>4
<1>6. CASE /\ packet.endpoint = "Video"
           /\ ~(packet.marker /\ decoder.boundary_pending)
  <2>1. pushed = AppendPayload(decoder, packet)
    BY <1>6 DEF PushPacket, PushVideo
  <2>2. CASE pushed.error = "RecordTooLarge" /\ pushed.decoder \in Decoder
    <3> HIDE DEF pushed
    <3> QED BY <1>2, <1>e, <2>2
  <2>3. CASE decoder.current = NONE /\ pushed = Result(decoder, "none", NONE)
    <3>1. decoder' = decoder /\ frame' = frame /\ origin' = origin
      BY <1>3, <2>3 DEF Result
    <3>2. Ignored BY <3>1 DEF Ignored
    <3>3. pushed.error = "none" BY <2>3 DEF Result
    <3> HIDE DEF pushed
    <3> QED BY <1>1, <1>6, <1>p, <2>3, <3>1, <3>2, <3>3
  <2>4. CASE /\ pushed.error = "none" /\ pushed.frame = NONE
             /\ pushed.decoder \in Decoder
             /\ decoder.current # NONE
             /\ pushed.decoder.current \in PendingRecord
             /\ pushed.decoder.current.size <= MaxRecordSize
             /\ pushed.decoder.current.timestamp = decoder.current.timestamp
             /\ pushed.decoder.current.unwrapped = decoder.current.unwrapped
             /\ pushed.decoder.current.clock = decoder.current.clock
             /\ pushed.decoder.current.parts =
                  Append(decoder.current.parts, packet.id)
             /\ pushed.decoder.boundary_pending = decoder.boundary_pending
             /\ pushed.decoder.next_sequence = decoder.next_sequence
             /\ pushed.decoder.discard_first_record =
                  decoder.discard_first_record
    <3> HIDE DEF pushed
    <3>1. decoder' = pushed.decoder /\ frame' = frame /\ origin' = origin
      BY <1>3, <2>4
    <3>2. Appended(packet) BY <2>4, <3>1 DEF Appended
    <3> QED BY <1>6, <1>p, <2>4, <3>1, <3>2
  <2> HIDE DEF pushed
  <2> QED BY <1>1, <2>1, <2>2, <2>3, <2>4, PayloadAppends
<1> QED BY <1>4, <1>5, <1>6

-----------------------------------------------------------------------------
(* The frames since the last reset and the record being assembled: a frame  *)
(* is only emitted with the next record open behind it, and that record     *)
(* starts where the frame's delta ends.                                     *)
Chained ==
  /\ decoder.discard_first_record => frame = NONE
  /\ ~decoder.discard_first_record => decoder.current # NONE
  /\ frame = NONE =>
       /\ decoder.next_sequence = 0
       /\ ~decoder.discard_first_record => decoder.current.unwrapped = 0
  /\ frame # NONE =>
       /\ decoder.next_sequence = frame.sequence + 1
       /\ decoder.current.unwrapped = frame.unwrapped + frame.delta

StreamInv == TypeOK /\ RecordBounded /\ Chained

(* The packets of the camera are packets the event loop can be given. *)
LEMMA VideoPacketsAcceptable ==
  ASSUME TypeOK, NEW packet \in VideoPackets
  PROVE  /\ Acceptable(packet)
         /\ packet.clock = camera.clock
         /\ packet.marker /\ FalseMarkers = {} =>
              packet.timestamp = camera.clock % TimestampRange
<1> USE StreamAssumption DEF TypeOK, Camera
<1>1. PICK m \in Markers, t \in Timestamps, s \in Sizes, nz \in BOOLEAN :
        packet = [endpoint |-> "Video", marker |-> m, size |-> s,
                  nonzero |-> nz, timestamp |-> t,
                  id |-> << camera.record, camera.part >>,
                  clock |-> camera.clock]
  BY DEF VideoPackets
<1>2. m \in BOOLEAN /\ s \in Nat /\ s >= HeaderSize
  BY <1>1 DEF Markers
<1>3. t \in 0 .. TimestampRange - 1 BY <1>1 DEF Timestamps, TimestampRange
<1>4. << camera.record, camera.part >> \in Nat \X Nat OBVIOUS
<1>5. Acceptable(packet)
  BY <1>1, <1>2, <1>3, <1>4 DEF Acceptable, EndpointPacket
<1>6. m /\ FalseMarkers = {} => camera.part = 0 BY <1>1 DEF Markers
<1>7. packet.marker = m /\ packet.timestamp = t /\ packet.clock = camera.clock
  BY <1>1
<1> QED BY <1>1, <1>5, <1>6, <1>7 DEF Timestamps

(* So are its boundary packets. *)
LEMMA BoundaryPacketAcceptable ==
  ASSUME TypeOK, NEW flag \in BOOLEAN
  PROVE  /\ Acceptable(BoundaryPacket(flag))
         /\ BoundaryPacket(flag).endpoint = "Boundary"
BY DEF Acceptable, BoundaryPacket, EndpointPacket, TypeOK, Camera,
       TimestampRange

(* The camera's cursors keep their skew. *)
LEMMA CameraStep ==
  ASSUME TypeOK,
         \/ BoundaryDue /\ camera' = [camera EXCEPT !.boundary = @ + 1]
         \/ VideoDue /\ camera' \in AfterVideo(camera)
  PROVE  camera' \in Camera /\ Skewed(camera)' /\ camera.clock <= camera'.clock
<1> USE StreamAssumption DEF TypeOK, Camera, Skewed
<1>1. CASE BoundaryDue /\ camera' = [camera EXCEPT !.boundary = @ + 1]
  BY <1>1 DEF BoundaryDue
<1>2. CASE VideoDue /\ camera' \in AfterVideo(camera)
  <2>1. CASE camera.part < LastPart
    <3>1. camera' = [camera EXCEPT !.part = @ + 1] BY <1>2, <2>1 DEF AfterVideo
    <3> QED BY <1>2, <2>1, <3>1 DEF VideoDue
  <2>2. CASE ~(camera.part < LastPart)
    <3>1. PICK step \in ClockSteps :
            camera' = [camera EXCEPT !.record = @ + 1, !.part = 0,
                                     !.clock = @ + step]
      BY <1>2, <2>2 DEF AfterVideo
    <3>2. camera.part = LastPart /\ camera.boundary > camera.record
      BY <1>2, <2>2 DEF VideoDue
    <3>3. /\ camera'.record = camera.record + 1 /\ camera'.part = 0
          /\ camera'.clock = camera.clock + step
          /\ camera'.boundary = camera.boundary
      BY <3>1
    <3>4. camera' \in Camera
      <4>1. /\ camera.record + 1 \in Nat /\ camera.clock + step \in Nat
            /\ 0 \in 0 .. LastPart
        OBVIOUS
      <4> QED BY <3>1, <4>1
    <3> QED BY <3>2, <3>3, <3>4
  <2> QED BY <2>1, <2>2
<1> QED BY <1>1, <1>2

(* One step of the system, as far as the decoder can tell. *)
Seen == \/ Forgotten /\ decoder' \in Decoder
        \/ Ignored /\ decoder' \in Decoder
        \/ \E packet \in VideoPackets :
             /\ decoder' \in Decoder
             /\ \/ Appended(packet)
                \/ packet.marker /\ (Restarted(packet) \/ Emitted(packet))

(* Every step is one of the cases, and moves the camera legally. *)
LEMMA StepCases ==
  ASSUME TypeOK, [Next]_vars
  PROVE  /\ Seen
         /\ camera' \in Camera /\ Skewed(camera)'
         /\ camera.clock <= camera'.clock
         /\ headers' \in 0 .. ToRecover
         /\ silent' \in BOOLEAN
<1>0. /\ decoder \in Decoder /\ camera \in Camera /\ Skewed(camera)
      /\ camera.clock <= camera.clock /\ headers \in 0 .. ToRecover
  BY DEF TypeOK, Camera
<1>s. silent' \in BOOLEAN
  <2>1. silent' = silent \/ silent' = TRUE
    BY DEF Next, DeliverBoundary, DeliverIdleBoundary, DeliverVideo,
           LoseBoundary, LoseVideo, LoseSilently, vars
  <2> QED BY <2>1 DEF TypeOK
<1>1. OnPacketError => Forgotten /\ decoder' \in Decoder
  BY <1>0, ResetForgets DEF OnPacketError, ForgetFrames, Forgotten
<1>2. ASSUME NEW flag \in BOOLEAN, OnPacket(BoundaryPacket(flag)) PROVE Seen
  BY <1>2, BoundaryPacketAcceptable, OnPacketCases DEF Outcome, Seen
<1>3. ASSUME NEW packet \in VideoPackets, OnPacket(packet) PROVE Seen
  BY <1>3, VideoPacketsAcceptable, OnPacketCases DEF Outcome, Seen
<1>4. CASE DeliverBoundary \/ DeliverIdleBoundary
  <2>1. Seen BY <1>2, <1>4 DEF DeliverBoundary, DeliverIdleBoundary
  <2> QED BY <1>0, <1>s, <1>4, <2>1, CameraStep
          DEF DeliverBoundary, DeliverIdleBoundary
<1>5. CASE DeliverVideo
  <2>1. Seen BY <1>3, <1>5 DEF DeliverVideo
  <2>2. headers' \in 0 .. ToRecover
    BY <1>0, <1>5 DEF DeliverVideo, CountHeader, ToRecover
  <2> QED BY <1>s, <1>5, <2>1, <2>2, CameraStep DEF DeliverVideo
<1>6. CASE LoseBoundary \/ LoseVideo
  BY <1>1, <1>s, <1>6, CameraStep DEF LoseBoundary, LoseVideo, Seen, ToRecover
<1>7. CASE LoseSilently
  BY <1>0, <1>s, <1>7, CameraStep DEF LoseSilently, Seen, Ignored
<1>8. CASE UNCHANGED vars
  BY <1>0, <1>s, <1>8 DEF vars, Seen, Ignored, Skewed
<1> QED BY <1>s, <1>4, <1>5, <1>6, <1>7, <1>8 DEF Next

(* The camera's session starts in the invariant. *)
LEMMA StreamInit == Init => StreamInv
<1> SUFFICES ASSUME Init PROVE StreamInv
  OBVIOUS
<1> USE StreamAssumption DEF Init, New
<1>1. TypeOK
  <2>1. camera \in Camera /\ Skewed(camera) BY DEF Camera
  <2>2. silent \in BOOLEAN OBVIOUS
  <2> QED BY <2>1, <2>2 DEF TypeOK, Decoder, ToRecover
<1> QED BY <1>1 DEF StreamInv, RecordBounded, Chained

(* The invariant is inductive, and every step keeps the chain of frames. *)
LEMMA StreamStep ==
  ASSUME StreamInv, [Next]_vars
  PROVE  /\ StreamInv'
         /\ frame' # frame /\ frame' # NONE =>
              IF frame = NONE THEN frame'.sequence = 0 /\ frame'.unwrapped = 0
              ELSE /\ frame'.sequence = frame.sequence + 1
                   /\ frame'.unwrapped = frame.unwrapped + frame.delta
<1>1. Seen /\ TypeOK BY StepCases DEF StreamInv
<1>2. TypeOK' /\ RecordBounded' /\ Chained'
  <2> USE DecoderAssumption
  <2>1. CASE Forgotten /\ decoder' \in Decoder
    <3>1. TypeOK' BY <2>1, StepCases, <1>1 DEF TypeOK, Forgotten
    <3> QED BY <2>1, <3>1 DEF Forgotten, RecordBounded, Chained
  <2>2. CASE Ignored /\ decoder' \in Decoder
    <3>1. TypeOK' BY <2>2, StepCases, <1>1 DEF TypeOK, Ignored
    <3> QED BY <2>2, <3>1 DEF Ignored, RecordBounded, Chained, StreamInv
  <2>3. ASSUME NEW packet \in VideoPackets, Appended(packet),
               decoder' \in Decoder
        PROVE  TypeOK' /\ RecordBounded' /\ Chained'
    <3>1. TypeOK' BY <2>3, StepCases, <1>1 DEF TypeOK, Appended
    <3> QED BY <2>3, <3>1 DEF Appended, RecordBounded, Chained, StreamInv
  <2>4. ASSUME NEW packet \in VideoPackets, Restarted(packet),
               decoder' \in Decoder
        PROVE  TypeOK' /\ RecordBounded' /\ Chained'
    <3>1. TypeOK' BY <2>4, StepCases, <1>1 DEF TypeOK, Restarted
    <3>2. frame = NONE
      BY <2>4 DEF Restarted, StreamInv, Chained
    <3> QED BY <2>4, <3>1, <3>2
            DEF Restarted, OpenedBy, RecordBounded, Chained, StreamInv
  <2>5. ASSUME NEW packet \in VideoPackets, Emitted(packet),
               decoder' \in Decoder
        PROVE  TypeOK' /\ RecordBounded' /\ Chained'
    <3>1. origin' \in Nat
      BY <2>5, <1>1 DEF Emitted, TypeOK, CompressedFrame
    <3>2. TypeOK' BY <2>5, StepCases, <1>1, <3>1 DEF TypeOK, Emitted
    <3> QED BY <2>5, <3>2
            DEF Emitted, OpenedBy, RecordBounded, Chained
  <2> QED BY <1>1, <2>1, <2>2, <2>3, <2>4, <2>5 DEF Seen
<1>3. frame' # frame /\ frame' # NONE =>
        \E packet \in VideoPackets : Emitted(packet)
  BY <1>1 DEF Seen, Forgotten, Ignored, Appended, Restarted
<1>4. ASSUME NEW packet, Emitted(packet)
      PROVE  IF frame = NONE
             THEN frame'.sequence = 0 /\ frame'.unwrapped = 0
             ELSE /\ frame'.sequence = frame.sequence + 1
                  /\ frame'.unwrapped = frame.unwrapped + frame.delta
  BY <1>4 DEF Emitted, StreamInv, Chained
<1> QED BY <1>2, <1>3, <1>4 DEF StreamInv

(* The decoder and the event loop keep their types, no record outgrows the   *)
(* limit unchecked, and between resets the frames form one chain: numbered   *)
(* consecutively, each starting where the previous one's delta ends.         *)
THEOREM StreamSafety == Spec => [](TypeOK /\ RecordBounded) /\ FrameChain
<1> DEFINE Chain == frame' # frame /\ frame' # NONE =>
                      IF frame = NONE
                      THEN frame'.sequence = 0 /\ frame'.unwrapped = 0
                      ELSE /\ frame'.sequence = frame.sequence + 1
                           /\ frame'.unwrapped = frame.unwrapped + frame.delta
<1>1. StreamInv /\ [Next]_vars => StreamInv' /\ [Chain]_vars
  BY StreamStep
<1>2. StreamInv => TypeOK /\ RecordBounded BY DEF StreamInv
<1> QED BY <1>1, <1>2, StreamInit, PTL DEF Spec, FrameChain

(* push_video's size check: whatever order flags and packets come in, and    *)
(* whatever is lost, the record being assembled stays within its limit.      *)
THEOREM RecordSafety == Spec => []RecordBounded
BY StreamSafety, PTL

-----------------------------------------------------------------------------
(* Whole turns of the 11-bit clock lie between camera time and its unwrapped *)
(* reading.                                                                  *)
Turns(elapsed, unwrapped) ==
  unwrapped <= elapsed /\ (elapsed - unwrapped) % TimestampRange = 0

(* The open record's time is the camera's, truncated, and not in the future; *)
(* once frames count, it lies whole turns from frame 0.                      *)
Clocked ==
  decoder.current # NONE =>
    /\ decoder.current.clock <= camera.clock
    /\ decoder.current.timestamp = decoder.current.clock % TimestampRange
    /\ frame # NONE =>
         Turns(decoder.current.clock - origin, decoder.current.unwrapped)

(* A later header moves both sides on by whole turns of each other. *)
LEMMA TurnsAdvance ==
  ASSUME NEW base \in Nat, NEW old \in Nat, NEW new \in Nat, NEW u \in Nat,
         old <= new, Turns(old - base, u)
  PROVE  LET d == TimestampDelta(new % TimestampRange, old % TimestampRange)
         IN  Turns(new - base, u + d)
<1> DEFINE d == TimestampDelta(new % TimestampRange, old % TimestampRange)
<1>1. d <= new - old /\ (new - old - d) % TimestampRange = 0
  BY DeltaCongruent
<1>2. d \in 0 .. TimestampRange - 1
  <2>1. /\ new % TimestampRange \in 0 .. TimestampRange - 1
        /\ old % TimestampRange \in 0 .. TimestampRange - 1
    BY DEF TimestampRange
  <2> QED BY <2>1, DeltaType
<1>3. Turns(new - base, u + d)
  <2> HIDE DEF d
  <2> QED BY <1>1, <1>2 DEF Turns, TimestampRange
<1> QED BY <1>3

(* Clocked is kept by every step of a camera without false markers. *)
LEMMA ClockedStep ==
  ASSUME FalseMarkers = {}, StreamInv, StreamInv', Clocked, TimestampCongruent,
         [Next]_vars
  PROVE  Clocked' /\ TimestampCongruent'
<1>1. Seen /\ camera.clock <= camera'.clock BY StepCases DEF StreamInv
<1>2. /\ decoder \in Decoder /\ decoder' \in Decoder
      /\ camera.clock \in Nat /\ camera'.clock \in Nat
      /\ origin \in Nat /\ origin' \in Nat
  BY DEF StreamInv, TypeOK, Camera
<1>3. decoder.current # NONE =>
        /\ decoder.current.clock \in Nat /\ decoder.current.unwrapped \in Nat
  BY <1>2 DEF Decoder, PendingRecord
<1>4. CASE Forgotten
  BY <1>4 DEF Forgotten, Clocked, TimestampCongruent
<1>5. CASE Ignored
  BY <1>1, <1>2, <1>3, <1>5 DEF Ignored, Clocked, TimestampCongruent
<1>6. ASSUME NEW packet \in VideoPackets, Appended(packet)
      PROVE  Clocked' /\ TimestampCongruent'
  BY <1>1, <1>2, <1>3, <1>6 DEF Appended, Clocked, TimestampCongruent
<1>7. ASSUME NEW packet \in VideoPackets, packet.marker, Restarted(packet)
      PROVE  Clocked' /\ TimestampCongruent'
  <2>1. /\ packet.clock = camera.clock
        /\ packet.timestamp = camera.clock % TimestampRange
    BY <1>7, VideoPacketsAcceptable DEF StreamInv
  <2>2. frame = NONE /\ frame' = NONE
    BY <1>7 DEF Restarted, StreamInv, Chained
  <2> QED BY <1>1, <1>7, <2>1, <2>2
          DEF Restarted, OpenedBy, Clocked, TimestampCongruent
<1>8. ASSUME NEW packet \in VideoPackets, packet.marker, Emitted(packet)
      PROVE  Clocked' /\ TimestampCongruent'
  <2>1. /\ packet.clock = camera.clock
        /\ packet.timestamp = camera.clock % TimestampRange
    BY <1>8, VideoPacketsAcceptable DEF StreamInv
  <2>2. /\ frame'.clock = decoder.current.clock
        /\ frame'.unwrapped = decoder.current.unwrapped
        /\ frame'.delta = TimestampDelta(packet.timestamp,
                                         decoder.current.timestamp)
        /\ frame' # NONE /\ decoder.current # NONE
    BY <1>8, DecoderAssumption DEF Emitted
  <2>3. Turns(decoder.current.clock - origin', decoder.current.unwrapped)
    <3>1. CASE frame = NONE
      <4>1. decoder.current.unwrapped = 0 /\ origin' = decoder.current.clock
        BY <1>8, <3>1 DEF Emitted, StreamInv, Chained
      <4> QED BY <1>3, <2>2, <4>1 DEF Turns, TimestampRange
    <3>2. CASE frame # NONE
      <4>1. frame \in CompressedFrame BY <3>2 DEF StreamInv, TypeOK
      <4>2. frame'.sequence = frame.sequence + 1 /\ frame.sequence \in Nat
        BY <1>8, <3>2, <4>1
        DEF Emitted, StreamInv, Chained, CompressedFrame
      <4>3. origin' = origin BY <1>8, <4>2 DEF Emitted
      <4> QED BY <2>2, <3>2, <4>3 DEF Clocked
    <3> QED BY <3>1, <3>2
  <2>4. TimestampCongruent'
    BY <2>2, <2>3 DEF Turns, TimestampCongruent
  <2>5. /\ decoder.current.clock <= camera.clock
        /\ decoder.current.timestamp = decoder.current.clock % TimestampRange
    BY <2>2 DEF Clocked
  <2>6. Turns(camera.clock - origin', frame'.unwrapped + frame'.delta)
    BY <1>2, <1>3, <2>1, <2>2, <2>3, <2>5, TurnsAdvance
  <2>7. /\ decoder'.current.clock = camera.clock
        /\ decoder'.current.timestamp = camera.clock % TimestampRange
        /\ decoder'.current.unwrapped = frame'.unwrapped + frame'.delta
    BY <1>8, <2>1 DEF Emitted, OpenedBy
  <2>8. Clocked' BY <1>1, <2>6, <2>7 DEF Clocked
  <2> QED BY <2>4, <2>8
<1> QED BY <1>1, <1>4, <1>5, <1>6, <1>7, <1>8 DEF Seen

(* When no payload looks like a header, an unwrapped timestamp is the camera *)
(* time since frame 0 up to whole turns of the 11-bit clock and never ahead  *)
(* of it, through any reported or silent loss, merged record or wrap.        *)
THEOREM TimestampSafety ==
  ASSUME FalseMarkers = {} PROVE Spec => []TimestampCongruent
<1>1. Init => Clocked /\ TimestampCongruent
  BY DEF Init, New, Clocked, TimestampCongruent
<1>2. /\ StreamInv /\ Clocked /\ TimestampCongruent /\ [Next]_vars
      => (StreamInv /\ Clocked /\ TimestampCongruent)'
  BY StreamStep, ClockedStep
<1> QED BY <1>1, <1>2, StreamInit, PTL DEF Spec
-----------------------------------------------------------------------------
(* What the camera puts into a video packet. *)
LEMMA VideoPacketIs ==
  ASSUME TypeOK, NEW packet \in VideoPackets
  PROVE  /\ packet.endpoint = "Video"
         /\ packet.id = << camera.record, camera.part >>
         /\ camera.part = 0 =>
              /\ packet.marker = TRUE
              /\ packet.timestamp = camera.clock % TimestampRange
         /\ camera.part # 0 /\ packet.marker => NextRecord \in FalseMarkers
<1>1. PICK m \in Markers, t \in Timestamps, s \in Sizes, nz \in BOOLEAN :
        packet = [endpoint |-> "Video", marker |-> m, size |-> s,
                  nonzero |-> nz, timestamp |-> t,
                  id |-> << camera.record, camera.part >>,
                  clock |-> camera.clock]
  BY DEF VideoPackets
<1>2. /\ packet.endpoint = "Video" /\ packet.marker = m
      /\ packet.timestamp = t
      /\ packet.id = << camera.record, camera.part >>
  BY <1>1
<1>3. camera.part = 0 => m = TRUE /\ t = camera.clock % TimestampRange
  BY DEF Markers, Timestamps
<1>4. camera.part # 0 /\ m => NextRecord \in FalseMarkers
  BY DEF Markers
<1> QED BY <1>2, <1>3, <1>4

(* Where the camera is after a video packet. *)
LEMMA VideoAdvances ==
  ASSUME TypeOK, camera' \in AfterVideo(camera)
  PROVE  /\ camera'.boundary = camera.boundary
         /\ camera.part < LastPart =>
              /\ camera'.record = camera.record
              /\ camera'.part = camera.part + 1
              /\ camera'.clock = camera.clock
         /\ ~(camera.part < LastPart) =>
              /\ camera.part = LastPart
              /\ camera'.record = camera.record + 1
              /\ camera'.part = 0
              /\ \E step \in ClockSteps : camera'.clock = camera.clock + step
<1> USE StreamAssumption DEF TypeOK, Camera
<1>1. CASE camera.part < LastPart
  <2>1. camera' = [camera EXCEPT !.part = @ + 1] BY <1>1 DEF AfterVideo
  <2> QED BY <1>1, <2>1
<1>2. CASE ~(camera.part < LastPart)
  <2>1. PICK step \in ClockSteps :
          camera' = [camera EXCEPT !.record = @ + 1, !.part = 0,
                                   !.clock = @ + step]
    BY <1>2 DEF AfterVideo
  <2> QED BY <1>2, <2>1
<1> QED BY <1>1, <1>2

(* A boundary packet is never a decode error. *)
LEMMA BoundaryOutcome ==
  ASSUME TypeOK, NEW flag \in BOOLEAN, OnPacket(BoundaryPacket(flag))
  PROVE  /\ Ignored
         /\ decoder'.boundary_pending = (decoder.boundary_pending \/ flag)
<1> DEFINE packet == BoundaryPacket(flag)
<1>1. packet.endpoint = "Boundary" /\ packet.marker = flag
  BY DEF BoundaryPacket
<1>2. PushPacket(decoder, packet).error = "none"
  BY <1>1 DEF PushPacket, Result
<1>3. Outcome(packet) BY BoundaryPacketAcceptable, OnPacketCases
<1> HIDE DEF packet
<1>4. packet.endpoint # "Video" BY <1>1
<1>5. /\ Ignored
      /\ decoder'.boundary_pending =
           (decoder.boundary_pending \/ packet.marker)
  BY <1>2, <1>3, <1>4, Zenon DEF Outcome
<1> QED BY <1>1, <1>5

-----------------------------------------------------------------------------
(* A camera whose flags are never late, which never loses a packet silently  *)
(* and whose payload may look like a header only while no flag announces the *)
(* next one.                                                                 *)
Ordered == /\ Late = 0
           /\ FalseMarkers \subseteq {"unflagged"}
           /\ SilentLoss = FALSE

(* The flag of the next header has been delivered. *)
Announced == \/ camera.boundary = camera.record + 1 /\ camera.part = 0
             \/ camera.boundary = camera.record + 2

(* A pending flag is the next header's, never one that an earlier header     *)
(* left behind; and only a reset before the first header makes the decoder   *)
(* forget it.                                                                *)
InStep ==
  /\ decoder.boundary_pending => Announced
  /\ Announced /\ (decoder.current # NONE \/ headers >= 1)
       => decoder.boundary_pending

(* The first packets of a record. *)
Beginning(record, count) == [i \in 1 .. count |-> << record, i - 1 >>]

(* The open record is what the camera has sent of the one it is sending. *)
Assembled ==
  decoder.current # NONE =>
    decoder.current.parts =
      IF camera.part = 0 THEN Beginning(camera.record - 1, LastPart + 1)
      ELSE Beginning(camera.record, camera.part)

(* How far the decoder is after so many headers. *)
Recovering == /\ headers >= 2 => decoder.current # NONE
              /\ headers >= 3 => decoder.discard_first_record = FALSE
              /\ headers >= 4 => frame # NONE

OrderedInv == InStep /\ Assembled /\ Recovering /\ FrameIsOneRecord

(* One more packet. *)
LEMMA BeginningGrows ==
  ASSUME NEW record \in Nat, NEW n \in Nat
  PROVE  Append(Beginning(record, n), << record, n >>) =
           Beginning(record, n + 1)
<1> DEFINE b == Beginning(record, n)
<1>1. b \in Seq(Nat \X Nat) /\ Len(b) = n
  BY DEF Beginning
<1>2. \A i \in 1 .. n : b[i] = << record, i - 1 >> BY DEF Beginning
<1> DEFINE a == Append(b, << record, n >>)
<1> HIDE DEF b
<1>3. /\ DOMAIN a = 1 .. n + 1 /\ a = [i \in 1 .. n + 1 |-> a[i]]
      /\ \A i \in 1 .. n : a[i] = b[i]
      /\ a[n + 1] = << record, n >>
  BY <1>1
<1>4. \A i \in 1 .. n + 1 : a[i] = << record, i - 1 >>
  BY <1>2, <1>3
<1> HIDE DEF a
<1>5. a = [i \in 1 .. n + 1 |-> << record, i - 1 >>]
  BY <1>3, <1>4
<1> QED BY <1>5 DEF a, b, Beginning

LEMMA BeginningOne ==
  ASSUME NEW record \in Nat
  PROVE  << << record, 0 >> >> = Beginning(record, 1)
BY DEF Beginning

(* A forgotten stream satisfies everything. *)
LEMMA OrderedForgotten ==
  ASSUME Forgotten, headers' = 0 PROVE OrderedInv'
BY DEF OrderedInv, Forgotten, InStep, Assembled, Recovering, FrameIsOneRecord

(* A header packet of a camera in order: it is accepted unless the reset     *)
(* forgot its flag, and then nothing is open and no header was counted.      *)
LEMMA OrderedHeader ==
  ASSUME Ordered, StreamInv, OrderedInv, VideoDue, camera.part = 0,
         camera' \in AfterVideo(camera),
         NEW packet \in VideoPackets, Outcome(packet),
         PushPacket(decoder, packet).error = "none",
         CountHeader(FALSE, camera.part)
  PROVE  OrderedInv'
<1>1. /\ TypeOK /\ camera \in Camera /\ decoder \in Decoder
      /\ headers \in 0 .. ToRecover /\ LastPart \in Nat \ {0}
      /\ Early \in 0 .. LastPart /\ Skewed(camera)
  BY StreamAssumption DEF StreamInv, TypeOK
<1>2. camera.boundary = camera.record + 1
  BY <1>1 DEF VideoDue, Ordered, Skewed, Camera
<1>3. /\ camera'.boundary = camera.boundary /\ camera'.record = camera.record
      /\ camera'.part = 1
  BY <1>1, VideoAdvances
<1>4. Announced /\ ~Announced'
  BY <1>1, <1>2, <1>3 DEF Announced, Camera
<1>5. /\ packet.endpoint = "Video" /\ packet.marker = TRUE
      /\ packet.id = << camera.record, 0 >>
  BY <1>1, VideoPacketIs
<1>6. /\ headers' >= 1
      /\ headers' >= 2 => headers >= 1
      /\ headers' >= 3 => headers >= 2
      /\ headers' >= 4 => headers >= 3
  BY <1>1 DEF CountHeader, ToRecover
<1>7. CASE decoder.boundary_pending
  <2>1. Restarted(packet) \/ Emitted(packet)
    BY <1>5, <1>7, Zenon DEF Outcome
  <2>2. /\ decoder'.boundary_pending = FALSE
        /\ decoder'.current # NONE
        /\ decoder'.current.parts = << packet.id >>
    BY <2>1, DecoderAssumption DEF Restarted, Emitted, OpenedBy
  <2>3. InStep' BY <1>4, <2>2 DEF InStep
  <2>4. Assembled'
    <3>1. Beginning(camera.record, 1) = << packet.id >>
      BY <1>1, <1>5, BeginningOne DEF Camera
    <3> QED BY <1>3, <2>2, <3>1 DEF Assembled
  <2>5. Recovering'
    <3>1. headers >= 2 => decoder'.discard_first_record = FALSE
      BY <2>1 DEF OrderedInv, Recovering, Restarted, Emitted
    <3>2. headers >= 3 => frame' # NONE
      <4>1. SUFFICES ASSUME headers >= 3 PROVE frame' # NONE
        OBVIOUS
      <4>2. decoder.current # NONE /\ decoder.discard_first_record = FALSE
        BY <1>1, <4>1 DEF OrderedInv, Recovering, ToRecover
      <4>3. Emitted(packet) BY <2>1, <4>2 DEF Restarted
      <4> QED BY <4>3, DecoderAssumption DEF Emitted
    <3> QED BY <1>6, <2>2, <3>1, <3>2 DEF Recovering
  <2>6. FrameIsOneRecord'
    <3>1. CASE Restarted(packet)
      BY <3>1 DEF Restarted, OrderedInv, FrameIsOneRecord
    <3>2. CASE Emitted(packet)
      <4> DEFINE last == camera.record - 1
      <4>1. frame'.parts = Beginning(last, LastPart + 1)
        BY <3>2 DEF Emitted, OrderedInv, Assembled
      <4>2. Beginning(last, LastPart + 1)[1][1] = last
        BY <1>1 DEF Beginning
      <4>3. frame'.parts[1][1] = last BY <4>1, <4>2
      <4>4. frame'.parts = WholeRecord(last)
        BY <4>1 DEF Beginning, WholeRecord
      <4> HIDE DEF last
      <4> QED BY <4>3, <4>4 DEF FrameIsOneRecord
    <3> QED BY <2>1, <3>1, <3>2
  <2> QED BY <2>3, <2>4, <2>5, <2>6 DEF OrderedInv
<1>8. CASE ~decoder.boundary_pending
  <2>1. decoder.current = NONE /\ ~(headers >= 1)
    BY <1>4, <1>8 DEF OrderedInv, InStep
  <2>2. \/ Ignored /\ decoder'.boundary_pending = decoder.boundary_pending
        \/ Appended(packet)
    BY <1>5, <1>8, Zenon DEF Outcome
  <2>3. Ignored /\ decoder'.boundary_pending = decoder.boundary_pending
    BY <2>1, <2>2 DEF Appended
  <2>4. decoder'.current = NONE /\ frame' = frame BY <2>1, <2>3 DEF Ignored
  <2>5. InStep' BY <1>4, <1>8, <2>3 DEF InStep
  <2>6. Recovering' BY <1>6, <2>1, <1>1 DEF Recovering, ToRecover
  <2>7. Assembled' /\ FrameIsOneRecord'
    BY <2>4 DEF Assembled, OrderedInv, FrameIsOneRecord
  <2> QED BY <2>5, <2>6, <2>7 DEF OrderedInv
<1> QED BY <1>7, <1>8

(* Any other video packet is payload: a false marker meets no pending flag.  *)
LEMMA OrderedPayload ==
  ASSUME Ordered, StreamInv, OrderedInv, VideoDue, camera.part # 0,
         camera' \in AfterVideo(camera),
         NEW packet \in VideoPackets, Outcome(packet),
         PushPacket(decoder, packet).error = "none",
         CountHeader(FALSE, camera.part)
  PROVE  /\ OrderedInv'
         /\ \/ Ignored /\ decoder.current = NONE
            \/ Appended(packet)
<1>1. /\ TypeOK /\ camera \in Camera /\ decoder \in Decoder
      /\ headers \in 0 .. ToRecover /\ LastPart \in Nat \ {0}
      /\ Skewed(camera)
  BY StreamAssumption DEF StreamInv, TypeOK
<1>2. /\ packet.endpoint = "Video"
      /\ packet.id = << camera.record, camera.part >>
      /\ packet.marker => NextRecord \in FalseMarkers
  BY <1>1, VideoPacketIs
<1>3. headers' = headers BY DEF CountHeader
<1>4. ~(packet.marker /\ decoder.boundary_pending)
  <2>1. SUFFICES ASSUME packet.marker, decoder.boundary_pending PROVE FALSE
    OBVIOUS
  <2>2. camera.boundary = camera.record + 2
    BY <2>1 DEF OrderedInv, InStep, Announced
  <2>3. NextRecord = "flagged" BY <1>1, <2>2 DEF NextRecord, Camera
  <2> QED BY <1>2, <2>1, <2>3 DEF Ordered
<1>5. \/ /\ Ignored /\ decoder.current = NONE
         /\ decoder'.boundary_pending = decoder.boundary_pending
      \/ Appended(packet)
  BY <1>2, <1>4, Zenon DEF Outcome
<1>6. Announced' <=> Announced
  <2>1. /\ camera.record \in Nat /\ camera.part \in Nat
        /\ camera.boundary \in camera.record .. camera.record + 2
    BY <1>1 DEF Camera, Skewed
  <2>2. CASE camera.part < LastPart
    <3>1. /\ camera'.record = camera.record
          /\ camera'.part = camera.part + 1
          /\ camera'.boundary = camera.boundary
      BY <1>1, <2>2, VideoAdvances
    <3> QED BY <2>1, <3>1 DEF Announced
  <2>3. CASE ~(camera.part < LastPart)
    <3>1. /\ camera'.record = camera.record + 1 /\ camera'.part = 0
          /\ camera'.boundary = camera.boundary
      BY <1>1, <2>3, VideoAdvances
    <3> QED BY <2>1, <3>1 DEF Announced
  <2> QED BY <2>2, <2>3
<1>7. /\ decoder'.boundary_pending = decoder.boundary_pending
      /\ decoder'.discard_first_record = decoder.discard_first_record
      /\ frame' = frame
      /\ decoder'.current = NONE <=> decoder.current = NONE
  BY <1>5, DecoderAssumption DEF Ignored, Appended
<1>8. InStep'
  BY <1>3, <1>6, <1>7 DEF OrderedInv, InStep
<1>9. Recovering' /\ FrameIsOneRecord'
  BY <1>3, <1>7 DEF OrderedInv, Recovering, FrameIsOneRecord
<1>10. Assembled'
  <2>1. CASE Ignored /\ decoder.current = NONE
    BY <1>7, <2>1 DEF Assembled
  <2>2. CASE Appended(packet)
    <3>1. decoder.current.parts = Beginning(camera.record, camera.part)
      BY <2>2 DEF Appended, OrderedInv, Assembled
    <3>2. decoder'.current.parts = Beginning(camera.record, camera.part + 1)
      <4>1. camera.record \in Nat /\ camera.part \in Nat
        BY <1>1 DEF Camera
      <4>2. decoder'.current.parts = Append(decoder.current.parts, packet.id)
        BY <2>2 DEF Appended
      <4> QED BY <1>2, <3>1, <4>1, <4>2, BeginningGrows, Zenon
    <3>3. CASE camera.part < LastPart
      <4>1. /\ camera'.record = camera.record
            /\ camera'.part = camera.part + 1 /\ camera'.part # 0
        BY <1>1, <3>3, VideoAdvances DEF Camera
      <4> QED BY <3>2, <4>1 DEF Assembled
    <3>4. CASE ~(camera.part < LastPart)
      <4>1. /\ camera'.record - 1 = camera.record
            /\ camera.part = LastPart /\ camera'.part = 0
        BY <1>1, <3>4, VideoAdvances DEF Camera
      <4> QED BY <3>2, <4>1 DEF Assembled
    <3> QED BY <3>3, <3>4
  <2> QED BY <1>5, <2>1, <2>2
<1> QED BY <1>5, <1>8, <1>9, <1>10 DEF OrderedInv

(* The invariant is kept by every step of a camera in order. *)
LEMMA OrderedStep ==
  ASSUME Ordered, StreamInv, OrderedInv, [Next]_vars PROVE OrderedInv'
<1>1. TypeOK /\ camera \in Camera /\ Skewed(camera) /\ decoder \in Decoder
  BY DEF StreamInv, TypeOK
<1>2. OnPacketError => Forgotten
  BY <1>1, ResetForgets DEF OnPacketError, ForgetFrames, Forgotten
<1>3. CASE DeliverBoundary
  <2>1. Ignored /\ decoder'.boundary_pending = TRUE /\ headers' = headers
    BY <1>1, <1>3, BoundaryOutcome DEF DeliverBoundary
  <2>2. /\ camera'.boundary = camera.boundary + 1
        /\ camera'.record = camera.record /\ camera'.part = camera.part
    BY <1>1, <1>3 DEF DeliverBoundary, Camera
  <2>3. Announced'
    <3>1. camera.boundary = camera.record => camera.part = 0
      BY <1>1 DEF Skewed, Ordered, Camera
    <3> QED BY <1>1, <1>3, <2>2, <3>1
            DEF DeliverBoundary, BoundaryDue, Announced, Camera
  <2>4. InStep' BY <2>1, <2>3 DEF InStep
  <2>5. (Assembled /\ Recovering /\ FrameIsOneRecord)'
    BY <2>1, <2>2
    DEF OrderedInv, Assembled, Recovering, FrameIsOneRecord, Ignored
  <2> QED BY <2>4, <2>5 DEF OrderedInv
<1>4. CASE DeliverIdleBoundary
  <2>1. /\ Ignored /\ headers' = headers /\ camera' = camera
        /\ decoder'.boundary_pending = decoder.boundary_pending
    <3>1. decoder.boundary_pending \in BOOLEAN BY <1>1 DEF Decoder
    <3> QED BY <1>1, <1>4, <3>1, BoundaryOutcome DEF DeliverIdleBoundary
  <2> QED BY <2>1
          DEF OrderedInv, InStep, Announced, Assembled, Recovering,
              FrameIsOneRecord, Ignored
<1>5. CASE DeliverVideo
  <2>1. PICK packet \in VideoPackets :
          /\ OnPacket(packet)
          /\ CountHeader(PushPacket(decoder, packet).error # "none",
                         camera.part)
    BY <1>5 DEF DeliverVideo
  <2>2. VideoDue /\ camera' \in AfterVideo(camera) BY <1>5 DEF DeliverVideo
  <2>3. Outcome(packet)
    BY <1>1, <2>1, VideoPacketsAcceptable, OnPacketCases
  <2>4. CASE PushPacket(decoder, packet).error # "none"
    <3>1. Forgotten BY <2>3, <2>4, Zenon DEF Outcome
    <3>2. headers' = 0 BY <2>1, <2>4 DEF CountHeader
    <3> QED BY <3>1, <3>2, OrderedForgotten
  <2>5. CASE PushPacket(decoder, packet).error = "none"
    <3>1. CountHeader(FALSE, camera.part) BY <2>1, <2>5 DEF CountHeader
    <3>2. CASE camera.part = 0
      BY <2>2, <2>3, <2>5, <3>1, <3>2, OrderedHeader
    <3>3. CASE camera.part # 0
      BY <2>2, <2>3, <2>5, <3>1, <3>3, OrderedPayload
    <3> QED BY <3>2, <3>3
  <2> QED BY <2>4, <2>5
<1>6. CASE LoseBoundary \/ LoseVideo
  BY <1>2, <1>6, OrderedForgotten DEF LoseBoundary, LoseVideo
<1>7. CASE LoseSilently BY <1>7 DEF LoseSilently, Ordered
<1>8. CASE UNCHANGED vars
  BY <1>8 DEF vars, OrderedInv, InStep, Announced, Assembled, Recovering,
              FrameIsOneRecord
<1> QED BY <1>3, <1>4, <1>5, <1>6, <1>7, <1>8 DEF Next

LEMMA OrderedInit == Init => OrderedInv
BY DEF Init, New, OrderedInv, InStep, Assembled, Recovering, FrameIsOneRecord

(* push_video: for records of any length, as long as no flag is later than   *)
(* the header it announces, a frame is exactly the packets of one camera     *)
(* record, whatever is lost with an error status and however the flags and   *)
(* the packets interleave.                                                   *)
THEOREM OneRecordSafety ==
  ASSUME Ordered PROVE Spec => []FrameIsOneRecord
<1>1. StreamInv /\ OrderedInv /\ [Next]_vars => (StreamInv /\ OrderedInv)'
  BY StreamStep, OrderedStep
<1>2. OrderedInv => FrameIsOneRecord BY DEF OrderedInv
<1> QED BY <1>1, <1>2, StreamInit, OrderedInit, PTL DEF Spec

(* run_session: under the same camera the decoder recovers from any reset    *)
(* within four headers, wherever in a record the reset struck.               *)
THEOREM RecoverySafety ==
  ASSUME Ordered PROVE Spec => []RecoversInFourHeaders
<1>1. StreamInv /\ OrderedInv /\ [Next]_vars => (StreamInv /\ OrderedInv)'
  BY StreamStep, OrderedStep
<1>2. OrderedInv => RecoversInFourHeaders
  BY DEF OrderedInv, Recovering, RecoversInFourHeaders, ToRecover
<1> QED BY <1>1, <1>2, StreamInit, OrderedInit, PTL DEF Spec

-----------------------------------------------------------------------------
(* The open record's clock is the one of the record the camera is sending,   *)
(* or of the one before when a new record is about to start, and once frames *)
(* count its unwrapped time is the camera time since frame 0.                *)
Timed ==
  decoder.current # NONE =>
    /\ decoder.current.timestamp = decoder.current.clock % TimestampRange
    /\ IF camera.part = 0
       THEN camera.clock - decoder.current.clock \in 0 .. TimestampRange - 1
       ELSE camera.clock = decoder.current.clock
    /\ frame # NONE =>
         decoder.current.unwrapped = decoder.current.clock - origin

(* Less than a turn apart, the difference of the low 11 bits is exact. *)
LEMMA DeltaExact ==
  ASSUME NEW a \in Nat, NEW b \in Nat, a - b \in 0 .. TimestampRange - 1
  PROVE  TimestampDelta(a % TimestampRange, b % TimestampRange) = a - b
BY DEF TimestampDelta, TimestampRange

(* Neither a flag nor payload moves the open record's clock. *)
LEMMA TimedUntouched ==
  ASSUME StreamInv, StreamInv', Timed, TimestampExact, UNCHANGED << frame, origin >>,
         decoder'.current # NONE =>
           /\ decoder.current # NONE
           /\ decoder'.current.timestamp = decoder.current.timestamp
           /\ decoder'.current.clock = decoder.current.clock
           /\ decoder'.current.unwrapped = decoder.current.unwrapped
           /\ \/ camera'.part = camera.part /\ camera'.clock = camera.clock
              \/ /\ camera.part # 0
                 /\ camera'.part = 0 =>
                      \E step \in 0 .. TimestampRange - 1 :
                        camera'.clock = camera.clock + step
                 /\ camera'.part # 0 => camera'.clock = camera.clock
  PROVE  Timed' /\ TimestampExact'
<1>1. TimestampExact' BY DEF TimestampExact
<1>2. ASSUME decoder'.current # NONE
      PROVE  IF camera'.part = 0
             THEN camera'.clock - decoder'.current.clock
                    \in 0 .. TimestampRange - 1
             ELSE camera'.clock = decoder'.current.clock
  <2>1. camera.clock \in Nat /\ decoder.current.clock \in Nat
    BY <1>2 DEF StreamInv, TypeOK, Camera, Decoder, PendingRecord
  <2>2. \A x \in Nat, y \in Int : x + y - x = y BY SMT
  <2>3. \A x \in 0 .. TimestampRange - 1 : x \in Int BY TurnIsInt, Zenon
  <2> QED BY <1>2, <2>1, <2>2, <2>3 DEF Timed
<1>3. Timed' BY <1>2 DEF Timed
<1> QED BY <1>1, <1>3

(* An accepted header of a camera in order. *)
LEMMA TimedHeader ==
  ASSUME StreamInv, StreamInv', Timed, TimestampExact, camera.part = 0,
         camera'.part # 0, camera'.clock = camera.clock,
         NEW packet \in VideoPackets, Restarted(packet) \/ Emitted(packet)
  PROVE  Timed' /\ TimestampExact'
<1>1. /\ packet.clock = camera.clock
      /\ packet.timestamp = camera.clock % TimestampRange
  BY VideoPacketIs, VideoPacketsAcceptable DEF StreamInv
<1>2. camera.clock \in Nat /\ origin \in Nat /\ decoder \in Decoder
  BY DEF StreamInv, TypeOK, Camera
<1>3. decoder.current # NONE =>
        decoder.current.clock \in Nat /\ decoder.current.unwrapped \in Nat
  BY <1>2 DEF Decoder, PendingRecord
<1>4. CASE Restarted(packet)
  <2>1. frame = NONE /\ frame' = NONE
    BY <1>4 DEF Restarted, StreamInv, Chained
  <2> QED BY <1>1, <1>4, <2>1 DEF Restarted, OpenedBy, Timed, TimestampExact
<1>5. CASE Emitted(packet)
  <2>1. /\ frame'.clock = decoder.current.clock
        /\ frame'.unwrapped = decoder.current.unwrapped
        /\ frame'.delta = TimestampDelta(packet.timestamp,
                                         decoder.current.timestamp)
        /\ decoder.current # NONE
        /\ OpenedBy(decoder'.current, packet, frame'.unwrapped + frame'.delta)
    BY <1>5 DEF Emitted
  <2>2. /\ origin' \in Nat
        /\ decoder.current.unwrapped = decoder.current.clock - origin'
    <3>1. CASE frame = NONE
      <4>1. decoder.current.unwrapped = 0 /\ origin' = decoder.current.clock
        BY <1>5, <3>1 DEF Emitted, StreamInv, Chained
      <4> QED BY <1>3, <2>1, <4>1
    <3>2. CASE frame # NONE
      <4>1. frame \in CompressedFrame BY <3>2 DEF StreamInv, TypeOK
      <4>2. frame'.sequence = frame.sequence + 1 /\ frame.sequence \in Nat
        BY <1>5, <3>2, <4>1
        DEF Emitted, StreamInv, Chained, CompressedFrame
      <4>3. origin' = origin BY <1>5, <4>2 DEF Emitted
      <4> QED BY <1>2, <2>1, <3>2, <4>3 DEF Timed
    <3> QED BY <3>1, <3>2
  <2>3. TimestampExact' BY <2>1, <2>2 DEF TimestampExact
  <2>4. frame'.delta = camera.clock - decoder.current.clock
    BY <1>1, <1>2, <1>3, <2>1, DeltaExact DEF Timed
  <2>5. frame'.unwrapped + frame'.delta = camera.clock - origin'
    BY <1>2, <1>3, <2>1, <2>2, <2>4
  <2>6. Timed' BY <1>1, <2>1, <2>5 DEF OpenedBy, Timed
  <2> QED BY <2>3, <2>6
<1> QED BY <1>4, <1>5

LEMMA TimedStep ==
  ASSUME Ordered, ClockSteps \subseteq 0 .. TimestampRange - 1,
         StreamInv, StreamInv', OrderedInv, Timed, TimestampExact,
         [Next]_vars
  PROVE  Timed' /\ TimestampExact'
<1>1. /\ TypeOK /\ camera \in Camera /\ decoder \in Decoder
      /\ LastPart \in Nat \ {0}
  BY StreamAssumption DEF StreamInv, TypeOK
<1>2. OnPacketError => Forgotten
  BY <1>1, ResetForgets DEF OnPacketError, ForgetFrames, Forgotten
<1>3. Forgotten => Timed' /\ TimestampExact'
  BY DEF Forgotten, Timed, TimestampExact
<1>4. CASE DeliverBoundary \/ DeliverIdleBoundary
  <2>1. Ignored
    BY <1>1, <1>4, BoundaryOutcome DEF DeliverBoundary, DeliverIdleBoundary
  <2>2. camera'.part = camera.part /\ camera'.clock = camera.clock
    BY <1>1, <1>4 DEF DeliverBoundary, DeliverIdleBoundary, Camera
  <2> QED BY <2>1, <2>2, TimedUntouched DEF Ignored
<1>5. CASE DeliverVideo
  <2>1. PICK packet \in VideoPackets :
          /\ OnPacket(packet)
          /\ CountHeader(PushPacket(decoder, packet).error # "none",
                         camera.part)
    BY <1>5 DEF DeliverVideo
  <2>2. VideoDue /\ camera' \in AfterVideo(camera) BY <1>5 DEF DeliverVideo
  <2>3. Outcome(packet)
    BY <1>1, <2>1, VideoPacketsAcceptable, OnPacketCases
  <2>4. CASE PushPacket(decoder, packet).error # "none"
    BY <1>3, <2>3, <2>4, Zenon DEF Outcome
  <2>5. CASE PushPacket(decoder, packet).error = "none" /\ camera.part = 0
    <3>1. /\ packet.endpoint = "Video" /\ packet.marker = TRUE
      BY <1>1, <2>5, VideoPacketIs
    <3>2. camera'.part # 0 /\ camera'.clock = camera.clock
      BY <1>1, <2>2, <2>5, VideoAdvances
    <3>3. CASE decoder.boundary_pending
      <4>1. Restarted(packet) \/ Emitted(packet)
        BY <2>3, <2>5, <3>1, <3>3, Zenon DEF Outcome
      <4> QED BY <2>5, <3>2, <4>1, TimedHeader
    <3>4. CASE ~decoder.boundary_pending
      <4>1. Announced
        BY <1>1, <2>2, <2>5, StreamAssumption
        DEF VideoDue, Ordered, Announced, Camera, TypeOK, Skewed
      <4>2. decoder.current = NONE
        BY <3>4, <4>1 DEF OrderedInv, InStep
      <4>3. Ignored \/ Appended(packet)
        BY <2>3, <2>5, <3>1, <3>4, Zenon DEF Outcome
      <4>4. decoder'.current = NONE /\ UNCHANGED << frame, origin >>
        BY <4>2, <4>3 DEF Ignored, Appended
      <4> QED BY <4>4, TimedUntouched
    <3> QED BY <3>3, <3>4
  <2>6. CASE PushPacket(decoder, packet).error = "none" /\ camera.part # 0
    <3>1. CountHeader(FALSE, camera.part) BY <2>1, <2>6 DEF CountHeader
    <3>2. (Ignored /\ decoder.current = NONE) \/ Appended(packet)
      BY <2>2, <2>3, <2>6, <3>1, OrderedPayload
    <3>3. /\ UNCHANGED << frame, origin >>
          /\ decoder'.current # NONE =>
               /\ decoder.current # NONE
               /\ decoder'.current.timestamp = decoder.current.timestamp
               /\ decoder'.current.clock = decoder.current.clock
               /\ decoder'.current.unwrapped = decoder.current.unwrapped
      BY <3>2 DEF Ignored, Appended
    <3>4. /\ camera'.part = 0 =>
               \E step \in 0 .. TimestampRange - 1 :
                 camera'.clock = camera.clock + step
          /\ camera'.part # 0 => camera'.clock = camera.clock
      <4>1. camera.part \in Nat /\ camera.part + 1 # 0 BY <1>1 DEF Camera
      <4> QED BY <1>1, <2>2, <4>1, VideoAdvances
    <3> QED BY <2>6, <3>3, <3>4, TimedUntouched
  <2> QED BY <2>4, <2>5, <2>6
<1>6. CASE LoseBoundary \/ LoseVideo
  BY <1>2, <1>3, <1>6 DEF LoseBoundary, LoseVideo
<1>7. CASE LoseSilently BY <1>7 DEF LoseSilently, Ordered
<1>8. CASE UNCHANGED vars
  BY <1>8, TimedUntouched DEF vars
<1> QED BY <1>4, <1>5, <1>6, <1>7, <1>8 DEF Next

(* push_video: when moreover records are less than one turn of the clock     *)
(* apart, the unwrapped timestamp is the camera time since frame 0 exactly,  *)
(* across any number of wraps and resets.                                    *)
THEOREM ExactSafety ==
  ASSUME Ordered, ClockSteps \subseteq 0 .. TimestampRange - 1
  PROVE  Spec => []TimestampExact
<1>1. Init => Timed /\ TimestampExact
  BY DEF Init, New, Timed, TimestampExact
<1>2. /\ StreamInv /\ OrderedInv /\ Timed /\ TimestampExact /\ [Next]_vars
      => (StreamInv /\ OrderedInv /\ Timed /\ TimestampExact)'
  BY StreamStep, OrderedStep, TimedStep
<1> QED BY <1>1, <1>2, StreamInit, OrderedInit, PTL DEF Spec

-----------------------------------------------------------------------------
(* Counting packets in records of a given width: one packet more is the next *)
(* part, or part 0 of the next record.                                       *)
LEMMA NextPart ==
  ASSUME NEW n \in Nat, NEW width \in Nat \ {0}
  PROVE  IF (n % width) + 1 < width
         THEN /\ (n + 1) \div width = n \div width
              /\ (n + 1) % width = (n % width) + 1
         ELSE /\ (n % width) + 1 = width
              /\ (n + 1) \div width = n \div width + 1
              /\ (n + 1) % width = 0
<1> DEFINE q == n \div width  r == n % width
           s == (n + 1) \div width  t == (n + 1) % width
<1>1. /\ q \in Nat /\ r \in 0 .. width - 1 /\ n = width * q + r
      /\ s \in Nat /\ t \in 0 .. width - 1 /\ n + 1 = width * s + t
  OBVIOUS
<1> HIDE DEF q, r, s, t
<1>2. width * s + t = width * q + r + 1 BY <1>1
<1>3. \A x, y \in Nat : x < y => width * y >= width * x + width
  <2>1. TAKE x, y \in Nat
  <2>2. HAVE x < y
  <2>3. PICK k \in Nat : y = x + 1 + k BY <2>2
  <2>4. width * y = width * x + width + width * k BY <2>3
  <2>5. width * k >= 0 OBVIOUS
  <2> QED BY <2>4, <2>5
<1>4. s >= q
  <2>1. SUFFICES ASSUME s < q PROVE FALSE BY <1>1
  <2>2. width * q >= width * s + width BY <1>1, <1>3, <2>1
  <2> QED BY <1>1, <1>2, <2>2
<1>5. CASE r + 1 < width
  <2>1. s = q
    <3>1. SUFFICES ASSUME q < s PROVE FALSE BY <1>1, <1>4
    <3>2. width * s >= width * q + width BY <1>1, <1>3, <3>1
    <3> QED BY <1>1, <1>2, <1>5, <3>2
  <2>2. t = r + 1 BY <1>1, <1>2, <2>1
  <2> QED BY <1>5, <2>1, <2>2 DEF q, r, s, t
<1>6. CASE ~(r + 1 < width)
  <2>1. r + 1 = width BY <1>1, <1>6
  <2>2. q < s
    <3>1. SUFFICES ASSUME s = q PROVE FALSE BY <1>1, <1>4
    <3> QED BY <1>1, <1>2, <2>1, <3>1
  <2>3. s = q + 1
    <3>1. SUFFICES ASSUME q + 1 < s PROVE FALSE BY <1>1, <2>2
    <3>2. width * s >= width * (q + 1) + width BY <1>1, <1>3, <3>1
    <3>3. width * (q + 1) = width * q + width BY <1>1
    <3> QED BY <1>1, <1>2, <2>1, <3>2, <3>3
  <2>4. t = 0
    <3>1. width * s = width * q + width BY <1>1, <2>3
    <3> QED BY <1>1, <1>2, <2>1, <3>1
  <2> QED BY <1>6, <2>1, <2>3, <2>4 DEF q, r, s, t
<1> QED BY <1>5, <1>6 DEF r

(* A run of packets in order from the start of some record. *)
Consecutive(parts, first) ==
  \A i \in 1 .. Len(parts) :
    parts[i] = << first + (i - 1) \div (LastPart + 1),
                  (i - 1) % (LastPart + 1) >>

(* Unless a packet vanished silently, the open record is a run of packets    *)
(* that reaches up to the packet the camera sends next.                      *)
Gathered ==
  decoder.current # NONE /\ ~silent =>
    LET parts == decoder.current.parts
        first == parts[1][1]
    IN  /\ Len(parts) >= 1 /\ first \in Nat
        /\ camera.record = first + Len(parts) \div (LastPart + 1)
        /\ camera.part = Len(parts) % (LastPart + 1)
        /\ Consecutive(parts, first)

(* A run grows by the packet that comes next. *)
LEMMA RunGrows ==
  ASSUME NEW parts \in Seq(Nat \X Nat), Len(parts) >= 1,
         NEW first \in Nat, first = parts[1][1], Consecutive(parts, first),
         NEW id \in Nat \X Nat,
         id = << first + Len(parts) \div (LastPart + 1),
                 Len(parts) % (LastPart + 1) >>
  PROVE  LET grown == Append(parts, id)
         IN  /\ Len(grown) = Len(parts) + 1 /\ grown[1][1] = first
             /\ Consecutive(grown, first)
<1> DEFINE grown == Append(parts, id)
<1>1. /\ Len(grown) = Len(parts) + 1 /\ Len(parts) \in Nat
      /\ \A i \in 1 .. Len(parts) : grown[i] = parts[i]
      /\ grown[Len(parts) + 1] = id
  OBVIOUS
<1> HIDE DEF grown
<1>2. grown[1][1] = first BY <1>1
<1>3. ASSUME NEW i \in 1 .. Len(grown)
      PROVE  grown[i] = << first + (i - 1) \div (LastPart + 1),
                           (i - 1) % (LastPart + 1) >>
  <2>1. CASE i \in 1 .. Len(parts) BY <1>1, <2>1 DEF Consecutive
  <2>2. CASE i = Len(parts) + 1
    <3>1. i - 1 = Len(parts) BY <1>1, <2>2
    <3> QED BY <1>1, <2>2, <3>1, Zenon
  <2> QED BY <1>1, <2>1, <2>2
<1>4. Consecutive(grown, first) BY <1>3 DEF Consecutive
<1> QED BY <1>1, <1>2, <1>4 DEF grown

(* A header opens a run of one packet. *)
LEMMA RunOpens ==
  ASSUME NEW record \in Nat
  PROVE  LET parts == << << record, 0 >> >>
         IN  /\ Len(parts) = 1 /\ parts[1][1] = record
             /\ 1 \div (LastPart + 1) = 0 /\ 1 % (LastPart + 1) = 1
             /\ Consecutive(parts, record)
<1>1. LastPart \in Nat /\ LastPart >= 1 BY StreamAssumption
<1>2. \A w \in Nat : w >= 2 => /\ 1 \div w = 0 /\ 1 % w = 1
                               /\ 0 \div w = 0 /\ 0 % w = 0
  OBVIOUS
<1>3. /\ 1 \div (LastPart + 1) = 0 /\ 1 % (LastPart + 1) = 1
      /\ 0 \div (LastPart + 1) = 0 /\ 0 % (LastPart + 1) = 0
  BY <1>1, <1>2
<1> QED BY <1>3 DEF Consecutive

(* What the camera sends next is delivered, and is payload. *)
LEMMA GatheredPayload ==
  ASSUME StreamInv, Gathered, camera' \in AfterVideo(camera),
         silent' = silent, NEW packet \in VideoPackets, Appended(packet)
  PROVE  Gathered'
<1>1. SUFFICES ASSUME ~silent PROVE Gathered' BY DEF Gathered
<1> DEFINE parts == decoder.current.parts
           first == parts[1][1]
           width == LastPart + 1
           grown == Append(parts, packet.id)
<1>2. /\ Len(parts) >= 1 /\ first \in Nat
      /\ camera.record = first + Len(parts) \div width
      /\ camera.part = Len(parts) % width
      /\ Consecutive(parts, first)
  BY <1>1 DEF Gathered, Appended
<1>3. /\ TypeOK /\ parts \in Seq(Nat \X Nat)
      /\ camera.record \in Nat /\ camera.part \in 0 .. LastPart
      /\ LastPart \in Nat \ {0} /\ decoder.current # NONE
  BY StreamAssumption
  DEF StreamInv, TypeOK, Appended, Decoder, PendingRecord, Camera
<1>4. packet.id = << camera.record, camera.part >>
  BY <1>3, VideoPacketIs
<1>5. decoder'.current.parts = grown BY DEF Appended
<1> HIDE DEF parts, first
<1>6. /\ Len(grown) = Len(parts) + 1 /\ grown[1][1] = first
      /\ Consecutive(grown, first)
  <2>1. first = parts[1][1] BY DEF first
  <2>2. packet.id = << first + Len(parts) \div width, Len(parts) % width >>
    BY <1>2, <1>4
  <2>3. packet.id \in Nat \X Nat BY <1>3, <1>4
  <2> QED BY <1>2, <1>3, <2>1, <2>2, <2>3, RunGrows
<1> DEFINE n == Len(parts)
<1>7. n \in Nat /\ width \in Nat \ {0} BY <1>3
<1>8. /\ camera'.record = first + (n + 1) \div width
      /\ camera'.part = (n + 1) % width
  <2>0. first \in Nat /\ n \div width \in Nat BY <1>2, <1>7
  <2>1. CASE camera.part < LastPart
    <3>1. /\ camera'.record = camera.record
          /\ camera'.part = camera.part + 1
      BY <1>3, <2>1, VideoAdvances
    <3>2. (n % width) + 1 < width BY <1>2, <1>3, <2>1
    <3>3. /\ (n + 1) \div width = n \div width
          /\ (n + 1) % width = (n % width) + 1
      <4> HIDE DEF n, width
      <4> QED BY <1>7, <3>2, NextPart
    <3> HIDE DEF width, n
    <3> QED BY <1>2, <3>1, <3>3 DEF n
  <2>2. CASE ~(camera.part < LastPart)
    <3>1. /\ camera'.record = camera.record + 1 /\ camera'.part = 0
      BY <1>3, <2>2, VideoAdvances
    <3>2. ~((n % width) + 1 < width) BY <1>2, <1>3, <2>2
    <3>3. /\ (n + 1) \div width = n \div width + 1
          /\ (n + 1) % width = 0
      <4> HIDE DEF n, width
      <4> QED BY <1>7, <3>2, NextPart
    <3>4. \A x, y \in Nat : x + y + 1 = x + (y + 1) BY SMT
    <3>5. camera.record = first + n \div width BY <1>2
    <3> HIDE DEF width, n
    <3> QED BY <2>0, <3>1, <3>3, <3>4, <3>5
  <2> QED BY <2>1, <2>2
<1> HIDE DEF grown
<1>9. Len(grown) >= 1 BY <1>6, <1>7
<1> QED BY <1>2, <1>5, <1>6, <1>8, <1>9 DEF Gathered

(* The steps of a camera whose payload never looks like a header. *)
LEMMA GatheredStep ==
  ASSUME FalseMarkers = {}, StreamInv, Gathered, FrameIsWholeRecords,
         [Next]_vars
  PROVE  Gathered' /\ FrameIsWholeRecords'
<1>1. /\ TypeOK /\ camera \in Camera /\ decoder \in Decoder
      /\ LastPart \in Nat \ {0}
  BY StreamAssumption DEF StreamInv, TypeOK
<1>2. OnPacketError => Forgotten
  BY <1>1, ResetForgets DEF OnPacketError, ForgetFrames, Forgotten
<1>3. Forgotten => Gathered' /\ FrameIsWholeRecords'
  BY DEF Forgotten, Gathered, FrameIsWholeRecords
<1>4. ASSUME Ignored, silent' = silent,
             \/ decoder.current = NONE
             \/ camera'.record = camera.record /\ camera'.part = camera.part
      PROVE  Gathered' /\ FrameIsWholeRecords'
  BY <1>4 DEF Ignored, Gathered, FrameIsWholeRecords
<1>5. CASE DeliverBoundary \/ DeliverIdleBoundary
  <2>1. Ignored
    BY <1>1, <1>5, BoundaryOutcome DEF DeliverBoundary, DeliverIdleBoundary
  <2>2. /\ camera'.record = camera.record /\ camera'.part = camera.part
        /\ silent' = silent
    BY <1>1, <1>5 DEF DeliverBoundary, DeliverIdleBoundary, Camera
  <2> QED BY <1>4, <2>1, <2>2
<1>6. CASE DeliverVideo
  <2>1. PICK packet \in VideoPackets : OnPacket(packet)
    BY <1>6 DEF DeliverVideo
  <2>2. /\ VideoDue /\ camera' \in AfterVideo(camera) /\ silent' = silent
    BY <1>6 DEF DeliverVideo
  <2>3. Outcome(packet)
    BY <1>1, <2>1, VideoPacketsAcceptable, OnPacketCases
  <2>4. /\ packet.endpoint = "Video"
        /\ packet.id = << camera.record, camera.part >>
        /\ packet.marker => camera.part = 0
    BY <1>1, VideoPacketIs
  <2>5. CASE PushPacket(decoder, packet).error # "none"
    BY <1>3, <2>3, <2>5, Zenon DEF Outcome
  <2>6. CASE /\ PushPacket(decoder, packet).error = "none"
             /\ packet.marker /\ decoder.boundary_pending
    <3>1. Restarted(packet) \/ Emitted(packet)
      BY <2>3, <2>4, <2>6, Zenon DEF Outcome
    <3>2. camera.part = 0 BY <2>4, <2>6
    <3>3. camera'.record = camera.record /\ camera'.part = 1
      BY <1>1, <2>2, <3>2, VideoAdvances
    <3>4. Gathered'
      <4>1. decoder'.current.parts = << << camera.record, 0 >> >>
        BY <2>4, <3>1, <3>2 DEF Restarted, Emitted, OpenedBy
      <4>2. camera.record \in Nat /\ camera.record + 0 = camera.record
        BY <1>1 DEF Camera
      <4> QED BY <3>3, <4>1, <4>2, RunOpens DEF Gathered
    <3>5. FrameIsWholeRecords'
      <4>1. CASE Restarted(packet)
        BY <2>2, <4>1 DEF Restarted, FrameIsWholeRecords
      <4>2. CASE Emitted(packet)
        <5>1. frame'.parts = decoder.current.parts /\ decoder.current # NONE
          BY <4>2 DEF Emitted
        <5> QED BY <2>2, <3>2, <5>1
                DEF Gathered, Consecutive, FrameIsWholeRecords
      <4> QED BY <3>1, <4>1, <4>2
    <3> QED BY <3>4, <3>5
  <2>7. CASE /\ PushPacket(decoder, packet).error = "none"
             /\ ~(packet.marker /\ decoder.boundary_pending)
    <3>1. (Ignored /\ decoder.current = NONE) \/ Appended(packet)
      BY <2>3, <2>4, <2>7, Zenon DEF Outcome
    <3>2. CASE Ignored /\ decoder.current = NONE BY <1>4, <2>2, <3>2
    <3>3. CASE Appended(packet)
      <4>1. Gathered' BY <2>2, <3>3, GatheredPayload
      <4>2. FrameIsWholeRecords'
        BY <2>2, <3>3 DEF Appended, FrameIsWholeRecords
      <4> QED BY <4>1, <4>2
    <3> QED BY <3>1, <3>2, <3>3
  <2> QED BY <2>5, <2>6, <2>7
<1>7. CASE LoseBoundary \/ LoseVideo
  BY <1>2, <1>3, <1>7 DEF LoseBoundary, LoseVideo
<1>8. CASE LoseSilently
  BY <1>8 DEF LoseSilently, Gathered, FrameIsWholeRecords
<1>9. CASE UNCHANGED vars
  BY <1>9 DEF vars, Gathered, FrameIsWholeRecords
<1> QED BY <1>5, <1>6, <1>7, <1>8, <1>9 DEF Next

(* push_video: however late or early the flags come, and for records of any  *)
(* length, a frame is a run of complete records cut at record starts only,   *)
(* unless a packet vanished without an error status.  A late flag merges     *)
(* records; it never tears one.                                              *)
THEOREM WholeRecordsSafety ==
  ASSUME FalseMarkers = {} PROVE Spec => []FrameIsWholeRecords
<1>1. Init => Gathered /\ FrameIsWholeRecords
  BY DEF Init, New, Gathered, FrameIsWholeRecords
<1>2. /\ StreamInv /\ Gathered /\ FrameIsWholeRecords /\ [Next]_vars
      => (StreamInv /\ Gathered /\ FrameIsWholeRecords)'
  BY StreamStep, GatheredStep
<1> QED BY <1>1, <1>2, StreamInit, PTL DEF Spec
=============================================================================
