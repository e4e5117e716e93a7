---------------------------- MODULE CameraStream ----------------------------
(***************************************************************************)
(* The decoder under a live camera: packets of two isochronous endpoints   *)
(* reach run_session's event loop, which pushes each into the decoder and  *)
(* resets the decoder on a decode error or a reported packet error.        *)
(*                                                                         *)
(* The camera (external) cuts its video into records of LastPart + 1 video *)
(* packets; part 0 starts with the marker and carries the 11-bit clock.    *)
(* On the boundary endpoint it raises a flag for every record.  Transfers  *)
(* of one endpoint complete in order, but nothing orders the endpoints     *)
(* against each other: Early and Late bound, in video packets, how far the *)
(* flag of a record may be delivered before and after that record's first  *)
(* packet.  What is in flight is therefore two cursors and no queue.       *)
(***************************************************************************)
EXTENDS StreamDecoder, FiniteSets

CONSTANTS LastPart,      \* number of the last video packet of a record
          Sizes,         \* lengths a video packet may have
          ClockSteps,    \* ms between the starts of consecutive records
          Early, Late,   \* skew of the boundary endpoint, in video packets
          FalseMarkers,  \* when may entropy bytes begin like a header: with
                         \* the next record "flagged" or "unflagged" so far
          SilentLoss,    \* may a packet be lost without an error status?
          MaxRecords     \* bound: records the camera sends

ASSUME StreamAssumption ==
  /\ LastPart \in Nat \ {0}
  /\ Sizes \subseteq Nat /\ \A size \in Sizes : size >= HeaderSize
  /\ ClockSteps \subseteq Nat
  /\ Early \in 0 .. LastPart /\ Late \in 0 .. LastPart
  /\ FalseMarkers \subseteq {"flagged", "unflagged"} /\ SilentLoss \in BOOLEAN
  /\ MaxRecords \in Nat

VARIABLES camera,   \* record, part, clock: the next video packet;
                    \* boundary: the record whose flag is delivered next
          decoder,
          frame,    \* the last frame emitted since the decoder was reset
          origin,   \* camera clock of frame 0 since that reset
          headers,  \* headers delivered since that reset, counted up to 4
          silent    \* was a packet lost without an error status?

vars == << camera, decoder, frame, origin, headers, silent >>

ToRecover == 4

Camera == [record : Nat, part : 0 .. LastPart, clock : Nat, boundary : Nat]

Skewed(c) == /\ c.boundary \in c.record .. c.record + 2
             /\ c.boundary = c.record => c.part <= Late
             /\ c.boundary = c.record + 2 => LastPart + 1 - c.part <= Early

(* The session attaches at any point of the camera's stream. *)
Init == /\ camera \in [record : {1}, part : 0 .. LastPart, clock : {0},
                       boundary : 1 .. 3]
        /\ Skewed(camera)
        /\ decoder = New
        /\ frame = NONE
        /\ origin = 0
        /\ headers = 0
        /\ silent = FALSE

-----------------------------------------------------------------------------
(* What the camera sends next on each endpoint, and the cursor after it.    *)

BoundaryDue == \/ camera.boundary = camera.record
               \/ /\ camera.boundary = camera.record + 1
                  /\ LastPart + 1 - camera.part <= Early

VideoDue == /\ camera.record <= MaxRecords
            /\ camera.boundary > camera.record \/ camera.part < Late

BoundaryPacket(flag) ==
  [endpoint |-> "Boundary", marker |-> flag, timestamp |-> 0, size |-> 1,
   nonzero |-> flag, id |-> << camera.boundary, 0 >>, clock |-> 0]

NextRecord == IF camera.boundary > camera.record + 1 THEN "flagged"
              ELSE "unflagged"

Markers == IF camera.part = 0 THEN {TRUE}
           ELSE IF NextRecord \in FalseMarkers THEN BOOLEAN ELSE {FALSE}

(* The 11 bits after a false marker are entropy bytes like any other. *)
Timestamps == IF camera.part = 0 THEN {camera.clock % TimestampRange}
              ELSE {0, TimestampRange - 1}

VideoPackets ==
  {[endpoint |-> "Video", marker |-> m, size |-> s, nonzero |-> nz,
    timestamp |-> t, id |-> << camera.record, camera.part >>,
    clock |-> camera.clock] :
     m \in Markers, t \in Timestamps, s \in Sizes, nz \in BOOLEAN}

AfterVideo(c) ==
  IF c.part < LastPart THEN {[c EXCEPT !.part = @ + 1]}
  ELSE {[c EXCEPT !.record = @ + 1, !.part = 0, !.clock = @ + step] :
          step \in ClockSteps}

-----------------------------------------------------------------------------
(* The event loop's handlers.                                               *)

ForgetFrames == /\ frame' = NONE
                /\ origin' = 0

(* SessionEvent::Packet: push; a decode error resets the decoder. *)
OnPacket(packet) ==
  LET pushed == PushPacket(decoder, packet)
  IN  IF pushed.error = "none"
      THEN /\ decoder' = pushed.decoder
           /\ frame' = IF pushed.frame = NONE THEN frame ELSE pushed.frame
           /\ origin' = IF pushed.frame # NONE /\ pushed.frame.sequence = 0
                        THEN pushed.frame.clock ELSE origin
      ELSE decoder' = Reset(pushed.decoder) /\ ForgetFrames

(* Faulty variant: a packet error is only logged. *)
IgnorePacketError == UNCHANGED << decoder, frame, origin >>

(* SessionEvent::PacketError: the packet's place in the record is lost. *)
OnPacketError == decoder' = Reset(decoder) /\ ForgetFrames

-----------------------------------------------------------------------------
CountHeader(was_reset, part) ==
  headers' = IF was_reset THEN 0
             ELSE IF part = 0 /\ headers < ToRecover THEN headers + 1
             ELSE headers

DeliverBoundary ==
  /\ BoundaryDue
  /\ camera' = [camera EXCEPT !.boundary = @ + 1]
  /\ OnPacket(BoundaryPacket(TRUE))
  /\ UNCHANGED << headers, silent >>

(* Boundary packets between records carry no flag. *)
DeliverIdleBoundary ==
  /\ OnPacket(BoundaryPacket(FALSE))
  /\ UNCHANGED << camera, headers, silent >>

DeliverVideo ==
  /\ VideoDue
  /\ camera' \in AfterVideo(camera)
  /\ \E packet \in VideoPackets :
       /\ OnPacket(packet)
       /\ CountHeader(PushPacket(decoder, packet).error # "none", camera.part)
  /\ UNCHANGED silent

LoseBoundary ==
  /\ BoundaryDue
  /\ camera' = [camera EXCEPT !.boundary = @ + 1]
  /\ OnPacketError
  /\ headers' = 0
  /\ UNCHANGED silent

LoseVideo ==
  /\ VideoDue
  /\ camera' \in AfterVideo(camera)
  /\ OnPacketError
  /\ headers' = 0
  /\ UNCHANGED silent

(* A missed isochronous slot completes with length 0, which is no event. *)
LoseSilently ==
  /\ SilentLoss
  /\ \/ BoundaryDue /\ camera' = [camera EXCEPT !.boundary = @ + 1]
     \/ VideoDue /\ camera' \in AfterVideo(camera)
  /\ silent' = TRUE
  /\ UNCHANGED << decoder, frame, origin, headers >>

Next == \/ DeliverBoundary \/ DeliverIdleBoundary \/ DeliverVideo
        \/ LoseBoundary \/ LoseVideo \/ LoseSilently

Spec == Init /\ [][Next]_vars

-----------------------------------------------------------------------------
(* The decoder, the camera and the last frame are values of their types.    *)
TypeOK == /\ camera \in Camera /\ Skewed(camera)
          /\ decoder \in Decoder
          /\ frame \in CompressedFrame \cup {NONE}
          /\ origin \in Nat
          /\ headers \in 0 .. ToRecover
          /\ silent \in BOOLEAN

(* Every packet of the named record, in order. *)
WholeRecord(record) == [i \in 1 .. LastPart + 1 |-> << record, i - 1 >>]

(* push_video: a frame is exactly the packets of one camera record, whatever *)
(* was lost with an error status and however the endpoints interleave, as    *)
(* long as no flag is later than the header it announces.                    *)
FrameIsOneRecord ==
  frame # NONE => frame.parts = WholeRecord(frame.parts[1][1])

(* push_video: when a flag arrives after its header, that header is taken   *)
(* for payload and records are merged; a frame is still a run of complete   *)
(* records, cut at record starts only, unless a packet vanished silently.   *)
FrameIsWholeRecords ==
  frame # NONE /\ ~silent =>
    LET first == frame.parts[1][1]
        width == LastPart + 1
    IN  /\ Len(frame.parts) % width = 0
        /\ \A i \in 1 .. Len(frame.parts) :
             frame.parts[i] = << first + (i - 1) \div width, (i - 1) % width >>

(* push_video: the size check keeps the open record within max_record_size, *)
(* but for the header packet's own body, which is taken unchecked.          *)
RecordBounded ==
  decoder.current # NONE =>
    \/ decoder.current.size <= MaxRecordSize
    \/ Len(decoder.current.parts) = 1

(* push_video: the unwrapped timestamp is the camera time since frame 0 up  *)
(* to whole turns of the 11-bit clock, and never ahead of it.               *)
TimestampCongruent ==
  frame # NONE =>
    /\ frame.unwrapped <= frame.clock - origin
    /\ (frame.clock - origin - frame.unwrapped) % TimestampRange = 0

(* push_video: with every header accepted and records less than one turn of *)
(* the clock apart, the unwrapped timestamp is the camera time since frame 0*)
(* exactly, across any number of wraps.                                     *)
TimestampExact == frame # NONE => frame.unwrapped = frame.clock - origin

(* run_session and push_video: until the next reset, consecutive frames are *)
(* numbered consecutively and each starts where the previous one's delta    *)
(* ends; a reset starts again at number 0 and time 0.                       *)
FrameChain ==
  [][frame' # frame /\ frame' # NONE =>
       IF frame = NONE THEN frame'.sequence = 0 /\ frame'.unwrapped = 0
       ELSE /\ frame'.sequence = frame.sequence + 1
            /\ frame'.unwrapped = frame.unwrapped + frame.delta]_vars

(* run_session: at the fourth header after a reset a frame has been emitted;*)
(* one record is lost to a flag the reset forgot, one is discarded, and the *)
(* decoder never stays mute.                                                *)
RecoversInFourHeaders == headers = ToRecover => frame # NONE
=============================================================================
