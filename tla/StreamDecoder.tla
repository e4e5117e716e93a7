--------------------------- MODULE StreamDecoder ---------------------------
(***************************************************************************)
(* The cross-endpoint frame assembler of handycam-core (stream.rs).        *)
(*                                                                         *)
(* The decoder is a value and its methods are operators on that value, so  *)
(* that a caller's event handler (push a packet, reset on an error) is one *)
(* atomic step, as it is in the code: everything here runs on the main     *)
(* thread between two polls of the USB session.                            *)
(*                                                                         *)
(* A packet's bytes are abstracted to what the decoder and the properties  *)
(* tell apart:                                                             *)
(*   marker     Boundary: bit 0x08 of the first byte is set;               *)
(*              Video: at least 8 bytes, the first six of them 0xff        *)
(*   timestamp  the 11 bits after those six bytes                          *)
(*   size       the length in bytes                                        *)
(*   nonzero    some byte (after the 8 header bytes, if marker) is not 0   *)
(*   id         <<record, part>>: which piece of which camera record it is *)
(*   clock      the camera clock in ms that timestamp truncates            *)
(* id and clock are what the bytes mean to the camera; the decoder copies  *)
(* id the way it copies bytes and never looks at either.                   *)
(***************************************************************************)
EXTENDS Integers, Sequences

CONSTANTS MaxRecordSize,  \* max_record_size, in bytes
          NONE            \* Option::None

HeaderSize == 8
TimestampRange == 2048

EndpointPacket == [endpoint : {"Boundary", "Video"}, marker : BOOLEAN,
                   timestamp : 0 .. TimestampRange - 1, size : Nat,
                   nonzero : BOOLEAN, id : Nat \X Nat, clock : Nat]

PendingRecord == [timestamp : 0 .. TimestampRange - 1, unwrapped : Nat,
                  size : Nat, nonzero : BOOLEAN, parts : Seq(Nat \X Nat),
                  clock : Nat]

CompressedFrame == [sequence : Nat, timestamp : 0 .. TimestampRange - 1,
                    unwrapped : Nat, delta : 0 .. TimestampRange - 1,
                    parts : Seq(Nat \X Nat), clock : Nat]

ASSUME DecoderAssumption == /\ MaxRecordSize \in Nat
                            /\ NONE \notin PendingRecord
                            /\ NONE \notin CompressedFrame

Decoder == [boundary_pending : BOOLEAN, current : PendingRecord \cup {NONE},
            discard_first_record : BOOLEAN, next_sequence : Nat]

New == [boundary_pending |-> FALSE, current |-> NONE,
        discard_first_record |-> TRUE, next_sequence |-> 0]

(* Faulty variant: a reset that goes on counting frames. *)
ResetKeepsSequence(d) == [d EXCEPT !.boundary_pending = FALSE,
                                   !.current = NONE,
                                   !.discard_first_record = TRUE]

Reset(d) == [d EXCEPT !.boundary_pending = FALSE, !.current = NONE,
                      !.discard_first_record = TRUE, !.next_sequence = 0]

(* Result<Option<CompressedFrame>, StreamDecodeError> and the decoder left. *)
Result(d, error, frame) == [decoder |-> d, error |-> error, frame |-> frame]

(* Faulty variant: a clock that does not wrap. *)
SaturatingDifference(later, earlier) ==
  IF later >= earlier THEN later - earlier ELSE 0

(* u16::wrapping_sub, then the low 11 bits. *)
TimestampDelta(later, earlier) == ((later - earlier) % 65536) % TimestampRange

(***************************************************************************)
(* reconstruct_jpeg drops trailing zero bytes and refuses what is then     *)
(* empty: an entropy segment with no nonzero byte.                         *)
(***************************************************************************)
EmptyEntropy(record) == ~record.nonzero

(***************************************************************************)
(* push_video on an accepted header: the record being assembled is         *)
(* finished and a new one opened before the finished one is judged, so an  *)
(* EmptyEntropy error leaves the new record open and next_sequence as it   *)
(* was.  The header packet's own body is not checked against the limit.    *)
(***************************************************************************)
PushHeader(d, packet) ==
  LET finished == d.current
      delta    == TimestampDelta(packet.timestamp, finished.timestamp)
      opened   == [timestamp |-> packet.timestamp,
                   unwrapped |-> IF d.discard_first_record \/ finished = NONE
                                 THEN 0 ELSE finished.unwrapped + delta,
                   size |-> packet.size - HeaderSize,
                   nonzero |-> packet.nonzero,
                   parts |-> << packet.id >>, clock |-> packet.clock]
      taken    == [d EXCEPT !.boundary_pending = FALSE, !.current = opened]
      frame    == [sequence |-> d.next_sequence,
                   timestamp |-> finished.timestamp,
                   unwrapped |-> finished.unwrapped, delta |-> delta,
                   parts |-> finished.parts, clock |-> finished.clock]
  IN  IF finished = NONE THEN Result(taken, "none", NONE)
      ELSE IF d.discard_first_record
      THEN Result([taken EXCEPT !.discard_first_record = FALSE], "none", NONE)
      ELSE IF EmptyEntropy(finished) THEN Result(taken, "EmptyEntropy", NONE)
      ELSE Result([taken EXCEPT !.next_sequence = @ + 1], "none", frame)

(* Faulty variant: payload is appended with no size check. *)
AppendUnchecked(d, packet) ==
  IF d.current = NONE THEN Result(d, "none", NONE)
  ELSE Result([d EXCEPT !.current.size = @ + packet.size,
                        !.current.nonzero = @ \/ packet.nonzero,
                        !.current.parts = Append(@, packet.id)], "none", NONE)

(***************************************************************************)
(* push_video on anything else: payload of the open record, if there is    *)
(* one.  A marker no boundary flag announced is payload, 0xff bytes and    *)
(* all.  A record that would grow past the limit is dropped.               *)
(***************************************************************************)
AppendPayload(d, packet) ==
  IF d.current = NONE THEN Result(d, "none", NONE)
  ELSE IF d.current.size + packet.size > MaxRecordSize
  THEN Result([d EXCEPT !.current = NONE, !.boundary_pending = FALSE,
                        !.discard_first_record = TRUE],
              "RecordTooLarge", NONE)
  ELSE Result([d EXCEPT !.current.size = @ + packet.size,
                        !.current.nonzero = @ \/ packet.nonzero \/ packet.marker,
                        !.current.parts = Append(@, packet.id)], "none", NONE)

(* Faulty variant: a marker is believed without a boundary flag. *)
PushVideoUnannounced(d, packet) ==
  IF packet.marker THEN PushHeader(d, packet) ELSE AppendPayload(d, packet)

PushVideo(d, packet) ==
  IF packet.marker /\ d.boundary_pending THEN PushHeader(d, packet)
  ELSE AppendPayload(d, packet)

(* Faulty variant: a boundary packet without the flag withdraws the flag. *)
PushPacketLatest(d, packet) ==
  IF packet.endpoint = "Video" THEN PushVideo(d, packet)
  ELSE Result([d EXCEPT !.boundary_pending = packet.marker], "none", NONE)

PushPacket(d, packet) ==
  IF packet.endpoint = "Video" THEN PushVideo(d, packet)
  ELSE Result([d EXCEPT !.boundary_pending = @ \/ packet.marker],
              "none", NONE)
============================================================================
