------------------------------- MODULE Control -------------------------------
(***************************************************************************)
(* control.rs: the camera's command mailbox.  A mailbox is 64 bytes; the   *)
(* last four are a big-endian command word.                                *)
(***************************************************************************)
EXTENDS Integers, Sequences

CommandBlockIndex == 768      \* 0x0300
CommandBlockSize == 64
CommandWordOffset == 60
ScaleFactorIndex == 124       \* 0x007c

CommandBlock(word) == [i \in 1 .. CommandWordOffset |-> 0] \o word

CommandByte == [Play |-> 26, Pause |-> 25, Stop |-> 24, FastForward |-> 28,
                Rewind |-> 27]
TransportCommand == DOMAIN CommandByte

(* The word 00 n1 cc n0, with n one more than the encoder's number. *)
Encode(sequence, command) ==
  LET n == (sequence + 1) % 16
  IN  << 0, 16 * n + 1, CommandByte[command], 16 * n >>

(* The high nibble of a word's second byte, in place. *)
HighNibble(byte) == 16 * (byte \div 16)

(* 00 n9 10 n1 in a mailbox that is zero otherwise gives n1, any other data *)
(* gives NoToken.                                                           *)
NoToken == 0
ScanAckToken(block) ==
  IF /\ Len(block) = CommandBlockSize
     /\ \A i \in 1 .. CommandWordOffset + 1 : block[i] = 0
     /\ block[62] % 16 = 9
     /\ block[63] = 16
     /\ block[64] = HighNibble(block[62]) + 1
  THEN block[64] ELSE NoToken

(* ScaleFactor::new accepts these. *)
ScaleFactor == 4 .. 128
==============================================================================
