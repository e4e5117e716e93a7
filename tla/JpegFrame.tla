------------------------------ MODULE JpegFrame ------------------------------
(***************************************************************************)
(* handycam-core, jpeg.rs: a record of the camera becomes a JPEG image, and *)
(* its pixels packed YUYV.  The JPEG decoder between the two is external.  *)
(***************************************************************************)
EXTENDS Integers, Sequences, SequencesExt

HeaderLength == 117   \* bound: JPEG_HEADER has 623 bytes

(* SOI through SOS; what is between is opaque here. *)
JpegHeader == << 255, 216 >> \o [i \in 1 .. HeaderLength - 2 |-> 299]

EOI == << 255, 217 >>

(* The record without the zeros it is padded with. *)
StripPadding(record) ==
  LET ends == {i \in 1 .. Len(record) : record[i] # 0}
  IN  SubSeq(record, 1, IF ends = {} THEN 0
                        ELSE CHOOSE i \in ends : \A j \in ends : j <= i)

(* A record of zeros is EmptyEntropy. *)
HasEntropy(record) == StripPadding(record) # << >>

(* Faulty variant: the entropy is copied as it is. *)
CopyEntropy(record) == JpegHeader \o StripPadding(record) \o EOI

(* A zero is stuffed after 0xff, so that no marker is found in the scan. *)
Stuffed(byte) == IF byte = 255 THEN << 255, 0 >> ELSE << byte >>

ReconstructJpeg(record) ==
  LET entropy == StripPadding(record)
  IN  JpegHeader \o FlattenSeq([i \in 1 .. Len(entropy) |-> Stuffed(entropy[i])])
      \o EOI
==============================================================================
