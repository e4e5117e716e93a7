--------------------------- MODULE MatroskaReader ---------------------------
(***************************************************************************)
(* A reference reader of Matroska files, written from the format and not   *)
(* from the writer: sizes are taken as the file gives them, an element the *)
(* file ends in is not there, and a segment of unknown size goes to the    *)
(* end of the file.                                                        *)
(***************************************************************************)
EXTENDS Integers, Sequences

Octets == Seq(Nat)

(* The least first byte of an EBML number of w bytes, and what that marker  *)
(* adds to a size.                                                          *)
Marker == << 128, 64, 32, 16 >>
Unit == << 128, 16384, 2097152, 268435456 >>

(* Bytes of an EBML number that begins with this byte. *)
WidthOf == [first \in 16 .. 255 |->
              CHOOSE w \in 1 .. 4 : Marker[w] <= first /\ first < 2 * Marker[w]]

IsNumber(f, at) == /\ at <= Len(f) /\ f[at] \in 16 .. 255
                   /\ at + WidthOf[f[at]] - 1 <= Len(f)

(* Up to four bytes as one number. *)
Digit(bytes, k) == IF k <= Len(bytes) THEN bytes[Len(bytes) + 1 - k] ELSE 0
Number[bytes \in Octets] ==
  Digit(bytes, 1) + 256 * Digit(bytes, 2) + 65536 * Digit(bytes, 3)
  + 16777216 * Digit(bytes, 4)

NumberAt(f, at) == Number[SubSeq(f, at, at + WidthOf[f[at]] - 1)]

SizeAt(f, at) == NumberAt(f, at) - Unit[WidthOf[f[at]]]

(* The reserved size with all bits set says that the size is unknown. *)
IsSize(f, at) == IsNumber(f, at) /\ SizeAt(f, at) # Unit[WidthOf[f[at]]] - 1

(* The element at i: where its size, its payload and the next element are. *)
SizeField(f, i) == i + WidthOf[f[i]]
BodyAt(f, i) == SizeField(f, i) + WidthOf[f[SizeField(f, i)]]
EndAt(f, i) == BodyAt(f, i) + SizeAt(f, SizeField(f, i))

IsElement(f, i) == /\ IsNumber(f, i) /\ IsSize(f, SizeField(f, i))
                   /\ EndAt(f, i) <= Len(f) + 1

(* The payloads of the elements with this id among those that lie one after *)
(* another in f from start on.                                              *)
Payloads(f, start, id) ==
  LET from[i \in 1 .. Len(f) + 1] ==
        IF ~IsElement(f, i) THEN << >>
        ELSE (IF NumberAt(f, i) = id
              THEN << SubSeq(f, BodyAt(f, i), EndAt(f, i) - 1) >> ELSE << >>)
             \o from[EndAt(f, i)]
  IN  from[start]

(* The first child with this id, empty if there is none. *)
Child(payload, id) ==
  LET children == Payloads(payload, 1, id)
  IN  IF children = << >> THEN << >> ELSE children[1]

(* The segment follows the EBML header; it is of unknown size, coded in     *)
(* eight bytes.                                                             *)
SegmentHead == << 24, 83, 128, 103, 1, 255, 255, 255, 255, 255, 255, 255 >>

HasSegment(f) == /\ IsElement(f, 1) /\ NumberAt(f, 1) = \h1a45dfa3
                 /\ EndAt(f, 1) + 11 <= Len(f)
                 /\ SubSeq(f, EndAt(f, 1), EndAt(f, 1) + 11) = SegmentHead

InSegment(f, id) ==
  IF HasSegment(f) THEN Payloads(f, EndAt(f, 1) + 12, id) ELSE << >>

(* A block: its track, a relative time, flags, then the data; track 0 if    *)
(* there is no block.                                                       *)
BlockOf[cluster \in Octets] ==
  LET block == Child(cluster, \ha3)
  IN  IF Len(block) < 4 THEN [track |-> 0, pts |-> 0, data |-> << >>]
      ELSE [track |-> block[1] - 128,
            pts |-> Number[Child(cluster, \he7)] + 256 * block[2] + block[3],
            data |-> SubSeq(block, 5, Len(block))]

Blocks[f \in Octets] ==
  LET clusters == InSegment(f, \h1f43b675)
  IN  [i \in 1 .. Len(clusters) |-> BlockOf[clusters[i]]]

(* The value of the opaque bytes of a float; garbled ones have none. *)
FloatOf[bytes \in Octets] ==
  LET v == (bytes[1] - 1001) \div 8
  IN  IF Len(bytes) # 8 THEN -1
      ELSE IF \A i \in 1 .. 8 : bytes[i] = 1000 + 8 * v + i THEN v ELSE -1

InfoDuration[f \in Octets] ==
  LET info == InSegment(f, \h1549a966)
  IN  IF info = << >> THEN 0 ELSE FloatOf[Child(info[1], \h4489)]
=============================================================================
