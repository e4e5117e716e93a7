-------------------------------- MODULE Ebml --------------------------------
(***************************************************************************)
(* The EBML encoding of handycam-matroska.  A file is a sequence of bytes, *)
(* 0 .. 255; text and floating-point numbers are opaque bytes above 255,   *)
(* since only their place and length matter.                               *)
(***************************************************************************)
EXTENDS Integers, Sequences

MaxWidth == 4   \* bound: the code goes to 8, for elements of 256 MB and more

(* 2 ^ (7 * width), and 256 ^ (n - 1). *)
SizeLimit == << 128, 16384, 2097152, 268435456 >>
Power256 == << 1, 256, 65536, 16777216 >>

(* The last n bytes of to_be_bytes. *)
BigEndian(value, n) ==
  [i \in 1 .. n |-> (value \div Power256[n - i + 1]) % 256]

(* Bytes of a value from its first byte that is not zero, one for zero. *)
ByteWidth(value) ==
  CHOOSE n \in 1 .. 4 : /\ n = 1 \/ value >= Power256[n]
                        /\ n = 4 \/ value < Power256[n + 1]

(* Faulty variant: the size whose bits are all ones, which EBML reserves for *)
(* "unknown", is used.                                                       *)
SizeWidthReserved(size) ==
  CHOOSE w \in 1 .. MaxWidth : /\ size < SizeLimit[w]
                               /\ \A v \in 1 .. w - 1 : size >= SizeLimit[v]

SizeWidth(size) ==
  CHOOSE w \in 1 .. MaxWidth : /\ size < SizeLimit[w] - 1
                               /\ \A v \in 1 .. w - 1 : size >= SizeLimit[v] - 1

WriteSize(size) == BigEndian(size + SizeLimit[SizeWidth(size)], SizeWidth(size))

WriteId(id) == BigEndian(id, ByteWidth(id))

Element(id, payload) == WriteId(id) \o WriteSize(Len(payload)) \o payload

UintElement(id, value) == Element(id, BigEndian(value, ByteWidth(value)))

(* An f64 is told by its value in thousandths. *)
F64(thousandths) == [i \in 1 .. 8 |-> 1000 + 8 * thousandths + i]
FloatElement(id, thousandths) == Element(id, F64(thousandths))

Text == [matroska |-> 8, handycam |-> 8, V_MJPEG |-> 7, A_PCM_INT_LIT |-> 13]
StringElement(id, text) == Element(id, [i \in 1 .. Text[text] |-> 256 + Text[text]])
=============================================================================
